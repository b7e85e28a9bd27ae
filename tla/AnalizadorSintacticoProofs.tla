--------------------- MODULE AnalizadorSintacticoProofs ---------------------
(***************************************************************************)
(* Proofs about AnalizadorSintactico, for every list of lexemes.           *)
(*                                                                         *)
(* The argument has two layers.  First, a contract that every handler      *)
(* keeps (Valido): it moves the cursor forward, stays within the list, and *)
(* puts into its block all it passes over, but for the lexemes of a        *)
(* sentence that carries an error.  Then an invariant that every step      *)
(* keeps because each handler keeps the contract.                          *)
(***************************************************************************)
EXTENDS AnalizadorSintactico, WellFoundedInduction, FiniteSetTheorems, TLAPS

(* What a handler called at p must have done when it returns or makes its  *)
(* recursive call.                                                         *)
Valido(p, r) ==
  \/ r.caso = "excepcion"
  \/ /\ r.caso \in {"cerrado", "abierto"}
     /\ r.cursor \in (p + 1)..n
     /\ r.bloque \in Bloque
     /\ r.bloque.incia = p
     /\ r.bloque.lex \subseteq p..(r.cursor - 1)
     /\ \/ r.bloque.lex = p..(r.cursor - 1)
        \/ /\ r.bloque.error
           /\ r.bloque.finaliza = r.cursor - 1
     /\ r.caso = "abierto" =>
          /\ r.fin \in 1..(n - 1)
          /\ ~ r.bloque.error
          /\ r.bloque.finaliza = 0
          /\ r.bloque.lex = p..(r.cursor - 1)

(* Where handlers are called: in a list of lexemes, whatever they are.     *)
Contexto == n \in Nat

(* What a handler may assume of its arguments. *)
Llamada(p, fin) ==
  /\ p \in 0..(n - 1)
  /\ fin \in Nat
  /\ FinEfectivo(fin) \in (p + 1)..n

-----------------------------------------------------------------------------
(* The searches return a position of the set they search, or -1. *)
LEMMA MinimoEnConjunto ==
  ASSUME NEW S \in SUBSET Nat
  PROVE  S # {} => MinimoO(S) \in S
<1> SUFFICES ASSUME S # {} PROVE MinimoO(S) \in S
  OBVIOUS
<1>1. PICK x \in S : \A y \in S : ~ (<<y, x>> \in OpToRel(<, Nat))
  BY NatLessThanWellFounded, WFMin
<1>2. \A y \in S : x <= y
  <2> TAKE y \in S
  <2>1. y \in Nat /\ x \in Nat
    OBVIOUS
  <2>2. y < x => <<y, x>> \in OpToRel(<, Nat)
    BY <2>1, Zenon DEF OpToRel
  <2>3. ~ (y < x)
    BY <1>1, <2>2, Zenon
  <2> QED
    BY <2>1, <2>3
<1>3. Min(S) \in S
  BY <1>2 DEF Min
<1> QED
  BY <1>3 DEF MinimoO

(* The length of the list, Lexemas.Count, is a natural number. *)
LEMMA LongitudNat ==
  ASSUME lexemas \in Seq(Lexema)
  PROVE  n \in Nat
  BY DEF n

(* IndicePuntoComa returns -1 or a position from its start on. *)
LEMMA RangoPuntoComa ==
  ASSUME n \in Nat, NEW i \in Nat
  PROVE  IndicePuntoComa(i) = -1 \/ IndicePuntoComa(i) \in i..(n - 1)
<1> DEFINE S == {j \in i..(n - 1) : Texto(j) = ";"}
<1>0. n \in Nat
  OBVIOUS
<1>1. S \in SUBSET Nat
  <2>1. S \subseteq i..(n - 1)
    OBVIOUS
  <2>2. i..(n - 1) \subseteq Nat
    BY <1>0
  <2> QED
    BY <2>1, <2>2, Zenon
<1>2. S # {} => MinimoO(S) \in S
  BY <1>1, MinimoEnConjunto
<1>3. S = {} => MinimoO(S) = -1
  BY DEF MinimoO
<1>4. IndicePuntoComa(i) = MinimoO(S)
  BY DEF IndicePuntoComa
<1> HIDE DEF S
<1>5. S \subseteq i..(n - 1)
  BY DEF S
<1> QED
  BY <1>2, <1>3, <1>4, <1>5

(* IndiceBalance returns -1 or a position from its start on, whatever the  *)
(* pair of delimiters.                                                     *)
LEMMA RangoBalance ==
  ASSUME n \in Nat, NEW i \in Nat, NEW abre, NEW cierra
  PROVE  \/ IndiceBalance(i, abre, cierra) = -1
         \/ IndiceBalance(i, abre, cierra) \in i..(n - 1)
<1> DEFINE S == {j \in i..(n - 1) :
                   /\ Texto(j) = cierra
                   /\ Cuenta(i, j, abre) = Cuenta(i, j, cierra)}
<1>0. n \in Nat
  OBVIOUS
<1>1. S \in SUBSET Nat
  <2>1. S \subseteq i..(n - 1)
    OBVIOUS
  <2>2. i..(n - 1) \subseteq Nat
    BY <1>0
  <2> QED
    BY <2>1, <2>2, Zenon
<1>2. S # {} => MinimoO(S) \in S
  BY <1>1, MinimoEnConjunto
<1>3. S = {} => MinimoO(S) = -1
  BY DEF MinimoO
<1>4. IndiceBalance(i, abre, cierra) = MinimoO(S)
  BY DEF IndiceBalance
<1> HIDE DEF S
<1>5. S \subseteq i..(n - 1)
  BY DEF S
<1> QED
  BY <1>2, <1>3, <1>4, <1>5

(* The maximum of two integers, as a case distinction. *)
LEMMA MaximoDePar ==
  ASSUME NEW a \in Int, NEW b \in Int
  PROVE  Max({a, b}) = IF a >= b THEN a ELSE b
<1> DEFINE m == IF a >= b THEN a ELSE b
<1>1. m \in {a, b} /\ \A y \in {a, b} : m >= y
  OBVIOUS
<1>2. \A x \in {a, b} : (\A y \in {a, b} : x >= y) => x = m
  OBVIOUS
<1> QED
  BY <1>1, <1>2 DEF Max

-----------------------------------------------------------------------------
(* The two ways in which a handler keeps the contract. *)

(* A handler that returns a block with all lexemes up to its cursor, or a  *)
(* rejected sentence that ends there, keeps the contract.                  *)
LEMMA CerradoValido ==
  ASSUME NEW p, NEW b \in Bloque, NEW c \in (p + 1)..n,
         b.incia = p, b.lex \subseteq p..(c - 1),
         b.lex = p..(c - 1) \/ (b.error /\ b.finaliza = c - 1)
  PROVE  Valido(p, Cerrado(b, c))
<1>1. Cerrado(b, c) = [caso |-> "cerrado", bloque |-> b, cursor |-> c]
  BY DEF Cerrado
<1>2. /\ Cerrado(b, c).caso = "cerrado" /\ Cerrado(b, c).bloque = b
      /\ Cerrado(b, c).cursor = c
  BY <1>1
<1> QED
  BY <1>2 DEF Valido

(* A handler that returns a block with its whole header and waits for its  *)
(* body keeps the contract.                                                *)
LEMMA AbiertoValido ==
  ASSUME NEW p, NEW b \in Bloque, NEW c \in (p + 1)..n,
         NEW fin \in 1..(n - 1),
         b.incia = p, b.lex = p..(c - 1),
         ~ b.error, b.finaliza = 0
  PROVE  Valido(p, Abierto(b, c, fin))
<1>1. Abierto(b, c, fin)
        = [caso |-> "abierto", bloque |-> b, cursor |-> c, fin |-> fin]
  BY DEF Abierto
<1>2. /\ Abierto(b, c, fin).caso = "abierto"
      /\ Abierto(b, c, fin).bloque = b
      /\ Abierto(b, c, fin).cursor = c /\ Abierto(b, c, fin).fin = fin
  BY <1>1
<1> QED
  BY <1>2 DEF Valido

(* Draining to the end of the parent passes over the first lexeme, at      *)
(* least, and stays within the list.                                       *)
LEMMA DrenarAvanza ==
  ASSUME Contexto, NEW p, NEW fin, Llamada(p, fin), NEW c \in p..n
  PROVE  /\ Drenar(c, fin) \in (p + 1)..n
         /\ p \in Nat /\ p..(Drenar(c, fin) - 1) \in SUBSET Nat
<1>1. n \in Nat /\ p \in Nat
  BY DEF Contexto, Llamada
<1> QED
  BY <1>1, MaximoDePar DEF Llamada, Drenar

-----------------------------------------------------------------------------
(* Every handler keeps the contract. *)

(* The handlers' common exit with an error keeps the contract. *)
LEMMA FallaValida ==
  ASSUME Contexto, NEW p, NEW fin, Llamada(p, fin),
         NEW c \in p..n,
         NEW tipo \in {"Sentencia", "Estructura", "Funcion"}
  PROVE  Valido(p, Falla(tipo, p, c, fin))
<1> DEFINE hasta == Drenar(c, fin)
           b == NuevoBloque(tipo, TRUE, p, 0, p..(hasta - 1))
<1>1. hasta \in (p + 1)..n /\ p \in Nat /\ p..(hasta - 1) \in SUBSET Nat
  BY DrenarAvanza
<1>2. /\ b \in Bloque /\ b.incia = p
      /\ b.lex = p..(hasta - 1)
  BY <1>1
     DEF NuevoBloque, Bloque, Contexto
<1>3. Falla(tipo, p, c, fin) = Cerrado(b, hasta)
  BY DEF Falla
<1> HIDE DEF b, hasta
<1> QED
  BY <1>1, <1>2, <1>3, CerradoValido

(* The start of a body between braces keeps the contract, with and without *)
(* its closing brace.                                                      *)
LEMMA CuerpoValido ==
  ASSUME Contexto, NEW p, NEW fin, Llamada(p, fin), NEW c \in (p + 1)..n
  PROVE  Valido(p, Cuerpo(p, c, fin))
<1> DEFINE cierre == IndiceBalance(c, "{", "}")
           b == NuevoBloque("Estructura", FALSE, p, 0, p..(c - 1))
<1>1. n \in Nat /\ p \in Nat /\ c \in Nat /\ c \in p..n
  BY DEF Contexto, Llamada
<1>2. cierre = -1 \/ cierre \in c..(n - 1)
  BY <1>1, RangoBalance DEF Contexto
<1>3. CASE cierre = -1
  <2>1. Cuerpo(p, c, fin) = Falla("Estructura", p, c, fin)
    BY <1>3 DEF Cuerpo
  <2> QED
    BY <1>1, <2>1, FallaValida
<1>4. CASE cierre # -1
  <2>1. Cuerpo(p, c, fin) = Abierto(b, c, cierre)
    BY <1>4 DEF Cuerpo
  <2>2. p..(c - 1) \in SUBSET Nat
    BY <1>1
  <2>3. /\ b \in Bloque /\ b.incia = p
        /\ b.lex = p..(c - 1) /\ ~ b.error /\ b.finaliza = 0
    BY <1>1, <2>2
     DEF NuevoBloque, Bloque, Contexto
  <2> HIDE DEF b, cierre
  <2>4. cierre \in 1..(n - 1)
    BY <1>1, <1>2, <1>4
  <2> QED
    BY <2>1, <2>3, <2>4, AbiertoValido
<1> QED
  BY <1>3, <1>4

(* AnalizarSentencia keeps the contract: a rejected lexeme is dropped only *)
(* from a sentence with an error that ends at its semicolon.               *)
LEMMA SentenciaValida ==
  ASSUME Contexto, NEW p, NEW fin, Llamada(p, fin)
  PROVE  Valido(p, AnalizarSentencia(p, fin))
<1> DEFINE pc == IndicePuntoComa(p)
           hasta == Drenar(p, fin)
           rechazados == {i \in p..pc : BuscarError(i)}
<1>1. n \in Nat /\ p \in Nat /\ p \in p..n
  BY DEF Contexto, Llamada
<1>2. pc = -1 \/ pc \in p..(n - 1)
  BY <1>1, RangoPuntoComa DEF Contexto
<1> DEFINE sinFin == pc = -1 \/ ~ PuntoComaCorrecto(p, pc)
           desborda == \E i \in p..(pc - 1) : TipoVarDesborda(i)
<1>3. CASE sinFin
  <2> DEFINE b == NuevoBloque("Sentencia", TRUE, p, hasta - 1,
                              p..(hasta - 1))
  <2>1. AnalizarSentencia(p, fin) = Cerrado(b, hasta)
    BY <1>3 DEF AnalizarSentencia
  <2>2. hasta \in (p + 1)..n /\ p..(hasta - 1) \in SUBSET Nat
    BY <1>1, DrenarAvanza
  <2>3. hasta - 1 \in Nat
    BY <1>1, <2>2
  <2>4. /\ b \in Bloque /\ b.incia = p
        /\ b.lex = p..(hasta - 1)
    BY <1>1, <2>2, <2>3
     DEF NuevoBloque, Bloque, Contexto
  <2> HIDE DEF b, hasta
  <2> QED
    BY <2>1, <2>2, <2>4, CerradoValido
<1>4. CASE ~ sinFin /\ ~ DelimitadoresBalanceados(p, pc)
  <2>1. AnalizarSentencia(p, fin) = Falla("Sentencia", p, p, fin)
    BY <1>4 DEF AnalizarSentencia, BloqueError
  <2> QED
    BY <1>1, <2>1, FallaValida
<1>5. CASE ~ sinFin /\ DelimitadoresBalanceados(p, pc) /\ desborda
  <2>1. AnalizarSentencia(p, fin) = Excepcion
    BY <1>5 DEF AnalizarSentencia
  <2> QED
    BY <2>1 DEF Valido, Excepcion
<1>6. CASE ~ sinFin /\ DelimitadoresBalanceados(p, pc) /\ ~ desborda
  <2> DEFINE b == NuevoBloque("Sentencia", rechazados # {}, p, pc,
                              (p..pc) \ rechazados)
  <2>1. AnalizarSentencia(p, fin) = Cerrado(b, pc + 1)
    BY <1>6 DEF AnalizarSentencia
  <2>2. pc \in p..(n - 1) /\ pc \in Nat
    BY <1>1, <1>2, <1>6
  <2> HIDE DEF pc, rechazados
  <2>3. (p..pc) \ rechazados \in SUBSET Nat /\ (rechazados # {}) \in BOOLEAN
    BY <1>1, <2>2
  <2>4. /\ b \in Bloque /\ b.incia = p
        /\ b.error = (rechazados # {}) /\ b.finaliza = pc
        /\ b.lex = (p..pc) \ rechazados
    BY <1>1, <2>2, <2>3
     DEF NuevoBloque, Bloque, Contexto
  <2>5. (pc + 1) - 1 = pc /\ pc + 1 \in (p + 1)..n
    BY <1>1, <2>2
  <2>6. b.lex \subseteq p..pc /\ (b.lex = p..pc \/ b.error)
    BY <2>4
  <2> DEFINE c == pc + 1
  <2>7. b.lex \subseteq p..(c - 1)
    BY <2>5, <2>6
  <2>8. b.lex = p..(c - 1) \/ (b.error /\ b.finaliza = c - 1)
    BY <2>4, <2>5, <2>6
  <2>9. c \in (p + 1)..n /\ AnalizarSentencia(p, fin) = Cerrado(b, c)
    BY <2>1, <2>5
  <2> HIDE DEF b, c, hasta, sinFin, desborda
  <2>10. b \in Bloque /\ b.incia = p
    BY <2>4
  <2>11. Valido(p, Cerrado(b, c))
    BY <2>7, <2>8, <2>9, <2>10, CerradoValido, Zenon
  <2> QED
    BY <2>9, <2>11, Zenon
<1> QED
  BY <1>3, <1>4, <1>5, <1>6

(* AnalizarBloqueFuncion keeps the contract; without a closing brace it    *)
(* returns only the header.                                                *)
LEMMA BloqueFuncionValido ==
  ASSUME Contexto, NEW p, NEW fin, Llamada(p, fin),
         NEW parentesis \in p..(n - 1), parentesis + 1 < n
  PROVE  Valido(p, AnalizarBloqueFuncion(p, parentesis))
<1> DEFINE c == parentesis + 2
           cierre == IndiceBalance(c, "{", "}")
           b == NuevoBloque("Funcion", cierre = -1, p, 0, p..(c - 1))
<1>1. n \in Nat /\ p \in Nat
  BY DEF Contexto, Llamada
<1>2. c \in (p + 1)..n /\ c \in Nat /\ p..(c - 1) \in SUBSET Nat
  BY <1>1
<1>3. cierre = -1 \/ cierre \in c..(n - 1)
  BY <1>2, RangoBalance DEF Contexto
<1>4. AnalizarBloqueFuncion(p, parentesis)
        = IF cierre = -1 THEN Cerrado(b, c) ELSE Abierto(b, c, cierre)
  BY DEF AnalizarBloqueFuncion
<1> HIDE DEF c, cierre
<1>5. /\ b \in Bloque /\ b.incia = p
      /\ b.lex = p..(c - 1) /\ b.error = (cierre = -1) /\ b.finaliza = 0
  BY <1>1, <1>2 DEF NuevoBloque, Bloque, Contexto
<1> HIDE DEF b
<1>6. CASE cierre = -1
  <2>1. AnalizarBloqueFuncion(p, parentesis) = Cerrado(b, c)
    BY <1>4, <1>6
  <2>2. b.lex \subseteq p..(c - 1)
    BY <1>5
  <2>3. Valido(p, Cerrado(b, c))
    BY <1>2, <1>5, <2>2, CerradoValido, Zenon
  <2> QED
    BY <2>1, <2>3, Zenon
<1>7. CASE cierre # -1
  <2>1. cierre \in 1..(n - 1)
    BY <1>1, <1>2, <1>3, <1>7
  <2>2. ~ b.error
    BY <1>5, <1>7
  <2> QED
    BY <1>2, <1>4, <1>5, <1>7, <2>1, <2>2, AbiertoValido
<1> QED
  BY <1>6, <1>7

(* A handler that raises keeps the contract. *)
LEMMA ExcepcionValida ==
  ASSUME NEW p
  PROVE  Valido(p, Excepcion)
  BY DEF Valido, Excepcion

(* ProcesarTipoDato, for declarations and functions, keeps the contract. *)
LEMMA TipoDatoValido ==
  ASSUME Contexto, NEW p, NEW fin, Llamada(p, fin)
  PROVE  Valido(p, ProcesarTipoDato(p, fin))
<1> DEFINE parentesis == IndiceBalance(p + 3, "(", ")")
<1>1. n \in Nat /\ p \in Nat /\ p \in p..n /\ p + 3 \in Nat
  BY DEF Contexto, Llamada
<1>2. parentesis = -1 \/ parentesis \in (p + 3)..(n - 1)
  BY <1>1, RangoBalance DEF Contexto
<1>3. Valido(p, BloqueError(p, fin))
  BY <1>1, FallaValida DEF BloqueError
<1>4. Valido(p, AnalizarSentencia(p, fin)) /\ Valido(p, Excepcion)
  BY SentenciaValida, ExcepcionValida
<1>5. parentesis # -1 /\ ~ (parentesis + 1 >= n)
        => Valido(p, AnalizarBloqueFuncion(p, parentesis))
  <2> SUFFICES ASSUME parentesis # -1, ~ (parentesis + 1 >= n)
               PROVE  Valido(p, AnalizarBloqueFuncion(p, parentesis))
    OBVIOUS
  <2> HIDE DEF parentesis
  <2>1. parentesis \in p..(n - 1) /\ parentesis + 1 < n
    BY <1>1, <1>2
  <2> QED
    BY <2>1, BloqueFuncionValido
<1>6. Valido(p, ProcesarTipoVariable(p, fin))
  <2> DEFINE sig == parentesis + 1
  <2>1. ProcesarTipoVariable(p, fin) \in
          {BloqueError(p, fin), AnalizarSentencia(p, fin), Excepcion}
        \/ /\ parentesis # -1 /\ ~ (parentesis + 1 >= n)
           /\ ProcesarTipoVariable(p, fin)
                = AnalizarBloqueFuncion(p, parentesis)
    BY DEF ProcesarTipoVariable
  <2> QED
    BY <1>3, <1>4, <1>5, <2>1
<1> QED
  BY <1>3, <1>4, <1>6 DEF ProcesarTipoDato

(* ProcesarVariable, for assignments, keeps the contract. *)
LEMMA VariableValida ==
  ASSUME Contexto, NEW p, NEW fin, Llamada(p, fin)
  PROVE  Valido(p, ProcesarVariable(p, fin))
<1>1. p \in p..n
  BY DEF Contexto, Llamada
<1>2. Valido(p, BloqueError(p, fin))
  BY <1>1, FallaValida DEF BloqueError
<1> QED
  BY <1>2, SentenciaValida, ExcepcionValida DEF ProcesarVariable

(* AnalizarFor keeps the contract at each of its exits. *)
LEMMA ForValido ==
  ASSUME Contexto, NEW p, NEW fin, Llamada(p, fin)
  PROVE  Valido(p, AnalizarFor(p, fin))
<1> DEFINE parentesis == IndiceBalance(p + 2, "(", ")")
           pc1 == IndicePuntoComa(p + 1)
           pc2 == IndicePuntoComa(pc1 + 1)
           llave == parentesis + 1
           F(c) == Falla("Estructura", p, c, fin)
<1>1. n \in Nat /\ p \in Nat /\ p + 1 \in p..n
  BY DEF Contexto, Llamada
<1>2. parentesis = -1 \/ parentesis \in (p + 2)..(n - 1)
  BY <1>1, RangoBalance DEF Contexto
<1>3. pc1 = -1 \/ pc1 \in (p + 1)..(n - 1)
  BY <1>1, RangoPuntoComa DEF Contexto
<1>4. pc1 # -1 => pc2 = -1 \/ pc2 \in (pc1 + 1)..(n - 1)
  <2> SUFFICES ASSUME pc1 # -1
               PROVE  pc2 = -1 \/ pc2 \in (pc1 + 1)..(n - 1)
    OBVIOUS
  <2>1. pc1 + 1 \in Nat
    BY <1>1, <1>3
  <2> QED
    BY <2>1, RangoPuntoComa DEF Contexto
<1>5. \A c \in p..n : Valido(p, F(c))
  BY FallaValida
<1>6. \A c \in (p + 1)..n : Valido(p, Cuerpo(p, c, fin))
  BY CuerpoValido
<1>7. \/ AnalizarFor(p, fin) = F(p + 1)
      \/ pc1 # -1 /\ AnalizarFor(p, fin) = F(pc1 + 1)
      \/ pc1 # -1 /\ pc2 # -1 /\ AnalizarFor(p, fin) = F(pc2 + 1)
      \/ /\ pc1 # -1 /\ pc2 # -1
         /\ IncrementoForCorrecto(pc2 + 1, parentesis)
         /\ \/ AnalizarFor(p, fin) = F(llave)
            \/ llave < n /\ AnalizarFor(p, fin) = Cuerpo(p, llave + 1, fin)
  <2>1. llave \in Int
    BY <1>1, <1>2
  <2>2. ~ (llave >= n) => llave < n
    BY <1>1, <2>1
  <2> HIDE DEF llave
  <2> QED
    BY <2>2 DEF AnalizarFor, llave
<1> HIDE DEF F
<1>8. CASE AnalizarFor(p, fin) = F(p + 1)
  BY <1>1, <1>5, <1>8
<1>9. CASE pc1 # -1 /\ AnalizarFor(p, fin) = F(pc1 + 1)
  <2>1. pc1 + 1 \in p..n
    BY <1>1, <1>3, <1>9
  <2> QED
    BY <1>5, <1>9, <2>1
<1>10. CASE pc1 # -1 /\ pc2 # -1 /\ AnalizarFor(p, fin) = F(pc2 + 1)
  <2>1. pc2 + 1 \in p..n
    BY <1>1, <1>3, <1>4, <1>10
  <2> QED
    BY <1>5, <1>10, <2>1
<1>11. ASSUME pc1 # -1, pc2 # -1,
              IncrementoForCorrecto(pc2 + 1, parentesis)
       PROVE  llave \in (p + 1)..n
  <2>1. pc2 \in (p + 2)..(n - 1)
    BY <1>1, <1>3, <1>4, <1>11
  <2>2. parentesis - (pc2 + 1) \in {2, 5}
    BY <1>11 DEF IncrementoForCorrecto
  <2>3. parentesis # -1
    BY <1>1, <2>1, <2>2
  <2> QED
    BY <1>1, <1>2, <2>3
<1>12. CASE /\ pc1 # -1 /\ pc2 # -1
            /\ IncrementoForCorrecto(pc2 + 1, parentesis)
            /\ AnalizarFor(p, fin) = F(llave)
  <2>1. llave \in p..n
    BY <1>1, <1>11, <1>12
  <2> QED
    BY <1>5, <1>12, <2>1
<1>13. CASE /\ pc1 # -1 /\ pc2 # -1
            /\ IncrementoForCorrecto(pc2 + 1, parentesis)
            /\ llave < n /\ AnalizarFor(p, fin) = Cuerpo(p, llave + 1, fin)
  <2>1. llave + 1 \in (p + 1)..n
    BY <1>1, <1>11, <1>13
  <2> QED
    BY <1>6, <1>13, <2>1
<1> QED
  BY <1>7, <1>8, <1>9, <1>10, <1>12, <1>13

(* Where a condition that starts at i may fail or end. *)
LEMMA CondicionLeida ==
  ASSUME Contexto, NEW i \in Nat
  PROVE  LET r == LeerCondicion(i)
         IN  \/ r.caso = "excepcion"
             \/ r.caso = "falla" /\ r.cursor \in i..n
             \/ r.caso = "leida" /\ r.cursor \in (i + 1)..(n - 1)
<1> DEFINE parentesis == IndiceBalance(i + 2, "(", ")")
           c == IF parentesis = -1 THEN i + 1 ELSE parentesis + 1
           r == LeerCondicion(i)
<1>1. n \in Nat /\ i + 2 \in Nat
  BY DEF Contexto
<1>2. parentesis = -1 \/ parentesis \in (i + 2)..(n - 1)
  BY <1>1, RangoBalance DEF Contexto
<1>3. c \in Nat /\ c >= i + 1
  BY <1>1, <1>2
<1>4. \/ r = [caso |-> "excepcion"]
      \/ ~ (i >= n) /\ r = [caso |-> "falla", cursor |-> i]
      \/ /\ ~ (i >= n)
         /\ ~ CondicionDesborda(i + 1)
         /\ r = [caso |-> "falla", cursor |-> i + 1]
      \/ ~ (c >= n) /\ r = [caso |-> "leida", cursor |-> c]
  <2> HIDE DEF parentesis
  <2> QED
    BY DEF LeerCondicion, parentesis
<1> HIDE DEF c, r
<1>5. CASE r = [caso |-> "excepcion"]
  BY <1>5 DEF r
<1>6. CASE ~ (i >= n) /\ r = [caso |-> "falla", cursor |-> i]
  BY <1>1, <1>6 DEF r
<1>7. CASE ~ (i >= n) /\ r = [caso |-> "falla", cursor |-> i + 1]
  BY <1>1, <1>7 DEF r
<1>8. CASE ~ (c >= n) /\ r = [caso |-> "leida", cursor |-> c]
  BY <1>1, <1>3, <1>8 DEF r
<1> QED
  BY <1>4, <1>5, <1>6, <1>7, <1>8

(* AnalizarWhile and AnalizarIf keep the contract at each of their exits. *)
LEMMA CondicionalValido ==
  ASSUME Contexto, NEW p, NEW fin, Llamada(p, fin)
  PROVE  Valido(p, AnalizarCondicional(p, fin))
<1> DEFINE cond == LeerCondicion(p + 1)
           F(c) == Falla("Estructura", p, c, fin)
<1>1. n \in Nat /\ p \in Nat /\ p + 1 \in Nat
  BY DEF Contexto, Llamada
<1>2. \/ cond.caso = "excepcion"
      \/ cond.caso = "falla" /\ cond.cursor \in (p + 1)..n
      \/ cond.caso = "leida" /\ cond.cursor \in (p + 2)..(n - 1)
  <2>1. (p + 1) + 1 = p + 2
    BY <1>1
  <2> QED
    BY <1>1, <2>1, CondicionLeida
<1>3. \A c \in p..n : Valido(p, F(c))
  BY FallaValida
<1>4. \A c \in (p + 1)..n : Valido(p, Cuerpo(p, c, fin))
  BY CuerpoValido
<1>5. AnalizarCondicional(p, fin) =
        CASE cond.caso = "excepcion" -> Excepcion
          [] cond.caso = "falla" -> F(cond.cursor)
          [] cond.caso = "leida" ->
               IF Texto(cond.cursor) # "{" THEN F(cond.cursor)
               ELSE Cuerpo(p, cond.cursor + 1, fin)
  BY DEF AnalizarCondicional
<1> HIDE DEF cond, F
<1>6. CASE cond.caso = "excepcion"
  BY <1>5, <1>6, ExcepcionValida
<1>7. CASE cond.caso = "falla" /\ cond.cursor \in (p + 1)..n
  <2>1. cond.cursor \in p..n
    BY <1>1, <1>7
  <2>2. AnalizarCondicional(p, fin) = F(cond.cursor)
    BY <1>5, <1>7
  <2> QED
    BY <1>3, <2>1, <2>2
<1>8. CASE cond.caso = "leida" /\ cond.cursor \in (p + 2)..(n - 1)
  <2>1. cond.cursor \in p..n /\ cond.cursor + 1 \in (p + 1)..n
    BY <1>1, <1>8
  <2>2. AnalizarCondicional(p, fin) = F(cond.cursor)
          \/ AnalizarCondicional(p, fin) = Cuerpo(p, cond.cursor + 1, fin)
    BY <1>5, <1>8
  <2> QED
    BY <1>3, <1>4, <2>1, <2>2
<1> QED
  BY <1>2, <1>6, <1>7, <1>8

(* AnalizarElse and the first half of AnalizarDoWhile keep the contract. *)
LEMMA ConLlaveValido ==
  ASSUME Contexto, NEW p, NEW fin, Llamada(p, fin)
  PROVE  Valido(p, AnalizarConLlave(p, fin))
<1>1. n \in Nat /\ p \in Nat /\ p + 1 \in p..n
  BY DEF Contexto, Llamada
<1>2. Valido(p, Falla("Estructura", p, p + 1, fin))
  BY <1>1, FallaValida
<1>3. ~ (p + 1 >= n) => Valido(p, Cuerpo(p, p + 2, fin))
  <2> SUFFICES ASSUME ~ (p + 1 >= n) PROVE Valido(p, Cuerpo(p, p + 2, fin))
    OBVIOUS
  <2>1. p + 2 \in (p + 1)..n
    BY <1>1
  <2> QED
    BY <2>1, CuerpoValido
<1> QED
  BY <1>2, <1>3, ExcepcionValida DEF AnalizarConLlave

(* Draining from a cursor that may be past the end of the parent never     *)
(* goes back and stays within the list.                                    *)
LEMMA DrenarQueda ==
  ASSUME Contexto, NEW c \in 0..n, NEW fin \in Nat, FinEfectivo(fin) \in 0..n
  PROVE  Drenar(c, fin) \in c..n
<1>1. n \in Nat
  BY DEF Contexto
<1> QED
  BY <1>1, MaximoDePar DEF Drenar

(* The end of a do...while adds to its block all it passes over; it may    *)
(* stay where it is when it fails past the end of its parent.              *)
LEMMA DoWhileValido ==
  ASSUME Contexto, NEW c \in 0..n, NEW fin \in Nat,
         FinEfectivo(fin) \in 0..n
  PROVE  LET r == TerminarDoWhile(c, fin)
         IN  \/ r.caso = "excepcion"
             \/ /\ r.caso = "cerrado"
                /\ r.cursor \in c..n
                /\ r.bloque \in Bloque
                /\ r.bloque.finaliza # 0 => r.bloque.finaliza >= c
                /\ r.bloque.lex = c..(r.cursor - 1)
<1> DEFINE cond == LeerCondicion(c + 2)
           F(i) == Falla("Estructura", c, i, fin)
           b == NuevoBloque("Estructura", FALSE, c, cond.cursor,
                            c..cond.cursor)
           r == TerminarDoWhile(c, fin)
           Bien(q) == \/ q.caso = "excepcion"
                      \/ /\ q.caso = "cerrado"
                         /\ q.cursor \in c..n
                         /\ q.bloque \in Bloque
                         /\ q.bloque.finaliza # 0 => q.bloque.finaliza >= c
                         /\ q.bloque.lex = c..(q.cursor - 1)
<1>1. n \in Nat /\ c \in Nat /\ c + 2 \in Nat
  BY DEF Contexto
<1>2. \/ cond.caso = "excepcion"
      \/ cond.caso = "falla" /\ cond.cursor \in (c + 2)..n
      \/ cond.caso = "leida" /\ cond.cursor \in (c + 3)..(n - 1)
  <2>1. (c + 2) + 1 = c + 3
    BY <1>1
  <2> QED
    BY <1>1, <2>1, CondicionLeida
<1>3. ASSUME NEW i \in c..n
      PROVE  Bien(F(i))
  <2> DEFINE hasta == Drenar(i, fin)
             bf == NuevoBloque("Estructura", TRUE, c, 0, c..(hasta - 1))
  <2>1. hasta \in c..n
    BY <1>1, DrenarQueda
  <2>2. c..(hasta - 1) \in SUBSET Nat
    BY <1>1, <2>1
  <2>3. bf \in Bloque /\ bf.finaliza = 0 /\ bf.lex = c..(hasta - 1)
    BY <1>1, <2>2 DEF NuevoBloque, Bloque, Contexto
  <2>4. F(i) = [caso |-> "cerrado", bloque |-> bf, cursor |-> hasta]
    BY DEF Falla, Cerrado
  <2> HIDE DEF bf, hasta, F
  <2>5. /\ F(i).caso = "cerrado" /\ F(i).bloque = bf
        /\ F(i).cursor = hasta
    BY <2>4
  <2> QED
    BY <2>1, <2>3, <2>5
<1>4. ASSUME cond.caso = "leida", cond.cursor \in (c + 3)..(n - 1)
      PROVE  Bien(Cerrado(b, cond.cursor + 1))
  <2> DEFINE k == cond.cursor
             q == Cerrado(b, k + 1)
  <2>1. k \in (c + 3)..(n - 1)
    BY <1>4
  <2> HIDE DEF cond, k
  <2>2. k \in Nat /\ c..k \in SUBSET Nat /\ k + 1 \in c..n /\ (k + 1) - 1 = k
        /\ k >= c
    BY <1>1, <2>1
  <2>3. b \in Bloque /\ b.finaliza = k /\ b.lex = c..k
    BY <1>1, <2>2 DEF NuevoBloque, Bloque, Contexto, k
  <2>4. q = [caso |-> "cerrado", bloque |-> b, cursor |-> k + 1]
    BY DEF Cerrado
  <2> HIDE DEF b, q
  <2>5. q.caso = "cerrado" /\ q.bloque = b /\ q.cursor = k + 1
    BY <2>4
  <2>6. Bien(q)
    BY <2>2, <2>3, <2>5
  <2> QED
    BY <2>6 DEF q, k
<1>5. Bien(Excepcion)
  BY DEF Excepcion
<1>6. \/ r = Excepcion
      \/ r = F(c)
      \/ c + 1 < n /\ r = F(c + 1)
      \/ cond.caso = "falla" /\ r = F(cond.cursor)
      \/ cond.caso = "leida" /\ r = F(cond.cursor)
      \/ cond.caso = "leida" /\ r = Cerrado(b, cond.cursor + 1)
  <2>1. ~ (c + 1 >= n) => c + 1 < n
    BY <1>1
  <2>2. r = IF c >= n THEN Excepcion
      ELSE IF Texto(c) # "}" THEN F(c)
      ELSE IF c + 1 >= n THEN Excepcion
      ELSE IF Texto(c + 1) # "while" THEN F(c + 1)
      ELSE CASE cond.caso = "excepcion" -> Excepcion
             [] cond.caso = "falla" -> F(cond.cursor)
             [] cond.caso = "leida" ->
                  IF Tipo(cond.cursor) # "OperadorTerminador"
                    THEN F(cond.cursor)
                  ELSE Cerrado(b, cond.cursor + 1)
    BY DEF TerminarDoWhile
  <2> HIDE DEF cond, F, b, r
  <2> QED
    BY <1>2, <2>1, <2>2
<1> HIDE DEF cond, F, b, r
<1>7. Bien(r)
  <2> HIDE DEF Bien
  <2>1. CASE r = Excepcion
    BY <1>5, <2>1
  <2>2. CASE r = F(c)
    <3>1. c \in c..n
      BY <1>1
    <3> QED
      BY <1>3, <2>2, <3>1
  <2>3. CASE c + 1 < n /\ r = F(c + 1)
    <3>1. c + 1 \in c..n
      BY <1>1, <2>3
    <3> QED
      BY <1>3, <2>3, <3>1
  <2>4. CASE cond.caso = "falla" /\ r = F(cond.cursor)
    <3>1. cond.cursor \in c..n
      BY <1>1, <1>2, <2>4
    <3> QED
      BY <1>3, <2>4, <3>1
  <2>5. CASE cond.caso = "leida" /\ r = F(cond.cursor)
    <3>1. cond.cursor \in c..n
      BY <1>1, <1>2, <2>5
    <3> QED
      BY <1>3, <2>5, <3>1
  <2>6. CASE cond.caso = "leida" /\ r = Cerrado(b, cond.cursor + 1)
    BY <1>2, <1>4, <2>6
  <2> QED
    BY <1>6, <2>1, <2>2, <2>3, <2>4, <2>5, <2>6
<1> QED
  BY <1>7 DEF r

-----------------------------------------------------------------------------
(* The inductive invariant.                                                *)
(*                                                                         *)
(* Every pending call but the first reads the body of a block that has no  *)
(* end and no error yet; it stands in the block of the call before it.     *)
Marcos ==
  /\ pila[1] = [stop |-> n, fin |-> 0, duenno |-> 0]
  /\ \A k \in 2..Len(pila) :
       LET d == pila[k].duenno
       IN  /\ pila[k].fin \in 1..(n - 1)
           /\ pila[k].stop = pila[k].fin - 1
           /\ d \in 1..Len(bloques)
           /\ ~ bloques[d].error
           /\ bloques[d].finaliza = 0
           /\ bloques[d].lex # {}
           /\ bloques[d].padre = pila[k - 1].duenno
           /\ \A j \in 2..(k - 1) : pila[j].duenno # d

(* A block's lexemes lie between its start and the cursor; its parent is   *)
(* an earlier block that has lexemes.                                      *)
BloquesBien ==
  \A b \in 1..Len(bloques) :
    /\ bloques[b].lex \subseteq bloques[b].incia..(posCursor - 1)
    /\ bloques[b].padre \in 0..(b - 1)
    /\ bloques[b].padre # 0 => bloques[bloques[b].padre].lex # {}

(* Blocks with lexemes start one after the other. *)
Orden ==
  \A b, c \in 1..Len(bloques) :
    b < c /\ bloques[b].lex # {} /\ bloques[c].lex # {}
      => bloques[b].incia < bloques[c].incia

Disjuntos ==
  \A b, c \in 1..Len(bloques) :
    b # c => bloques[b].lex \cap bloques[c].lex = {}

Cobertura ==
  \A i \in 0..(posCursor - 1) :
    \/ \E b \in 1..Len(bloques) : i \in bloques[b].lex
    \/ \E b \in 1..Len(bloques) :
         /\ bloques[b].error
         /\ i \in bloques[b].incia..bloques[b].finaliza

IInv ==
  /\ TypeOK
  /\ Marcos
  /\ BloquesBien
  /\ Orden
  /\ Disjuntos
  /\ Cobertura
  /\ Anidados

(* What the invariant says of the innermost pending call. *)
LEMMA MarcoActual ==
  ASSUME TypeOK, Marcos
  PROVE  /\ Contexto /\ marco.duenno \in Nat
         /\ n \in Nat /\ Len(pila) \in Nat \ {0} /\ Len(bloques) \in Nat
         /\ \A k \in 1..Len(pila) :
              /\ pila[k] \in Marco
              /\ pila[k].fin \in 0..n
              /\ FinEfectivo(pila[k].fin) \in 0..n
              /\ pila[k].fin # 0 => pila[k].stop = pila[k].fin - 1
              /\ pila[k].fin = 0 => pila[k].stop = n
              /\ pila[k].duenno \in 0..Len(bloques)
         /\ EnBucle => Llamada(posCursor, marco.fin)
<1>1. n \in Nat /\ Len(pila) \in Nat \ {0} /\ Len(bloques) \in Nat
  BY LongitudNat DEF TypeOK
<1>2. ASSUME NEW k \in 1..Len(pila)
      PROVE  /\ pila[k] \in Marco
             /\ pila[k].fin \in 0..n
             /\ FinEfectivo(pila[k].fin) \in 0..n
             /\ pila[k].fin # 0 => pila[k].stop = pila[k].fin - 1
             /\ pila[k].fin = 0 => pila[k].stop = n
             /\ pila[k].duenno \in 0..Len(bloques)
  <2>1. pila[k] \in Marco
    BY <1>1 DEF TypeOK
  <2>2. CASE k = 1
    BY <1>1, <2>1, <2>2 DEF Marcos, FinEfectivo
  <2>3. CASE k # 1
    <3>1. k \in 2..Len(pila)
      BY <1>1, <2>3
    <3>2. /\ pila[k].fin \in 1..(n - 1)
          /\ pila[k].stop = pila[k].fin - 1
          /\ pila[k].duenno \in 1..Len(bloques)
      BY <3>1 DEF Marcos
    <3> QED
      BY <1>1, <2>1, <3>2 DEF FinEfectivo
  <2> QED
    BY <2>2, <2>3
<1>3. Len(pila) \in 1..Len(pila)
  BY <1>1
<1>4. Contexto /\ marco.duenno \in Nat
  BY <1>1, <1>2, <1>3 DEF Contexto, marco, Marco
<1>5. EnBucle => Llamada(posCursor, marco.fin)
  <2> SUFFICES ASSUME EnBucle PROVE Llamada(posCursor, marco.fin)
    OBVIOUS
  <2> DEFINE m == marco
  <2>1. /\ m \in Marco /\ m.fin \in 0..n
        /\ m.fin # 0 => m.stop = m.fin - 1
        /\ m.fin = 0 => m.stop = n
        /\ FinEfectivo(m.fin) \in 0..n
    BY <1>2, <1>3 DEF marco
  <2>2. posCursor \in 0..n /\ posCursor < m.stop
    BY DEF EnBucle, TypeOK
  <2> HIDE DEF m
  <2>3. posCursor < n /\ posCursor < FinEfectivo(m.fin)
    <3>1. m.fin = 0 => m.stop = n
      BY <2>1
    <3>2. m.fin # 0 => m.stop = m.fin - 1
      BY <2>1
    <3>3. posCursor \in Int /\ m.fin \in Int /\ m.fin <= n
      BY <1>1, <2>1, <2>2
    <3>4. CASE m.fin = 0
      BY <1>1, <2>2, <3>1, <3>3, <3>4 DEF FinEfectivo
    <3>5. CASE m.fin # 0
      BY <1>1, <2>2, <3>2, <3>3, <3>5 DEF FinEfectivo
    <3> QED
      BY <3>4, <3>5
  <2> QED
    BY <1>1, <2>1, <2>2, <2>3 DEF Llamada, m
<1> QED
  BY <1>1, <1>2, <1>4, <1>5

-----------------------------------------------------------------------------
(* A block that may be added when the cursor moves to c.                   *)
BloqueNuevo(nb, c) ==
  /\ nb \in Bloque
  /\ nb.padre = marco.duenno
  /\ nb.lex \subseteq posCursor..(c - 1)
  /\ nb.lex # {} => nb.incia = posCursor
  /\ \A i \in posCursor..(c - 1) :
       i \in nb.lex \/ (nb.error /\ i \in nb.incia..nb.finaliza)

(* The pending calls after the block nb is added.                          *)
PilaNueva(nb) ==
  \/ pila' = pila
  \/ \E f \in 1..(n - 1) :
       /\ pila' = Append(pila, [stop |-> f - 1, fin |-> f,
                                duenno |-> Len(bloques) + 1])
       /\ nb.lex # {} /\ ~ nb.error /\ nb.finaliza = 0

PasoAgregar(nb, c) ==
  /\ bloques' = Append(bloques, nb)
  /\ posCursor' = c
  /\ PilaNueva(nb)
  /\ UNCHANGED <<lexemas, numTokens, estado>>

(* A position of a list with one more element is old or the last one.      *)
LEMMA ViejoOUltimo ==
  ASSUME NEW L \in Nat, NEW b \in 1..(L + 1)
  PROVE  b \in 1..L \/ b = L + 1
  OBVIOUS

(* A step that adds a block, and maybe a pending call for its body, keeps  *)
(* the invariant.                                                          *)
LEMMA AgregarPreserva ==
  ASSUME IInv, NEW nb, NEW c \in posCursor..n,
         BloqueNuevo(nb, c), PasoAgregar(nb, c)
  PROVE  IInv'
<1> DEFINE L == Len(bloques)
           K == Len(pila)
           d == marco.duenno
<1>1. TypeOK /\ Marcos /\ BloquesBien /\ Orden /\ Disjuntos /\ Cobertura
      /\ Anidados
  BY DEF IInv
<1>a. /\ nb \in Bloque /\ nb.padre = marco.duenno
      /\ nb.lex \subseteq posCursor..(c - 1)
      /\ nb.lex # {} => nb.incia = posCursor
  BY DEF BloqueNuevo
<1>b. \A i \in posCursor..(c - 1) :
        i \in nb.lex \/ (nb.error /\ i \in nb.incia..nb.finaliza)
  BY DEF BloqueNuevo
<1>c. bloques' = Append(bloques, nb)
  BY DEF PasoAgregar
<1>p. /\ posCursor' = c
      /\ lexemas' = lexemas /\ numTokens' = numTokens /\ estado' = estado
  BY DEF PasoAgregar
<1>q. PilaNueva(nb)
  BY DEF PasoAgregar
<1>2. /\ n \in Nat /\ K \in Nat \ {0} /\ L \in Nat
      /\ posCursor \in 0..n
  BY <1>1, MarcoActual DEF TypeOK
<1>s. bloques \in Seq(Bloque) /\ pila \in Seq(Marco)
  BY <1>1 DEF TypeOK
<1>3. n' = n
  BY <1>p DEF n
<1>4. /\ Len(bloques') = L + 1
      /\ \A b \in 1..L : bloques'[b] = bloques[b]
      /\ bloques'[L + 1] = nb
      /\ bloques' \in Seq(Bloque)
      /\ DOMAIN bloques = 1..L /\ DOMAIN bloques' = 1..(L + 1)
  BY <1>a, <1>c, <1>s
<1>e. \A b \in 1..L :
        /\ bloques[b] \in Bloque
        /\ bloques[b].incia \in Nat
        /\ bloques[b].lex \subseteq bloques[b].incia..(posCursor - 1)
        /\ bloques[b].padre \in 0..(b - 1)
        /\ bloques[b].padre # 0 => bloques[bloques[b].padre].lex # {}
  <2> TAKE b \in 1..L
  <2>1. bloques[b] \in Bloque
    BY <1>s
  <2>2. bloques[b].incia \in Nat
    BY <2>1 DEF Bloque
  <2> QED
    BY <1>1, <2>1, <2>2 DEF BloquesBien
<1>5. /\ K \in 1..K /\ d = pila[K].duenno /\ d \in 0..L
  <2>1. K \in 1..K
    BY <1>2
  <2> QED
    BY <1>1, <2>1, MarcoActual DEF marco
<1>m. /\ pila[1] = [stop |-> n, fin |-> 0, duenno |-> 0]
      /\ \A k \in 2..K :
           /\ pila[k].fin \in 1..(n - 1)
           /\ pila[k].stop = pila[k].fin - 1
           /\ pila[k].duenno \in 1..L
           /\ ~ bloques[pila[k].duenno].error
           /\ bloques[pila[k].duenno].finaliza = 0
           /\ bloques[pila[k].duenno].lex # {}
           /\ bloques[pila[k].duenno].padre = pila[k - 1].duenno
           /\ \A j \in 2..(k - 1) : pila[j].duenno # pila[k].duenno
  BY <1>1 DEF Marcos
<1> HIDE DEF d, L, K
<1>6. d # 0 =>
        /\ d \in 1..L
        /\ bloques[d].lex # {} /\ bloques[d].finaliza = 0
        /\ bloques[d].incia < posCursor
  <2> SUFFICES ASSUME d # 0
               PROVE  /\ d \in 1..L
                      /\ bloques[d].lex # {} /\ bloques[d].finaliza = 0
                      /\ bloques[d].incia < posCursor
    OBVIOUS
  <2>1. K \in 2..K
    <3>1. K # 1
      BY <1>5, <1>m
    <3> QED
      BY <1>2, <3>1
  <2>2. d \in 1..L
    BY <1>2, <1>5
  <2>3. bloques[d].lex # {} /\ bloques[d].finaliza = 0
    BY <1>5, <1>m, <2>1
  <2>4. /\ bloques[d].lex \subseteq bloques[d].incia..(posCursor - 1)
        /\ bloques[d].incia \in Nat
    BY <1>e, <2>2
  <2>5. PICK x : x \in bloques[d].lex
    BY <2>3
  <2>6. x \in bloques[d].incia..(posCursor - 1)
    BY <2>4, <2>5
  <2> QED
    BY <1>2, <2>2, <2>3, <2>4, <2>6
<1>7. TypeOK'
  <2>1. pila' \in Seq(Marco) /\ pila' # << >>
    <3>1. CASE pila' = pila
      BY <1>1, <3>1 DEF TypeOK
    <3>2. CASE \E f \in 1..(n - 1) :
                 pila' = Append(pila, [stop |-> f - 1, fin |-> f,
                                       duenno |-> Len(bloques) + 1])
      <4>1. PICK f \in 1..(n - 1) :
              pila' = Append(pila, [stop |-> f - 1, fin |-> f,
                                    duenno |-> Len(bloques) + 1])
        BY <3>2
      <4>2. [stop |-> f - 1, fin |-> f, duenno |-> Len(bloques) + 1] \in Marco
        BY <1>2 DEF Marco, L
      <4> QED
        BY <1>s, <4>1, <4>2
    <3> QED
      BY <1>q, <3>1, <3>2 DEF PilaNueva
  <2>2. posCursor' \in 0..n'
    BY <1>2, <1>3, <1>p
  <2> QED
    BY <1>1, <1>4, <1>p, <2>1, <2>2 DEF TypeOK
<1>8. Marcos'
  <2>1. /\ pila[1] = [stop |-> n, fin |-> 0, duenno |-> 0]
        /\ \A k \in 2..K :
             /\ pila[k].fin \in 1..(n - 1)
             /\ pila[k].stop = pila[k].fin - 1
             /\ pila[k].duenno \in 1..L
             /\ ~ bloques'[pila[k].duenno].error
             /\ bloques'[pila[k].duenno].finaliza = 0
             /\ bloques'[pila[k].duenno].lex # {}
             /\ bloques'[pila[k].duenno].padre = pila[k - 1].duenno
             /\ \A j \in 2..(k - 1) : pila[j].duenno # pila[k].duenno
    <3>1. \A k \in 2..K :
            bloques'[pila[k].duenno] = bloques[pila[k].duenno]
      BY <1>4, <1>m
    <3> QED
      BY <1>m, <3>1
  <2>2. CASE pila' = pila
    <3>1. Len(pila') = K /\ Len(bloques') = L + 1
      BY <1>4, <2>2 DEF K
    <3>2. \A k \in 2..K : pila[k].duenno \in 1..(L + 1)
      BY <1>2, <2>1
    <3> QED
      BY <1>3, <2>1, <2>2, <3>1, <3>2 DEF Marcos
  <2>3. ASSUME NEW f \in 1..(n - 1),
               pila' = Append(pila, [stop |-> f - 1, fin |-> f,
                                     duenno |-> L + 1]),
               nb.lex # {}, ~ nb.error, nb.finaliza = 0
        PROVE  Marcos'
    <3>1. /\ Len(pila') = K + 1
          /\ \A k \in 1..K : pila'[k] = pila[k]
          /\ pila'[K + 1] = [stop |-> f - 1, fin |-> f, duenno |-> L + 1]
      BY <1>s, <2>3 DEF K
    <3>2. pila'[1] = [stop |-> n', fin |-> 0, duenno |-> 0]
      BY <1>2, <1>3, <2>1, <3>1
    <3>3. ASSUME NEW k \in 2..K
          PROVE  /\ pila'[k].fin \in 1..(n' - 1)
                 /\ pila'[k].stop = pila'[k].fin - 1
                 /\ pila'[k].duenno \in 1..Len(bloques')
                 /\ ~ bloques'[pila'[k].duenno].error
                 /\ bloques'[pila'[k].duenno].finaliza = 0
                 /\ bloques'[pila'[k].duenno].lex # {}
                 /\ bloques'[pila'[k].duenno].padre = pila'[k - 1].duenno
                 /\ \A j \in 2..(k - 1) : pila'[j].duenno # pila'[k].duenno
      <4>0. k \in 1..K /\ k - 1 \in 1..K /\ 2..(k - 1) \subseteq 1..K
        BY <1>2
      <4>1. /\ pila'[k] = pila[k] /\ pila'[k - 1] = pila[k - 1]
            /\ \A j \in 2..(k - 1) : pila'[j] = pila[j]
        BY <3>1, <4>0, Zenon
      <4>2. pila[k].duenno \in 1..Len(bloques')
        BY <1>2, <1>4, <2>1
      <4>3. /\ pila'[k].fin \in 1..(n' - 1)
            /\ pila'[k].stop = pila'[k].fin - 1
            /\ pila'[k].duenno \in 1..Len(bloques')
        BY <1>3, <2>1, <4>1, <4>2
      <4>4. /\ ~ bloques'[pila'[k].duenno].error
            /\ bloques'[pila'[k].duenno].finaliza = 0
            /\ bloques'[pila'[k].duenno].lex # {}
            /\ bloques'[pila'[k].duenno].padre = pila'[k - 1].duenno
        BY <2>1, <4>1
      <4>5. \A j \in 2..(k - 1) : pila'[j].duenno # pila'[k].duenno
        BY <2>1, <4>1
      <4> QED
        BY <4>3, <4>4, <4>5, Zenon
    <3>4. /\ pila'[K + 1].fin \in 1..(n' - 1)
          /\ pila'[K + 1].stop = pila'[K + 1].fin - 1
          /\ pila'[K + 1].duenno \in 1..Len(bloques')
          /\ ~ bloques'[pila'[K + 1].duenno].error
          /\ bloques'[pila'[K + 1].duenno].finaliza = 0
          /\ bloques'[pila'[K + 1].duenno].lex # {}
      BY <1>2, <1>3, <1>4, <2>3, <3>1
    <3>5. /\ bloques'[pila'[K + 1].duenno].padre = pila'[(K + 1) - 1].duenno
          /\ \A j \in 2..((K + 1) - 1) :
               pila'[j].duenno # pila'[K + 1].duenno
      <4>1. pila'[K + 1].duenno = L + 1
        BY <3>1
      <4>2. (K + 1) - 1 = K /\ pila'[K] = pila[K]
        BY <1>2, <1>5, <3>1
      <4>3. nb.padre = pila[K].duenno
        BY <1>5, <1>a DEF d
      <4>4. \A j \in 2..K : pila'[j].duenno \in 1..L
        BY <1>2, <2>1, <3>1
      <4> QED
        BY <1>2, <1>4, <4>1, <4>2, <4>3, <4>4
    <3>6. \A k \in 2..(K + 1) : k \in 2..K \/ k = K + 1
      BY <1>2
    <3> QED
      BY <3>1, <3>2, <3>3, <3>4, <3>5, <3>6 DEF Marcos
  <2> QED
    BY <1>q, <2>2, <2>3 DEF L, PilaNueva
<1>9. BloquesBien'
  <2> SUFFICES ASSUME NEW b \in 1..(L + 1)
               PROVE  /\ bloques'[b].lex
                           \subseteq bloques'[b].incia..(c - 1)
                      /\ bloques'[b].padre \in 0..(b - 1)
                      /\ bloques'[b].padre # 0
                           => bloques'[bloques'[b].padre].lex # {}
    BY <1>4, <1>p DEF BloquesBien
  <2>1. CASE b \in 1..L
    <3>1. /\ bloques[b].lex \subseteq bloques[b].incia..(posCursor - 1)
          /\ bloques[b].padre \in 0..(b - 1)
          /\ bloques[b].padre # 0 => bloques[bloques[b].padre].lex # {}
          /\ bloques[b].incia \in Nat
      BY <1>e, <2>1
    <3>2. bloques[b].padre # 0 => bloques[b].padre \in 1..L
      BY <1>2, <2>1, <3>1
    <3>3. bloques[b].incia..(posCursor - 1)
            \subseteq bloques[b].incia..(c - 1)
      BY <1>2, <3>1
    <3>4. bloques'[b] = bloques[b]
      BY <1>4, <2>1
    <3>5. bloques[b].padre # 0
            => bloques'[bloques[b].padre] = bloques[bloques[b].padre]
      BY <1>4, <3>2
    <3> QED
      BY <3>1, <3>3, <3>4, <3>5
  <2>2. CASE b = L + 1
    <3>1. bloques'[b] = nb
      BY <1>4, <2>2
    <3>2. nb.lex \subseteq nb.incia..(c - 1)
      BY <1>a
    <3>3. nb.padre = d
      BY <1>a DEF d
    <3>4. d \in 0..(b - 1)
      BY <1>2, <1>5, <2>2
    <3>5. d # 0 => bloques'[d].lex # {}
      BY <1>4, <1>6
    <3> QED
      BY <3>1, <3>2, <3>3, <3>4, <3>5
  <2>3. b \in 1..L \/ b = L + 1
    BY <1>2, ViejoOUltimo
  <2> QED
    BY <2>1, <2>2, <2>3, Zenon
<1>10. Orden'
  <2> SUFFICES ASSUME NEW x \in 1..(L + 1), NEW y \in 1..(L + 1), x < y,
                      bloques'[x].lex # {}, bloques'[y].lex # {}
               PROVE  bloques'[x].incia < bloques'[y].incia
    BY <1>4 DEF Orden
  <2>1. x \in 1..L /\ bloques'[x] = bloques[x]
    BY <1>2, <1>4
  <2>2. CASE y \in 1..L
    BY <1>1, <1>4, <2>1, <2>2 DEF Orden, L
  <2>3. CASE y = L + 1
    <3>1. nb.incia = posCursor /\ bloques'[y] = nb
      BY <1>4, <1>a, <2>3
    <3>2. /\ bloques[x].lex \subseteq bloques[x].incia..(posCursor - 1)
          /\ bloques[x].incia \in Nat
      BY <1>e, <2>1
    <3>3. PICK z : z \in bloques[x].lex
      BY <2>1
    <3>4. z \in bloques[x].incia..(posCursor - 1)
      BY <3>2, <3>3
    <3> QED
      BY <1>2, <2>1, <3>1, <3>2, <3>4
  <2>4. y \in 1..L \/ y = L + 1
    BY <1>2, ViejoOUltimo
  <2> QED
    BY <2>2, <2>3, <2>4, Zenon
<1>11. \A b \in 1..L : \A i \in bloques[b].lex : i \in Nat /\ i < posCursor
  <2> TAKE b \in 1..L
  <2> TAKE i \in bloques[b].lex
  <2>1. /\ bloques[b].lex \subseteq bloques[b].incia..(posCursor - 1)
        /\ bloques[b].incia \in Nat
    BY <1>e
  <2>2. i \in bloques[b].incia..(posCursor - 1)
    BY <2>1
  <2> QED
    BY <1>2, <2>1, <2>2
<1>12. \A i \in nb.lex : i \in Nat /\ i >= posCursor
  <2> TAKE i \in nb.lex
  <2>1. i \in posCursor..(c - 1)
    BY <1>a
  <2> QED
    BY <1>2, <2>1
<1>13. Disjuntos'
  <2> SUFFICES ASSUME NEW x \in 1..(L + 1), NEW y \in 1..(L + 1), x # y,
                      NEW i \in bloques'[x].lex, i \in bloques'[y].lex
               PROVE  FALSE
    BY <1>4 DEF Disjuntos
  <2>1. CASE x \in 1..L /\ y \in 1..L
    BY <1>1, <1>4, <2>1 DEF Disjuntos, L
  <2>2. CASE x \in 1..L /\ y = L + 1
    <3>1. i \in bloques[x].lex /\ i \in nb.lex
      BY <1>4, <2>2
    <3> QED
      BY <1>2, <1>11, <1>12, <2>2, <3>1
  <2>3. CASE y \in 1..L /\ x = L + 1
    <3>1. i \in bloques[y].lex /\ i \in nb.lex
      BY <1>4, <2>3
    <3> QED
      BY <1>2, <1>11, <1>12, <2>3, <3>1
  <2> QED
    BY <1>2, <2>1, <2>2, <2>3
<1>14. Cobertura'
  <2> SUFFICES ASSUME NEW i \in 0..(c - 1)
               PROVE  \/ \E b \in 1..(L + 1) : i \in bloques'[b].lex
                      \/ \E b \in 1..(L + 1) :
                           /\ bloques'[b].error
                           /\ i \in bloques'[b].incia..bloques'[b].finaliza
    BY <1>4, <1>p DEF Cobertura
  <2>1. CASE i < posCursor
    <3>1. i \in 0..(posCursor - 1)
      BY <1>2, <2>1
    <3>2. \/ \E b \in 1..L : i \in bloques[b].lex
          \/ \E b \in 1..L :
               /\ bloques[b].error
               /\ i \in bloques[b].incia..bloques[b].finaliza
      BY <1>1, <3>1 DEF Cobertura, L
    <3>3. \A b \in 1..L : b \in 1..(L + 1) /\ bloques'[b] = bloques[b]
      BY <1>2, <1>4
    <3> QED
      BY <3>2, <3>3
  <2>2. CASE ~ (i < posCursor)
    <3>1. i \in posCursor..(c - 1)
      BY <1>2, <2>2
    <3>2. L + 1 \in 1..(L + 1)
      BY <1>2
    <3> QED
      BY <1>4, <1>b, <3>1, <3>2
  <2> QED
    BY <2>1, <2>2
<1>15. Anidados'
  <2> SUFFICES ASSUME NEW b \in 1..(L + 1), bloques'[b].padre # 0
               PROVE  LET q == bloques'[b].padre
                      IN  /\ q < b
                          /\ \A i \in bloques'[b].lex :
                               /\ bloques'[q].incia < i
                               /\ bloques'[q].finaliza # 0
                                    => i < bloques'[q].finaliza
    BY <1>4 DEF Anidados
  <2> DEFINE q == bloques'[b].padre
  <2>1. CASE b \in 1..L
    <3>1. bloques'[b] = bloques[b]
      BY <1>4, <2>1
    <3>2. bloques[b].padre \in 0..(b - 1)
      BY <1>e, <2>1
    <3>3. q \in 1..L /\ bloques'[q] = bloques[q]
      BY <1>2, <1>4, <2>1, <3>1, <3>2
    <3>4. /\ q < b
          /\ \A i \in bloques[b].lex :
               /\ bloques[q].incia < i
               /\ bloques[q].finaliza # 0 => i < bloques[q].finaliza
      BY <1>1, <1>4, <2>1, <3>1 DEF Anidados
    <3> QED
      BY <3>1, <3>3, <3>4
  <2>2. CASE b = L + 1
    <3>1. bloques'[b] = nb /\ q = d /\ d # 0
      BY <1>4, <1>a, <2>2 DEF d
    <3>2. /\ d \in 1..L /\ bloques'[d] = bloques[d]
          /\ bloques[d].finaliza = 0 /\ bloques[d].incia < posCursor
          /\ bloques[d].incia \in Nat
      BY <1>e, <1>4, <1>6, <3>1
    <3>3. \A i \in nb.lex : bloques[d].incia < i
      BY <1>2, <1>12, <3>2
    <3>4. d < b
      BY <1>2, <2>2, <3>2
    <3> QED
      BY <3>1, <3>2, <3>3, <3>4
  <2>3. b \in 1..L \/ b = L + 1
    BY <1>2, ViejoOUltimo
  <2> QED
    BY <2>1, <2>2, <2>3, Zenon
<1> QED
  BY <1>7, <1>8, <1>9, <1>10, <1>13, <1>14, <1>15 DEF IInv

(* What the block d of the innermost pending call may become when the      *)
(* cursor moves to c.                                                      *)
BloqueCerrado(d, nb, c) ==
  /\ nb \in Bloque
  /\ nb.incia = bloques[d].incia
  /\ nb.padre = bloques[d].padre
  /\ nb.lex = bloques[d].lex \cup posCursor..(c - 1)
  /\ nb.finaliza # 0 => nb.finaliza >= posCursor

PasoCerrar(d, nb, c) ==
  /\ bloques' = [bloques EXCEPT ![d] = nb]
  /\ posCursor' = c
  /\ pila' = Debajo
  /\ UNCHANGED <<lexemas, numTokens, estado>>

(* A step that ends a pending call, and adds to the block whose body it    *)
(* read all lexemes up to c, keeps the invariant.                          *)
LEMMA CerrarPreserva ==
  ASSUME IInv, Len(pila) > 1,
         NEW d, d = marco.duenno, NEW nb, NEW c \in posCursor..n,
         BloqueCerrado(d, nb, c), PasoCerrar(d, nb, c)
  PROVE  IInv'
<1> DEFINE L == Len(bloques)
           K == Len(pila)
<1>1. TypeOK /\ Marcos /\ BloquesBien /\ Orden /\ Disjuntos /\ Cobertura
      /\ Anidados
  BY DEF IInv
<1>a. /\ nb \in Bloque
      /\ nb.incia = bloques[d].incia /\ nb.padre = bloques[d].padre
      /\ nb.lex = bloques[d].lex \cup posCursor..(c - 1)
      /\ nb.finaliza # 0 => nb.finaliza >= posCursor
  BY DEF BloqueCerrado
<1>b. bloques' = [bloques EXCEPT ![d] = nb]
  BY DEF PasoCerrar
<1>c. pila' = Debajo
  BY DEF PasoCerrar
<1>p. /\ posCursor' = c
      /\ lexemas' = lexemas /\ numTokens' = numTokens /\ estado' = estado
  BY DEF PasoCerrar
<1>2. n \in Nat /\ K \in Nat \ {0} /\ L \in Nat /\ posCursor \in 0..n
  BY <1>1, MarcoActual DEF TypeOK
<1>3. bloques \in Seq(Bloque) /\ pila \in Seq(Marco)
  BY <1>1 DEF TypeOK
<1>4. n' = n
  BY <1>p DEF n
<1>5. K > 1 /\ K \in 2..K /\ K \in 1..K /\ K - 1 \in 1..K
  BY <1>2
<1>6. d = pila[K].duenno
  BY DEF marco
<1>7. /\ pila[1] = [stop |-> n, fin |-> 0, duenno |-> 0]
      /\ \A k \in 2..K :
           /\ pila[k].fin \in 1..(n - 1)
           /\ pila[k].stop = pila[k].fin - 1
           /\ pila[k].duenno \in 1..L
           /\ ~ bloques[pila[k].duenno].error
           /\ bloques[pila[k].duenno].finaliza = 0
           /\ bloques[pila[k].duenno].lex # {}
           /\ bloques[pila[k].duenno].padre = pila[k - 1].duenno
           /\ \A j \in 2..(k - 1) : pila[j].duenno # pila[k].duenno
  BY <1>1 DEF Marcos
<1> HIDE DEF L, K
<1>8. /\ d \in 1..L /\ ~ bloques[d].error /\ bloques[d].finaliza = 0
      /\ bloques[d].lex # {} /\ bloques[d].padre = pila[K - 1].duenno
      /\ \A j \in 2..(K - 1) : pila[j].duenno # d
  <2>1. K \in 2..K
    BY <1>5
  <2>2. /\ pila[K].duenno \in 1..L
        /\ ~ bloques[pila[K].duenno].error
        /\ bloques[pila[K].duenno].finaliza = 0
        /\ bloques[pila[K].duenno].lex # {}
        /\ bloques[pila[K].duenno].padre = pila[K - 1].duenno
        /\ \A j \in 2..(K - 1) : pila[j].duenno # pila[K].duenno
    BY <1>7, <2>1, Zenon
  <2> QED
    BY <1>6, <2>2, Zenon
<1>9. /\ Len(bloques') = L
      /\ bloques'[d] = nb
      /\ \A b \in 1..L : b # d => bloques'[b] = bloques[b]
      /\ bloques' \in Seq(Bloque)
      /\ DOMAIN bloques = 1..L /\ DOMAIN bloques' = 1..L
  BY <1>3, <1>8, <1>a, <1>b DEF L
<1>10. /\ Len(pila') = K - 1
       /\ \A k \in 1..(K - 1) : pila'[k] = pila[k]
       /\ pila' \in Seq(Marco)
  BY <1>2, <1>3, <1>5, <1>c DEF Debajo, K
<1>11. \A b \in 1..L :
        /\ bloques[b] \in Bloque
        /\ bloques[b].incia \in Nat
        /\ bloques[b].lex \subseteq bloques[b].incia..(posCursor - 1)
        /\ bloques[b].padre \in 0..(b - 1)
        /\ bloques[b].padre # 0 => bloques[bloques[b].padre].lex # {}
  <2> TAKE b \in 1..L
  <2>1. bloques[b] \in Bloque
    BY <1>3 DEF L
  <2>2. bloques[b].incia \in Nat
    BY <2>1 DEF Bloque
  <2> QED
    BY <1>1, <2>1, <2>2 DEF BloquesBien, L
<1>12. DOMAIN bloques = 1..L /\ DOMAIN bloques' = 1..L
  BY <1>9
<1>13. \A b \in 1..L : bloques[b].lex # {} => bloques[b].incia < posCursor
  <2> SUFFICES ASSUME NEW b \in 1..L, NEW x \in bloques[b].lex
               PROVE  bloques[b].incia < posCursor
    OBVIOUS
  <2>1. x \in bloques[b].incia..(posCursor - 1) /\ bloques[b].incia \in Nat
    BY <1>11
  <2> QED
    BY <1>2, <2>1
<1>14. \A b \in 1..L : \A i \in bloques[b].lex : i \in Nat /\ i < posCursor
  <2> TAKE b \in 1..L
  <2> TAKE i \in bloques[b].lex
  <2>1. i \in bloques[b].incia..(posCursor - 1) /\ bloques[b].incia \in Nat
    BY <1>11
  <2> QED
    BY <1>2, <2>1
<1>15. TypeOK'
  <2>1. pila' # << >>
    BY <1>2, <1>5, <1>10
  <2>2. posCursor' \in 0..n'
    BY <1>2, <1>4, <1>p
  <2> QED
    BY <1>1, <1>9, <1>10, <1>p, <2>1, <2>2 DEF TypeOK
<1>16. Marcos'
  <2>1. pila'[1] = [stop |-> n', fin |-> 0, duenno |-> 0]
    <3>1. 1 \in 1..(K - 1)
      BY <1>2, <1>5
    <3> QED
      BY <1>4, <1>7, <1>10, <3>1
  <2>2. ASSUME NEW k \in 2..(K - 1)
        PROVE  /\ pila'[k].fin \in 1..(n' - 1)
               /\ pila'[k].stop = pila'[k].fin - 1
               /\ pila'[k].duenno \in 1..Len(bloques')
               /\ ~ bloques'[pila'[k].duenno].error
               /\ bloques'[pila'[k].duenno].finaliza = 0
               /\ bloques'[pila'[k].duenno].lex # {}
               /\ bloques'[pila'[k].duenno].padre = pila'[k - 1].duenno
               /\ \A j \in 2..(k - 1) : pila'[j].duenno # pila'[k].duenno
    <3>1. /\ k \in 2..K /\ k \in 1..(K - 1) /\ k - 1 \in 1..(K - 1)
          /\ 2..(k - 1) \subseteq 1..(K - 1)
      BY <1>2
    <3>2. /\ pila'[k] = pila[k] /\ pila'[k - 1] = pila[k - 1]
          /\ \A j \in 2..(k - 1) : pila'[j] = pila[j]
      BY <1>10, <3>1, Zenon
    <3>3. pila[k].duenno \in 1..L /\ pila[k].duenno # d
      BY <1>7, <1>8, <3>1
    <3>4. bloques'[pila[k].duenno] = bloques[pila[k].duenno]
      BY <1>9, <3>3
    <3>5. /\ pila'[k].fin \in 1..(n' - 1)
          /\ pila'[k].stop = pila'[k].fin - 1
          /\ pila'[k].duenno \in 1..Len(bloques')
      BY <1>4, <1>7, <1>9, <3>1, <3>2, <3>3
    <3>6. /\ ~ bloques'[pila'[k].duenno].error
          /\ bloques'[pila'[k].duenno].finaliza = 0
          /\ bloques'[pila'[k].duenno].lex # {}
          /\ bloques'[pila'[k].duenno].padre = pila'[k - 1].duenno
      BY <1>7, <3>1, <3>2, <3>4
    <3>7. \A j \in 2..(k - 1) : pila'[j].duenno # pila'[k].duenno
      BY <1>7, <3>1, <3>2
    <3> QED
      BY <3>5, <3>6, <3>7, Zenon
  <2> QED
    BY <1>10, <2>1, <2>2 DEF Marcos
<1>17. ASSUME NEW b \in 1..L
       PROVE  /\ bloques'[b].lex = IF b = d THEN nb.lex ELSE bloques[b].lex
              /\ bloques'[b].incia = bloques[b].incia
              /\ bloques'[b].padre = bloques[b].padre
              /\ bloques'[b].lex # {} <=> bloques[b].lex # {}
  BY <1>8, <1>9, <1>a
<1>18. BloquesBien'
  <2> SUFFICES ASSUME NEW b \in 1..L
               PROVE  /\ bloques'[b].lex
                           \subseteq bloques'[b].incia..(c - 1)
                      /\ bloques'[b].padre \in 0..(b - 1)
                      /\ bloques'[b].padre # 0
                           => bloques'[bloques'[b].padre].lex # {}
    BY <1>9, <1>p DEF BloquesBien
  <2>1. /\ bloques[b].incia \in Nat
        /\ bloques[b].lex \subseteq bloques[b].incia..(posCursor - 1)
        /\ bloques[b].padre \in 0..(b - 1)
        /\ bloques[b].padre # 0 => bloques[bloques[b].padre].lex # {}
    BY <1>11
  <2>2. bloques[b].incia..(posCursor - 1) \subseteq bloques[b].incia..(c - 1)
    BY <1>2, <2>1
  <2>3. b = d => posCursor..(c - 1) \subseteq bloques[b].incia..(c - 1)
    <3>1. b = d => bloques[b].incia < posCursor
      BY <1>8, <1>13
    <3> QED
      BY <1>2, <2>1, <3>1
  <2>4. bloques'[b].lex \subseteq bloques[b].incia..(c - 1)
    BY <1>17, <1>a, <2>1, <2>2, <2>3
  <2>5. bloques[b].padre # 0 => bloques[b].padre \in 1..L
    BY <1>2, <2>1
  <2>6. bloques[b].padre # 0 => bloques'[bloques[b].padre].lex # {}
    BY <1>17, <2>1, <2>5
  <2> QED
    BY <1>17, <2>1, <2>4, <2>6
<1>19. Orden'
  <2> SUFFICES ASSUME NEW x \in 1..L, NEW y \in 1..L, x < y,
                      bloques'[x].lex # {}, bloques'[y].lex # {}
               PROVE  bloques'[x].incia < bloques'[y].incia
    BY <1>9 DEF Orden
  <2> QED
    BY <1>1, <1>17 DEF Orden, L
<1>20. Disjuntos'
  <2> SUFFICES ASSUME NEW x \in 1..L, NEW y \in 1..L, x # y,
                      NEW i \in bloques'[x].lex, i \in bloques'[y].lex
               PROVE  FALSE
    BY <1>9 DEF Disjuntos
  <2>1. CASE i \in bloques[x].lex /\ i \in bloques[y].lex
    BY <1>1, <2>1 DEF Disjuntos, L
  <2>2. CASE x = d /\ i \in posCursor..(c - 1)
    <3>1. i \in bloques[y].lex
      BY <1>17, <2>2
    <3> QED
      BY <1>2, <1>14, <2>2, <3>1
  <2>3. CASE y = d /\ i \in posCursor..(c - 1)
    <3>1. i \in bloques[x].lex
      BY <1>17, <2>3
    <3> QED
      BY <1>2, <1>14, <2>3, <3>1
  <2> QED
    BY <1>17, <1>a, <2>1, <2>2, <2>3
<1>21. Cobertura'
  <2> SUFFICES ASSUME NEW i \in 0..(c - 1)
               PROVE  \/ \E b \in 1..L : i \in bloques'[b].lex
                      \/ \E b \in 1..L :
                           /\ bloques'[b].error
                           /\ i \in bloques'[b].incia..bloques'[b].finaliza
    BY <1>9, <1>p DEF Cobertura
  <2>1. CASE i < posCursor
    <3>1. i \in 0..(posCursor - 1)
      BY <1>2, <2>1
    <3>2. \/ \E b \in 1..L : i \in bloques[b].lex
          \/ \E b \in 1..L :
               /\ bloques[b].error
               /\ i \in bloques[b].incia..bloques[b].finaliza
      BY <1>1, <3>1 DEF Cobertura, L
    <3>3. CASE \E b \in 1..L : i \in bloques[b].lex
      <4>1. PICK b \in 1..L : i \in bloques[b].lex
        BY <3>3
      <4>2. i \in bloques'[b].lex
        BY <1>17, <1>a, <4>1
      <4> QED
        BY <4>2
    <3>4. ASSUME NEW b \in 1..L, bloques[b].error,
                 i \in bloques[b].incia..bloques[b].finaliza
          PROVE  /\ bloques'[b].error
                 /\ i \in bloques'[b].incia..bloques'[b].finaliza
      <4>1. b # d
        BY <1>8, <3>4
      <4> QED
        BY <1>9, <3>4, <4>1
    <3> QED
      BY <3>2, <3>3, <3>4
  <2>2. CASE ~ (i < posCursor)
    <3>1. i \in posCursor..(c - 1)
      BY <1>2, <2>2
    <3>2. i \in bloques'[d].lex
      BY <1>9, <1>a, <3>1
    <3> QED
      BY <1>8, <3>2
  <2> QED
    BY <2>1, <2>2
<1>22. Anidados'
  <2> SUFFICES ASSUME NEW b \in 1..L, bloques'[b].padre # 0
               PROVE  LET q == bloques'[b].padre
                      IN  /\ q < b
                          /\ \A i \in bloques'[b].lex :
                               /\ bloques'[q].incia < i
                               /\ bloques'[q].finaliza # 0
                                    => i < bloques'[q].finaliza
    BY <1>12 DEF Anidados
  <2> DEFINE q == bloques[b].padre
  <2>1. bloques'[b].padre = q /\ q # 0 /\ q \in 0..(b - 1)
    BY <1>11, <1>17
  <2>2. q \in 1..L /\ q < b /\ b \in Nat /\ q \in Nat
    BY <1>2, <2>1
  <2>3. \A i \in bloques[b].lex :
           /\ bloques[q].incia < i
           /\ bloques[q].finaliza # 0 => i < bloques[q].finaliza
    BY <1>1, <1>12, <2>1 DEF Anidados
  <2>4. bloques'[q].incia = bloques[q].incia /\ bloques[q].incia \in Nat
    BY <1>11, <1>17, <2>2
  <2>5. bloques[q].incia < posCursor
    BY <1>11, <1>13, <2>1, <2>2
  <2> HIDE DEF q
  <2>6. CASE b = d
    <3>1. q # d /\ bloques'[q] = bloques[q]
      BY <1>9, <2>2, <2>6
    <3>2. q = pila[K - 1].duenno
      BY <1>8, <2>6 DEF q
    <3>3. K - 1 \in 2..K
      <4>1. K - 1 # 1
        BY <1>7, <2>1, <3>2
      <4> QED
        BY <1>2, <1>5, <4>1
    <3>4. bloques[q].finaliza = 0
      BY <1>7, <3>2, <3>3
    <3>5. \A i \in posCursor..(c - 1) : bloques[q].incia < i
      BY <1>2, <2>4, <2>5
    <3>6. \A i \in bloques'[b].lex :
            i \in bloques[b].lex \/ i \in posCursor..(c - 1)
      BY <1>9, <1>a, <2>6
    <3> QED
      BY <2>1, <2>2, <2>3, <3>1, <3>4, <3>5, <3>6
  <2>7. CASE b # d /\ q = d
    <3>1. bloques'[b].lex = bloques[b].lex
      BY <1>17, <2>7
    <3>2. bloques'[q].finaliza = nb.finaliza
      BY <1>9, <2>7
    <3>3. nb.finaliza # 0 => \A i \in bloques[b].lex : i < nb.finaliza
      <4>1. nb.finaliza \in Nat
        BY <1>a DEF Bloque
      <4> QED
        BY <1>2, <1>14, <1>a, <4>1
    <3> QED
      BY <2>1, <2>2, <2>3, <2>4, <3>1, <3>2, <3>3
  <2>8. CASE b # d /\ q # d
    <3>1. bloques'[b].lex = bloques[b].lex /\ bloques'[q] = bloques[q]
      BY <1>9, <1>17, <2>2, <2>8
    <3> QED
      BY <2>1, <2>2, <2>3, <3>1
  <2> QED
    BY <2>6, <2>7, <2>8
<1> QED
  BY <1>15, <1>16, <1>18, <1>19, <1>20, <1>21, <1>22 DEF IInv

-----------------------------------------------------------------------------
(* Every action keeps the invariant. *)

(* Incia of every block is a natural number. *)
LEMMA InicioNatural ==
  ASSUME TypeOK, NEW b \in 1..Len(bloques)
  PROVE  bloques[b].incia \in Nat
<1>1. bloques[b] \in Bloque
  BY DEF TypeOK
<1> QED
  BY <1>1 DEF Bloque

(* A step that changes at most estado keeps the invariant. *)
LEMMA SoloEstadoPreserva ==
  ASSUME IInv, estado' \in {"analizando", "listo", "excepcion"},
         UNCHANGED <<lexemas, numTokens, posCursor, pila, bloques>>
  PROVE  IInv'
<1>1. n' = n
  BY DEF n
<1>2. TypeOK'
  BY <1>1 DEF IInv, TypeOK
<1>3. Marcos'
  BY <1>1 DEF IInv, Marcos
<1>4. BloquesBien' /\ Orden' /\ Disjuntos' /\ Cobertura' /\ Anidados'
  BY DEF IInv, BloquesBien, Orden, Disjuntos, Cobertura, Anidados
<1> QED
  BY <1>2, <1>3, <1>4 DEF IInv

(* An exception leaves the blocks as they were. *)
LEMMA LanzarPreserva ==
  ASSUME IInv, Lanzar
  PROVE  IInv' /\ estado' = "excepcion"
  BY SoloEstadoPreserva DEF Lanzar

(* A block that is added differs from the one a handler made by its parent. *)
LEMMA EnPadreEsBloque ==
  ASSUME NEW b \in Bloque, marco.duenno \in Nat
  PROVE  /\ EnPadre(b) \in Bloque /\ EnPadre(b).padre = marco.duenno
         /\ EnPadre(b).incia = b.incia /\ EnPadre(b).lex = b.lex
         /\ EnPadre(b).error = b.error /\ EnPadre(b).finaliza = b.finaliza
  BY DEF EnPadre, Bloque

(* A handler that keeps its contract keeps the invariant, and moves the    *)
(* cursor forward unless it raises.                                        *)
LEMMA AplicarPreserva ==
  ASSUME IInv, EnBucle, NEW r, Valido(posCursor, r), Aplicar(r)
  PROVE  IInv' /\ (estado' = "analizando" => posCursor' > posCursor)
<1>1. TypeOK /\ Marcos
  BY DEF IInv
<1>2. posCursor \in Nat /\ n \in Nat
  BY <1>1, MarcoActual DEF TypeOK
<1>3. CASE r.caso = "excepcion" /\ Lanzar
  BY <1>3, LanzarPreserva
<1>4. CASE /\ r.caso \in {"cerrado", "abierto"}
           /\ posCursor' = r.cursor
           /\ bloques' = Append(bloques, EnPadre(r.bloque))
           /\ pila' = IF r.caso = "cerrado" THEN pila
                      ELSE Append(pila, [stop |-> r.fin - 1, fin |-> r.fin,
                                         duenno |-> Len(bloques) + 1])
           /\ UNCHANGED <<lexemas, numTokens, estado>>
  <2> DEFINE nb == EnPadre(r.bloque)
             c == r.cursor
  <2>0. /\ nb \in Bloque /\ nb.padre = marco.duenno
        /\ nb.incia = r.bloque.incia /\ nb.lex = r.bloque.lex
        /\ nb.error = r.bloque.error /\ nb.finaliza = r.bloque.finaliza
    <3>1. r.bloque \in Bloque
      BY <1>4 DEF Valido
    <3>2. marco.duenno \in Nat
      BY <1>1, MarcoActual
    <3> QED
      BY <3>1, <3>2, EnPadreEsBloque
  <2>1. /\ c \in (posCursor + 1)..n
        /\ nb \in Bloque
        /\ nb.incia = posCursor
        /\ nb.padre = marco.duenno
        /\ nb.lex \subseteq posCursor..(c - 1)
        /\ nb.lex = posCursor..(c - 1) \/ (nb.error /\ nb.finaliza = c - 1)
        /\ r.caso = "abierto" =>
             /\ r.fin \in 1..(n - 1)
             /\ ~ nb.error
             /\ nb.finaliza = 0
             /\ nb.lex = posCursor..(c - 1)
    BY <1>4, <2>0 DEF Valido
  <2>2. /\ posCursor' = c
        /\ bloques' = Append(bloques, nb)
        /\ UNCHANGED <<lexemas, numTokens, estado>>
    BY <1>4
  <2>4. r.caso = "cerrado" => pila' = pila
    BY <1>4
  <2>5. r.caso = "abierto" =>
          pila' = Append(pila, [stop |-> r.fin - 1, fin |-> r.fin,
                                duenno |-> Len(bloques) + 1])
    BY <1>4
  <2>6. r.caso = "cerrado" \/ r.caso = "abierto"
    BY <1>4
  <2> HIDE DEF nb, c
  <2>7. c \in posCursor..n /\ c > posCursor /\ posCursor \in posCursor..(c - 1)
    BY <1>2, <2>1
  <2>8. \A i \in posCursor..(c - 1) :
          i \in nb.lex \/ (nb.error /\ i \in nb.incia..nb.finaliza)
    BY <2>1
  <2>9. \/ pila' = pila
        \/ \E f \in 1..(n - 1) :
             /\ pila' = Append(pila, [stop |-> f - 1, fin |-> f,
                                      duenno |-> Len(bloques) + 1])
             /\ nb.lex # {} /\ ~ nb.error /\ nb.finaliza = 0
    <3>1. CASE r.caso = "cerrado"
      BY <2>4, <3>1
    <3>2. CASE r.caso = "abierto"
      <4>1. nb.lex # {} /\ ~ nb.error /\ nb.finaliza = 0 /\ r.fin \in 1..(n - 1)
        BY <2>1, <2>7, <3>2
      <4> QED
        BY <2>5, <3>2, <4>1
    <3> QED
      BY <2>6, <3>1, <3>2
  <2>10. IInv'
    <3>1. BloqueNuevo(nb, c) /\ PilaNueva(nb)
      BY <2>1, <2>8, <2>9 DEF BloqueNuevo, PilaNueva
    <3>2. PasoAgregar(nb, c)
      BY <2>2, <3>1 DEF PasoAgregar
    <3> QED
      BY <2>7, <3>1, <3>2, AgregarPreserva
  <2> QED
    BY <2>2, <2>7, <2>10
<1> QED
  BY <1>3, <1>4 DEF Aplicar

(* The empty block of a lexeme that no handler takes keeps the invariant. *)
LEMMA SinManejadorPreserva ==
  ASSUME IInv, SinManejador
  PROVE  IInv'
<1>1. TypeOK /\ Marcos
  BY DEF IInv
<1>2. posCursor \in 0..n /\ n \in Nat /\ Contexto /\ marco.duenno \in Nat
  BY <1>1, MarcoActual DEF TypeOK
<1> DEFINE nb == EnPadre(NuevoBloque("Sentencia", FALSE, 0, 0, {}))
<1>3. UNCHANGED <<lexemas, numTokens, posCursor, pila, estado>>
  BY DEF SinManejador
<1>4. CASE bloques' = bloques
  <2>1. estado' \in {"analizando", "listo", "excepcion"}
    BY <1>1, <1>3 DEF TypeOK
  <2> QED
    BY <1>3, <1>4, <2>1, SoloEstadoPreserva
<1>5. CASE bloques' = Append(bloques, nb)
  <2>0. /\ NuevoBloque("Sentencia", FALSE, 0, 0, {}) \in Bloque
        /\ NuevoBloque("Sentencia", FALSE, 0, 0, {}).lex = {}
    BY DEF NuevoBloque, Bloque
  <2>1. nb \in Bloque /\ nb.padre = marco.duenno /\ nb.lex = {}
    BY <1>2, <2>0, EnPadreEsBloque
  <2> HIDE DEF nb
  <2>2. posCursor \in posCursor..n
    BY <1>2
  <2>3. /\ nb.lex \subseteq posCursor..(posCursor - 1)
        /\ nb.lex # {} => nb.incia = posCursor
    BY <2>1
  <2>4. \A i \in posCursor..(posCursor - 1) :
          i \in nb.lex \/ (nb.error /\ i \in nb.incia..nb.finaliza)
    BY <1>2
  <2>5. UNCHANGED <<lexemas, numTokens, estado>> /\ posCursor' = posCursor
        /\ pila' = pila
    BY <1>3
  <2> QED
    <3>1. BloqueNuevo(nb, posCursor)
      BY <2>1, <2>3, <2>4 DEF BloqueNuevo
    <3>2. PasoAgregar(nb, posCursor)
      BY <1>5, <2>5 DEF PasoAgregar, PilaNueva
    <3> QED
      BY <2>2, <3>1, <3>2, AgregarPreserva
<1> QED
  BY <1>4, <1>5 DEF SinManejador

(* The innermost pending call, but for the first, reads the body of an     *)
(* existing block.                                                         *)
LEMMA BloqueActual ==
  ASSUME IInv, Len(pila) > 1
  PROVE  /\ marco.duenno \in DOMAIN bloques
         /\ bloques[marco.duenno] \in Bloque
         /\ bloques \in Seq(Bloque)
<1>1. TypeOK /\ Marcos
  BY DEF IInv
<1>2. bloques \in Seq(Bloque) /\ Len(pila) \in 2..Len(pila)
  BY <1>1, MarcoActual DEF TypeOK
<1>3. marco.duenno \in 1..Len(bloques)
  BY <1>1, <1>2 DEF Marcos, marco
<1> QED
  BY <1>2, <1>3

(* Closing a block keeps the invariant and moves the cursor past the       *)
(* lexeme that closes it.                                                  *)
LEMMA CerrarBloquePreserva ==
  ASSUME IInv, CerrarBloque
  PROVE  IInv' /\ (estado' = "analizando" => posCursor' > posCursor)
<1>1. TypeOK /\ Marcos /\ Len(pila) > 1
  BY DEF IInv, CerrarBloque
<1>2. posCursor \in 0..n /\ n \in Nat
  BY <1>1, MarcoActual DEF TypeOK
<1>3. CASE posCursor >= n
  <2>1. Lanzar
    BY <1>3 DEF CerrarBloque
  <2> QED
    BY <2>1, LanzarPreserva
<1>4. CASE ~ (posCursor >= n)
  <2> DEFINE d == marco.duenno
             nb == [bloques[d] EXCEPT !.finaliza = posCursor,
                                      !.lex = @ \cup {posCursor}]
             c == posCursor + 1
  <2>1. /\ bloques' = [bloques EXCEPT
                         ![d].finaliza = posCursor,
                         ![d].lex = @ \cup {posCursor}]
        /\ posCursor' = c
        /\ pila' = Debajo
        /\ UNCHANGED <<lexemas, numTokens, estado>>
    BY <1>4 DEF CerrarBloque
  <2>2. d \in DOMAIN bloques /\ bloques[d] \in Bloque /\ bloques \in Seq(Bloque)
    BY <1>1, BloqueActual
  <2> HIDE DEF d
  <2>3. bloques' = [bloques EXCEPT ![d] = nb]
    BY <2>1, <2>2
  <2>4. /\ nb \in Bloque
        /\ nb.incia = bloques[d].incia /\ nb.padre = bloques[d].padre
        /\ nb.lex = bloques[d].lex \cup {posCursor}
        /\ nb.finaliza = posCursor
    <3>1. posCursor \in Nat
      BY <1>2
    <3> QED
      BY <2>2, <3>1 DEF Bloque
  <2>5. c \in posCursor..n /\ {posCursor} = posCursor..(c - 1) /\ c > posCursor
    BY <1>2, <1>4
  <2> HIDE DEF nb, c
  <2>6. nb.lex = bloques[d].lex \cup posCursor..(c - 1)
    BY <2>4, <2>5
  <2>7. nb.finaliza # 0 => nb.finaliza >= posCursor
    BY <1>2, <2>4
  <2>8. d = marco.duenno
    BY DEF d
  <2>9. IInv'
    <3>1. BloqueCerrado(d, nb, c)
      BY <2>4, <2>6, <2>7 DEF BloqueCerrado
    <3>2. PasoCerrar(d, nb, c)
      BY <2>1, <2>3 DEF PasoCerrar
    <3> QED
      BY <1>1, <2>5, <2>8, <3>1, <3>2, CerrarPreserva
  <2> QED
    BY <2>1, <2>5, <2>9
<1> QED
  BY <1>3, <1>4

(* The only step that may leave the cursor where it is: it pops a call. *)
LEMMA CerrarDoWhilePreserva ==
  ASSUME IInv, CerrarDoWhile
  PROVE  /\ IInv'
         /\ estado' = "analizando" =>
              \/ posCursor' > posCursor
              \/ posCursor' = posCursor /\ pila' = Debajo
<1>1. TypeOK /\ Marcos /\ Len(pila) > 1
  BY DEF IInv, CerrarDoWhile
<1>2. posCursor \in 0..n /\ n \in Nat /\ Contexto
  BY <1>1, MarcoActual DEF TypeOK
<1> DEFINE fin == pila[Len(pila) - 1].fin
           r == TerminarDoWhile(posCursor, fin)
<1>3. fin \in Nat /\ FinEfectivo(fin) \in 0..n
  <2>1. Len(pila) - 1 \in 1..Len(pila)
    BY <1>1, MarcoActual
  <2> QED
    BY <1>1, <1>2, <2>1, MarcoActual
<1>4. \/ r.caso = "excepcion"
      \/ /\ r.caso = "cerrado"
         /\ r.cursor \in posCursor..n
         /\ r.bloque \in Bloque
         /\ r.bloque.finaliza # 0 => r.bloque.finaliza >= posCursor
         /\ r.bloque.lex = posCursor..(r.cursor - 1)
  BY <1>2, <1>3, DoWhileValido
<1>5. IF r.caso = "excepcion" THEN Lanzar
      ELSE /\ bloques' = [bloques EXCEPT
                            ![marco.duenno].error = r.bloque.error,
                            ![marco.duenno].finaliza = r.bloque.finaliza,
                            ![marco.duenno].lex = @ \cup r.bloque.lex]
           /\ posCursor' = r.cursor
           /\ pila' = Debajo
           /\ UNCHANGED <<lexemas, numTokens, estado>>
  BY DEF CerrarDoWhile
<1> HIDE DEF r, fin
<1>6. CASE r.caso = "excepcion"
  BY <1>5, <1>6, LanzarPreserva
<1>7. CASE r.caso # "excepcion"
  <2> DEFINE d == marco.duenno
             nb == [bloques[d] EXCEPT !.error = r.bloque.error,
                                      !.finaliza = r.bloque.finaliza,
                                      !.lex = @ \cup r.bloque.lex]
             c == r.cursor
  <2>1. /\ bloques' = [bloques EXCEPT
                         ![d].error = r.bloque.error,
                         ![d].finaliza = r.bloque.finaliza,
                         ![d].lex = @ \cup r.bloque.lex]
        /\ posCursor' = c
        /\ pila' = Debajo
        /\ UNCHANGED <<lexemas, numTokens, estado>>
    BY <1>5, <1>7
  <2>2. d \in DOMAIN bloques /\ bloques[d] \in Bloque /\ bloques \in Seq(Bloque)
    BY <1>1, BloqueActual
  <2> HIDE DEF d
  <2>3. bloques' = [bloques EXCEPT ![d] = nb]
    BY <2>1, <2>2
  <2>4. /\ nb \in Bloque
        /\ nb.incia = bloques[d].incia /\ nb.padre = bloques[d].padre
        /\ nb.lex = bloques[d].lex \cup r.bloque.lex
        /\ nb.finaliza = r.bloque.finaliza
    BY <1>4, <1>7, <2>2 DEF Bloque
  <2>5. /\ c \in posCursor..n
        /\ nb.lex = bloques[d].lex \cup posCursor..(c - 1)
        /\ nb.finaliza # 0 => nb.finaliza >= posCursor
    BY <1>4, <1>7, <2>4
  <2> HIDE DEF nb, c
  <2>6. d = marco.duenno
    BY DEF d
  <2>7. IInv'
    <3>1. BloqueCerrado(d, nb, c)
      BY <2>4, <2>5 DEF BloqueCerrado
    <3>2. PasoCerrar(d, nb, c)
      BY <2>1, <2>3 DEF PasoCerrar
    <3> QED
      BY <1>1, <2>5, <2>6, <3>1, <3>2, CerrarPreserva
  <2>8. c > posCursor \/ c = posCursor
    BY <1>2, <2>5
  <2> QED
    BY <2>1, <2>7, <2>8
<1> QED
  BY <1>6, <1>7

(* What every step does to the invariant and to the cursor. *)
Avanza ==
  estado' = "analizando" =>
    \/ posCursor' > posCursor
    \/ posCursor' = posCursor /\ pila' = Debajo
    \/ EnBucle /\ Manejador(posCursor) = "ninguno"

(* Every step keeps the invariant, and advances the cursor or returns. *)
LEMMA PasoPreserva ==
  ASSUME IInv, Next
  PROVE  IInv' /\ (vars' = vars \/ Avanza)
<1>1. TypeOK /\ Marcos
  BY DEF IInv
<1>2. Contexto /\ (EnBucle => Llamada(posCursor, marco.fin))
  BY <1>1, MarcoActual
<1>3. ASSUME EnBucle, NEW r, Valido(posCursor, r), Aplicar(r)
      PROVE  IInv' /\ Avanza
  BY <1>3, AplicarPreserva DEF Avanza
<1>4. CASE TipoDato
  BY <1>2, <1>3, <1>4, TipoDatoValido DEF TipoDato
<1>5. CASE ReAsignacion
  BY <1>2, <1>3, <1>5, VariableValida DEF ReAsignacion
<1>6. CASE Retorno
  BY <1>2, <1>3, <1>6, SentenciaValida DEF Retorno
<1>7. CASE For
  BY <1>2, <1>3, <1>7, ForValido DEF For
<1>8. CASE While
  BY <1>2, <1>3, <1>8, CondicionalValido DEF While
<1>9. CASE If
  BY <1>2, <1>3, <1>9, CondicionalValido DEF If
<1>10. CASE DoWhile
  BY <1>2, <1>3, <1>10, ConLlaveValido DEF DoWhile
<1>11. CASE Else
  BY <1>2, <1>3, <1>11, ConLlaveValido DEF Else
<1>12. CASE SinManejador
  BY <1>12, SinManejadorPreserva DEF SinManejador, Avanza
<1>13. CASE CerrarBloque
  BY <1>13, CerrarBloquePreserva DEF Avanza
<1>14. CASE CerrarDoWhile
  BY <1>14, CerrarDoWhilePreserva DEF Avanza
<1>15. CASE TerminarAnalisis
  BY <1>15, SoloEstadoPreserva DEF TerminarAnalisis, Avanza
<1>16. CASE Terminado
  <2>1. estado' \in {"analizando", "listo", "excepcion"}
    BY <1>1, <1>16 DEF Terminado, vars, TypeOK
  <2> QED
    BY <1>16, <2>1, SoloEstadoPreserva DEF Terminado, vars
<1> QED
  BY <1>4, <1>5, <1>6, <1>7, <1>8, <1>9, <1>10, <1>11, <1>12, <1>13, <1>14,
     <1>15, <1>16 DEF Next

(* The invariant holds before the first lexeme is read. *)
LEMMA ComienzoCumple ==
  ASSUME lexemas \in Seq(Lexema), numTokens \in Nat, Comienzo
  PROVE  IInv
<1>1. lexemas \in Seq(Lexema)
  OBVIOUS
<1>2. n \in Nat
  BY <1>1, LongitudNat
<1>3. /\ posCursor = 0
      /\ pila = <<[stop |-> n, fin |-> 0, duenno |-> 0]>>
      /\ bloques = << >>
      /\ estado = "analizando"
  BY DEF Comienzo
<1>4. numTokens \in Nat
  OBVIOUS
<1>5. Len(pila) = 1 /\ pila[1] = [stop |-> n, fin |-> 0, duenno |-> 0]
  BY <1>3
<1>6. Len(bloques) = 0 /\ DOMAIN bloques = {} /\ bloques \in Seq(Bloque)
  BY <1>3
<1>7. pila \in Seq(Marco) /\ pila # << >>
  <2>1. [stop |-> n, fin |-> 0, duenno |-> 0] \in Marco
    BY <1>2 DEF Marco
  <2> QED
    BY <1>3, <2>1
<1>8. TypeOK
  BY <1>1, <1>2, <1>3, <1>4, <1>6, <1>7 DEF TypeOK
<1>9. Marcos
  BY <1>5 DEF Marcos
<1>10. BloquesBien /\ Orden /\ Disjuntos /\ Anidados
  BY <1>6 DEF BloquesBien, Orden, Disjuntos, Anidados
<1>11. Cobertura
  BY <1>3 DEF Cobertura
<1> QED
  BY <1>8, <1>9, <1>10, <1>11 DEF IInv

LEMMA InicioCumple ==
  ASSUME Init
  PROVE  IInv
<1>1. lexemas \in Seq(Lexema)
  BY EntradasAssumption DEF Init
<1>2. n \in Nat
  BY <1>1, LongitudNat
<1>3. 0..(n - 1) \in SUBSET Nat /\ IsFiniteSet(0..(n - 1))
  BY <1>2, FS_Interval
<1>4. Cardinality({i \in 0..(n - 1) : Tipo(i) = "Variable"}) \in Nat
  BY <1>3, FS_Subset, FS_CardinalityType
<1>5. numTokens \in Nat
  BY <1>4, TokensPreviosAssumption DEF Init, CantidadTokens
<1> QED
  BY <1>1, <1>5, ComienzoCumple DEF Init

(* The invariant holds in every state of every analysis. *)
THEOREM InvarianteDelAnalisis == Spec => []IInv
<1>1. Init => IInv
  BY InicioCumple
<1>2. IInv /\ [Next]_vars => IInv'
  <2> SUFFICES ASSUME IInv, [Next]_vars PROVE IInv'
    OBVIOUS
  <2>1. CASE Next
    BY <2>1, PasoPreserva
  <2>2. CASE UNCHANGED vars
    <3>1. estado' \in {"analizando", "listo", "excepcion"}
      BY <2>2 DEF IInv, TypeOK, vars
    <3> QED
      BY <2>2, <3>1, SoloEstadoPreserva DEF vars
  <2> QED
    BY <2>1, <2>2
<1> QED
  BY <1>1, <1>2, PTL DEF Spec

(* The parser's variables keep their types: the cursor stays within the    *)
(* list, whatever the text.                                                *)
THEOREM AnalisisBienTipado == Spec => []TypeOK
<1>1. IInv => TypeOK
  BY DEF IInv
<1> QED
  BY <1>1, InvarianteDelAnalisis, PTL

(* Inner blocks lie strictly inside their parent, even when a header or a  *)
(* failed construct reads past the brace that ends the parent.             *)
THEOREM BloquesAnidados == Spec => []Anidados
<1>1. IInv => Anidados
  BY DEF IInv
<1> QED
  BY <1>1, InvarianteDelAnalisis, PTL

(* The tree the window draws, found by start positions, is the tree the    *)
(* analyser built.                                                         *)
THEOREM ArbolDibujadoFiel == Spec => []ArbolFiel
<1>1. IInv => ArbolFiel
  <2> SUFFICES ASSUME IInv, NEW b \in DOMAIN bloques, bloques[b].lex # {}
               PROVE  NodosHijos(b)
                        = {c \in DOMAIN bloques : bloques[c].padre = b}
    BY DEF ArbolFiel
  <2>1. Len(bloques) \in Nat /\ DOMAIN bloques = 1..Len(bloques)
    BY DEF IInv, TypeOK
  <2>2. \A c \in DOMAIN bloques :
          bloques[c].padre = b =>
            /\ bloques[c].padre # 0
            /\ bloques[bloques[c].padre].incia = bloques[b].incia
    BY <2>1
  <2>3. ASSUME NEW c \in DOMAIN bloques, bloques[c].padre # 0,
               bloques[bloques[c].padre].incia = bloques[b].incia
        PROVE  bloques[c].padre = b
    <3> DEFINE q == bloques[c].padre
    <3>1. q \in 0..(c - 1) /\ bloques[q].lex # {}
      BY <2>1, <2>3 DEF IInv, BloquesBien
    <3>2. q \in 1..Len(bloques) /\ b \in 1..Len(bloques) /\ c \in Nat
      BY <2>1, <2>3, <3>1
    <3>3. bloques[q].incia \in Nat /\ bloques[b].incia \in Nat
      BY <3>2, InicioNatural DEF IInv
    <3>4. bloques[q].incia = bloques[b].incia
      BY <2>3
    <3> HIDE DEF q
    <3>5. ~ (q < b) /\ ~ (b < q)
      BY <3>1, <3>2, <3>3, <3>4 DEF IInv, Orden
    <3>6. q = b
      BY <3>2, <3>5
    <3> QED
      BY <3>6 DEF q
  <2> QED
    BY <2>2, <2>3 DEF NodosHijos
<1> QED
  BY <1>1, InvarianteDelAnalisis, PTL

(* No lexeme the cursor has passed is lost or counted twice, but for those *)
(* of a sentence that carries an error.                                    *)
THEOREM NingunLexemaSePierde == Spec => []LexemaUnaVez
<1>1. IInv => LexemaUnaVez
  <2> SUFFICES ASSUME IInv PROVE LexemaUnaVez
    OBVIOUS
  <2>1. /\ Len(bloques) \in Nat /\ DOMAIN bloques = 1..Len(bloques)
        /\ posCursor \in Nat
    BY MarcoActual DEF IInv, TypeOK
  <2>2. ASSUME NEW b \in DOMAIN bloques
        PROVE  bloques[b].lex \subseteq 0..(posCursor - 1)
    <3>1. /\ bloques[b].lex \subseteq bloques[b].incia..(posCursor - 1)
      BY <2>1 DEF IInv, BloquesBien
    <3>2. bloques[b].incia \in Nat
      BY <2>1, InicioNatural DEF IInv
    <3>3. bloques[b].incia..(posCursor - 1) \subseteq 0..(posCursor - 1)
      BY <2>1, <3>2
    <3> QED
      BY <3>1, <3>3
  <2>3. ASSUME NEW i \in 0..(posCursor - 1)
        PROVE  LET en == {b \in DOMAIN bloques : i \in bloques[b].lex}
               IN  \/ Cardinality(en) = 1
                   \/ /\ en = {}
                      /\ \E b \in DOMAIN bloques :
                           /\ bloques[b].error
                           /\ i \in bloques[b].incia..bloques[b].finaliza
    <3> DEFINE en == {b \in DOMAIN bloques : i \in bloques[b].lex}
    <3>1. CASE en = {}
      BY <2>1, <3>1 DEF IInv, Cobertura
    <3>2. CASE en # {}
      <4>1. PICK b \in DOMAIN bloques : i \in bloques[b].lex
        BY <3>2
      <4>2. \A x \in DOMAIN bloques : i \in bloques[x].lex => x = b
        BY <2>1, <4>1 DEF IInv, Disjuntos
      <4>3. en = {b}
        BY <4>1, <4>2
      <4> QED
        BY <4>3, FS_Singleton
    <3> QED
      BY <3>1, <3>2
  <2> QED
    BY <2>2, <2>3 DEF LexemaUnaVez
<1> QED
  BY <1>1, InvarianteDelAnalisis, PTL

(* The analysis moves forward or returns, except where it stands for ever  *)
(* on a lexeme that no handler takes.                                      *)
THEOREM ElAnalisisAvanza == Spec => AvanzaORegresa
<1>1. IInv /\ [Next]_vars => [Avanza]_vars
  <2> SUFFICES ASSUME IInv, [Next]_vars PROVE vars' = vars \/ Avanza
    OBVIOUS
  <2> QED
    BY PasoPreserva
<1>2. Spec => [][Avanza]_vars
  BY <1>1, InvarianteDelAnalisis, PTL DEF Spec
<1> QED
  BY <1>2 DEF AvanzaORegresa, Avanza

-----------------------------------------------------------------------------
(* Lists that are read alike.  The window analyses the same list a second  *)
(* time after the semantic analysis has written into it.  An analysis asks *)
(* for the kinds of the lexemes and for some texts only, so that two lists *)
(* that agree on them are analysed by the same steps (PasoDetermina), and  *)
(* the second analysis passes through the states of the first one.         *)

(* The analysis of another list, L, with a table of k tokens. *)
De(L, k) == INSTANCE AnalizadorSintactico
              WITH lexemas <- L, numTokens <- k, posCursor <- 0, pila <- << >>,
                   bloques <- << >>, estado <- "listo"

(* The list under analysis and L have the same kinds and, where it matters *)
(* to the analysis, the same texts.  Semicolons have a kind of their own.  *)
Concuerdan(L) ==
  /\ n \in Nat /\ Len(L) = n
  /\ \A i \in 1..n :
       /\ L[i].tipo = lexemas[i].tipo
       /\ lexemas[i].texto = ";" => lexemas[i].tipo = "OperadorTerminador"
       /\ L[i].texto # lexemas[i].texto =>
            /\ L[i].texto \notin TextosLeidos /\ lexemas[i].texto \notin TextosLeidos
            /\ \A j \in 1..n : lexemas[j].tipo = "Variable" =>
                 lexemas[j].texto # L[i].texto /\ lexemas[j].texto # lexemas[i].texto

(* Both have a length. *)
LEMMA LongitudConcuerda == ASSUME NEW L, Concuerdan(L) PROVE n \in Nat
  BY Zenon DEF Concuerdan

(* The kinds agree, and so does every question for a text that is asked. *)
LEMMA LexemasIguales ==
  ASSUME NEW L, Concuerdan(L)
  PROVE  /\ De(L, numTokens)!n = n
         /\ \A i \in 0..(n - 1) : De(L, numTokens)!Tipo(i) = Tipo(i)
         /\ \A i \in 0..(n - 1) : \A t \in TextosLeidos :
              (De(L, numTokens)!Texto(i) = t) <=> (Texto(i) = t)
<1>1. De(L, numTokens)!n = n
  BY Zenon DEF Concuerdan, De!n
<1>2. \A i \in 0..(n - 1) : i + 1 \in 1..n
  BY LongitudConcuerda
<1>3. ASSUME NEW i \in 0..(n - 1) PROVE De(L, numTokens)!Tipo(i) = Tipo(i)
  BY <1>2, Zenon DEF Concuerdan, De!Tipo, Tipo
<1>4. ASSUME NEW i \in 0..(n - 1), NEW t \in TextosLeidos
      PROVE  (De(L, numTokens)!Texto(i) = t) <=> (Texto(i) = t)
  BY <1>2, Zenon DEF Concuerdan, De!Texto, Texto
<1> QED
  BY <1>1, <1>3, <1>4

(* A lexeme that reads ; has the kind of one. *)
LEMMA PuntosYComas ==
  ASSUME NEW L, Concuerdan(L)
  PROVE  \A i \in 0..(n - 1) : Texto(i) = ";" => Tipo(i) = "OperadorTerminador"
<1>1. \A i \in 0..(n - 1) : i + 1 \in 1..n
  BY LongitudConcuerda
<1> QED
  BY <1>1, Zenon DEF Concuerdan, Tipo, Texto

(* The searches find the same positions. *)
LEMMA MinimoIgual == \A L, S : De(L, numTokens)!MinimoO(S) = MinimoO(S)
  BY DEF MinimoO, De!MinimoO, Min, De!Min

(* The next semicolon is the same. *)
LEMMA PuntoComaIgual ==
  ASSUME NEW L, Concuerdan(L), NEW i \in Nat
  PROVE  De(L, numTokens)!IndicePuntoComa(i) = IndicePuntoComa(i)
<1>1. i..(n - 1) \subseteq 0..(n - 1)
  BY LongitudConcuerda
<1>2. ";" \in TextosLeidos
  BY Zenon DEF TextosLeidos
<1>3. {j \in i..(De(L, numTokens)!n - 1) : De(L, numTokens)!Texto(j) = ";"}
        = {j \in i..(n - 1) : Texto(j) = ";"}
  BY <1>1, <1>2, LexemasIguales, Zenon
<1> QED
  BY <1>3, MinimoIgual, Zenon DEF IndicePuntoComa, De!IndicePuntoComa

(* A text that is known is counted as often. *)
LEMMA CuentaIgual ==
  ASSUME NEW L, Concuerdan(L), NEW i \in Nat, NEW j \in 0..n, NEW t \in TextosLeidos
  PROVE  De(L, numTokens)!Cuenta(i, j, t) = Cuenta(i, j, t)
<1>1. i..(j - 1) \subseteq 0..(n - 1)
  BY LongitudConcuerda
<1>2. {k \in i..(j - 1) : De(L, numTokens)!Texto(k) = t} = {k \in i..(j - 1) : Texto(k) = t}
  BY <1>1, LexemasIguales, Zenon
<1> QED
  BY <1>2, Zenon DEF Cuenta, De!Cuenta, Cardinality, De!Cardinality

(* A delimiter that is opened is closed at the same place. *)
LEMMA BalanceIgual ==
  ASSUME NEW L, Concuerdan(L), NEW i \in Nat, NEW a \in TextosLeidos, NEW c \in TextosLeidos
  PROVE  De(L, numTokens)!IndiceBalance(i, a, c) = IndiceBalance(i, a, c)
<1>1. i..(n - 1) \subseteq 0..(n - 1) /\ i..(n - 1) \subseteq 0..n
  BY LongitudConcuerda
<1> DEFINE P(j) == Texto(j) = c /\ Cuenta(i, j, a) = Cuenta(i, j, c)
           Q(j) == /\ De(L, numTokens)!Texto(j) = c
                   /\ De(L, numTokens)!Cuenta(i, j, a) = De(L, numTokens)!Cuenta(i, j, c)
<1>2. ASSUME NEW j \in i..(n - 1) PROVE Q(j) <=> P(j)
  <2>1. (De(L, numTokens)!Texto(j) = c) <=> (Texto(j) = c)
    BY <1>1, LexemasIguales, Zenon
  <2>2. /\ De(L, numTokens)!Cuenta(i, j, a) = Cuenta(i, j, a)
        /\ De(L, numTokens)!Cuenta(i, j, c) = Cuenta(i, j, c)
    BY <1>1, CuentaIgual, Zenon
  <2> QED
    BY <2>1, <2>2
<1>3. De(L, numTokens)!IndiceBalance(i, a, c) = MinimoO({j \in i..(n - 1) : Q(j)})
  BY LexemasIguales, MinimoIgual, Zenon DEF De!IndiceBalance
<1>4. IndiceBalance(i, a, c) = MinimoO({j \in i..(n - 1) : P(j)})
  BY Zenon DEF IndiceBalance
<1> HIDE DEF P, Q
<1>5. {j \in i..(n - 1) : Q(j)} = {j \in i..(n - 1) : P(j)}
  BY <1>2
<1> QED
  BY <1>3, <1>4, <1>5, Zenon

(* The delimiters and the words of the constructs are texts it knows. *)
LEMMA ParentesisLeidos == "(" \in TextosLeidos /\ ")" \in TextosLeidos
  BY Zenon DEF TextosLeidos

LEMMA LlavesLeidas == "{" \in TextosLeidos /\ "}" \in TextosLeidos
  BY Zenon DEF TextosLeidos

LEMMA PalabrasLeidas ==
  /\ "while" \in TextosLeidos /\ "return" \in TextosLeidos /\ "for" \in TextosLeidos
  /\ "do" \in TextosLeidos /\ "if" \in TextosLeidos /\ "else" \in TextosLeidos
  BY Zenon DEF TextosLeidos

(* What a handler returns is made of positions, whatever the list. *)
LEMMA ExcepcionIgual == \A L : De(L, numTokens)!Excepcion = Excepcion
  BY DEF Excepcion, De!Excepcion

(* A failure skips the same lexemes. *)
LEMMA DrenarIgual ==
  ASSUME NEW L, Concuerdan(L)
  PROVE  \A c, fin : De(L, numTokens)!Drenar(c, fin) = Drenar(c, fin)
<1>1. De(L, numTokens)!n = n
  BY LexemasIguales
<1> QED
  BY <1>1 DEF Drenar, De!Drenar, FinEfectivo, De!FinEfectivo, Max, De!Max

(* It records the same block. *)
LEMMA FallaIgual ==
  ASSUME NEW L, Concuerdan(L)
  PROVE  \A tipo, p, c, fin : De(L, numTokens)!Falla(tipo, p, c, fin) = Falla(tipo, p, c, fin)
<1> SUFFICES ASSUME NEW tipo, NEW p, NEW c, NEW fin
             PROVE  De(L, numTokens)!Falla(tipo, p, c, fin) = Falla(tipo, p, c, fin)
  OBVIOUS
<1>1. De(L, numTokens)!Drenar(c, fin) = Drenar(c, fin)
  BY DrenarIgual
<1> QED
  BY <1>1, Zenon
     DEF Falla, De!Falla, NuevoBloque, De!NuevoBloque, Cerrado, De!Cerrado

LEMMA BloqueErrorIgual ==
  ASSUME NEW L, Concuerdan(L)
  PROVE  \A p, fin : De(L, numTokens)!BloqueError(p, fin) = BloqueError(p, fin)
  BY FallaIgual DEF BloqueError, De!BloqueError

(* Braces and parentheses balance alike. *)
LEMMA LlavesIguales ==
  ASSUME NEW L, Concuerdan(L), NEW c \in Nat
  PROVE  De(L, numTokens)!IndiceBalance(c, "{", "}") = IndiceBalance(c, "{", "}")
  BY LlavesLeidas, BalanceIgual, Zenon

LEMMA ParentesisIguales ==
  ASSUME NEW L, Concuerdan(L), NEW c \in Nat
  PROVE  De(L, numTokens)!IndiceBalance(c, "(", ")") = IndiceBalance(c, "(", ")")
  BY ParentesisLeidos, BalanceIgual, Zenon

(* A body is opened alike. *)
LEMMA CuerpoIgual ==
  ASSUME NEW L, Concuerdan(L), NEW p, NEW c \in Nat, NEW fin
  PROVE  De(L, numTokens)!Cuerpo(p, c, fin) = Cuerpo(p, c, fin)
<1>1. De(L, numTokens)!IndiceBalance(c, "{", "}") = IndiceBalance(c, "{", "}")
  BY LlavesLeidas, BalanceIgual, Zenon
<1>2. De(L, numTokens)!Falla("Estructura", p, c, fin) = Falla("Estructura", p, c, fin)
  <2>1. \A tipo, q, d, f : De(L, numTokens)!Falla(tipo, q, d, f) = Falla(tipo, q, d, f)
    BY FallaIgual
  <2> QED
    BY <2>1, Zenon
<1> QED
  BY <1>1, <1>2, Zenon
     DEF Cuerpo, De!Cuerpo, NuevoBloque, De!NuevoBloque, Abierto, De!Abierto

(* The rules at a lexeme that is not the last one. *)
LEMMA ReglasIguales ==
  ASSUME NEW L, Concuerdan(L), NEW i \in 0..(n - 2)
  PROVE  /\ De(L, numTokens)!RechazaVariable(i) <=> RechazaVariable(i)
         /\ De(L, numTokens)!RechazaTipoVar(i) <=> RechazaTipoVar(i)
         /\ De(L, numTokens)!TipoVarDesborda(i) <=> TipoVarDesborda(i)
         /\ De(L, numTokens)!RechazaAsignacion(i) <=> RechazaAsignacion(i)
<1>1. i \in 0..(n - 1) /\ i + 1 \in 0..(n - 1) /\ i + 1 \in Nat
  BY LongitudConcuerda
<1>2. De(L, numTokens)!Tipo(i) = Tipo(i) /\ De(L, numTokens)!Tipo(i + 1) = Tipo(i + 1)
  BY <1>1, LexemasIguales
<1>3. (De(L, numTokens)!Texto(i + 1) = "[") <=> (Texto(i + 1) = "[")
  BY <1>1, LexemasIguales, Zenon DEF TextosLeidos
<1>4. De(L, numTokens)!IndicePuntoComa(i + 1) = IndicePuntoComa(i + 1)
  BY <1>1, PuntoComaIgual
<1> QED
  BY <1>2, <1>3, <1>4
     DEF RechazaVariable, De!RechazaVariable, RechazaTipoVar, De!RechazaTipoVar,
         TipoVarDesborda, De!TipoVarDesborda, RechazaAsignacion, De!RechazaAsignacion

(* The rules of a statement find the same errors. *)
LEMMA BuscarErrorIgual ==
  ASSUME NEW L, Concuerdan(L), NEW i \in 0..(n - 1),
         i + 1 < n \/ Tipo(i) = "OperadorTerminador",
         i > 0 \/ Tipo(i) # "OperadorAritmetico"
  PROVE  De(L, numTokens)!BuscarError(i) <=> BuscarError(i)
<1>0. n \in Nat
  BY LongitudConcuerda
<1>1. De(L, numTokens)!Tipo(i) = Tipo(i)
  BY LexemasIguales
<1>2. CASE Tipo(i) = "OperadorTerminador"
  BY <1>1, <1>2 DEF BuscarError, De!BuscarError,
         RechazaVariable, De!RechazaVariable, RechazaTipoVar, De!RechazaTipoVar,
         RechazaAsignacion, De!RechazaAsignacion,
         RechazaOperadorAritmetico, De!RechazaOperadorAritmetico
<1>3. CASE Tipo(i) # "OperadorTerminador"
  <2>1. i \in 0..(n - 2) /\ i + 1 \in 0..(n - 1)
    BY <1>0, <1>3
  <2>2. De(L, numTokens)!RechazaOperadorAritmetico(i) <=> RechazaOperadorAritmetico(i)
    <3>1. CASE Tipo(i) # "OperadorAritmetico"
      BY <1>1, <3>1 DEF RechazaOperadorAritmetico, De!RechazaOperadorAritmetico
    <3>2. CASE Tipo(i) = "OperadorAritmetico"
      <4>1. \A j \in {i - 1, i + 1} : j \in 0..(n - 1)
        BY <1>0, <2>1, <3>2
      <4>2. \A j \in {i - 1, i + 1} : De(L, numTokens)!Tipo(j) = Tipo(j)
        BY <4>1, LexemasIguales
      <4> QED
        BY <1>1, <4>2 DEF RechazaOperadorAritmetico, De!RechazaOperadorAritmetico
    <3> QED
      BY <3>1, <3>2
  <2> QED
    BY <2>1, <2>2, ReglasIguales DEF BuscarError, De!BuscarError
<1> QED
  BY <1>2, <1>3

(* A semicolon that is found is a terminator. *)
LEMMA PuntoComaTermina ==
  ASSUME NEW L, Concuerdan(L), NEW i \in Nat
  PROVE  IndicePuntoComa(i) # -1 => Tipo(IndicePuntoComa(i)) = "OperadorTerminador"
<1> DEFINE S == {j \in i..(n - 1) : Texto(j) = ";"}
<1>1. i..(n - 1) \subseteq 0..(n - 1) /\ 0..(n - 1) \subseteq Nat
  BY LongitudConcuerda
<1>2. \A j \in S : Tipo(j) = "OperadorTerminador"
  BY <1>1, PuntosYComas, Zenon
<1>3. S \in SUBSET Nat
  BY <1>1, Zenon
<1>4. IndicePuntoComa(i) = MinimoO(S)
  BY Zenon DEF IndicePuntoComa
<1> HIDE DEF S
<1>5. S = {} => MinimoO(S) = -1
  BY DEF MinimoO
<1> QED
  BY <1>2, <1>3, <1>4, <1>5, MinimoEnConjunto

(* Its semicolon is judged alike. *)
LEMMA PuntoComaCorrectoIgual ==
  ASSUME NEW L, Concuerdan(L), NEW i \in Nat, NEW j \in 0..n
  PROVE  De(L, numTokens)!PuntoComaCorrecto(i, j) <=> PuntoComaCorrecto(i, j)
<1>1. i..(j - 1) \subseteq 0..(n - 1)
  BY LongitudConcuerda
<1>2. \A t : {k \in i..(j - 1) : De(L, numTokens)!Tipo(k) = t} = {k \in i..(j - 1) : Tipo(k) = t}
  BY <1>1, LexemasIguales, Zenon
<1> QED
  BY <1>2, Zenon DEF PuntoComaCorrecto, De!PuntoComaCorrecto, Cardinality, De!Cardinality

(* A statement is read alike. *)
LEMMA SentenciaIgual ==
  ASSUME NEW L, Concuerdan(L), NEW p \in 0..(n - 1), Tipo(p) # "OperadorAritmetico", NEW fin
  PROVE  De(L, numTokens)!AnalizarSentencia(p, fin) = AnalizarSentencia(p, fin)
<1> DEFINE pc == IndicePuntoComa(p)
<1>1. n \in Nat /\ p \in Nat
  BY LongitudConcuerda
<1>2. De(L, numTokens)!IndicePuntoComa(p) = pc
  BY <1>1, PuntoComaIgual
<1>3. pc # -1 => pc \in p..(n - 1) /\ Tipo(pc) = "OperadorTerminador"
  <2>1. pc = -1 \/ pc \in p..(n - 1)
    BY <1>1, RangoPuntoComa
  <2>2. pc # -1 => Tipo(pc) = "OperadorTerminador"
    BY <1>1, PuntoComaTermina
  <2> QED
    BY <2>1, <2>2
<1> HIDE DEF pc
<1>4. pc # -1 =>
        /\ De(L, numTokens)!PuntoComaCorrecto(p, pc) <=> PuntoComaCorrecto(p, pc)
        /\ De(L, numTokens)!DelimitadoresBalanceados(p, pc) <=> DelimitadoresBalanceados(p, pc)
        /\ {i \in p..pc : De(L, numTokens)!BuscarError(i)} = {i \in p..pc : BuscarError(i)}
        /\ (\E i \in p..(pc - 1) : De(L, numTokens)!TipoVarDesborda(i))
             <=> (\E i \in p..(pc - 1) : TipoVarDesborda(i))
  <2> SUFFICES ASSUME pc # -1
               PROVE  /\ De(L, numTokens)!PuntoComaCorrecto(p, pc) <=> PuntoComaCorrecto(p, pc)
                      /\ De(L, numTokens)!DelimitadoresBalanceados(p, pc)
                           <=> DelimitadoresBalanceados(p, pc)
                      /\ {i \in p..pc : De(L, numTokens)!BuscarError(i)}
                           = {i \in p..pc : BuscarError(i)}
                      /\ (\E i \in p..(pc - 1) : De(L, numTokens)!TipoVarDesborda(i))
                           <=> (\E i \in p..(pc - 1) : TipoVarDesborda(i))
    OBVIOUS
  <2>1. pc \in p..(n - 1) /\ pc \in 0..n /\ Tipo(pc) = "OperadorTerminador"
    BY <1>1, <1>3
  <2>2. De(L, numTokens)!PuntoComaCorrecto(p, pc) <=> PuntoComaCorrecto(p, pc)
    BY <1>1, <2>1, PuntoComaCorrectoIgual
  <2>3. De(L, numTokens)!DelimitadoresBalanceados(p, pc) <=> DelimitadoresBalanceados(p, pc)
    <3>1. \A t \in TextosLeidos : De(L, numTokens)!Cuenta(p, pc, t) = Cuenta(p, pc, t)
      BY <1>1, <2>1, CuentaIgual
    <3> QED
      BY <3>1, ParentesisLeidos, Zenon DEF DelimitadoresBalanceados, De!DelimitadoresBalanceados
  <2>4. ASSUME NEW i \in p..(pc - 1)
        PROVE  De(L, numTokens)!TipoVarDesborda(i) <=> TipoVarDesborda(i)
    <3>1. i \in 0..(n - 2)
      BY <1>1, <2>1
    <3> QED
      BY <3>1, ReglasIguales
  <2>5. ASSUME NEW i \in p..pc
        PROVE  De(L, numTokens)!BuscarError(i) <=> BuscarError(i)
    <3>1. /\ i \in 0..(n - 1) /\ (i + 1 < n \/ Tipo(i) = "OperadorTerminador")
          /\ (i > 0 \/ Tipo(i) # "OperadorAritmetico")
      BY <1>1, <2>1
    <3> QED
      BY <3>1, BuscarErrorIgual
  <2>6. {i \in p..pc : De(L, numTokens)!BuscarError(i)} = {i \in p..pc : BuscarError(i)}
    BY <2>5
  <2>7. (\E i \in p..(pc - 1) : De(L, numTokens)!TipoVarDesborda(i))
          <=> (\E i \in p..(pc - 1) : TipoVarDesborda(i))
    BY <2>4
  <2> QED
    BY <2>2, <2>3, <2>6, <2>7
<1>6. De(L, numTokens)!Drenar(p, fin) = Drenar(p, fin)
  BY DrenarIgual
<1>7. De(L, numTokens)!Excepcion = Excepcion
  BY ExcepcionIgual
<1>8. De(L, numTokens)!BloqueError(p, fin) = BloqueError(p, fin)
  BY BloqueErrorIgual
<1> DEFINE hasta == Drenar(p, fin)
           rechazados == {i \in p..pc : BuscarError(i)}
<1>9. CASE pc = -1
  <2>1. AnalizarSentencia(p, fin)
          = Cerrado(NuevoBloque("Sentencia", TRUE, p, hasta - 1, p..(hasta - 1)), hasta)
    BY <1>9, Zenon DEF AnalizarSentencia, pc
  <2>2. De(L, numTokens)!AnalizarSentencia(p, fin)
          = De(L, numTokens)!Cerrado(De(L, numTokens)!NuevoBloque(
              "Sentencia", TRUE, p, hasta - 1, p..(hasta - 1)), hasta)
    BY <1>2, <1>6, <1>9, Zenon DEF De!AnalizarSentencia
  <2> QED
    BY <2>1, <2>2, Zenon DEF NuevoBloque, De!NuevoBloque, Cerrado, De!Cerrado
<1>10. CASE pc # -1
  <2>1. /\ De(L, numTokens)!PuntoComaCorrecto(p, pc) <=> PuntoComaCorrecto(p, pc)
        /\ De(L, numTokens)!DelimitadoresBalanceados(p, pc) <=> DelimitadoresBalanceados(p, pc)
        /\ {i \in p..pc : De(L, numTokens)!BuscarError(i)} = rechazados
        /\ (\E i \in p..(pc - 1) : De(L, numTokens)!TipoVarDesborda(i))
             <=> (\E i \in p..(pc - 1) : TipoVarDesborda(i))
    BY <1>4, <1>10
  <2> HIDE DEF rechazados
  <2>2. CASE ~ PuntoComaCorrecto(p, pc)
    BY <1>2, <1>6, <1>10, <2>1, <2>2, Zenon
       DEF AnalizarSentencia, De!AnalizarSentencia, pc, NuevoBloque, De!NuevoBloque,
           Cerrado, De!Cerrado
  <2>3. CASE PuntoComaCorrecto(p, pc) /\ ~ DelimitadoresBalanceados(p, pc)
    BY <1>2, <1>8, <1>10, <2>1, <2>3, Zenon
       DEF AnalizarSentencia, De!AnalizarSentencia, pc
  <2>4. CASE /\ PuntoComaCorrecto(p, pc) /\ DelimitadoresBalanceados(p, pc)
             /\ \E i \in p..(pc - 1) : TipoVarDesborda(i)
    BY <1>2, <1>7, <1>10, <2>1, <2>4, Zenon
       DEF AnalizarSentencia, De!AnalizarSentencia, pc
  <2>5. CASE /\ PuntoComaCorrecto(p, pc) /\ DelimitadoresBalanceados(p, pc)
             /\ ~ \E i \in p..(pc - 1) : TipoVarDesborda(i)
    <3>1. AnalizarSentencia(p, fin)
            = Cerrado(NuevoBloque("Sentencia", rechazados # {}, p, pc, (p..pc) \ rechazados),
                      pc + 1)
      BY <1>10, <2>5, Zenon DEF AnalizarSentencia, pc, rechazados
    <3>2. De(L, numTokens)!AnalizarSentencia(p, fin)
            = De(L, numTokens)!Cerrado(De(L, numTokens)!NuevoBloque(
                "Sentencia", rechazados # {}, p, pc, (p..pc) \ rechazados), pc + 1)
      BY <1>2, <1>10, <2>1, <2>5, Zenon DEF De!AnalizarSentencia
    <3> QED
      BY <3>1, <3>2, Zenon DEF NuevoBloque, De!NuevoBloque, Cerrado, De!Cerrado
  <2> QED
    BY <2>2, <2>3, <2>4, <2>5
<1> QED
  BY <1>9, <1>10

(* The header of a function is read alike. *)
LEMMA BloqueFuncionIgual ==
  ASSUME NEW L, Concuerdan(L), NEW p, NEW parentesis \in Nat
  PROVE  De(L, numTokens)!AnalizarBloqueFuncion(p, parentesis)
           = AnalizarBloqueFuncion(p, parentesis)
<1>1. parentesis + 2 \in Nat
  OBVIOUS
<1>2. De(L, numTokens)!IndiceBalance(parentesis + 2, "{", "}")
        = IndiceBalance(parentesis + 2, "{", "}")
  BY <1>1, LlavesLeidas, BalanceIgual, Zenon
<1> QED
  BY <1>2, Zenon
     DEF AnalizarBloqueFuncion, De!AnalizarBloqueFuncion, NuevoBloque, De!NuevoBloque,
         Cerrado, De!Cerrado, Abierto, De!Abierto

(* A declaration is read alike. *)
LEMMA TipoVariableIgual ==
  ASSUME NEW L, Concuerdan(L), NEW p \in 0..(n - 1), Tipo(p) # "OperadorAritmetico", NEW fin
  PROVE  De(L, numTokens)!ProcesarTipoVariable(p, fin) = ProcesarTipoVariable(p, fin)
<1> DEFINE par == IndiceBalance(p + 3, "(", ")")
<1>1. n \in Nat /\ p + 3 \in Nat /\ p + 2 \in Nat
  BY LongitudConcuerda
<1>2. De(L, numTokens)!n = n
  BY LexemasIguales
<1>3. p + 2 < n - 1 => ((De(L, numTokens)!Texto(p + 2) = "(") <=> (Texto(p + 2) = "("))
  <2>1. p + 2 < n - 1 => p + 2 \in 0..(n - 1)
    BY <1>1
  <2> QED
    BY <2>1, ParentesisLeidos, LexemasIguales, Zenon
<1>4. De(L, numTokens)!IndiceBalance(p + 3, "(", ")") = par
  BY <1>1, ParentesisLeidos, BalanceIgual, Zenon
<1>5. par = -1 \/ par \in (p + 3)..(n - 1)
  BY <1>1, RangoBalance
<1>6. /\ De(L, numTokens)!BloqueError(p, fin) = BloqueError(p, fin)
      /\ De(L, numTokens)!Excepcion = Excepcion
      /\ De(L, numTokens)!AnalizarSentencia(p, fin) = AnalizarSentencia(p, fin)
  BY BloqueErrorIgual, ExcepcionIgual, SentenciaIgual
<1> HIDE DEF par
<1>7. par # -1 /\ ~ (par + 1 >= n) =>
        /\ par \in Nat /\ par + 1 \in 0..(n - 1)
  BY <1>1, <1>5
<1>8. CASE ~ (p + 2 < n - 1 /\ Texto(p + 2) = "(")
  BY <1>2, <1>3, <1>6, <1>8, Zenon DEF ProcesarTipoVariable, De!ProcesarTipoVariable
<1>9. CASE p + 2 < n - 1 /\ Texto(p + 2) = "(" /\ (par = -1 \/ par + 1 >= n)
  BY <1>2, <1>3, <1>4, <1>6, <1>9, Zenon
     DEF ProcesarTipoVariable, De!ProcesarTipoVariable, par
<1>10. CASE p + 2 < n - 1 /\ Texto(p + 2) = "(" /\ par # -1 /\ ~ (par + 1 >= n)
  <2>1. par \in Nat /\ par + 1 \in 0..(n - 1)
    BY <1>7, <1>10
  <2>2. De(L, numTokens)!AnalizarBloqueFuncion(p, par) = AnalizarBloqueFuncion(p, par)
    BY <2>1, BloqueFuncionIgual
  <2>3. (De(L, numTokens)!Texto(par + 1) = "{") <=> (Texto(par + 1) = "{")
    BY <2>1, LlavesLeidas, LexemasIguales, Zenon
  <2>4. De(L, numTokens)!Tipo(par + 1) = Tipo(par + 1)
    BY <2>1, LexemasIguales, Zenon
  <2> QED
    BY <1>2, <1>3, <1>4, <1>6, <1>10, <2>2, <2>3, <2>4, Zenon
       DEF ProcesarTipoVariable, De!ProcesarTipoVariable, par
<1> QED
  BY <1>8, <1>9, <1>10

(* What starts with a type is read alike. *)
LEMMA TipoDatoIgual ==
  ASSUME NEW L, Concuerdan(L), NEW p \in 0..(n - 1), Tipo(p) # "OperadorAritmetico", NEW fin
  PROVE  De(L, numTokens)!ProcesarTipoDato(p, fin) = ProcesarTipoDato(p, fin)
<1>1. n \in Nat
  BY LongitudConcuerda
<1>2. De(L, numTokens)!n = n
  BY LexemasIguales
<1>3. ~ (p + 1 >= n) => De(L, numTokens)!Tipo(p + 1) = Tipo(p + 1)
  <2>1. ~ (p + 1 >= n) => p + 1 \in 0..(n - 1)
    BY <1>1
  <2> QED
    BY <2>1, LexemasIguales
<1> QED
  BY <1>2, <1>3, ExcepcionIgual, TipoVariableIgual, BloqueErrorIgual
     DEF ProcesarTipoDato, De!ProcesarTipoDato

(* What starts with a variable is read alike. *)
LEMMA VariableIgual ==
  ASSUME NEW L, Concuerdan(L), NEW p \in 0..(n - 1), Tipo(p) # "OperadorAritmetico", NEW fin
  PROVE  De(L, numTokens)!ProcesarVariable(p, fin) = ProcesarVariable(p, fin)
<1>1. n \in Nat
  BY LongitudConcuerda
<1>2. De(L, numTokens)!n = n
  BY LexemasIguales
<1> DEFINE S == {"=", "++", "--", "+=", "-=", "*=", "/="}
<1>3. S \subseteq TextosLeidos
  BY Zenon DEF TextosLeidos
<1> HIDE DEF S
<1>4. ~ (p + 1 >= n) =>
        ((De(L, numTokens)!Texto(p + 1) \in S) <=> (Texto(p + 1) \in S))
  <2>1. ~ (p + 1 >= n) => p + 1 \in 0..(n - 1)
    BY <1>1
  <2> QED
    BY <1>3, <2>1, LexemasIguales, Zenon
<1>5. /\ De(L, numTokens)!BloqueError(p, fin) = BloqueError(p, fin)
      /\ De(L, numTokens)!Excepcion = Excepcion
      /\ De(L, numTokens)!AnalizarSentencia(p, fin) = AnalizarSentencia(p, fin)
  BY BloqueErrorIgual, ExcepcionIgual, SentenciaIgual
<1>6. ProcesarVariable(p, fin)
        = IF p + 1 >= n THEN Excepcion
          ELSE IF Texto(p + 1) \in S THEN AnalizarSentencia(p, fin) ELSE BloqueError(p, fin)
  BY Zenon DEF ProcesarVariable, S
<1>7. De(L, numTokens)!ProcesarVariable(p, fin)
        = IF p + 1 >= n THEN Excepcion
          ELSE IF De(L, numTokens)!Texto(p + 1) \in S THEN AnalizarSentencia(p, fin)
          ELSE BloqueError(p, fin)
  BY <1>2, <1>5, Zenon DEF De!ProcesarVariable, S
<1> QED
  BY <1>4, <1>6, <1>7

(* A parenthesis closes in the list. *)
LEMMA CierreIgual ==
  ASSUME NEW L, Concuerdan(L)
  PROVE  De(L, numTokens)!HayParentesisCierre <=> HayParentesisCierre
<1>1. De(L, numTokens)!n = n
  BY LexemasIguales
<1>2. \A i \in 0..(n - 1) : (De(L, numTokens)!Texto(i) = ")") <=> (Texto(i) = ")")
  BY ParentesisLeidos, LexemasIguales, Zenon
<1> QED
  BY <1>1, <1>2, Zenon DEF HayParentesisCierre, De!HayParentesisCierre

(* A condition is judged alike. *)
LEMMA CondicionIgual ==
  ASSUME NEW L, Concuerdan(L), NEW i \in Nat
  PROVE  /\ De(L, numTokens)!CondicionDesborda(i) <=> CondicionDesborda(i)
         /\ ~ CondicionDesborda(i) =>
              (De(L, numTokens)!CondicionEstructuraCorrecta(i) <=> CondicionEstructuraCorrecta(i))
<1>1. n \in Nat /\ De(L, numTokens)!n = n
  BY LongitudConcuerda, LexemasIguales
<1>2. \A j \in {i, i + 1, i + 2} : j < n => De(L, numTokens)!Tipo(j) = Tipo(j)
  <2>1. \A j \in {i, i + 1, i + 2} : j < n => j \in 0..(n - 1)
    BY <1>1
  <2> QED
    BY <2>1, LexemasIguales
<1>3. \A j \in {i, i + 1, i + 2} : j < n =>
        /\ De(L, numTokens)!Operando(j) <=> Operando(j)
        /\ De(L, numTokens)!Comparador(j) <=> Comparador(j)
  BY <1>2 DEF Operando, De!Operando, Comparador, De!Comparador
<1>4. De(L, numTokens)!CondicionDesborda(i) <=> CondicionDesborda(i)
  BY <1>1, <1>3 DEF CondicionDesborda, De!CondicionDesborda
<1>5. ~ CondicionDesborda(i) =>
        (De(L, numTokens)!CondicionEstructuraCorrecta(i) <=> CondicionEstructuraCorrecta(i))
  BY <1>1, <1>3 DEF CondicionDesborda, CondicionEstructuraCorrecta, De!CondicionEstructuraCorrecta
<1> QED
  BY <1>4, <1>5

(* It is read alike. *)
LEMMA LeerCondicionIgual ==
  ASSUME NEW L, Concuerdan(L), NEW i \in Nat
  PROVE  De(L, numTokens)!LeerCondicion(i) = LeerCondicion(i)
<1>1. n \in Nat /\ De(L, numTokens)!n = n /\ i + 1 \in Nat /\ i + 2 \in Nat
  BY LongitudConcuerda, LexemasIguales
<1>2. ~ (i >= n) => ((De(L, numTokens)!Texto(i) = "(") <=> (Texto(i) = "("))
  <2>1. ~ (i >= n) => i \in 0..(n - 1)
    BY <1>1
  <2> QED
    BY <2>1, ParentesisLeidos, LexemasIguales, Zenon
<1>3. De(L, numTokens)!IndiceBalance(i + 2, "(", ")") = IndiceBalance(i + 2, "(", ")")
  BY <1>1, ParentesisLeidos, BalanceIgual, Zenon
<1>4. /\ De(L, numTokens)!CondicionDesborda(i + 1) <=> CondicionDesborda(i + 1)
      /\ ~ CondicionDesborda(i + 1) =>
           (De(L, numTokens)!CondicionEstructuraCorrecta(i + 1)
              <=> CondicionEstructuraCorrecta(i + 1))
  BY <1>1, CondicionIgual
<1>5. De(L, numTokens)!HayParentesisCierre <=> HayParentesisCierre
  BY CierreIgual
<1> QED
  BY <1>1, <1>2, <1>3, <1>4, <1>5, Zenon DEF LeerCondicion, De!LeerCondicion

(* The start of a for is judged alike. *)
LEMMA InitForIgual ==
  ASSUME NEW L, Concuerdan(L), NEW i \in Nat, NEW pc \in 0..(n - 1)
  PROVE  De(L, numTokens)!InitForCorrecto(i, pc) <=> InitForCorrecto(i, pc)
<1>1. n \in Nat
  BY LongitudConcuerda
<1>2. \A k \in 1..4 : pc - i > k => i + k \in 0..(n - 1)
  BY <1>1
<1>3. \A k \in 1..4 : pc - i > k => De(L, numTokens)!Tipo(i + k) = Tipo(i + k)
  BY <1>2, LexemasIguales
<1>4. pc - i > 1 => ((De(L, numTokens)!Texto(i + 1) = "int") <=> (Texto(i + 1) = "int"))
  <2>1. pc - i > 1 => i + 1 \in 0..(n - 1)
    BY <1>2
  <2>2. "int" \in TextosLeidos
    BY Zenon DEF TextosLeidos
  <2> QED
    BY <2>1, <2>2, LexemasIguales, Zenon
<1>5. CASE pc - i = 5
  <2>1. \A k \in 1..4 : De(L, numTokens)!Tipo(i + k) = Tipo(i + k)
    BY <1>3, <1>5
  <2>2. (De(L, numTokens)!Texto(i + 1) = "int") <=> (Texto(i + 1) = "int")
    BY <1>4, <1>5
  <2> QED
    BY <1>5, <2>1, <2>2 DEF InitForCorrecto, De!InitForCorrecto
<1>6. CASE pc - i = 4
  <2>1. \A k \in 1..3 : De(L, numTokens)!Tipo(i + k) = Tipo(i + k)
    BY <1>3, <1>6
  <2> QED
    BY <1>6, <2>1 DEF InitForCorrecto, De!InitForCorrecto
<1>7. CASE pc - i # 5 /\ pc - i # 4
  BY <1>7 DEF InitForCorrecto, De!InitForCorrecto
<1> QED
  BY <1>5, <1>6, <1>7

(* The increment may compare the texts of any two lexemes, but the first   *)
(* of them is a variable.                                                  *)
LEMMA VariablesIguales ==
  ASSUME NEW L, Concuerdan(L), NEW i \in 0..(n - 1), NEW j \in 0..(n - 1), Tipo(i) = "Variable"
  PROVE  (De(L, numTokens)!Texto(j) = De(L, numTokens)!Texto(i)) <=> (Texto(j) = Texto(i))
<1>1. i + 1 \in 1..n /\ j + 1 \in 1..n
  BY LongitudConcuerda
<1>2. L[i + 1].texto = lexemas[i + 1].texto
  BY <1>1, Zenon DEF Concuerdan, Tipo
<1>3. L[j + 1].texto # lexemas[j + 1].texto =>
        lexemas[i + 1].texto # L[j + 1].texto /\ lexemas[i + 1].texto # lexemas[j + 1].texto
  BY <1>1, Zenon DEF Concuerdan, Tipo
<1> QED
  BY <1>2, <1>3, Zenon DEF De!Texto, Texto

(* Its increment is judged alike. *)
LEMMA IncrementoForIgual ==
  ASSUME NEW L, Concuerdan(L), NEW i \in Nat, NEW par, par = -1 \/ par \in 0..(n - 1)
  PROVE  De(L, numTokens)!IncrementoForCorrecto(i, par) <=> IncrementoForCorrecto(i, par)
<1>1. n \in Nat
  BY LongitudConcuerda
<1>2. \A k \in 0..4 : par - i > k => i + k \in 0..(n - 1)
  BY <1>1
<1>3. \A k \in 0..4 : par - i > k => De(L, numTokens)!Tipo(i + k) = Tipo(i + k)
  BY <1>2, LexemasIguales
<1>0. i + 0 = i
  OBVIOUS
<1>4. CASE par - i = 2
  <2>1. De(L, numTokens)!Tipo(i) = Tipo(i) /\ De(L, numTokens)!Tipo(i + 1) = Tipo(i + 1)
    BY <1>0, <1>3, <1>4
  <2> QED
    BY <1>4, <2>1 DEF IncrementoForCorrecto, De!IncrementoForCorrecto
<1>5. CASE par - i = 5
  <2>1. /\ De(L, numTokens)!Tipo(i) = Tipo(i) /\ De(L, numTokens)!Tipo(i + 1) = Tipo(i + 1)
        /\ De(L, numTokens)!Tipo(i + 3) = Tipo(i + 3)
        /\ De(L, numTokens)!Tipo(i + 4) = Tipo(i + 4)
    BY <1>0, <1>3, <1>5
  <2>2. i \in 0..(n - 1) /\ i + 2 \in 0..(n - 1)
    BY <1>0, <1>2, <1>5
  <2>3. Tipo(i) = "Variable" =>
          ((De(L, numTokens)!Texto(i + 2) = De(L, numTokens)!Texto(i))
             <=> (Texto(i + 2) = Texto(i)))
    BY <2>2, VariablesIguales
  <2> QED
    BY <1>5, <2>1, <2>3 DEF IncrementoForCorrecto, De!IncrementoForCorrecto
<1>6. CASE par - i # 2 /\ par - i # 5
  BY <1>6 DEF IncrementoForCorrecto, De!IncrementoForCorrecto
<1> QED
  BY <1>4, <1>5, <1>6

(* The condition of a for ends before its second semicolon, which is found *)
(* first.                                                                  *)
LEMMA CondicionForIgual ==
  ASSUME NEW L, Concuerdan(L), NEW i \in Nat, IndicePuntoComa(i) # -1
  PROVE  De(L, numTokens)!CondicionEstructuraCorrecta(i) <=> CondicionEstructuraCorrecta(i)
<1> DEFINE pc == IndicePuntoComa(i)
<1>1. n \in Nat
  BY LongitudConcuerda
<1>2. pc \in i..(n - 1) /\ Tipo(pc) = "OperadorTerminador"
  BY <1>1, RangoPuntoComa, PuntoComaTermina
<1> HIDE DEF pc
<1>3. ~ Operando(pc) /\ ~ Comparador(pc)
  BY <1>2 DEF Operando, Comparador
<1>4. ~ CondicionDesborda(i)
  <2>1. CASE pc = i
    BY <1>1, <1>2, <1>3, <2>1 DEF CondicionDesborda
  <2>2. CASE pc = i + 1
    BY <1>1, <1>2, <1>3, <2>2 DEF CondicionDesborda
  <2>3. CASE pc >= i + 2
    BY <1>1, <1>2, <2>3 DEF CondicionDesborda
  <2> QED
    BY <1>1, <1>2, <2>1, <2>2, <2>3
<1> QED
  BY <1>4, CondicionIgual

(* A for is read alike. *)
LEMMA ForIgual ==
  ASSUME NEW L, Concuerdan(L), NEW p \in 0..(n - 1), NEW fin
  PROVE  De(L, numTokens)!AnalizarFor(p, fin) = AnalizarFor(p, fin)
<1> DEFINE par == IndiceBalance(p + 2, "(", ")")
           pc1 == IndicePuntoComa(p + 1)
           pc2 == IndicePuntoComa(pc1 + 1)
<1>1. n \in Nat /\ De(L, numTokens)!n = n /\ p + 1 \in Nat /\ p + 2 \in Nat
  BY LongitudConcuerda, LexemasIguales
<1>2. De(L, numTokens)!IndiceBalance(p + 2, "(", ")") = par
  BY <1>1, ParentesisLeidos, BalanceIgual, Zenon
<1>3. par = -1 \/ par \in 0..(n - 1)
  <2>1. par = -1 \/ par \in (p + 2)..(n - 1)
    BY <1>1, RangoBalance
  <2> HIDE DEF par
  <2> QED
    BY <1>1, <2>1
<1>4. De(L, numTokens)!IndicePuntoComa(p + 1) = pc1 /\ (pc1 = -1 \/ pc1 \in (p + 1)..(n - 1))
  BY <1>1, PuntoComaIgual, RangoPuntoComa
<1> HIDE DEF par, pc1
<1>5. pc1 + 1 \in Nat
  BY <1>1, <1>4
<1>6. De(L, numTokens)!IndicePuntoComa(pc1 + 1) = pc2 /\ (pc2 = -1 \/ pc2 \in (pc1 + 1)..(n - 1))
  BY <1>1, <1>5, PuntoComaIgual, RangoPuntoComa
<1>7. pc2 # -1 =>
        (De(L, numTokens)!CondicionEstructuraCorrecta(pc1 + 1)
           <=> CondicionEstructuraCorrecta(pc1 + 1))
  BY <1>5, CondicionForIgual
<1> HIDE DEF pc2
<1>8. pc2 + 1 \in Nat
  BY <1>1, <1>5, <1>6
<1>9. De(L, numTokens)!IncrementoForCorrecto(pc2 + 1, par) <=> IncrementoForCorrecto(pc2 + 1, par)
  BY <1>3, <1>8, IncrementoForIgual
<1>10. pc1 # -1 =>
         (De(L, numTokens)!InitForCorrecto(p + 1, pc1) <=> InitForCorrecto(p + 1, pc1))
  <2>1. pc1 # -1 => pc1 \in 0..(n - 1)
    BY <1>1, <1>4
  <2> QED
    BY <1>1, <2>1, InitForIgual
<1>11. ~ (p + 1 >= n) => ((De(L, numTokens)!Texto(p + 1) = "(") <=> (Texto(p + 1) = "("))
  <2>1. ~ (p + 1 >= n) => p + 1 \in 0..(n - 1)
    BY <1>1
  <2> QED
    BY <2>1, ParentesisLeidos, LexemasIguales, Zenon
<1>12. De(L, numTokens)!HayParentesisCierre <=> HayParentesisCierre
  BY CierreIgual
<1>13. \A c : De(L, numTokens)!Falla("Estructura", p, c, fin) = Falla("Estructura", p, c, fin)
  BY FallaIgual
<1>14. ~ (par + 1 >= n) =>
         /\ (De(L, numTokens)!Texto(par + 1) = "{") <=> (Texto(par + 1) = "{")
         /\ De(L, numTokens)!Cuerpo(p, par + 1 + 1, fin) = Cuerpo(p, par + 1 + 1, fin)
  <2>1. ~ (par + 1 >= n) => par + 1 \in 0..(n - 1) /\ par + 1 + 1 \in Nat
    BY <1>1, <1>3
  <2>2. ~ (par + 1 >= n) => ((De(L, numTokens)!Texto(par + 1) = "{") <=> (Texto(par + 1) = "{"))
    BY <2>1, LlavesLeidas, LexemasIguales, Zenon
  <2>3. ~ (par + 1 >= n) =>
          De(L, numTokens)!Cuerpo(p, par + 1 + 1, fin) = Cuerpo(p, par + 1 + 1, fin)
    BY <2>1, CuerpoIgual, Zenon
  <2> QED
    BY <2>2, <2>3, Zenon
<1>15. CASE p + 1 >= n \/ Texto(p + 1) # "(" \/ ~ HayParentesisCierre
  BY <1>1, <1>11, <1>12, <1>13, <1>15, Zenon DEF AnalizarFor, De!AnalizarFor
<1>16. CASE /\ ~ (p + 1 >= n) /\ Texto(p + 1) = "(" /\ HayParentesisCierre
            /\ pc1 = -1 \/ ~ InitForCorrecto(p + 1, pc1)
  BY <1>1, <1>4, <1>10, <1>11, <1>12, <1>13, <1>16, Zenon DEF AnalizarFor, De!AnalizarFor, pc1
<1>17. CASE /\ ~ (p + 1 >= n) /\ Texto(p + 1) = "(" /\ HayParentesisCierre
            /\ pc1 # -1 /\ InitForCorrecto(p + 1, pc1)
            /\ pc2 = -1 \/ ~ CondicionEstructuraCorrecta(pc1 + 1)
  BY <1>1, <1>4, <1>6, <1>7, <1>10, <1>11, <1>12, <1>13, <1>17, Zenon
     DEF AnalizarFor, De!AnalizarFor, pc1, pc2
<1>18. CASE /\ ~ (p + 1 >= n) /\ Texto(p + 1) = "(" /\ HayParentesisCierre
            /\ pc1 # -1 /\ InitForCorrecto(p + 1, pc1)
            /\ pc2 # -1 /\ CondicionEstructuraCorrecta(pc1 + 1)
            /\ ~ IncrementoForCorrecto(pc2 + 1, par)
  BY <1>1, <1>2, <1>4, <1>6, <1>7, <1>9, <1>10, <1>11, <1>12, <1>13, <1>18, Zenon
     DEF AnalizarFor, De!AnalizarFor, pc1, pc2, par
<1>19. CASE /\ ~ (p + 1 >= n) /\ Texto(p + 1) = "(" /\ HayParentesisCierre
            /\ pc1 # -1 /\ InitForCorrecto(p + 1, pc1)
            /\ pc2 # -1 /\ CondicionEstructuraCorrecta(pc1 + 1)
            /\ IncrementoForCorrecto(pc2 + 1, par)
  <2>1. AnalizarFor(p, fin)
          = IF par + 1 >= n \/ Texto(par + 1) # "{" THEN Falla("Estructura", p, par + 1, fin)
            ELSE Cuerpo(p, par + 1 + 1, fin)
    BY <1>19, Zenon DEF AnalizarFor, pc1, pc2, par
  <2>2. De(L, numTokens)!AnalizarFor(p, fin)
          = IF par + 1 >= n \/ De(L, numTokens)!Texto(par + 1) # "{"
              THEN Falla("Estructura", p, par + 1, fin)
            ELSE De(L, numTokens)!Cuerpo(p, par + 1 + 1, fin)
    BY <1>1, <1>2, <1>4, <1>6, <1>7, <1>9, <1>10, <1>11, <1>12, <1>13, <1>19, Zenon
       DEF De!AnalizarFor
  <2> QED
    <3>1. CASE par + 1 >= n
      BY <2>1, <2>2, <3>1, Zenon
    <3>2. CASE ~ (par + 1 >= n) /\ Texto(par + 1) = "{"
      BY <1>14, <2>1, <2>2, <3>2, Zenon
    <3>3. CASE ~ (par + 1 >= n) /\ Texto(par + 1) # "{"
      BY <1>14, <2>1, <2>2, <3>3, Zenon
    <3> QED
      BY <3>1, <3>2, <3>3, Zenon
<1> QED
  BY <1>15, <1>16, <1>17, <1>18, <1>19, Zenon

(* A while and an if are read alike. *)
LEMMA CondicionalIgual ==
  ASSUME NEW L, Concuerdan(L), NEW p \in 0..(n - 1), NEW fin
  PROVE  De(L, numTokens)!AnalizarCondicional(p, fin) = AnalizarCondicional(p, fin)
<1> DEFINE cond == LeerCondicion(p + 1)
<1>1. Contexto /\ n \in Nat /\ p + 1 \in Nat
  BY LongitudConcuerda DEF Contexto
<1>2. De(L, numTokens)!LeerCondicion(p + 1) = cond
  BY <1>1, LeerCondicionIgual
<1>3. \/ cond.caso = "excepcion"
      \/ cond.caso = "falla"
      \/ cond.caso = "leida" /\ cond.cursor \in ((p + 1) + 1)..(n - 1)
  BY <1>1, CondicionLeida
<1> HIDE DEF cond
<1>4. \A c : De(L, numTokens)!Falla("Estructura", p, c, fin) = Falla("Estructura", p, c, fin)
  BY FallaIgual
<1>5. CASE cond.caso = "excepcion"
  BY <1>2, <1>5, ExcepcionIgual DEF AnalizarCondicional, De!AnalizarCondicional, cond
<1>6. CASE cond.caso = "falla"
  BY <1>2, <1>4, <1>6 DEF AnalizarCondicional, De!AnalizarCondicional, cond
<1>7. CASE cond.caso = "leida" /\ cond.cursor \in ((p + 1) + 1)..(n - 1)
  <2>1. cond.cursor \in 0..(n - 1) /\ cond.cursor + 1 \in Nat
    BY <1>1, <1>7
  <2>2. (De(L, numTokens)!Texto(cond.cursor) = "{") <=> (Texto(cond.cursor) = "{")
    BY <2>1, LlavesLeidas, LexemasIguales, Zenon
  <2>3. De(L, numTokens)!Cuerpo(p, cond.cursor + 1, fin) = Cuerpo(p, cond.cursor + 1, fin)
    BY <2>1, CuerpoIgual
  <2>4. "leida" # "excepcion" /\ "leida" # "falla"
    OBVIOUS
  <2>5. AnalizarCondicional(p, fin)
          = IF Texto(cond.cursor) # "{" THEN Falla("Estructura", p, cond.cursor, fin)
            ELSE Cuerpo(p, cond.cursor + 1, fin)
    BY <1>7, <2>4, Zenon DEF AnalizarCondicional, cond
  <2>6. De(L, numTokens)!AnalizarCondicional(p, fin)
          = IF De(L, numTokens)!Texto(cond.cursor) # "{"
              THEN De(L, numTokens)!Falla("Estructura", p, cond.cursor, fin)
            ELSE De(L, numTokens)!Cuerpo(p, cond.cursor + 1, fin)
    BY <1>2, <1>7, <2>4, Zenon DEF De!AnalizarCondicional
  <2>7. CASE Texto(cond.cursor) = "{"
    BY <2>2, <2>3, <2>5, <2>6, <2>7, Zenon
  <2>8. CASE Texto(cond.cursor) # "{"
    BY <1>4, <2>2, <2>5, <2>6, <2>8, Zenon
  <2> QED
    BY <2>7, <2>8, Zenon
<1> QED
  BY <1>3, <1>5, <1>6, <1>7

(* A do and an else are read alike. *)
LEMMA ConLlaveIgual ==
  ASSUME NEW L, Concuerdan(L), NEW p \in 0..(n - 1), NEW fin
  PROVE  De(L, numTokens)!AnalizarConLlave(p, fin) = AnalizarConLlave(p, fin)
<1>1. n \in Nat /\ De(L, numTokens)!n = n /\ p + 2 \in Nat
  BY LongitudConcuerda, LexemasIguales
<1>2. ~ (p + 1 >= n) => ((De(L, numTokens)!Texto(p + 1) = "{") <=> (Texto(p + 1) = "{"))
  <2>1. ~ (p + 1 >= n) => p + 1 \in 0..(n - 1)
    BY <1>1
  <2> QED
    BY <2>1, LlavesLeidas, LexemasIguales, Zenon
<1>3. De(L, numTokens)!Falla("Estructura", p, p + 1, fin) = Falla("Estructura", p, p + 1, fin)
  <2>1. \A c : De(L, numTokens)!Falla("Estructura", p, c, fin) = Falla("Estructura", p, c, fin)
    BY FallaIgual
  <2> QED
    BY <2>1, Zenon
<1>4. De(L, numTokens)!Cuerpo(p, p + 2, fin) = Cuerpo(p, p + 2, fin)
  BY <1>1, CuerpoIgual
<1>5. De(L, numTokens)!Excepcion = Excepcion
  BY ExcepcionIgual
<1> QED
  BY <1>1, <1>2, <1>3, <1>4, <1>5, Zenon DEF AnalizarConLlave, De!AnalizarConLlave

(* A do is ended alike. *)
LEMMA DoWhileIgual ==
  ASSUME NEW L, Concuerdan(L), NEW c \in Nat, NEW fin
  PROVE  De(L, numTokens)!TerminarDoWhile(c, fin) = TerminarDoWhile(c, fin)
<1> DEFINE cond == LeerCondicion(c + 2)
<1>1. Contexto /\ n \in Nat /\ c + 2 \in Nat /\ De(L, numTokens)!n = n
  BY LongitudConcuerda, LexemasIguales DEF Contexto
<1>2. De(L, numTokens)!LeerCondicion(c + 2) = cond
  BY <1>1, LeerCondicionIgual
<1>3. \/ cond.caso = "excepcion"
      \/ cond.caso = "falla"
      \/ cond.caso = "leida" /\ cond.cursor \in ((c + 2) + 1)..(n - 1)
  BY <1>1, CondicionLeida
<1> HIDE DEF cond
<1>4. \A i : De(L, numTokens)!Falla("Estructura", c, i, fin) = Falla("Estructura", c, i, fin)
  BY FallaIgual
<1>5. ~ (c >= n) => ((De(L, numTokens)!Texto(c) = "}") <=> (Texto(c) = "}"))
  <2>1. ~ (c >= n) => c \in 0..(n - 1)
    BY <1>1
  <2> QED
    BY <2>1, LlavesLeidas, LexemasIguales, Zenon
<1>6. ~ (c + 1 >= n) => ((De(L, numTokens)!Texto(c + 1) = "while") <=> (Texto(c + 1) = "while"))
  <2>1. ~ (c + 1 >= n) => c + 1 \in 0..(n - 1)
    BY <1>1
  <2>2. "while" \in TextosLeidos
    BY Zenon DEF TextosLeidos
  <2> QED
    BY <2>1, <2>2, LexemasIguales, Zenon
<1>7. De(L, numTokens)!Excepcion = Excepcion
  BY ExcepcionIgual
<1>8. CASE c >= n
  BY <1>1, <1>7, <1>8, Zenon DEF TerminarDoWhile, De!TerminarDoWhile
<1>9. CASE ~ (c >= n) /\ Texto(c) # "}"
  BY <1>1, <1>4, <1>5, <1>9, Zenon DEF TerminarDoWhile, De!TerminarDoWhile
<1>10. CASE ~ (c >= n) /\ Texto(c) = "}" /\ c + 1 >= n
  BY <1>1, <1>5, <1>7, <1>10, Zenon DEF TerminarDoWhile, De!TerminarDoWhile
<1>11. CASE ~ (c >= n) /\ Texto(c) = "}" /\ ~ (c + 1 >= n) /\ Texto(c + 1) # "while"
  BY <1>1, <1>4, <1>5, <1>6, <1>11, Zenon DEF TerminarDoWhile, De!TerminarDoWhile
<1>12. CASE ~ (c >= n) /\ Texto(c) = "}" /\ ~ (c + 1 >= n) /\ Texto(c + 1) = "while"
  <2> DEFINE Fin(r, tipo, falla, cerrado) ==
               CASE r.caso = "excepcion" -> Excepcion
                 [] r.caso = "falla" -> falla
                 [] r.caso = "leida" -> IF tipo # "OperadorTerminador" THEN falla ELSE cerrado
             nb == NuevoBloque("Estructura", FALSE, c, cond.cursor, c..cond.cursor)
  <2>1. TerminarDoWhile(c, fin)
          = Fin(cond, Tipo(cond.cursor), Falla("Estructura", c, cond.cursor, fin),
                Cerrado(nb, cond.cursor + 1))
    BY <1>12, Zenon DEF TerminarDoWhile, cond
  <2>2. De(L, numTokens)!TerminarDoWhile(c, fin)
          = Fin(cond, De(L, numTokens)!Tipo(cond.cursor),
                Falla("Estructura", c, cond.cursor, fin),
                De(L, numTokens)!Cerrado(De(L, numTokens)!NuevoBloque(
                  "Estructura", FALSE, c, cond.cursor, c..cond.cursor), cond.cursor + 1))
    BY <1>1, <1>2, <1>4, <1>5, <1>6, <1>7, <1>12, Zenon DEF De!TerminarDoWhile
  <2>3. De(L, numTokens)!Cerrado(De(L, numTokens)!NuevoBloque(
          "Estructura", FALSE, c, cond.cursor, c..cond.cursor), cond.cursor + 1)
          = Cerrado(nb, cond.cursor + 1)
    BY Zenon DEF NuevoBloque, De!NuevoBloque, Cerrado, De!Cerrado
  <2>4. cond.caso = "leida" => De(L, numTokens)!Tipo(cond.cursor) = Tipo(cond.cursor)
    <3>1. cond.caso = "leida" => cond.cursor \in 0..(n - 1)
      BY <1>1, <1>3
    <3> QED
      BY <3>1, LexemasIguales
  <2> HIDE DEF nb
  <2>5. CASE cond.caso # "leida"
    <3>1. CASE cond.caso = "excepcion"
      BY <2>1, <2>2, <3>1
    <3>2. CASE cond.caso = "falla"
      BY <2>1, <2>2, <3>2
    <3> QED
      BY <1>3, <2>5, <3>1, <3>2
  <2>6. CASE cond.caso = "leida"
    BY <2>1, <2>2, <2>3, <2>4, <2>6, Zenon
  <2> QED
    BY <2>5, <2>6, Zenon
<1> QED
  BY <1>8, <1>9, <1>10, <1>11, <1>12, Zenon

(* The lexeme goes to the same handler. *)
LEMMA ManejadorIgual ==
  ASSUME NEW L, Concuerdan(L), NEW i \in 0..(n - 1)
  PROVE  /\ De(L, numTokens)!Manejador(i) = Manejador(i)
         /\ De(L, numTokens)!EsReservada(i, "do") <=> EsReservada(i, "do")
<1>1. \A t \in TextosLeidos : De(L, numTokens)!EsReservada(i, t) <=> EsReservada(i, t)
  BY LexemasIguales, Zenon DEF EsReservada, De!EsReservada
<1>2. De(L, numTokens)!Tipo(i) = Tipo(i)
  BY LexemasIguales
<1>3. /\ De(L, numTokens)!EsReservada(i, "return") <=> EsReservada(i, "return")
      /\ De(L, numTokens)!EsReservada(i, "for") <=> EsReservada(i, "for")
      /\ De(L, numTokens)!EsReservada(i, "while") <=> EsReservada(i, "while")
      /\ De(L, numTokens)!EsReservada(i, "do") <=> EsReservada(i, "do")
      /\ De(L, numTokens)!EsReservada(i, "if") <=> EsReservada(i, "if")
      /\ De(L, numTokens)!EsReservada(i, "else") <=> EsReservada(i, "else")
  BY <1>1, PalabrasLeidas, Zenon
<1> QED
  BY <1>2, <1>3, Zenon DEF Manejador, De!Manejador

(* The state of an analysis, and its innermost pending call. *)
Ahora == [pos |-> posCursor, pila |-> pila, bloques |-> bloques, estado |-> estado]

Cima(s) == s.pila[Len(s.pila)]

(* Only the outcome changes. *)
ConEstado(s, e) == [pos |-> s.pos, pila |-> s.pila, bloques |-> s.bloques, estado |-> e]

(* What the handler makes of the construct at p. *)
Resultado(L, k, manejador, p, fin) ==
  CASE manejador = "ProcesarTipoDato" -> De(L, k)!ProcesarTipoDato(p, fin)
    [] manejador = "ProcesarVariable" -> De(L, k)!ProcesarVariable(p, fin)
    [] manejador = "AnalizarSentencia" -> De(L, k)!AnalizarSentencia(p, fin)
    [] manejador = "AnalizarFor" -> De(L, k)!AnalizarFor(p, fin)
    [] manejador \in {"AnalizarWhile", "AnalizarIf"} -> De(L, k)!AnalizarCondicional(p, fin)
    [] manejador \in {"AnalizarDoWhile", "AnalizarElse"} -> De(L, k)!AnalizarConLlave(p, fin)

(* A handler has given r. *)
Aplicado(s, r) ==
  IF r.caso = "excepcion" THEN ConEstado(s, "excepcion")
  ELSE [pos |-> r.cursor,
        pila |-> IF r.caso = "cerrado" THEN s.pila
                 ELSE Append(s.pila, [stop |-> r.fin - 1, fin |-> r.fin,
                                      duenno |-> Len(s.bloques) + 1]),
        bloques |-> Append(s.bloques, [r.bloque EXCEPT !.padre = Cima(s).duenno]),
        estado |-> s.estado]

(* No handler takes the lexeme. *)
Parado(s) ==
  [pos |-> s.pos, pila |-> s.pila, estado |-> s.estado,
   bloques |-> IF Cardinality({b \in DOMAIN s.bloques : s.bloques[b].lex = {}}) < MaxVacios
               THEN Append(s.bloques, [NuevoBloque("Sentencia", FALSE, 0, 0, {})
                                         EXCEPT !.padre = Cima(s).duenno])
               ELSE s.bloques]

(* The innermost pending call has returned. *)
Regresado(s, cursor, bs) ==
  [pos |-> cursor, pila |-> SubSeq(s.pila, 1, Len(s.pila) - 1), bloques |-> bs,
   estado |-> s.estado]

(* The innermost block is closed by its brace. *)
Cerrada(L, s) ==
  IF s.pos >= Len(L) THEN ConEstado(s, "excepcion")
  ELSE Regresado(s, s.pos + 1,
                 [s.bloques EXCEPT ![Cima(s).duenno].finaliza = s.pos,
                                   ![Cima(s).duenno].lex = @ \cup {s.pos}])

(* The innermost block is a do, whose condition was read as r. *)
DoWhileCerrado(s, r) ==
  IF r.caso = "excepcion" THEN ConEstado(s, "excepcion")
  ELSE Regresado(s, r.cursor,
                 [s.bloques EXCEPT ![Cima(s).duenno].error = r.bloque.error,
                                   ![Cima(s).duenno].finaliza = r.bloque.finaliza,
                                   ![Cima(s).duenno].lex = @ \cup r.bloque.lex])

(* The step that the analysis of L takes from s. *)
Paso(L, k, s) ==
  IF s.pos < Cima(s).stop
    THEN IF De(L, k)!Manejador(s.pos) = "ninguno" THEN Parado(s)
         ELSE Aplicado(s, Resultado(L, k, De(L, k)!Manejador(s.pos), s.pos, Cima(s).fin))
  ELSE IF Len(s.pila) = 1 THEN ConEstado(s, "listo")
  ELSE IF De(L, k)!EsReservada(s.bloques[Cima(s).duenno].incia, "do")
    THEN DoWhileCerrado(s, De(L, k)!TerminarDoWhile(s.pos, s.pila[Len(s.pila) - 1].fin))
  ELSE Cerrada(L, s)

(* They are the variables. *)
LEMMA CimaDeAhora ==
  /\ Cima(Ahora) = marco
  /\ Ahora.pos = posCursor /\ Ahora.pila = pila /\ Ahora.bloques = bloques
  /\ Ahora.estado = estado
  BY DEF Cima, Ahora, marco

(* The result of a handler determines the next state. *)
LEMMA AplicarDetermina ==
  ASSUME NEW r, Aplicar(r)
  PROVE  Ahora' = Aplicado(Ahora, r)
<1>1. CASE r.caso = "excepcion"
  BY <1>1, CimaDeAhora DEF Aplicar, Lanzar, Ahora, Aplicado, ConEstado
<1>2. CASE r.caso # "excepcion"
  BY <1>2, CimaDeAhora DEF Aplicar, Ahora, Aplicado, EnPadre
<1> QED
  BY <1>1, <1>2

(* So does the step of a handler. *)
LEMMA ManejadorDetermina ==
  ASSUME NEW L, Concuerdan(L), EnBucle, posCursor \in 0..(n - 1),
         Manejador(posCursor) # "ninguno",
         NEW r, Aplicar(r),
         r = Resultado(L, numTokens, Manejador(posCursor), posCursor, marco.fin)
  PROVE  Ahora' = Paso(L, numTokens, Ahora)
<1>1. Ahora' = Aplicado(Ahora, r)
  BY AplicarDetermina
<1>2. De(L, numTokens)!Manejador(posCursor) = Manejador(posCursor)
  BY ManejadorIgual
<1>3. Paso(L, numTokens, Ahora) = Aplicado(Ahora, r)
  BY <1>2, CimaDeAhora, Zenon DEF Paso, EnBucle
<1> QED
  BY <1>1, <1>3

(* A step is the step that the analysis of L takes. *)
LEMMA PasoDetermina ==
  ASSUME IInv, Next, estado = "analizando", NEW L, Concuerdan(L)
  PROVE  Ahora' = Paso(L, numTokens, Ahora)
<1>1. TypeOK /\ Marcos /\ n \in Nat /\ Len(pila) \in Nat \ {0}
  BY MarcoActual DEF IInv
<1>2. EnBucle => posCursor \in 0..(n - 1)
  BY <1>1, MarcoActual DEF Llamada
<1>3. De(L, numTokens)!n = n /\ Len(L) = n
  BY LexemasIguales, Zenon DEF Concuerdan
<1>4. CASE TipoDato
  <2>1. Tipo(posCursor) = "TipoDato"
    BY <1>4 DEF TipoDato, Manejador
  <2> QED
    BY <1>2, <1>4, <2>1, TipoDatoIgual, ManejadorDetermina DEF TipoDato, Resultado
<1>5. CASE ReAsignacion
  <2>1. Tipo(posCursor) = "Variable"
    BY <1>5 DEF ReAsignacion, Manejador
  <2> QED
    BY <1>2, <1>5, <2>1, VariableIgual, ManejadorDetermina DEF ReAsignacion, Resultado
<1>6. CASE Retorno
  <2>1. Tipo(posCursor) = "PalabraReservada"
    BY <1>6 DEF Retorno, Manejador, EsReservada
  <2> QED
    BY <1>2, <1>6, <2>1, SentenciaIgual, ManejadorDetermina DEF Retorno, Resultado
<1>7. CASE For
  BY <1>2, <1>7, ForIgual, ManejadorDetermina DEF For, Resultado
<1>8. CASE While
  BY <1>2, <1>8, CondicionalIgual, ManejadorDetermina DEF While, Resultado
<1>9. CASE If
  BY <1>2, <1>9, CondicionalIgual, ManejadorDetermina DEF If, Resultado
<1>10. CASE DoWhile
  BY <1>2, <1>10, ConLlaveIgual, ManejadorDetermina DEF DoWhile, Resultado
<1>11. CASE Else
  BY <1>2, <1>11, ConLlaveIgual, ManejadorDetermina DEF Else, Resultado
<1>12. CASE SinManejador
  <2>1. De(L, numTokens)!Manejador(posCursor) = "ninguno"
    BY <1>2, <1>12, ManejadorIgual DEF SinManejador
  <2>2. Paso(L, numTokens, Ahora) = Parado(Ahora)
    BY <1>12, <2>1, CimaDeAhora, Zenon DEF Paso, EnBucle, SinManejador
  <2>3. Ahora' = Parado(Ahora)
    BY <1>12, CimaDeAhora DEF SinManejador, Ahora, Parado, EnPadre
  <2> QED
    BY <2>2, <2>3
<1>13. ASSUME FinDeBucle, Len(pila) > 1
       PROVE  De(L, numTokens)!EsReservada(bloques[marco.duenno].incia, "do")
                <=> EsDoWhile(marco.duenno)
  <2> DEFINE d == marco.duenno
  <2>1. d \in 1..Len(bloques) /\ bloques[d].lex # {} /\ bloques[d] \in Bloque
    <3>1. Len(pila) \in 2..Len(pila)
      BY <1>1, <1>13
    <3>2. d \in 1..Len(bloques) /\ bloques[d].lex # {}
      BY <1>1, <3>1 DEF Marcos, marco
    <3> HIDE DEF d
    <3> QED
      BY <1>1, <3>2 DEF TypeOK
  <2> HIDE DEF d
  <2>2. bloques[d].lex \subseteq bloques[d].incia..(posCursor - 1)
    BY <2>1 DEF IInv, BloquesBien
  <2>3. posCursor \in 0..n
    BY <1>1 DEF TypeOK
  <2>4. bloques[d].incia \in 0..(n - 1)
    BY <1>1, <2>1, <2>2, <2>3 DEF Bloque
  <2> QED
    BY <2>4, ManejadorIgual DEF EsDoWhile, d
<1>14. CASE CerrarBloque
  <2>0. /\ ~ (posCursor < marco.stop) /\ Len(pila) # 1
        /\ ~ De(L, numTokens)!EsReservada(bloques[marco.duenno].incia, "do")
    BY <1>1, <1>13, <1>14 DEF FinDeBucle, CerrarBloque
  <2>1. Paso(L, numTokens, Ahora) = Cerrada(L, Ahora)
    BY <2>0, CimaDeAhora, Zenon DEF Paso
  <2>2. Ahora' = Cerrada(L, Ahora)
    BY <1>3, <1>14, CimaDeAhora
       DEF CerrarBloque, Ahora, Cerrada, Lanzar, ConEstado, Regresado, Debajo
  <2> QED
    BY <2>1, <2>2
<1>15. CASE CerrarDoWhile
  <2>0. /\ ~ (posCursor < marco.stop) /\ Len(pila) # 1
        /\ De(L, numTokens)!EsReservada(bloques[marco.duenno].incia, "do")
    <3>1. FinDeBucle /\ Len(pila) > 1 /\ EsDoWhile(marco.duenno)
      BY <1>15, Zenon DEF CerrarDoWhile
    <3>2. ~ (posCursor < marco.stop) /\ Len(pila) # 1
      <4>1. FinDeBucle /\ Len(pila) > 1 /\ Len(pila) \in Nat
        BY <1>1, <3>1
      <4> QED
        BY <4>1 DEF FinDeBucle
    <3>3. De(L, numTokens)!EsReservada(bloques[marco.duenno].incia, "do")
      BY <1>13, <3>1, Zenon
    <3> QED
      BY <3>2, <3>3, Zenon
  <2> DEFINE r == TerminarDoWhile(posCursor, pila[Len(pila) - 1].fin)
  <2>1. De(L, numTokens)!TerminarDoWhile(posCursor, pila[Len(pila) - 1].fin) = r
    BY <1>1, DoWhileIgual DEF TypeOK
  <2>2. Paso(L, numTokens, Ahora) = DoWhileCerrado(Ahora, r)
    BY <2>0, <2>1, CimaDeAhora, Zenon DEF Paso
  <2>3. IF r.caso = "excepcion" THEN Lanzar
        ELSE /\ bloques' = [bloques EXCEPT
                              ![marco.duenno].error = r.bloque.error,
                              ![marco.duenno].finaliza = r.bloque.finaliza,
                              ![marco.duenno].lex = @ \cup r.bloque.lex]
             /\ posCursor' = r.cursor
             /\ pila' = Debajo
             /\ UNCHANGED <<lexemas, numTokens, estado>>
    BY <1>15 DEF CerrarDoWhile
  <2> HIDE DEF r
  <2>4. Ahora' = DoWhileCerrado(Ahora, r)
    BY <2>3, CimaDeAhora DEF Ahora, DoWhileCerrado, Lanzar, ConEstado, Regresado, Debajo
  <2> QED
    BY <2>2, <2>4
<1>16. CASE TerminarAnalisis
  <2>1. Paso(L, numTokens, Ahora) = ConEstado(Ahora, "listo")
    BY <1>1, <1>16, CimaDeAhora DEF Paso, FinDeBucle, TerminarAnalisis
  <2> QED
    BY <1>16, <2>1, CimaDeAhora DEF TerminarAnalisis, ConEstado, Ahora
<1>17. CASE Terminado
  BY <1>17 DEF Terminado
<1> QED
  BY <1>4, <1>5, <1>6, <1>7, <1>8, <1>9, <1>10, <1>11, <1>12, <1>14, <1>15, <1>16, <1>17 DEF Next

(* A step changes neither the list nor the table, and takes no block away. *)
LEMMA PasoConserva ==
  ASSUME IInv, Next
  PROVE  /\ lexemas' = lexemas /\ numTokens' = numTokens
         /\ Len(bloques) \in Nat /\ Len(bloques') \in Nat /\ Len(bloques) <= Len(bloques')
<1>1. /\ bloques \in Seq(Bloque) /\ Len(bloques) \in Nat
      /\ bloques' \in Seq(Bloque') /\ Len(bloques') \in Nat
  <2>1. TypeOK /\ TypeOK'
    BY PasoPreserva DEF IInv
  <2> QED
    BY <2>1 DEF TypeOK
<1> DEFINE Sigue == /\ lexemas' = lexemas /\ numTokens' = numTokens
                    /\ \/ bloques' = bloques
                       \/ \E b : bloques' = Append(bloques, b)
                       \/ DOMAIN bloques' = DOMAIN bloques
<1>2. ASSUME NEW r, Aplicar(r) PROVE Sigue
  BY <1>2 DEF Aplicar, Lanzar
<1>3. ASSUME TipoDato \/ ReAsignacion \/ Retorno \/ For \/ While \/ If \/ DoWhile \/ Else
      PROVE  Sigue
  <2>1. \E r : Aplicar(r)
    BY <1>3, Zenon DEF TipoDato, ReAsignacion, Retorno, For, While, If, DoWhile, Else
  <2> QED
    BY <1>2, <2>1
<1>4. ASSUME SinManejador PROVE Sigue
  <2> DEFINE nb == EnPadre(NuevoBloque("Sentencia", FALSE, 0, 0, {}))
  <2>1. /\ lexemas' = lexemas /\ numTokens' = numTokens
        /\ bloques' = bloques \/ bloques' = Append(bloques, nb)
    BY <1>4, Zenon DEF SinManejador
  <2> HIDE DEF nb
  <2> QED
    BY <2>1
<1>5. ASSUME CerrarBloque PROVE Sigue
  BY <1>5 DEF CerrarBloque, Lanzar
<1>6. ASSUME CerrarDoWhile PROVE Sigue
  <2> DEFINE r == TerminarDoWhile(posCursor, pila[Len(pila) - 1].fin)
  <2>1. \/ Lanzar
        \/ /\ bloques' = [bloques EXCEPT
                            ![marco.duenno].error = r.bloque.error,
                            ![marco.duenno].finaliza = r.bloque.finaliza,
                            ![marco.duenno].lex = @ \cup r.bloque.lex]
           /\ UNCHANGED <<lexemas, numTokens, estado>>
    BY <1>6, Zenon DEF CerrarDoWhile
  <2> HIDE DEF r
  <2> QED
    BY <2>1 DEF Lanzar
<1>7. ASSUME TerminarAnalisis \/ Terminado PROVE Sigue
  <2>1. UNCHANGED <<lexemas, numTokens, bloques>>
    BY <1>7 DEF TerminarAnalisis, Terminado, vars
  <2> QED
    BY <2>1
<1>9. \A b : Len(Append(bloques, b)) = Len(bloques) + 1
  BY <1>1
<1>10. DOMAIN bloques' = DOMAIN bloques => Len(bloques') = Len(bloques)
  BY <1>1
<1> HIDE DEF Sigue
<1>8. Sigue
  BY <1>3, <1>4, <1>5, <1>6, <1>7, Zenon DEF Next
<1>11. lexemas' = lexemas /\ numTokens' = numTokens
  BY <1>8 DEF Sigue
<1>12. Len(bloques) <= Len(bloques')
  BY <1>1, <1>8, <1>9, <1>10 DEF Sigue
<1> QED
  BY <1>1, <1>11, <1>12

(* No handler takes the lexeme at which the loop stands. *)
Estancado(L, k, s) ==
  /\ s.estado = "analizando" /\ s.pos < Cima(s).stop
  /\ De(L, k)!Manejador(s.pos) = "ninguno"

(* The state at the call. *)
Inicial(longitud) ==
  [pos |-> 0, pila |-> <<[stop |-> longitud, fin |-> 0, duenno |-> 0]>>,
   bloques |-> << >>, estado |-> "analizando"]

(* The m states h of an analysis of L, of which only the last may have     *)
(* come to an end.                                                         *)
Traza(L, k, h, m) ==
  /\ m \in Nat \ {0}
  /\ h[1] = Inicial(Len(L))
  /\ \A j \in 1..(m - 1) :
       /\ h[j + 1] = Paso(L, k, h[j])
       /\ h[j].estado = "analizando"
       /\ Len(h[j].bloques) \in Nat /\ Len(h[j].bloques) <= Len(h[m].bloques)
       /\ Estancado(L, k, h[j]) => Estancado(L, k, h[m])

(* The analysis of L comes to the state s. *)
Leida(L, k, s) == \E m, h : Traza(L, k, h, m) /\ h[m] = s

(* The analysis of L ends with the blocks bs and passes through s. *)
Releida(L, k, bs, s) ==
  \E m, h : /\ Traza(L, k, h, m) /\ h[m].estado = "listo" /\ h[m].bloques = bs
            /\ \E j \in 1..m : h[j] = s

(* At the call the analysis is at its first state, *)
LEMMA ComienzaLeida ==
  ASSUME Comienzo, NEW L, NEW k, Len(L) = n
  PROVE  Leida(L, k, Ahora)
<1> DEFINE h == [j \in {1} |-> Ahora]
<1>1. Ahora = Inicial(Len(L))
  BY DEF Comienzo, Ahora, Inicial
<1>2. h[1] = Ahora
  OBVIOUS
<1> HIDE DEF h
<1>3. Traza(L, k, h, 1)
  BY <1>1, <1>2 DEF Traza
<1> QED
  BY <1>2, <1>3 DEF Leida

(* which is also the first one of every analysis of L. *)
LEMMA ComienzaReleida ==
  ASSUME Comienzo, NEW L, NEW k, NEW s, Leida(L, k, s), s.estado = "listo", Len(L) = n
  PROVE  Releida(L, k, s.bloques, Ahora)
<1>1. PICK m, h : Traza(L, k, h, m) /\ h[m] = s
  BY DEF Leida
<1>2. Ahora = Inicial(Len(L))
  BY DEF Comienzo, Ahora, Inicial
<1>3. 1 \in 1..m /\ h[1] = Ahora
  BY <1>1, <1>2 DEF Traza
<1> QED
  BY <1>1, <1>3, Zenon DEF Releida

(* The step from a state in which the analysis stands still. *)
LEMMA EstancadoSigue ==
  ASSUME IInv, Next, NEW L, Concuerdan(L), Estancado(L, numTokens, Ahora)
  PROVE  Estancado(L, numTokens, Ahora')
<1>1. EnBucle /\ De(L, numTokens)!Manejador(posCursor) = "ninguno"
  BY CimaDeAhora, Zenon DEF Estancado, EnBucle
<1>2. posCursor \in 0..(n - 1)
  <2>1. TypeOK /\ Marcos
    BY DEF IInv
  <2> QED
    BY <1>1, <2>1, MarcoActual DEF Llamada
<1>3. Manejador(posCursor) = "ninguno"
  BY <1>1, <1>2, ManejadorIgual
<1>4. SinManejador
  BY <1>1, <1>3
     DEF Next, TipoDato, ReAsignacion, Retorno, For, While, If, DoWhile, Else,
         CerrarBloque, CerrarDoWhile, TerminarAnalisis, Terminado, EnBucle, FinDeBucle
<1>5. posCursor' = posCursor /\ pila' = pila /\ estado' = estado
  BY <1>4, Zenon DEF SinManejador
<1>6. /\ Ahora'.estado = Ahora.estado /\ Ahora'.pos = Ahora.pos /\ Ahora'.pila = Ahora.pila
  BY <1>5 DEF Ahora
<1> QED
  BY <1>6, Zenon DEF Estancado, Cima

(* The trace grows by every step. *)
LEMMA SigueLeida ==
  ASSUME IInv, Next, estado = "analizando", NEW L, Concuerdan(L), Leida(L, numTokens, Ahora)
  PROVE  Leida(L, numTokens, Ahora')
<1>1. PICK m, h : Traza(L, numTokens, h, m) /\ h[m] = Ahora
  BY DEF Leida
<1> DEFINE g == [j \in 1..(m + 1) |-> IF j <= m THEN h[j] ELSE Ahora']
<1>2. m \in Nat \ {0}
  BY <1>1 DEF Traza
<1>3. (\A j \in 1..m : g[j] = h[j]) /\ g[m + 1] = Ahora'
  BY <1>2
<1> HIDE DEF g
<1>4. Ahora' = Paso(L, numTokens, Ahora)
  BY PasoDetermina
<1>5. /\ Len(Ahora.bloques) \in Nat /\ Len(Ahora'.bloques) \in Nat
      /\ Len(Ahora.bloques) <= Len(Ahora'.bloques)
  BY PasoConserva DEF Ahora
<1>6. Estancado(L, numTokens, Ahora) => Estancado(L, numTokens, Ahora')
  BY EstancadoSigue
<1>7. g[1] = Inicial(Len(L))
  BY <1>1, <1>2, <1>3 DEF Traza
<1>8. ASSUME NEW j \in 1..((m + 1) - 1)
      PROVE  /\ g[j + 1] = Paso(L, numTokens, g[j])
             /\ g[j].estado = "analizando"
             /\ Len(g[j].bloques) \in Nat /\ Len(g[j].bloques) <= Len(g[m + 1].bloques)
             /\ Estancado(L, numTokens, g[j]) => Estancado(L, numTokens, g[m + 1])
  <2>1. CASE j = m
    <3>1. g[j] = Ahora /\ g[j + 1] = Ahora' /\ g[m + 1] = Ahora'
      BY <1>1, <1>2, <1>3, <2>1
    <3> QED
      BY <3>1, <1>4, <1>5, <1>6, CimaDeAhora, Zenon
  <2>2. CASE j # m
    <3>1. j \in 1..(m - 1) /\ j \in 1..m /\ j + 1 \in 1..m
      BY <1>2, <2>2
    <3>2. g[j] = h[j] /\ g[j + 1] = h[j + 1] /\ g[m + 1] = Ahora'
      BY <1>3, <3>1
    <3>3. /\ h[j + 1] = Paso(L, numTokens, h[j])
          /\ h[j].estado = "analizando"
          /\ Len(h[j].bloques) \in Nat /\ Len(h[j].bloques) <= Len(Ahora.bloques)
          /\ Estancado(L, numTokens, h[j]) => Estancado(L, numTokens, Ahora)
      BY <1>1, <3>1, Zenon DEF Traza
    <3>4. Len(h[j].bloques) <= Len(Ahora'.bloques)
      BY <1>5, <3>3
    <3> QED
      BY <1>6, <3>2, <3>3, <3>4, Zenon
  <2> QED
    BY <2>1, <2>2
<1>9. Traza(L, numTokens, g, m + 1)
  BY <1>2, <1>7, <1>8 DEF Traza
<1> QED
  BY <1>3, <1>9, Zenon DEF Leida

(* A step of the second analysis leads to the next state of the trace. *)
LEMMA SigueReleida ==
  ASSUME IInv, Next, estado = "analizando", NEW L, Concuerdan(L), NEW bs,
         Releida(L, numTokens, bs, Ahora)
  PROVE  Releida(L, numTokens, bs, Ahora')
<1>1. PICK m, h : /\ Traza(L, numTokens, h, m) /\ h[m].estado = "listo" /\ h[m].bloques = bs
                  /\ \E j \in 1..m : h[j] = Ahora
  BY DEF Releida
<1>2. PICK j \in 1..m : h[j] = Ahora
  BY <1>1
<1>3. j # m
  BY <1>1, <1>2, CimaDeAhora
<1>4. j \in 1..(m - 1) /\ j + 1 \in 1..m
  BY <1>1, <1>3 DEF Traza
<1>5. h[j + 1] = Ahora'
  BY <1>1, <1>2, <1>4, PasoDetermina DEF Traza
<1> QED
  BY <1>1, <1>4, <1>5, Zenon DEF Releida

(* What the analysis of L says of one that passes through its states. *)
LEMMA ReleidaBien ==
  ASSUME IInv, NEW L, Concuerdan(L), NEW bs, Releida(L, numTokens, bs, Ahora)
  PROVE  /\ estado # "excepcion"
         /\ Len(bloques) <= Len(bs)
         /\ EnBucle => Manejador(posCursor) # "ninguno"
         /\ estado = "listo" => bloques = bs
<1>1. PICK m, h : /\ Traza(L, numTokens, h, m) /\ h[m].estado = "listo" /\ h[m].bloques = bs
                  /\ \E j \in 1..m : h[j] = Ahora
  BY DEF Releida
<1>2. PICK j \in 1..m : h[j] = Ahora
  BY <1>1
<1>3. j # m => /\ estado = "analizando"
               /\ Len(bloques) <= Len(bs)
               /\ Estancado(L, numTokens, Ahora) => Estancado(L, numTokens, h[m])
  <2>1. j # m => j \in 1..(m - 1)
    BY <1>1 DEF Traza
  <2> QED
    BY <1>1, <1>2, <2>1, CimaDeAhora, Zenon DEF Traza
<1>4. j = m => estado = "listo" /\ bloques = bs
  BY <1>1, <1>2, CimaDeAhora
<1>5. Len(bloques) \in Nat
  BY DEF IInv, TypeOK
<1>6. ~ Estancado(L, numTokens, h[m])
  BY <1>1 DEF Estancado
<1>7. EnBucle => Manejador(posCursor) # "ninguno"
  <2> SUFFICES ASSUME EnBucle, Manejador(posCursor) = "ninguno" PROVE FALSE
    OBVIOUS
  <2>1. posCursor \in 0..(n - 1)
    <3>1. TypeOK /\ Marcos
      BY DEF IInv
    <3> QED
      BY <3>1, MarcoActual DEF Llamada
  <2>2. De(L, numTokens)!Manejador(posCursor) = "ninguno"
    BY <2>1, ManejadorIgual
  <2>3. Estancado(L, numTokens, Ahora)
    BY <2>2, CimaDeAhora, Zenon DEF Estancado, EnBucle
  <2>4. j # m
    BY <1>4 DEF EnBucle
  <2> QED
    BY <1>3, <1>6, <2>3, <2>4, Zenon
<1> QED
  BY <1>3, <1>4, <1>5, <1>7
=============================================================================
