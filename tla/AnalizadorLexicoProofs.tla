---------------------- MODULE AnalizadorLexicoProofs ------------------------
(***************************************************************************)
(* Proofs about AnalizadorLexico, for every text, alphabet and list of     *)
(* words.                                                                  *)
(***************************************************************************)
EXTENDS AnalizadorLexico, FiniteSetTheorems, WellFoundedInduction, TLAPS

(* What is read from p on lies inside the text. *)
Dentro(p, k) == k \in Nat /\ p + k <= n + 1

(* A place of the text where a match is tried. *)
Lugar(p) == n \in Nat /\ p \in 1..n

(* Characters; one operator, so that the provers need not look into it. *)
Car == STRING \cup {"nl"}

-----------------------------------------------------------------------------
(* The least of a set of natural numbers. *)
LEMMA MinimoEsta ==
  ASSUME NEW S \in SUBSET Nat, S # {}
  PROVE  Min(S) \in S /\ \A y \in S : Min(S) <= y
<1>1. PICK x \in S : \A y \in S : ~ (<<y, x>> \in OpToRel(<, Nat))
  BY NatLessThanWellFounded, WFMin
<1>2. \A y \in S : x <= y
  <2> TAKE y \in S
  <2>1. y \in Nat /\ x \in Nat
    OBVIOUS
  <2>2. y < x => <<y, x>> \in OpToRel(<, Nat)
    BY <2>1, Zenon DEF OpToRel
  <2>3. ~ (y < x)
    BY <1>1, <2>2, Zenon
  <2> QED
    BY <2>1, <2>3
<1> QED
  BY <1>2 DEF Min

(* A run stops at the end of the text or at a character of another kind.   *)
LEMMA CorridaDentro ==
  ASSUME n \in Nat, NEW p \in 1..(n + 1), NEW C
  PROVE  /\ Dentro(p, Corrida(p, C))
         /\ Corrida(p, C) = 0 => p = n + 1 \/ codigo[p] \notin C
<1> DEFINE S == {k \in 0..n : p + k > n \/ codigo[p + k] \notin C}
<1>1. n \in Nat
  OBVIOUS
<1>2. S \in SUBSET Nat /\ n - p + 1 \in S
  BY <1>1
<1>3. Min(S) \in S
  BY <1>2, MinimoEsta
<1>4. Corrida(p, C) = Min(S)
  BY DEF Corrida
<1>5. Min(S) <= n - p + 1
  <2> HIDE DEF S
  <2> QED
    BY <1>1, <1>2, MinimoEsta
<1>6. Min(S) = 0 => p = n + 1 \/ codigo[p] \notin C
  BY <1>1, <1>3
<1>7. Min(S) \in Nat
  BY <1>2, <1>3
<1> HIDE DEF S
<1>8. Dentro(p, Min(S))
  BY <1>1, <1>5, <1>7 DEF Dentro
<1> QED
  BY <1>4, <1>6, <1>8

LEMMA CorridaDesde ==
  ASSUME NEW p, Lugar(p), NEW C
  PROVE  /\ Dentro(p, Corrida(p, C))
         /\ Corrida(p, C) = 0 => codigo[p] \notin C
<1>1. n \in Nat /\ p \in 1..(n + 1) /\ p # n + 1
  BY DEF Lugar
<1> QED
  BY <1>1, CorridaDentro DEF Lugar

LEMMA HastaConDentro ==
  ASSUME n \in Nat, NEW p \in 1..(n + 1), NEW q, NEW s
  PROVE  Dentro(p, HastaCon(p, q, s))
<1> DEFINE S == {k \in 0..(n - p + 1) : p + k >= q + Len(s)
                                        /\ Empieza(p + k - Len(s), s)}
<1>1. n \in Nat
  OBVIOUS
<1>2. S \subseteq 0..(n - p + 1)
  OBVIOUS
<1>3. HastaCon(p, q, s) = IF S = {} THEN 0 ELSE Min(S)
  BY DEF HastaCon
<1> HIDE DEF S
<1>4. S # {} => Min(S) \in S
  BY <1>1, <1>2, MinimoEsta
<1>5. CASE S = {}
  BY <1>1, <1>3, <1>5 DEF Dentro
<1>6. CASE S # {}
  <2>1. Min(S) \in 0..(n - p + 1)
    BY <1>2, <1>4, <1>6
  <2> QED
    BY <1>1, <1>3, <1>6, <2>1 DEF Dentro
<1> QED
  BY <1>5, <1>6

LEMMA CadenaDentro ==
  ASSUME n \in Nat, NEW p \in 1..(n + 1), NEW C
  PROVE  Dentro(p, LargoCadena(p, C))
<1>1. n \in Nat
  OBVIOUS
<1>2. LargoCadena(p, C) \in {0, HastaCon(p, p + 1, <<Comilla>>)}
  BY DEF LargoCadena
<1>3. Dentro(p, HastaCon(p, p + 1, <<Comilla>>)) /\ Dentro(p, 0)
  BY <1>1, HastaConDentro DEF Dentro
<1> QED
  BY <1>2, <1>3

LEMMA VerbatimDentro ==
  ASSUME n \in Nat, NEW p \in 1..(n + 1)
  PROVE  Dentro(p, LargoVerbatim(p))
<1> DEFINE comillas == {i \in (p + 1)..n : codigo[i] = Comilla}
           pares(q) == Cardinality({i \in comillas : i < q}) % 2
           sigue(q) == q + 1 \in comillas /\ \E r \in comillas : r > q + 1
           S == {q \in comillas : pares(q) = 1 /\ ~ sigue(q)}
<1>1. n \in Nat
  OBVIOUS
<1>2. S \subseteq (p + 1)..n
  OBVIOUS
<1>3. LargoVerbatim(p)
        = IF Empieza(p, <<"@", Comilla>>) /\ S # {} THEN Min(S) - p + 1 ELSE 0
  BY DEF LargoVerbatim
<1> HIDE DEF S
<1>4. CASE Empieza(p, <<"@", Comilla>>) /\ S # {}
  <2>1. S \in SUBSET Nat
    BY <1>1, <1>2
  <2>2. Min(S) \in (p + 1)..n
    BY <1>2, <1>4, <2>1, MinimoEsta
  <2> QED
    BY <1>1, <1>3, <1>4, <2>2 DEF Dentro
<1>5. CASE ~ (Empieza(p, <<"@", Comilla>>) /\ S # {})
  BY <1>1, <1>3, <1>5 DEF Dentro
<1> QED
  BY <1>4, <1>5

LEMMA TextoDentro ==
  ASSUME n \in Nat, NEW p \in 1..(n + 1)
  PROVE  Dentro(p, LargoTexto(p))
BY CadenaDentro, VerbatimDentro DEF LargoTexto

(* A number is read at every digit. *)
LEMMA NumeroDentro ==
  ASSUME NEW p, Lugar(p)
  PROVE  /\ Dentro(p, LargoNumero(p))
         /\ LargoNumero(p) = 0 => codigo[p] \notin Digitos
<1> DEFINE k == Corrida(p, Digitos)
           f == IF k > 0 /\ EsUno(p + k, {"."}) THEN Corrida(p + k + 1, Digitos) ELSE 0
<1>1. n \in Nat
  BY DEF Lugar
<1>2. Dentro(p, k) /\ (k = 0 => codigo[p] \notin Digitos)
  BY CorridaDesde
<1>3. Dentro(p, k + 1 + f) \/ f = 0
  <2>1. CASE k > 0 /\ EsUno(p + k, {"."})
    <3>1. p + k + 1 \in 1..(n + 1)
      BY <1>1, <1>2, <2>1 DEF EsUno, Lugar, Dentro
    <3>2. Dentro(p + k + 1, Corrida(p + k + 1, Digitos))
      BY <1>1, <3>1, CorridaDentro
    <3> HIDE DEF k
    <3> QED
      BY <1>1, <1>2, <2>1, <3>1, <3>2 DEF Dentro, Lugar
  <2>2. CASE ~ (k > 0 /\ EsUno(p + k, {"."}))
    BY <2>2
  <2> QED
    BY <2>1, <2>2
<1>4. f \in Nat
  <2>1. CASE k > 0 /\ EsUno(p + k, {"."})
    <3>1. p + k + 1 \in 1..(n + 1)
      BY <1>1, <1>2, <2>1 DEF EsUno, Lugar, Dentro
    <3> QED
      BY <1>1, <2>1, <3>1, CorridaDentro DEF Dentro
  <2>2. CASE ~ (k > 0 /\ EsUno(p + k, {"."}))
    BY <2>2
  <2> QED
    BY <2>1, <2>2
<1>5. LargoNumero(p) = IF f > 0 THEN k + 1 + f ELSE k
  BY DEF LargoNumero
<1> HIDE DEF k, f
<1> QED
  BY <1>2, <1>3, <1>4, <1>5 DEF Dentro

(* A variable is read at every ASCII letter. *)
LEMMA VariableDentro ==
  ASSUME NEW p, Lugar(p)
  PROVE  /\ Dentro(p, LargoVariable(p))
         /\ LargoVariable(p) = 0 => codigo[p] \notin Letras
<1> DEFINE k == Corrida(p, Letras \cup {"_"})
           d == Corrida(p + k, Digitos)
<1>1. n \in Nat
  BY DEF Lugar
<1>2. Dentro(p, k) /\ (k = 0 => codigo[p] \notin Letras)
  BY CorridaDesde
<1>3. p + k \in 1..(n + 1)
  <2> HIDE DEF k
  <2> QED
    BY <1>1, <1>2 DEF Lugar, Dentro
<1>4. Dentro(p + k, d)
  BY <1>1, <1>3, CorridaDentro
<1>5. LargoVariable(p) = IF k = 0 THEN 0 ELSE k + d
  BY DEF LargoVariable
<1> HIDE DEF k, d
<1> QED
  BY <1>1, <1>2, <1>3, <1>4, <1>5 DEF Dentro, Lugar

LEMMA PalabraDentro ==
  ASSUME NEW p, Lugar(p), NEW tipo
  PROVE  Dentro(p, LargoPalabra(p, tipo))
<1> DEFINE S == {i \in DOMAIN Palabras : Palabras[i].tipo = tipo
                                         /\ Empieza(p, Palabras[i].letras)}
<1>1. n \in Nat
  BY DEF Lugar
<1>2. S \in SUBSET Nat
  BY PalabrasAssumption
<1>3. S # {} => Min(S) \in S
  BY <1>2, MinimoEsta
<1>4. \A i \in S : Dentro(p, Len(Palabras[i].letras))
  <2> TAKE i \in S
  <2> DEFINE X == [tipo : {"TipoDato", "PalabraReservada", "PalabraDefinicion"},
                   letras : Seq(Letras)]
  <2>1. Palabras[i] \in X
    <3>1. Palabras \in Seq(X) /\ i \in DOMAIN Palabras
      BY PalabrasAssumption
    <3> HIDE DEF X, S
    <3> QED
      BY <3>1
  <2>2. Len(Palabras[i].letras) \in Nat
    BY <2>1
  <2>3. Empieza(p, Palabras[i].letras)
    OBVIOUS
  <2> QED
    BY <2>2, <2>3 DEF Empieza, Dentro
<1>5. LargoPalabra(p, tipo) = IF S = {} THEN 0 ELSE Len(Palabras[Min(S)].letras)
  BY DEF LargoPalabra
<1> HIDE DEF S
<1> QED
  BY <1>1, <1>3, <1>4, <1>5 DEF Dentro, Lugar

-----------------------------------------------------------------------------
(* The groups of the regular expression *)

LEMMA EmpiezaDentro ==
  ASSUME NEW p, Lugar(p), NEW S, \A s \in S : Len(s) = 2
  PROVE  EmpiezaUno(p, S) => Dentro(p, 2)
BY DEF EmpiezaUno, Empieza, Dentro

LEMMA LargoDentro ==
  ASSUME NEW p, Lugar(p), NEW tipo \in Tipos
  PROVE  Dentro(p, Largo(tipo, p))
<1>1. Dentro(p, 0) /\ Dentro(p, 1)
  BY DEF Lugar, Dentro
<1>2. EmpiezaUno(p, Dobles) => Dentro(p, 2)
  BY EmpiezaDentro DEF Dobles
<1>3. EmpiezaUno(p, {<<"&", "&">>, <<"|", "|">>}) => Dentro(p, 2)
  BY EmpiezaDentro
<1>4. EmpiezaUno(p, {<<"-", "=">>, <<"%", "=">>}) => Dentro(p, 2)
  BY EmpiezaDentro
<1>5. \A c : Dentro(p, Si(c, 1))
  BY <1>1 DEF Si
<1>6. Dentro(p, Si(Empieza(p, <<"+", "+">>), 2)) /\ Dentro(p, Si(Empieza(p, <<"-", "-">>), 2))
  BY <1>1 DEF Si, Empieza, Dentro
<1>7. Dentro(p, LargoPalabra(p, tipo))
  BY PalabraDentro
<1>8. Dentro(p, LargoNumero(p)) /\ Dentro(p, LargoVariable(p))
  BY NumeroDentro, VariableDentro
<1>9. Dentro(p, LargoVerbatim(p)) /\ Dentro(p, LargoCadena(p, {}))
  BY CadenaDentro, VerbatimDentro DEF Lugar
<1> DEFINE caracter == /\ Empieza(p, <<"'">>) /\ Empieza(p + 2, <<"'">>)
                       /\ codigo[p + 1] \notin {"'"} \cup FinDeLinea
<1>10. Dentro(p, Si(caracter, 3))
  BY <1>1 DEF Si, Empieza, Dentro, Lugar
<1>11. tipo \in {"OperadorRelacional", "OperadorLogico", "OperadorIncremental",
     "OperadorDecremental", "OperadorAritmetico", "TipoDato",
     "PalabraReservada", "PalabraDefinicion", "Numero", "Variable", "Cadena",
     "Caracter", "OperadorAsignacion", "Parentesis", "Llave", "Corchete",
     "OperadorTerminador", "Coma", "Error"}
  BY DEF Tipos, Alternativas
<1>12. CASE tipo \in {"OperadorRelacional", "OperadorLogico", "OperadorIncremental",
                      "OperadorDecremental", "OperadorAritmetico"}
  BY <1>1, <1>2, <1>3, <1>5, <1>6, <1>12 DEF Largo
<1>13. CASE tipo \in {"TipoDato", "PalabraReservada", "PalabraDefinicion",
                      "Numero", "Variable", "Cadena"}
  BY <1>7, <1>8, <1>9, <1>13 DEF Largo
<1>14. CASE tipo = "Caracter"
  BY <1>10, <1>14 DEF Largo
<1>15. CASE tipo \in {"OperadorAsignacion", "Parentesis", "Llave", "Corchete",
                      "OperadorTerminador", "Coma", "Error"}
  BY <1>1, <1>4, <1>5, <1>15 DEF Largo
<1> QED
  BY <1>11, <1>12, <1>13, <1>14, <1>15

(* What matches reads something; where nothing matches there is a letter   *)
(* that is not ASCII.                                                      *)
LEMMA GrupoLee ==
  ASSUME NEW p, Lugar(p)
  PROVE  \/ /\ Grupo(p) \in Tipos
            /\ Dentro(p, Largo(Grupo(p), p)) /\ Largo(Grupo(p), p) > 0
         \/ Grupo(p) = "Nada" /\ codigo[p] \in Ajenas
<1>1. DOMAIN Alternativas = 1..19
  BY DEF Alternativas
<1>2. Que(p) \in SUBSET Nat
  BY <1>1 DEF Que
<1>3. CASE Que(p) = {}
  <2>1. \A tipo \in Tipos : ~ (Largo(tipo, p) > 0)
    BY <1>3 DEF Que, Tipos
  <2>2. "Numero" \in Tipos /\ "Variable" \in Tipos /\ "Error" \in Tipos
    <3>1. Alternativas[9] = "Numero" /\ Alternativas[10] = "Variable"
          /\ Alternativas[19] = "Error"
      BY DEF Alternativas
    <3> QED
      BY <1>1, <3>1 DEF Tipos
  <2>3. ~ (LargoNumero(p) > 0) /\ ~ (LargoVariable(p) > 0)
    BY <2>1, <2>2 DEF Largo
  <2>4. codigo[p] \notin Digitos /\ codigo[p] \notin Letras
    BY <2>3, NumeroDentro, VariableDentro DEF Dentro
  <2>5. codigo[p] \in Letras \cup Ajenas \cup Digitos
    <3>1. Largo("Error", p) = Si(codigo[p] \notin Letras \cup Ajenas \cup Digitos, 1)
      BY DEF Largo
    <3>2. ~ (Largo("Error", p) > 0)
      BY <2>1, <2>2
    <3> QED
      BY <3>1, <3>2 DEF Si
  <2> QED
    BY <1>3, <2>4, <2>5 DEF Grupo
<1>4. CASE Que(p) # {}
  <2>1. Min(Que(p)) \in Que(p)
    BY <1>2, <1>4, MinimoEsta
  <2>2. Grupo(p) = Alternativas[Min(Que(p))]
    BY <1>4 DEF Grupo
  <2> QED
    BY <2>1, <2>2, LargoDentro DEF Que, Tipos
<1> QED
  BY <1>3, <1>4

-----------------------------------------------------------------------------
(* The invariant: the type invariant, which needs the text to be a         *)
(* sequence while comments are taken out of it, and the lexemes found so   *)
(* far are before the scan and cover all of the text there but blanks and  *)
(* letters that are not ASCII.                                             *)
Detras == \A i \in DOMAIN lexemas : lexemas[i].hasta < pos
IInv ==
  /\ TypeOK /\ n \in Nat
  /\ fase = "comentarios" => /\ codigo \in Seq(Car) /\ limpio \in Seq(Car)
                             /\ lexemas = << >>
  /\ Detras /\ NadaSePierde

LEMMA InicioIInv ==
  Init => IInv
<1> SUFFICES ASSUME Init PROVE IInv
  OBVIOUS
<1>1. codigo \in Seq(Car)
  <2>1. PICK e \in Entradas : codigo = Append(e, "nl")
    BY DEF Init
  <2>2. e \in Seq(Car) /\ "nl" \in Car
    <3>1. e \in Seq(STRING)
      BY EntradasAssumption
    <3> QED
      BY <3>1 DEF Car
  <2> QED
    BY <2>1, <2>2
<1>2. n \in Nat
  BY <1>1 DEF n
<1> QED
  BY <1>1, <1>2 DEF Init, IInv, TypeOK, Detras, NadaSePierde

(* RetirarSaltos keeps a number of characters. *)
LEMMA LargoSinSaltos ==
  ASSUME NEW s \in Seq(Car)
  PROVE  Len(SinSaltos(s)) \in Nat
<1> DEFINE quedan == {i \in DOMAIN s : s[i] # "nl"}
           f == SinSaltos(s)
           m == Cardinality(quedan)
<1>1. m \in Nat
  <2>1. quedan \subseteq 1..Len(s) /\ Len(s) \in Nat
    OBVIOUS
  <2>2. IsFiniteSet(1..Len(s))
    BY <2>1, FS_Interval
  <2>3. IsFiniteSet(quedan)
    BY <2>1, <2>2, FS_Subset
  <2> QED
    BY <2>3, FS_CardinalityType
<1>2. \E e : f = [j \in 1..m |-> e[j]]
  <2>1. f = [j \in 1..m |-> f[j]]
    BY DEF SinSaltos
  <2> QED
    BY <2>1
<1> HIDE DEF m, f
<1>3. PICK e : f = [j \in 1..m |-> e[j]]
  BY <1>2
<1>4. f \in Seq({e[j] : j \in 1..m})
  BY <1>1, <1>3
<1>5. Len(f) \in Nat
  BY <1>4
<1> QED
  BY <1>5 DEF f

(* The lexemes found are pieces of the text before the scan. *)
LEMMA FichasDetras ==
  ASSUME lexemas \in Seq(Lexema), Detras, pos \in Nat,
         \A i \in DOMAIN lexemas : lexemas[i].desde <= lexemas[i].hasta,
         NEW i \in DOMAIN lexemas
  PROVE  /\ lexemas[i].desde \in Nat /\ lexemas[i].hasta \in Nat
         /\ lexemas[i].desde <= lexemas[i].hasta
         /\ lexemas[i].hasta < pos
<1>1. lexemas[i] \in Lexema
  OBVIOUS
<1> QED
  BY <1>1 DEF Detras, Lexema

(* While comments are taken out: k characters are read and s kept. *)
LEMMA GuardarConserva ==
  ASSUME IInv, fase = "comentarios", NEW k, Dentro(pos, k), NEW s \in Seq(Car),
         Guardar(k, s)
  PROVE  IInv'
<1>1. /\ pos' = pos + k /\ limpio' = limpio \o s /\ fase' = fase
      /\ codigo' = codigo /\ lexemas' = lexemas
  BY DEF Guardar
<1>2. pos' \in 1..(n + 1)
  BY <1>1 DEF IInv, TypeOK, Dentro
<1>3. limpio' \in Seq(Car)
  BY <1>1 DEF IInv
<1> QED
  BY <1>1, <1>2, <1>3 DEF IInv, TypeOK, Detras, NadaSePierde, n

(* While lexemes are extracted: k characters are read, and either a lexeme *)
(* is made of them or they are one that makes none.                        *)
LEMMA LeerConserva ==
  ASSUME IInv, fase # "comentarios", NEW k, Dentro(pos, k), k > 0,
         \/ \E tipo \in Tipos :
              Leer(k, <<[tipo |-> tipo, desde |-> pos, hasta |-> pos + k - 1]>>)
         \/ Leer(k, << >>) /\ k = 1 /\ codigo[pos] \in Blancos \cup Ajenas
  PROVE  IInv'
<1>1. /\ pos' = pos + k /\ fase' = fase /\ codigo' = codigo /\ limpio' = limpio
  BY DEF Leer
<1>2. pos' \in 1..(n + 1) /\ pos \in Nat /\ k \in Nat /\ n \in Nat
  BY <1>1 DEF IInv, TypeOK, Dentro
<1>3. lexemas \in Seq(Lexema)
  BY DEF IInv, TypeOK
<1>4. CASE Leer(k, << >>) /\ k = 1 /\ codigo[pos] \in Blancos \cup Ajenas
  <2>1. lexemas' = lexemas
    BY <1>3, <1>4 DEF Leer
  <2>2. \A c \in 1..(pos' - 1) : c \in 1..(pos - 1) \/ c = pos
    BY <1>1, <1>2, <1>4
  <2>3. Detras'
    <3> SUFFICES ASSUME NEW i \in DOMAIN lexemas PROVE lexemas[i].hasta < pos'
      BY <2>1 DEF Detras
    <3>1. lexemas[i].hasta \in Nat /\ lexemas[i].hasta < pos
      BY <1>2, <1>3, FichasDetras DEF IInv, TypeOK
    <3> QED
      BY <1>1, <1>2, <3>1
  <2>4. NadaSePierde'
    BY <1>1, <1>4, <2>1, <2>2 DEF IInv, NadaSePierde, CaracteresDe
  <2> QED
    BY <1>1, <1>2, <2>1, <2>3, <2>4 DEF IInv, TypeOK, n
<1>5. ASSUME NEW tipo \in Tipos,
             Leer(k, <<[tipo |-> tipo, desde |-> pos, hasta |-> pos + k - 1]>>)
      PROVE  IInv'
  <2> DEFINE x == [tipo |-> tipo, desde |-> pos, hasta |-> pos + k - 1]
             m == Len(lexemas)
  <2>1. x \in Lexema /\ x.desde = pos /\ x.hasta = pos + k - 1
    BY <1>2 DEF Lexema
  <2>2. lexemas' = lexemas \o <<x>>
    BY <1>5 DEF Leer
  <2> HIDE DEF x
  <2>3. /\ lexemas' \in Seq(Lexema) /\ m \in Nat /\ DOMAIN lexemas = 1..m
        /\ DOMAIN lexemas' = 1..(m + 1)
        /\ lexemas'[m + 1] = x
        /\ \A i \in 1..m : lexemas'[i] = lexemas[i]
    BY <1>3, <2>1, <2>2
  <2>4. \A i \in 1..(m + 1) : i \in 1..m \/ i = m + 1
    BY <2>3
  <2>5. \A i \in 1..m : /\ lexemas[i].desde \in Nat /\ lexemas[i].hasta \in Nat
                        /\ lexemas[i].desde <= lexemas[i].hasta
                        /\ lexemas[i].hasta < pos
    BY <1>2, <1>3, <2>3, FichasDetras DEF IInv, TypeOK
  <2>6. Detras' /\ \A i \in DOMAIN lexemas' : lexemas'[i].desde <= lexemas'[i].hasta
    <3> SUFFICES ASSUME NEW i \in 1..(m + 1)
                 PROVE  /\ lexemas'[i].hasta < pos'
                        /\ lexemas'[i].desde <= lexemas'[i].hasta
      BY <2>3 DEF Detras
    <3>1. CASE i \in 1..m
      <4>1. lexemas'[i] = lexemas[i]
        BY <2>3, <3>1
      <4>2. /\ lexemas[i].desde \in Nat /\ lexemas[i].hasta \in Nat
            /\ lexemas[i].desde <= lexemas[i].hasta
            /\ lexemas[i].hasta < pos
        BY <2>5, <3>1
      <4> QED
        BY <1>1, <1>2, <4>1, <4>2
    <3>2. CASE i = m + 1
      <4>1. lexemas'[i] = x
        BY <2>3, <3>2
      <4> QED
        BY <1>1, <1>2, <2>1, <4>1
    <3> QED
      BY <2>4, <3>1, <3>2
  <2>7. ASSUME NEW i \in 1..(m + 1), NEW j \in 1..(i - 1)
        PROVE  lexemas'[j].hasta < lexemas'[i].desde
    <3>1. j \in 1..m /\ lexemas'[j] = lexemas[j]
      BY <2>3
    <3>2. CASE i = m + 1
      BY <2>1, <2>3, <2>5, <3>1, <3>2
    <3>3. CASE i \in 1..m
      <4>1. lexemas'[i] = lexemas[i] /\ lexemas[j].hasta < lexemas[i].desde
        BY <2>3, <3>3 DEF IInv, NadaSePierde
      <4> QED
        BY <3>1, <4>1
    <3> QED
      BY <2>4, <3>2, <3>3
  <2>8. ASSUME NEW c \in 1..(pos' - 1)
        PROVE  \/ \E i \in DOMAIN lexemas' : c \in lexemas'[i].desde..lexemas'[i].hasta
               \/ codigo[c] \in Blancos \cup Ajenas
    <3>1. CASE c \in 1..(pos - 1)
      <4>1. \/ \E i \in 1..m : c \in lexemas[i].desde..lexemas[i].hasta
            \/ codigo[c] \in Blancos \cup Ajenas
        BY <2>3, <3>1 DEF IInv, NadaSePierde, CaracteresDe
      <4> QED
        BY <2>3, <4>1
    <3>2. CASE c \in pos..(pos + k - 1)
      BY <2>1, <2>3, <3>2
    <3> QED
      BY <1>1, <1>2, <3>1, <3>2
  <2>9. NadaSePierde'
    BY <1>1, <2>3, <2>7, <2>8 DEF NadaSePierde, CaracteresDe
  <2> QED
    BY <1>1, <1>2, <2>3, <2>6, <2>9 DEF IInv, TypeOK, n
<1> QED
  BY <1>4, <1>5

LEMMA PasoIInv ==
  ASSUME IInv, [Next]_vars
  PROVE  IInv'
<1>0. n \in Nat /\ pos \in 1..(n + 1)
  BY DEF IInv, TypeOK
<1>1. CASE RetirarBloque
  <2>1. Dentro(pos, LargoBloque(pos))
    BY <1>0, HastaConDentro DEF LargoBloque, Dentro
  <2>2. << >> \in Seq(Car)
    OBVIOUS
  <2> QED
    BY <1>1, <2>1, <2>2, GuardarConserva DEF RetirarBloque
<1>2. CASE RetirarLinea
  <2> DEFINE S == {i \in pos..n : codigo[i] \in FinDeLinea}
  <2>1. LargoLinea(pos) = IF Empieza(pos, <<"/", "/">>) /\ S # {}
                            THEN Min(S) - pos + 1 ELSE 0
    BY DEF LargoLinea
  <2>2. S \subseteq pos..n
    OBVIOUS
  <2> HIDE DEF S
  <2>3. S # {} => Min(S) \in pos..n
    <3>1. S \in SUBSET Nat
      BY <1>0, <2>2
    <3> QED
      BY <2>2, <3>1, MinimoEsta
  <2>4. Dentro(pos, LargoLinea(pos))
    <3>1. CASE Empieza(pos, <<"/", "/">>) /\ S # {}
      BY <1>0, <2>1, <2>3, <3>1 DEF Dentro
    <3>2. CASE ~ (Empieza(pos, <<"/", "/">>) /\ S # {})
      BY <1>0, <2>1, <3>2 DEF Dentro
    <3> QED
      BY <3>1, <3>2
  <2>5. <<"nl">> \in Seq(Car)
    <3>1. "nl" \in Car
      BY DEF Car
    <3> QED
      BY <3>1
  <2> QED
    BY <1>2, <2>4, <2>5, GuardarConserva DEF RetirarLinea
<1>3. CASE Copiar
  <2> DEFINE k == Max({1, LargoTexto(pos)})
  <2>1. Dentro(pos, LargoTexto(pos)) /\ pos <= n /\ fase = "comentarios"
    BY <1>0, <1>3, TextoDentro DEF Copiar
  <2>2. Guardar(k, Trozo(pos, k))
    BY <1>3 DEF Copiar
  <2>3. k \in {1, LargoTexto(pos)}
    BY <2>1 DEF Max, Dentro
  <2> HIDE DEF k
  <2>4. Dentro(pos, k)
    BY <1>0, <2>1, <2>3 DEF Dentro
  <2>5. Trozo(pos, k) \in Seq(Car)
    <3>1. codigo \in Seq(Car) /\ Len(codigo) = n
      BY <2>1 DEF IInv, n
    <3>2. \A i \in pos..(pos + k - 1) : codigo[i] \in Car
      BY <1>0, <2>4, <3>1 DEF Dentro
    <3> QED
      BY <1>0, <2>4, <3>1, <3>2 DEF Trozo, Dentro
  <2> QED
    BY <2>1, <2>2, <2>4, <2>5, GuardarConserva
<1>4. CASE RetirarSaltos
  <2>1. n' \in Nat
    BY <1>4, LargoSinSaltos DEF IInv, RetirarSaltos, n
  <2>2. lexemas = << >> /\ lexemas' = lexemas /\ pos' = 1 /\ fase' = "lexemas"
    BY <1>4 DEF IInv, RetirarSaltos
  <2>3. lexemas' = << >> /\ lexemas' \in Seq(Lexema) /\ DOMAIN lexemas' = {}
    BY <2>2
  <2>4. pos' \in 1..(n' + 1) /\ 1..(pos' - 1) = {}
    <3>1. \A m \in Nat : 1 \in 1..(m + 1)
      OBVIOUS
    <3>2. pos' = 1
      BY <2>2
    <3>3. 1..(1 - 1) = {}
      OBVIOUS
    <3> QED
      BY ONLY <2>1, <3>1, <3>2, <3>3
  <2>5. TypeOK' /\ Detras'
    BY <2>2, <2>3, <2>4 DEF TypeOK, Detras
  <2>6. NadaSePierde'
    BY <2>3, <2>4 DEF NadaSePierde
  <2> QED
    BY <2>1, <2>2, <2>5, <2>6 DEF IInv
<1>5. CASE ExtraerLexema
  <2> DEFINE grupo == Grupo(pos)
  <2>1. Lugar(pos) /\ fase # "comentarios"
    BY <1>0, <1>5 DEF ExtraerLexema, Lugar
  <2>2. Extraer(grupo) \/ Saltar(grupo)
    BY <1>5 DEF ExtraerLexema
  <2> HIDE DEF grupo
  <2>3. \/ /\ grupo \in Tipos /\ Dentro(pos, Largo(grupo, pos))
           /\ Largo(grupo, pos) > 0
        \/ grupo = "Nada" /\ codigo[pos] \in Ajenas
    BY <2>1, GrupoLee DEF grupo
  <2>4. CASE Extraer(grupo)
    BY <2>1, <2>3, <2>4, LeerConserva DEF Extraer, Callado
  <2>5. CASE Saltar(grupo)
    <3>1. Dentro(pos, 1)
      BY <2>1 DEF Lugar, Dentro
    <3>2. codigo[pos] \in Blancos \cup Ajenas
      <4>1. grupo = "Nada" => ~ (grupo \in Tipos)
        BY DEF Tipos, Alternativas
      <4> QED
        BY <2>3, <2>5, <4>1 DEF Saltar, Callado
    <3> QED
      BY <2>1, <2>5, <3>1, <3>2, LeerConserva DEF Saltar
  <2> QED
    BY <2>2, <2>4, <2>5
<1>6. CASE TerminarAnalisis
  BY <1>6 DEF TerminarAnalisis, IInv, TypeOK, Detras, NadaSePierde, CaracteresDe, n
<1>7. CASE UNCHANGED vars
  BY <1>7 DEF vars, IInv, TypeOK, Detras, NadaSePierde, CaracteresDe, n
<1> QED
  BY <1>1, <1>2, <1>3, <1>4, <1>5, <1>6, <1>7 DEF Next, Terminado

(* The scans stay inside the text, and every lexeme is a piece of it. *)
THEOREM LecturaBienTipada ==
  Spec => []TypeOK
<1>1. IInv => TypeOK
  BY DEF IInv
<1> QED
  BY <1>1, InicioIInv, PasoIInv, PTL DEF Spec

(* Lexemes come in order and never overlap, and between them there are     *)
(* only blanks and letters that are not ASCII.                             *)
THEOREM LecturaCompleta ==
  Spec => []NadaSePierde
<1>1. IInv => NadaSePierde
  BY DEF IInv
<1> QED
  BY <1>1, InicioIInv, PasoIInv, PTL DEF Spec
=============================================================================
