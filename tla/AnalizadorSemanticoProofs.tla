--------------------- MODULE AnalizadorSemanticoProofs ----------------------
(***************************************************************************)
(* Proofs about AnalizadorSemantico, for every list of lexemes, well       *)
(* formed or not.                                                          *)
(***************************************************************************)
EXTENDS AnalizadorSemantico, WellFoundedInduction, TLAPS

Lista(R) == \E X : R \in Seq(X)

(* The parts of the state, as operators of what they are about: L stands   *)
(* for the list of lexemes and E for the errors reported.                  *)
EsRegistro(x) == x = [codigo |-> x.codigo, nombre |-> x.nombre, tipo |-> x.tipo,
                      valor |-> x.valor]
EsLexema(x) == x = [tipo |-> x.tipo, texto |-> x.texto]
EsElemento(x) == x = [origen |-> x.origen, tipo |-> x.tipo, texto |-> x.texto]
EsLlamada(c) == c = [copia |-> c.copia, leidos |-> c.leidos, izq |-> c.izq,
                     der |-> c.der, op |-> c.op, result |-> c.result]

(* No text "Error" but that of an identifier, unless something is reported. *)
Tabla(R, E) ==
  /\ Lista(R) /\ \A i \in DOMAIN R : EsRegistro(R[i])
  /\ E = {} => \A i \in DOMAIN R : R[i].valor # TextoError

SinError(K) ==
  \A j \in DOMAIN K : K[j].tipo # "Variable" => K[j].texto # TextoError

Listado(L, E) ==
  /\ Len(L) \in Nat /\ DOMAIN L = 1..Len(L)
  /\ \A i \in DOMAIN L : EsLexema(L[i])
  /\ E = {} => SinError(L)

(* A list of references: each element has the kind of the lexeme it is.    *)
Copia(K, L, E) ==
  /\ Lista(K) /\ \A j \in DOMAIN K : EsElemento(K[j])
  /\ \A i \in DOMAIN L : \A j \in DOMAIN K :
       K[j].origen = i - 1 => K[j].tipo = L[i].tipo
  /\ E = {} => SinError(K)

Sana(c, L, E) ==
  /\ EsLlamada(c) /\ c.leidos \in Nat
  /\ Copia(c.copia, L, E)
  /\ E = {} => c.result # TextoError

(* The stack: a second call has the three elements of a product. *)
Pila(P, L, E) ==
  \/ P = << >>
  \/ \E c : Sana(c, L, E) /\ P = <<c>>
  \/ \E c, d : Sana(c, L, E) /\ Sana(d, L, E) /\ Len(d.copia) = 3 /\ P = <<c, d>>

IInv ==
  /\ turno \in 0..n
  /\ Tabla(registros, errores)
  /\ Listado(lexemas, errores)
  /\ Pila(llamadas, lexemas, errores)
  /\ llamadas # << >> => turno < n

-----------------------------------------------------------------------------
(* The least of a set of natural numbers. *)
LEMMA MinimoEsta ==
  ASSUME NEW S \in SUBSET Nat, S # {}
  PROVE  Min(S) \in S
<1>1. PICK x \in S : \A y \in S : ~ (<<y, x>> \in OpToRel(<, Nat))
  BY NatLessThanWellFounded, WFMin
<1>2. \A y \in S : x <= y
  <2> TAKE y \in S
  <2>1. y \in Nat /\ x \in Nat
    OBVIOUS
  <2>2. y < x => <<y, x>> \in OpToRel(<, Nat)
    BY <2>1, Zenon DEF OpToRel
  <2>3. ~ (y < x)
    BY <1>1, <2>2, Zenon
  <2> QED
    BY <2>1, <2>3
<1> QED
  BY <1>2 DEF Min

LEMMA MinimoMenor ==
  ASSUME NEW S \in SUBSET Nat, NEW y \in S
  PROVE  Min(S) <= y
<1>1. PICK x \in S : \A z \in S : ~ (<<z, x>> \in OpToRel(<, Nat))
  BY NatLessThanWellFounded, WFMin
<1>2. \A z \in S : x <= z
  <2> TAKE z \in S
  <2>1. z \in Nat /\ x \in Nat
    OBVIOUS
  <2>2. z < x => <<z, x>> \in OpToRel(<, Nat)
    BY <2>1, Zenon DEF OpToRel
  <2>3. ~ (z < x)
    BY <1>1, <2>2, Zenon
  <2> QED
    BY <2>1, <2>3
<1> QED
  BY <1>2 DEF Min

(* Stacks of at most two calls. *)
LEMMA PilaCorta ==
  ASSUME NEW c, NEW d
  PROVE  /\ Last(<<c>>) = c /\ Front(<<c>>) = << >> /\ Len(<<c>>) = 1
         /\ Last(<<c, d>>) = d /\ Front(<<c, d>>) = <<c>> /\ Len(<<c, d>>) = 2
         /\ Append(<< >>, c) = <<c>> /\ Append(<<c>>, d) = <<c, d>>
         /\ << >> \o <<c, d>> = <<c, d>>
         /\ <<c>> # << >> /\ <<c, d>> # << >> /\ Len(<< >>) = 0
<1> DEFINE X == {c, d}
<1>1. /\ <<c>> \in Seq(X) /\ <<c, d>> \in Seq(X) /\ << >> \in Seq(X)
      /\ Len(<<c>>) = 1 /\ Len(<<c, d>>) = 2 /\ Len(<< >>) = 0
      /\ <<c>>[1] = c /\ <<c, d>>[1] = c /\ <<c, d>>[2] = d
  OBVIOUS
<1>2. Last(<<c>>) = c /\ Last(<<c, d>>) = d
  BY <1>1 DEF Last
<1>3. Front(<<c>>) = << >>
  <2>1. Front(<<c>>) = SubSeq(<<c>>, 1, 0)
    BY <1>1 DEF Front
  <2>2. SubSeq(<<c>>, 1, 0) \in Seq(X) /\ Len(SubSeq(<<c>>, 1, 0)) = 0
    BY <1>1
  <2> QED
    BY <2>1, <2>2
<1>4. Front(<<c, d>>) = <<c>>
  <2>1. Front(<<c, d>>) = SubSeq(<<c, d>>, 1, 1)
    BY <1>1 DEF Front
  <2>2. /\ SubSeq(<<c, d>>, 1, 1) \in Seq(X) /\ Len(SubSeq(<<c, d>>, 1, 1)) = 1
        /\ SubSeq(<<c, d>>, 1, 1)[1] = c
    BY <1>1
  <2> QED
    BY <1>1, <2>1, <2>2
<1>5. Append(<< >>, c) = <<c>> /\ Append(<<c>>, d) = <<c, d>>
  <2>1. \A s \in Seq(X), x \in X :
          /\ Append(s, x) \in Seq(X) /\ Len(Append(s, x)) = Len(s) + 1
          /\ Append(s, x)[Len(s) + 1] = x
          /\ \A i \in 1..Len(s) : Append(s, x)[i] = s[i]
    <3> HIDE DEF X
    <3> QED
      OBVIOUS
  <2>2. c \in X /\ d \in X
    OBVIOUS
  <2> HIDE DEF X
  <2>3. Append(<< >>, c) = <<c>>
    BY <1>1, <2>1, <2>2
  <2>4. Append(<<c>>, d) = <<c, d>>
    <3> DEFINE A == Append(<<c>>, d)
               B == <<c, d>>
    <3>1. A \in Seq(X) /\ Len(A) = 2 /\ A[1] = c /\ A[2] = d
      BY <1>1, <2>1, <2>2
    <3>2. B \in Seq(X) /\ Len(B) = 2 /\ B[1] = c /\ B[2] = d
      BY <1>1
    <3> HIDE DEF A, B
    <3>3. A = B
      BY <3>1, <3>2
    <3> QED
      BY <3>3 DEF A, B
  <2> QED
    BY <2>3, <2>4
<1>6. << >> \o <<c, d>> = <<c, d>>
  <2>1. \A s \in Seq(X) : << >> \o s = s
    <3> HIDE DEF X
    <3> QED
      OBVIOUS
  <2> QED
    BY <1>1, <2>1
<1> QED
  BY <1>1, <1>2, <1>3, <1>4, <1>5, <1>6

(* More reports do not break anything. *)
LEMMA MasErrores ==
  ASSUME NEW E, NEW F, E \subseteq F, NEW L, NEW c, Sana(c, L, E)
  PROVE  Sana(c, L, F)
BY DEF Sana, Copia

LEMMA MasErroresPila ==
  ASSUME NEW E, NEW F, E \subseteq F, NEW L, NEW P, Pila(P, L, E)
  PROVE  Pila(P, L, F)
BY MasErrores DEF Pila

LEMMA MasErroresTabla ==
  ASSUME NEW E, NEW F, E \subseteq F, NEW L, NEW R, Tabla(R, E), Listado(L, E)
  PROVE  Tabla(R, F) /\ Listado(L, F)
BY DEF Tabla, Listado

(* Writing texts over lexemes of the same kinds. *)
LEMMA MismosTipos ==
  ASSUME NEW E, NEW L, NEW M, DOMAIN M = DOMAIN L,
         \A i \in DOMAIN L : M[i].tipo = L[i].tipo,
         NEW c, Sana(c, L, E)
  PROVE  Sana(c, M, E)
BY DEF Sana, Copia

-----------------------------------------------------------------------------
(* Texts *)

LEMMA TextosDistintos ==
  /\ TextoVacio # TextoError
  /\ Simbolo("+") # TextoError
  /\ \A m, e : Numeral(m, e) # TextoError
BY DEF TextoVacio, TextoError, Simbolo, Numeral

(* An operation without a report does not give "Error". *)
LEMMA OperacionReporta ==
  ASSUME NEW izq, NEW der, NEW op, NEW t
  PROVE  LET r == RealizarOperacion(izq, der, op, t)
         IN  r.caso # "excepcion" /\ r.que = {} => r.texto # TextoError
<1>1. \A x : Valor(x).texto = x /\ Valor(x).caso = "valor"
  BY DEF Valor
<1>2. \A q : Fallo(q).que # {}
  BY DEF Fallo
<1>3. Revienta.caso = "excepcion"
  BY DEF Revienta
<1> DEFINE Dice(r) == r.caso # "excepcion" /\ r.que = {} => r.texto # TextoError
<1>4. Dice(Revienta) /\ Dice(Valor(TextoVacio)) /\ (\A q : Dice(Fallo(q)))
      /\ \A m, e : Dice(Valor(Numeral(m, e)))
  BY <1>1, <1>2, <1>3, TextosDistintos
<1> HIDE DEF Dice
<1>5. \A a, b, o : Dice(OperarEnteros(a, b, o))
  BY <1>4 DEF OperarEnteros
<1>6. \A a, b, o : Dice(OperarDecimales(a, b, o))
  <2>1. \A a, b : /\ Dice(Valor(SumaDecimal(a, b)))
                  /\ Dice(Valor(RestaDecimal(a, b)))
                  /\ Dice(Valor(ProductoDecimal(a, b)))
    BY <1>4 DEF SumaDecimal, RestaDecimal, ProductoDecimal
  <2>2. \A a, b : Dice(Valor(CocienteDecimal(a, b)))
    BY <1>4, Zenon DEF CocienteDecimal
  <2> QED
    BY <1>4, <2>1, <2>2 DEF OperarDecimales
<1>7. Dice(RealizarOperacion(izq, der, op, t))
  <2> DEFINE si == IF \A u \in {izq.texto, der.texto} : EsEntero(u)
                     THEN OperarEnteros(izq.texto.m, der.texto.m, op.texto.c)
                     ELSE Revienta
             sd == IF \A u \in {izq.texto, der.texto} : u # Nulo /\ EsNumeral(u)
                     THEN OperarDecimales(izq.texto, der.texto, op.texto.c)
                     ELSE Revienta
  <2>1. RealizarOperacion(izq, der, op, t)
          \in {Revienta, Fallo("tipos incompatibles"), si, sd, Valor(TextoVacio)}
    BY DEF RealizarOperacion
  <2>2. Dice(si) /\ Dice(sd)
    BY <1>4, <1>5, <1>6
  <2> HIDE DEF si, sd
  <2> QED
    BY <1>4, <2>1, <2>2
<1> QED
  BY <1>7 DEF Dice

-----------------------------------------------------------------------------
(* The symbol table *)

LEMMA ActualizarSana ==
  ASSUME NEW R, NEW E, Tabla(R, E), NEW nombre, NEW t, E = {} => t # TextoError
  PROVE  Tabla(ActualizarValor(R, nombre, t), E)
<1> DEFINE p == PosicionDe(R, nombre)
           S == ActualizarValor(R, nombre, t)
           x == [R[p] EXCEPT !.valor = t]
<1>1. S = [R EXCEPT ![p] = x]
  BY DEF ActualizarValor
<1>2. p \in DOMAIN R => EsRegistro(x) /\ x.valor = t
  <2> SUFFICES ASSUME p \in DOMAIN R PROVE EsRegistro(x) /\ x.valor = t
    OBVIOUS
  <2>1. x = [codigo |-> R[p].codigo, nombre |-> R[p].nombre, tipo |-> R[p].tipo,
             valor |-> t]
    BY DEF Tabla, EsRegistro
  <2> HIDE DEF x
  <2> QED
    BY <2>1 DEF EsRegistro
<1> HIDE DEF x, p, S
<1>3. PICK X : R \in Seq(X)
  BY DEF Tabla, Lista
<1>4. S \in Seq(X \cup {x}) /\ DOMAIN S = DOMAIN R
  <2>1. CASE p \in DOMAIN R
    BY <1>1, <1>3, <2>1
  <2>2. CASE p \notin DOMAIN R
    <3>1. S = R
      BY <1>1, <1>3, <2>2
    <3> QED
      BY <1>3, <3>1
  <2> QED
    BY <2>1, <2>2
<1>5. \A i \in DOMAIN R : S[i] = IF i = p THEN x ELSE R[i]
  BY <1>1
<1> QED
  BY <1>2, <1>4, <1>5 DEF Tabla, Lista, S

LEMMA InsertarSana ==
  ASSUME NEW R, NEW E, Tabla(R, E), NEW nombre, NEW tipo, NEW t,
         E = {} => t # TextoError
  PROVE  Tabla(Insertar(R, nombre, tipo, t), E)
<1>1. CASE VariableEstaDeclarada(R, nombre)
  BY <1>1, ActualizarSana DEF Insertar
<1>2. CASE ~ VariableEstaDeclarada(R, nombre)
  <2> DEFINE x == [codigo |-> SiguienteCorrelativo(R), nombre |-> nombre,
                   tipo |-> tipo, valor |-> t]
             S == Append(R, x)
  <2>1. EsRegistro(x) /\ x.valor = t
    BY DEF EsRegistro
  <2>2. Insertar(R, nombre, tipo, t) = S
    BY <1>2 DEF Insertar
  <2> HIDE DEF x
  <2>3. PICK X : R \in Seq(X)
    BY DEF Tabla, Lista
  <2>4. /\ S \in Seq(X \cup {x}) /\ DOMAIN S = 1..(Len(R) + 1)
        /\ DOMAIN R = 1..Len(R) /\ Len(R) \in Nat
        /\ S[Len(R) + 1] = x /\ \A i \in 1..Len(R) : S[i] = R[i]
    BY <2>3
  <2> HIDE DEF S
  <2>5. \A i \in DOMAIN S : i \in DOMAIN R \/ i = Len(R) + 1
    BY <2>4
  <2> QED
    BY <2>1, <2>2, <2>4, <2>5 DEF Tabla, Lista
<1> QED
  BY <1>1, <1>2

(* The value of a declared variable. *)
LEMMA ValorDeRegistro ==
  ASSUME Tabla(registros, errores), NEW nombre, Declarada(nombre)
  PROVE  errores = {} => RegistroDe(nombre).valor # TextoError
<1> DEFINE S == {i \in DOMAIN registros : registros[i].nombre = nombre}
<1>1. DOMAIN registros \subseteq Nat
  BY DEF Tabla, Lista
<1>2. S # {}
  BY DEF Declarada, VariableEstaDeclarada, Nombres
<1>3. Min(S) \in DOMAIN registros
  <2>1. S \in SUBSET Nat
    BY <1>1
  <2>2. Min(S) \in S
    BY <1>2, <2>1, MinimoEsta
  <2> QED
    BY <2>2
<1>4. RegistroDe(nombre) = registros[Min(S)]
  BY DEF RegistroDe, PosicionDe
<1> QED
  BY <1>3, <1>4 DEF Tabla
-----------------------------------------------------------------------------
(* A call of AsignacionCompleja *)

LEMMA LeerSana ==
  ASSUME NEW c, NEW L, NEW E, Sana(c, L, E)
  PROVE  /\ Sana(Leer(c), L, E) /\ Leer(c).copia = c.copia
         /\ Leer(c).leidos = c.leidos + 1 /\ Leer(c).result = c.result
<1> DEFINE x == c.copia[c.leidos + 1]
           l == c.leidos + 1
           i == IF EsOperando(x) /\ c.izq = Ninguno THEN x ELSE c.izq
           d == IF EsOperando(x) /\ c.izq # Ninguno THEN x ELSE c.der
           o == IF x.tipo = "OperadorAritmetico" THEN x ELSE c.op
           x1 == [c EXCEPT !.leidos = l]
           x2 == [x1 EXCEPT !.izq = i]
           x3 == [x2 EXCEPT !.der = d]
           x4 == [x3 EXCEPT !.op = o]
<1>1. Leer(c) = x4
  BY DEF Leer
<1>2. l \in Nat
  BY DEF Sana
<1> HIDE DEF x, l, i, d, o
<1>3. x1 = [copia |-> c.copia, leidos |-> l, izq |-> c.izq,
            der |-> c.der, op |-> c.op, result |-> c.result]
  BY DEF Sana, EsLlamada
<1> HIDE DEF x1
<1>4. x2 = [copia |-> c.copia, leidos |-> l, izq |-> i,
            der |-> c.der, op |-> c.op, result |-> c.result]
  BY <1>3
<1> HIDE DEF x2
<1>5. x3 = [copia |-> c.copia, leidos |-> l, izq |-> i,
            der |-> d, op |-> c.op, result |-> c.result]
  BY <1>4
<1> HIDE DEF x3
<1>6. x4 = [copia |-> c.copia, leidos |-> l, izq |-> i,
            der |-> d, op |-> o, result |-> c.result]
  BY <1>5
<1> HIDE DEF x4
<1>7. EsLlamada(x4) /\ x4.copia = c.copia /\ x4.leidos = l
        /\ x4.result = c.result
  BY <1>6 DEF EsLlamada
<1> QED
  BY <1>1, <1>2, <1>7 DEF Sana, l

LEMMA ReducirSana ==
  ASSUME NEW c, NEW L, NEW E, Sana(c, L, E), NEW r, E = {} => r.texto # TextoError
  PROVE  /\ Sana(Reducir(c, r), L, E) /\ Reducir(c, r).copia = c.copia
         /\ Reducir(c, r).result = r.texto
<1> DEFINE i == [origen |-> -1, tipo |-> "Numero", texto |-> r.texto]
           t == r.texto
           x1 == [c EXCEPT !.result = t]
           x2 == [x1 EXCEPT !.der = Ninguno]
           x3 == [x2 EXCEPT !.op = Ninguno]
           x4 == [x3 EXCEPT !.izq = i]
<1>1. Reducir(c, r) = x4
  BY DEF Reducir
<1> HIDE DEF i, t
<1>2. /\ x1 = [copia |-> c.copia, leidos |-> c.leidos, izq |-> c.izq,
               der |-> c.der, op |-> c.op, result |-> t]
  BY DEF Sana, EsLlamada
<1> HIDE DEF x1
<1>3. x2 = [copia |-> c.copia, leidos |-> c.leidos, izq |-> c.izq,
            der |-> Ninguno, op |-> c.op, result |-> t]
  BY <1>2
<1> HIDE DEF x2
<1>4. x3 = [copia |-> c.copia, leidos |-> c.leidos, izq |-> c.izq,
            der |-> Ninguno, op |-> Ninguno, result |-> t]
  BY <1>3
<1> HIDE DEF x3
<1>5. x4 = [copia |-> c.copia, leidos |-> c.leidos, izq |-> i,
            der |-> Ninguno, op |-> Ninguno, result |-> t]
  BY <1>4
<1> HIDE DEF x4
<1>6. EsLlamada(x4) /\ x4.copia = c.copia /\ x4.leidos = c.leidos /\ x4.result = t
  BY <1>5 DEF EsLlamada
<1> QED
  BY <1>1, <1>6 DEF Sana, t

(* A call that starts has its variables replaced by their values. *)
LEMMA NuevaSana ==
  ASSUME Tabla(registros, errores), NEW L, Listado(L, errores),
         NEW K, Copia(K, L, errores), NEW F, errores \subseteq F,
         QueConvertir(K) # {} => F # {}
  PROVE  Sana(NuevaLlamada(K), L, F) /\ Len(NuevaLlamada(K).copia) = Len(K)
<1> DEFINE V == Convertir(K)
<1>1. PICK X : K \in Seq(X)
  BY DEF Copia, Lista
<1>2. \A x : /\ EsElemento(VariableValor(x))
             /\ VariableValor(x).origen = -1
             /\ VariableValor(x).texto = RegistroDe(x.texto).valor
  BY DEF VariableValor, EsElemento
<1>3. /\ DOMAIN K = 1..Len(K) /\ Len(K) \in Nat
      /\ DOMAIN V = DOMAIN K
  BY <1>1 DEF Convertir
<1>4. \A j \in DOMAIN K :
        V[j] = IF K[j].tipo = "Variable" /\ (\A k \in SinDeclarar(K) : j < k)
                 THEN VariableValor(K[j]) ELSE K[j]
  BY DEF Convertir
<1>5. V \in Seq({V[j] : j \in DOMAIN K}) /\ Len(V) = Len(K)
  <2> HIDE DEF V
  <2> DEFINE Y == {V[j] : j \in DOMAIN K}
             f == [j \in 1..Len(K) |-> V[j]]
  <2>1. V = f
    BY <1>3 DEF Convertir, V
  <2>2. \A j \in 1..Len(K) : V[j] \in Y
    BY <1>3
  <2> HIDE DEF Y
  <2>3. f \in Seq(Y) /\ Len(f) = Len(K)
    BY <1>3, <2>2
  <2> QED
    BY <2>1, <2>3 DEF Y
<1>6. QueConvertir(K) = {} => SinDeclarar(K) = {}
  BY DEF QueConvertir
<1>7. \A j \in DOMAIN V : EsElemento(V[j])
  BY <1>2, <1>3, <1>4 DEF Copia
<1>8. \A i \in DOMAIN L, j \in DOMAIN V : V[j].origen = i - 1 => V[j].tipo = L[i].tipo
  <2> HIDE DEF V
  <2> QED
    BY <1>2, <1>3, <1>4 DEF Copia, Listado
<1>9. F = {} => SinError(V)
  <2> SUFFICES ASSUME F = {}, NEW j \in DOMAIN V, V[j].tipo # "Variable"
               PROVE  V[j].texto # TextoError
    BY Zenon DEF SinError
  <2>1. errores = {} /\ SinDeclarar(K) = {}
    BY <1>6
  <2>2. CASE K[j].tipo = "Variable"
    <3>1. Declarada(K[j].texto)
      BY <1>3, <2>1, <2>2 DEF SinDeclarar
    <3>2. V[j].texto = RegistroDe(K[j].texto).valor
      BY <1>2, <1>3, <1>4, <2>1, <2>2
    <3> QED
      BY <2>1, <3>1, <3>2, ValorDeRegistro
  <2>3. CASE K[j].tipo # "Variable"
    <3>1. V[j] = K[j]
      BY <1>3, <1>4, <2>3
    <3> QED
      BY <1>3, <2>1, <2>3, <3>1 DEF Copia, SinError
  <2> QED
    BY <2>2, <2>3
<1>10. Copia(V, L, F)
  <2> HIDE DEF V
  <2> QED
    BY <1>3, <1>5, <1>7, <1>8, <1>9 DEF Copia, Lista
<1> DEFINE l == IF \E j \in DOMAIN K : K[j].tipo = "Parentesis" THEN Len(K) ELSE 0
           t == IF SinDeclarar(K) = {} THEN TextoVacio ELSE TextoError
<1>11. l \in Nat /\ (F = {} => t # TextoError)
  BY <1>3, <1>6, TextosDistintos
<1>12. NuevaLlamada(K) = [copia |-> V, leidos |-> l, izq |-> Ninguno,
                          der |-> Ninguno, op |-> Ninguno, result |-> t]
  BY DEF NuevaLlamada
<1> HIDE DEF V, l, t
<1> QED
  BY <1>5, <1>10, <1>11, <1>12 DEF Sana, EsLlamada

(* The texts of the product written over a list. *)
LEMMA ConTextosSana ==
  ASSUME NEW c, NEW L, NEW E, Sana(c, L, E), NEW textos,
         E = {} => \A j \in DOMAIN c.copia :
                     c.copia[j].tipo # "Variable" => textos[j] # TextoError
  PROVE  LET y == ConTextos(c, textos)
         IN  /\ Sana(y, L, E) /\ y.leidos = c.leidos /\ y.result = c.result
             /\ DOMAIN y.copia = DOMAIN c.copia
             /\ \A j \in DOMAIN c.copia :
                  y.copia[j] = [origen |-> c.copia[j].origen,
                                tipo |-> c.copia[j].tipo, texto |-> textos[j]]
<1> DEFINE K == c.copia
           V == [j \in DOMAIN K |-> [K[j] EXCEPT !.texto = textos[j]]]
           y == [c EXCEPT !.copia = V]
<1>1. ConTextos(c, textos) = y
  BY DEF ConTextos
<1>2. PICK X : K \in Seq(X)
  BY DEF Sana, Copia, Lista
<1>3. DOMAIN V = DOMAIN K /\ DOMAIN K = 1..Len(K) /\ Len(K) \in Nat
  BY <1>2
<1>4. \A j \in DOMAIN K : V[j] = [origen |-> K[j].origen, tipo |-> K[j].tipo,
                                 texto |-> textos[j]]
  <2> TAKE j \in DOMAIN K
  <2>1. EsElemento(K[j])
    BY DEF Sana, Copia
  <2>2. V[j] = [K[j] EXCEPT !.texto = textos[j]]
    OBVIOUS
  <2> HIDE DEF K, V
  <2> QED
    BY <2>1, <2>2 DEF EsElemento
<1>5. Lista(V)
  <2> DEFINE Y == {V[j] : j \in DOMAIN K}
             f == [j \in 1..Len(K) |-> V[j]]
  <2>1. V = f
    BY <1>3
  <2>2. \A j \in 1..Len(K) : V[j] \in Y
    BY <1>3
  <2> HIDE DEF Y, V, K
  <2>3. f \in Seq(Y)
    BY <1>3, <2>2
  <2> QED
    BY <2>1, <2>3 DEF Lista
<1>6. Copia(K, L, E) /\ EsLlamada(c) /\ c.leidos \in Nat
        /\ (E = {} => c.result # TextoError)
  BY DEF Sana
<1>7. E = {} => \A j \in DOMAIN K : K[j].tipo # "Variable" => textos[j] # TextoError
  OBVIOUS
<1>8. c = [copia |-> K, leidos |-> c.leidos, izq |-> c.izq, der |-> c.der,
           op |-> c.op, result |-> c.result]
  BY <1>6 DEF EsLlamada
<1> HIDE DEF V, K
<1>9. Copia(V, L, E)
  BY <1>3, <1>4, <1>5, <1>6, <1>7 DEF Copia, EsElemento, SinError
<1>10. y = [copia |-> V, leidos |-> c.leidos, izq |-> c.izq, der |-> c.der,
            op |-> c.op, result |-> c.result]
  BY <1>8
<1> HIDE DEF y
<1>11. Sana(y, L, E) /\ y.leidos = c.leidos /\ y.result = c.result /\ y.copia = V
  BY <1>6, <1>9, <1>10 DEF Sana, EsLlamada
<1> QED
  BY <1>1, <1>3, <1>4, <1>11 DEF K

LEMMA ListaConTextosSana ==
  ASSUME NEW c, NEW E, Listado(lexemas, E), Copia(c.copia, lexemas, E),
         NEW textos,
         E = {} => \A j \in DOMAIN c.copia :
                     c.copia[j].tipo # "Variable" => textos[j] # TextoError
  PROVE  LET M == ListaConTextos(c, textos)
         IN  /\ Listado(M, E) /\ DOMAIN M = DOMAIN lexemas /\ Len(M) = n
             /\ \A i \in DOMAIN lexemas : M[i].tipo = lexemas[i].tipo
<1> DEFINE M == ListaConTextos(c, textos)
           De(i) == {j \in DOMAIN c.copia : c.copia[j].origen = i - 1}
<1>1. /\ DOMAIN M = DOMAIN lexemas
      /\ \A i \in DOMAIN lexemas :
           M[i] = IF De(i) = {} THEN lexemas[i]
                  ELSE [lexemas[i] EXCEPT !.texto = textos[Min(De(i))]]
  BY DEF ListaConTextos
<1>2. \A i \in DOMAIN lexemas : De(i) # {} => Min(De(i)) \in De(i)
  <2> TAKE i \in DOMAIN lexemas
  <2>1. PICK X : c.copia \in Seq(X)
    BY DEF Copia, Lista
  <2>2. De(i) \in SUBSET Nat
    BY <2>1
  <2> HIDE DEF De
  <2> QED
    BY <2>2, MinimoEsta
<1>3. \A i \in DOMAIN lexemas : \A t :
        [lexemas[i] EXCEPT !.texto = t] = [tipo |-> lexemas[i].tipo, texto |-> t]
  BY DEF Listado, EsLexema
<1> HIDE DEF M
<1>4. ASSUME NEW i \in DOMAIN lexemas
      PROVE  /\ EsLexema(M[i]) /\ M[i].tipo = lexemas[i].tipo
             /\ E = {} /\ M[i].tipo # "Variable" => M[i].texto # TextoError
  <2>1. CASE De(i) = {}
    <3>1. M[i] = lexemas[i]
      BY <1>1, <2>1
    <3> QED
      BY <3>1 DEF Listado, SinError
  <2>2. CASE De(i) # {}
    <3> DEFINE j == Min(De(i))
    <3>1. j \in DOMAIN c.copia /\ c.copia[j].origen = i - 1
      BY <1>2, <2>2
    <3>2. M[i] = [tipo |-> lexemas[i].tipo, texto |-> textos[j]]
      BY <1>1, <1>3, <2>2
    <3>3. c.copia[j].tipo = lexemas[i].tipo
      BY <3>1 DEF Copia
    <3> HIDE DEF j
    <3> QED
      BY <3>1, <3>2, <3>3 DEF EsLexema
  <2> QED
    BY <2>1, <2>2
<1>5. DOMAIN M = 1..n /\ n \in Nat
  BY <1>1 DEF Listado, n
<1>6. Len(M) = n
  <2> DEFINE f == [i \in 1..n |-> M[i]]
             Y == {M[i] : i \in DOMAIN M}
  <2>1. M = f
    <3>1. M = [i \in DOMAIN M |-> M[i]]
      BY DEF ListaConTextos, M
    <3> QED
      BY <3>1, <1>5
  <2>2. \A i \in 1..n : M[i] \in Y
    BY <1>5
  <2> HIDE DEF Y
  <2>3. f \in Seq(Y) /\ Len(f) = n
    BY <1>5, <2>2
  <2> QED
    BY <2>1, <2>3
<1>7. Listado(M, E)
  BY <1>1, <1>4, <1>5, <1>6 DEF Listado, SinError
<1> QED
  BY <1>1, <1>4, <1>6, <1>7 DEF M

(* The product of a call is a copy of three elements. *)
LEMMA ProductoSano ==
  ASSUME NEW c, NEW L, NEW E, Sana(c, L, E), c.leidos + 4 <= Len(c.copia)
  PROVE  Copia(Producto(c), L, E) /\ Len(Producto(c)) = 3
<1> DEFINE K == c.copia
           l == c.leidos
           P == Producto(c)
<1>1. PICK X : K \in Seq(X)
  BY DEF Sana, Copia, Lista
<1>2. l \in Nat /\ l + 4 <= Len(K) /\ Copia(K, L, E)
  BY DEF Sana
<1>3. P = SubSeq(K, l + 2, l + 4)
  BY DEF Producto
<1> HIDE DEF K, l, P
<1>4. P \in Seq(X) /\ Len(P) = 3 /\ \A j \in 1..3 : P[j] = K[l + 1 + j]
  BY <1>1, <1>2, <1>3
<1>5. DOMAIN P = 1..3 /\ \A j \in 1..3 : l + 1 + j \in DOMAIN K
  BY <1>1, <1>2, <1>4
<1>6. Copia(P, L, E)
  BY <1>2, <1>4, <1>5 DEF Copia, Lista, SinError
<1> QED
  BY <1>4, <1>6 DEF P

(* The elements of an expression are a copy of lexemes of the list. *)
LEMMA ExpresionSana ==
  ASSUME Listado(lexemas, errores), NEW k \in Nat
  PROVE  Copia(Expresion(k), lexemas, errores)
<1> DEFINE S == {i \in k..(n - 1) : TextoDe(i) = PuntoComa}
           m == Mayor(0, IndicePuntoComa(k) - k)
           K == Expresion(k)
           V(j) == [origen |-> k + j - 1, tipo |-> TipoDe(k + j - 1),
                    texto |-> TextoDe(k + j - 1)]
<1>1. n \in Nat /\ DOMAIN lexemas = 1..n
  BY DEF Listado, n
<1>2. m \in Nat /\ (m > 0 => k + m <= n - 1)
  <2> DEFINE p == IndicePuntoComa(k)
  <2>1. p = IF S = {} THEN -1 ELSE Min(S)
    BY DEF IndicePuntoComa
  <2> HIDE DEF p
  <2>2. S \in SUBSET Nat /\ \A i \in S : i <= n - 1
    <3> HIDE DEF m, K, V
    <3>1. \A i \in S : i \in k..(n - 1)
      OBVIOUS
    <3> HIDE DEF S
    <3> QED
      BY <1>1, <3>1
  <2>3. S # {} => Min(S) \in S
    BY <2>2, MinimoEsta
  <2> HIDE DEF S
  <2>4. p = -1 \/ (p \in Nat /\ p <= n - 1)
    BY <2>1, <2>2, <2>3
  <2>5. m = IF 0 >= p - k THEN 0 ELSE p - k
    BY DEF Mayor, p
  <2> HIDE DEF m
  <2> QED
    BY <1>1, <2>4, <2>5
<1>3. K = [j \in 1..m |-> V(j)]
  BY DEF Expresion
<1> HIDE DEF m, K
<1>4. DOMAIN K = 1..m /\ \A j \in 1..m : K[j] = V(j)
  BY <1>3
<1>5. Lista(K)
  <2> DEFINE Y == {V(j) : j \in 1..m}
  <2>1. \A j \in 1..m : V(j) \in Y
    OBVIOUS
  <2> HIDE DEF Y, V
  <2>2. K \in Seq(Y)
    BY <1>2, <1>3, <2>1
  <2> QED
    BY <2>2 DEF Lista
<1>6. ASSUME NEW j \in 1..m
      PROVE  /\ k + j \in DOMAIN lexemas /\ (k + j - 1) + 1 = k + j
             /\ EsElemento(K[j]) /\ K[j].origen = k + j - 1
             /\ K[j].tipo = lexemas[k + j].tipo
             /\ K[j].texto = lexemas[k + j].texto
  <2>1. k + j \in DOMAIN lexemas /\ (k + j - 1) + 1 = k + j
    BY <1>1, <1>2
  <2>2. K[j] = [origen |-> k + j - 1, tipo |-> lexemas[k + j].tipo,
                texto |-> lexemas[k + j].texto]
    BY <1>4, <2>1 DEF TipoDe, TextoDe
  <2> QED
    BY <2>1, <2>2 DEF EsElemento
<1>7. \A i \in DOMAIN lexemas, j \in 1..m : K[j].origen = i - 1 => i = k + j
  <2> SUFFICES ASSUME NEW i \in DOMAIN lexemas, NEW j \in 1..m, K[j].origen = i - 1
               PROVE  i = k + j
    OBVIOUS
  <2>1. k + j - 1 = i - 1
    BY <1>6
  <2> QED
    BY <1>1, <1>2, <2>1
<1>8. errores = {} => SinError(K)
  BY <1>4, <1>6 DEF Listado, SinError
<1> QED
  BY <1>4, <1>5, <1>6, <1>7, <1>8 DEF Copia, K

(* The next identifier, or the end. *)
LEMMA SiguienteEnLista ==
  ASSUME n \in Nat, NEW p \in Nat, p <= n
  PROVE  SiguienteVariable(p) \in 0..n
<1> DEFINE S == {i \in p..n : i = n \/ TipoDe(i) = "Variable"}
<1>1. S \in SUBSET Nat /\ n \in S
  OBVIOUS
<1>2. Min(S) \in S
  BY <1>1, MinimoEsta
<1>3. SiguienteVariable(p) = Min(S)
  BY DEF SiguienteVariable
<1> HIDE DEF S
<1>4. \A i \in S : i \in 0..n
  BY DEF S
<1> QED
  BY <1>2, <1>3, <1>4

(* What is reported is reported. *)
LEMMA ReportarAlgo ==
  ASSUME NEW que, que # {}
  PROVE  Reportar(que) # {}
BY DEF Reportar

(* The value recorded for the identifier visited. *)
LEMMA GuardarSana ==
  ASSUME Tabla(registros, errores), NEW t, Guardar(t), errores \subseteq errores',
         errores' = {} => t # TextoError
  PROVE  Tabla(registros', errores')
<1>1. Tabla(registros, errores')
  BY DEF Tabla
<1>2. CASE EsDeclaracion(turno)
  BY <1>1, <1>2, InsertarSana DEF Guardar
<1>3. CASE ~ EsDeclaracion(turno)
  BY <1>1, <1>3, ActualizarSana DEF Guardar
<1> QED
  BY <1>2, <1>3

(* The end of an iteration leaves the call on top, or an exception. *)
LEMMA ContinuarSana ==
  ASSUME NEW debajo, NEW c, NEW L, Sana(c, L, errores), Continuar(debajo, c)
  PROVE  /\ errores \subseteq errores'
         /\ \/ llamadas' = llamadas
            \/ \E d : /\ Sana(d, L, errores') /\ Len(d.copia) = Len(c.copia)
                      /\ llamadas' = Append(debajo, d)
<1> DEFINE r == RealizarOperacion(c.izq, c.der, c.op, TipoDestino(turno))
<1>1. CASE ~ Completa(c)
  BY <1>1 DEF Continuar
<1>2. CASE Completa(c) /\ r.caso = "excepcion"
  BY <1>2 DEF Continuar
<1>3. CASE Completa(c) /\ r.caso # "excepcion"
  <2>1. /\ llamadas' = Append(debajo, Reducir(c, r))
        /\ errores' = errores \cup Reportar(r.que)
    BY <1>3 DEF Continuar
  <2>2. r.que = {} => r.texto # TextoError
    BY <1>3, OperacionReporta
  <2> HIDE DEF r
  <2>3. errores' = {} => r.texto # TextoError
    BY <2>1, <2>2, ReportarAlgo
  <2>4. Sana(c, L, errores')
    BY <2>1, MasErrores
  <2>5. Sana(Reducir(c, r), L, errores') /\ Reducir(c, r).copia = c.copia
    BY <2>3, <2>4, ReducirSana
  <2> QED
    BY <2>1, <2>5
<1> QED
  BY <1>1, <1>2, <1>3

-----------------------------------------------------------------------------
(* The invariant *)

(* A call starts with it, whatever the list. *)
LEMMA ComienzoBien == Extraida(lexemas) /\ Comienzo => IInv
<1> SUFFICES ASSUME Extraida(lexemas), Comienzo PROVE IInv
  OBVIOUS
<1>2. /\ lexemas \in Seq(LexemaValor)
      /\ \A i \in DOMAIN lexemas :
           lexemas[i].texto = TextoError => lexemas[i].tipo = "Variable"
  BY DEF Extraida
<1>3. \A x \in LexemaValor : EsLexema(x)
  BY DEF LexemaValor, EsLexema
<1>4. Listado(lexemas, errores)
  <2> DEFINE X == LexemaValor
  <2>1. lexemas \in Seq(X) /\ \A x \in X : EsLexema(x)
    BY <1>2, <1>3
  <2> HIDE DEF X
  <2>2. /\ Len(lexemas) \in Nat /\ DOMAIN lexemas = 1..Len(lexemas)
        /\ \A i \in DOMAIN lexemas : lexemas[i] \in X
    BY <2>1
  <2> QED
    BY <1>2, <2>1, <2>2 DEF Listado, SinError
<1>5. turno \in 0..n
  <2>1. n \in Nat
    BY <1>4 DEF Listado, n
  <2> QED
    BY <2>1, SiguienteEnLista DEF Comienzo
<1>6. Tabla(registros, errores) /\ Pila(llamadas, lexemas, errores)
  BY DEF Comienzo, Tabla, Lista, Pila
<1> QED
  BY <1>4, <1>5, <1>6 DEF IInv, Comienzo

LEMMA InicioExtraido == Init => Extraida(lexemas) /\ Comienzo
BY EntradasAssumption DEF Init

LEMMA Inicio == Init => IInv
BY ComienzoBien, InicioExtraido

(* The identifier visited moves on. *)
LEMMA AvanzaEnLista ==
  ASSUME IInv, Avanzar, turno < n, lexemas' = lexemas
  PROVE  turno' \in 0..n'
<1>1. n \in Nat /\ turno \in Nat /\ turno + 1 <= n
  BY DEF IInv, Listado, n
<1>2. n' = n
  BY DEF n
<1> QED
  BY <1>1, <1>2, SiguienteEnLista DEF Avanzar

(* A value that is a lexeme or a variable is not "Error" unless reported. *)
LEMMA SimpleReporta ==
  ASSUME IInv, NEW k, k + 1 \in DOMAIN lexemas, NEW t
  PROVE  LET r == AsignacionSimple(k, t)
         IN  errores = {} /\ r.que = {} => r.texto # TextoError
<1>1. \A x : Valor(x).texto = x
  BY DEF Valor
<1>2. \A q : Fallo(q).que # {}
  BY DEF Fallo
<1>3. TipoDe(k) = "Variable" /\ Declarada(TextoDe(k)) /\ errores = {}
        => RegistroDe(TextoDe(k)).valor # TextoError
  BY ValorDeRegistro DEF IInv
<1>4. TipoDe(k) # "Variable" /\ errores = {} => TextoDe(k) # TextoError
  BY DEF IInv, Listado, SinError, TipoDe, TextoDe
<1> QED
  BY <1>1, <1>2, <1>3, <1>4 DEF AsignacionSimple

(* The two shapes of the pending calls. *)
LEMMA FormaPila ==
  ASSUME NEW P, NEW L, NEW E, Pila(P, L, E), P # << >>
  PROVE  /\ Sana(Last(P), L, E)
         /\ \/ Front(P) = << >> /\ Len(P) = 1
            \/ \E c : /\ Sana(c, L, E) /\ Front(P) = <<c>> /\ Len(P) = 2
                      /\ Last(Front(P)) = c /\ Front(Front(P)) = << >>
                      /\ Len(Last(P).copia) = 3
<1>1. CASE \E c : Sana(c, L, E) /\ P = <<c>>
  BY <1>1, PilaCorta, Zenon
<1>2. CASE \E c, d : Sana(c, L, E) /\ Sana(d, L, E) /\ Len(d.copia) = 3 /\ P = <<c, d>>
  <2>1. PICK c, d : Sana(c, L, E) /\ Sana(d, L, E) /\ Len(d.copia) = 3 /\ P = <<c, d>>
    BY <1>2
  <2>2. /\ Last(P) = d /\ Front(P) = <<c>> /\ Len(P) = 2
        /\ Last(<<c>>) = c /\ Front(<<c>>) = << >>
    BY <2>1, PilaCorta, Zenon
  <2> QED
    BY <2>1, <2>2, Zenon
<1> QED
  BY <1>1, <1>2 DEF Pila

LEMMA PasoLeer ==
  ASSUME IInv, LeerElemento
  PROVE  IInv'
<1> DEFINE c == Leer(llamada)
<1>1. llamadas # << >> /\ Continuar(Front(llamadas), c) /\ lexemas' = lexemas
  BY DEF LeerElemento, Leyendo
<1>2. registros' = registros /\ turno' = turno
  BY <1>1 DEF Continuar
<1>3. Pila(llamadas, lexemas, errores)
  BY DEF IInv
<1>4. Sana(llamada, lexemas, errores)
  BY <1>1, <1>3, FormaPila DEF llamada
<1>5. Sana(c, lexemas, errores) /\ c.copia = llamada.copia
  BY <1>4, LeerSana
<1> HIDE DEF c
<1>6. /\ errores \subseteq errores'
      /\ \/ llamadas' = llamadas
         \/ \E d : /\ Sana(d, lexemas, errores') /\ Len(d.copia) = Len(c.copia)
                   /\ llamadas' = Append(Front(llamadas), d)
  BY <1>1, <1>5, ContinuarSana
<1>7. Pila(llamadas', lexemas, errores')
  <2>1. CASE llamadas' = llamadas
    BY <1>3, <1>6, <2>1, MasErroresPila
  <2>2. ASSUME NEW d, Sana(d, lexemas, errores'), Len(d.copia) = Len(c.copia),
               llamadas' = Append(Front(llamadas), d)
        PROVE  Pila(llamadas', lexemas, errores')
    <3>1. CASE Front(llamadas) = << >>
      <4>1. llamadas' = <<d>>
        BY <2>2, <3>1, PilaCorta, Zenon
      <4> QED
        BY <2>2, <4>1 DEF Pila
    <3>2. ASSUME NEW b, Sana(b, lexemas, errores), Front(llamadas) = <<b>>,
                 Len(llamada.copia) = 3
          PROVE  Pila(llamadas', lexemas, errores')
      <4>1. llamadas' = <<b, d>>
        BY <2>2, <3>2, PilaCorta, Zenon
      <4>2. Sana(b, lexemas, errores')
        BY <1>6, <3>2, MasErrores
      <4>3. Len(d.copia) = 3
        BY <1>5, <2>2, <3>2
      <4> QED
        BY <2>2, <4>1, <4>2, <4>3 DEF Pila
    <3> QED
      BY <1>1, <1>3, <3>1, <3>2, FormaPila DEF llamada
  <2> QED
    BY <1>6, <2>1, <2>2
<1>8. Tabla(registros, errores') /\ Listado(lexemas, errores')
  BY <1>6, MasErroresTabla DEF IInv
<1>9. turno' \in 0..n' /\ turno' < n'
  BY <1>1, <1>2 DEF IInv, n
<1> QED
  BY <1>1, <1>2, <1>7, <1>8, <1>9 DEF IInv

LEMMA PasoLlamar ==
  ASSUME IInv, LlamarProducto
  PROVE  IInv'
<1>1. llamadas # << >> /\ lexemas' = lexemas /\ registros' = registros
        /\ turno' = turno
  BY DEF LlamarProducto, Leyendo
<1>2. Pila(llamadas, lexemas, errores) /\ Tabla(registros, errores)
        /\ Listado(lexemas, errores)
  BY DEF IInv
<1>3. Sana(llamada, lexemas, errores) /\ llamada.leidos \in Nat
  BY <1>1, <1>2, FormaPila DEF llamada, Sana
<1>4. CASE llamada.leidos + 4 > Len(llamada.copia)
  BY <1>1, <1>4 DEF LlamarProducto, IInv, n
<1>5. CASE ~ (llamada.leidos + 4 > Len(llamada.copia))
  <2> DEFINE K == Producto(llamada)
             c == Leer(llamada)
             d == NuevaLlamada(K)
  <2>1. llamadas' = Front(llamadas) \o <<c, d>>
        /\ errores' = errores \cup Reportar(QueConvertir(K))
    BY <1>5 DEF LlamarProducto
  <2>2. Len(llamada.copia) \in Nat
    <3>1. PICK X : llamada.copia \in Seq(X)
      BY <1>3 DEF Sana, Copia, Lista
    <3> QED
      BY <3>1
  <2>3. llamada.leidos + 4 <= Len(llamada.copia)
    BY <1>3, <1>5, <2>2
  <2>4. Copia(K, lexemas, errores) /\ Len(K) = 3
    BY <1>3, <2>3, ProductoSano
  <2>5. Front(llamadas) = << >>
    <3>0. Len(llamada.copia) # 3
      <4> DEFINE x == Len(llamada.copia)
                 y == llamada.leidos
      <4>1. x \in Nat /\ y \in Nat /\ y + 4 <= x
        BY <1>3, <2>2, <2>3
      <4> HIDE DEF x, y
      <4>2. x # 3
        BY <4>1
      <4> QED
        BY <4>2 DEF x
    <3>1. Len(Last(llamadas).copia) # 3
      BY <3>0 DEF llamada
    <3> QED
      BY <1>1, <1>2, <3>1, FormaPila, Zenon
  <2> HIDE DEF K
  <2>6. errores \subseteq errores' /\ (QueConvertir(K) # {} => errores' # {})
    BY <2>1, ReportarAlgo
  <2>7. Sana(d, lexemas, errores') /\ Len(d.copia) = 3
    BY <1>2, <2>4, <2>6, NuevaSana
  <2>8. Sana(c, lexemas, errores')
    BY <1>3, <2>6, LeerSana, MasErrores
  <2> HIDE DEF c, d
  <2>9. llamadas' = <<c, d>>
    BY <2>1, <2>5, PilaCorta, Zenon
  <2>10. Pila(llamadas', lexemas, errores')
    BY <2>7, <2>8, <2>9 DEF Pila
  <2>11. Tabla(registros, errores') /\ Listado(lexemas, errores')
    BY <1>2, <2>6, MasErroresTabla
  <2> QED
    BY <1>1, <2>10, <2>11 DEF IInv, n
<1> QED
  BY <1>4, <1>5

LEMMA PasoRegresar ==
  ASSUME IInv, RegresarProducto
  PROVE  IInv'
<1> DEFINE c == Last(Front(llamadas))
           t == llamada.result
           textos == TextosReducidos(c, t)
           M == ListaConTextos(c, textos)
           k == ConTextos(c, textos)
<1>1. /\ llamadas # << >> /\ Len(llamadas) > 1 /\ lexemas' = M
      /\ Continuar(Front(Front(llamadas)), k)
  BY DEF RegresarProducto, Leida
<1>2. Pila(llamadas, lexemas, errores) /\ Tabla(registros, errores)
        /\ Listado(lexemas, errores) /\ turno \in 0..n /\ (llamadas # << >> => turno < n)
  BY DEF IInv
<1>3. /\ Sana(llamada, lexemas, errores) /\ Sana(c, lexemas, errores)
      /\ Front(Front(llamadas)) = << >>
  <2>1. Len(llamadas) # 1
    <3> DEFINE x == Len(llamadas)
    <3>1. x > 1
      BY <1>1
    <3> HIDE DEF x
    <3>2. x # 1
      BY <3>1
    <3> QED
      BY <3>2 DEF x
  <2> QED
    <3>1. llamada = Last(llamadas)
      BY DEF llamada
    <3>2. Sana(Last(llamadas), lexemas, errores)
      BY <1>1, <1>2, FormaPila, Zenon
    <3>3. PICK b : Sana(b, lexemas, errores) /\ Last(Front(llamadas)) = b
                     /\ Front(Front(llamadas)) = << >>
      BY <1>1, <1>2, <2>1, FormaPila, Zenon
    <3> QED
      BY <3>1, <3>2, <3>3
<1>4. errores = {} => \A j \in DOMAIN c.copia :
                        c.copia[j].tipo # "Variable" => textos[j] # TextoError
  <2>1. errores = {} => t # TextoError
    BY <1>3 DEF Sana
  <2>2. /\ Simbolo("+") # TextoError /\ Numeral(0, 0) # TextoError
    BY TextosDistintos
  <2>3. errores = {} => SinError(c.copia)
    BY <1>3 DEF Sana, Copia
  <2> HIDE DEF c, t
  <2>4. \A j \in DOMAIN c.copia :
          textos[j] \in {t, Simbolo("+"), Numeral(0, 0), c.copia[j].texto}
    BY DEF TextosReducidos
  <2> QED
    BY <2>1, <2>2, <2>3, <2>4 DEF SinError
<1>5. Copia(c.copia, lexemas, errores)
  BY <1>3 DEF Sana
<1> HIDE DEF c, textos
<1>6. /\ Listado(M, errores) /\ DOMAIN M = DOMAIN lexemas /\ Len(M) = n
      /\ \A i \in DOMAIN lexemas : M[i].tipo = lexemas[i].tipo
  BY <1>2, <1>4, <1>5, ListaConTextosSana
<1> HIDE DEF M
<1>7. Sana(k, lexemas, errores)
  BY <1>3, <1>4, ConTextosSana
<1>8. Sana(k, M, errores)
  BY <1>6, <1>7, MismosTipos
<1> HIDE DEF k
<1>9. /\ errores \subseteq errores'
      /\ \/ llamadas' = llamadas
         \/ \E d : /\ Sana(d, M, errores')
                   /\ llamadas' = Append(Front(Front(llamadas)), d)
  BY <1>1, <1>8, ContinuarSana
<1>10. Pila(llamadas', M, errores')
  <2>1. CASE llamadas' = llamadas
    <3>1. Pila(llamadas, M, errores)
      BY <1>2, <1>6, MismosTipos DEF Pila
    <3> QED
      BY <1>9, <2>1, <3>1, MasErroresPila
  <2>2. ASSUME NEW d, Sana(d, M, errores'),
               llamadas' = Append(Front(Front(llamadas)), d)
        PROVE  Pila(llamadas', M, errores')
    <3>1. llamadas' = <<d>>
      BY <1>3, <2>2, PilaCorta, Zenon
    <3> QED
      BY <2>2, <3>1 DEF Pila
  <2> QED
    BY <1>9, <2>1, <2>2
<1>11. registros' = registros /\ turno' = turno
  BY <1>1 DEF Continuar
<1>12. Tabla(registros, errores') /\ Listado(M, errores')
  BY <1>2, <1>6, <1>9, MasErroresTabla
<1>13. n' = n
  BY <1>1, <1>6 DEF n
<1> QED
  BY <1>1, <1>2, <1>10, <1>11, <1>12, <1>13 DEF IInv

LEMMA PasoTerminar ==
  ASSUME IInv, TerminarCompleja
  PROVE  IInv'
<1> DEFINE decimal == TipoDestino(turno) = "Int" /\ ConPunto(llamada.result)
           que == IF decimal THEN {"decimal"} ELSE {}
           t == IF decimal THEN TextoError ELSE llamada.result
<1>1. /\ llamadas # << >> /\ Guardar(t) /\ errores' = errores \cup Reportar(que)
      /\ llamadas' = << >> /\ Avanzar /\ lexemas' = lexemas
  BY DEF TerminarCompleja, Leida
<1>2. errores = {} => llamada.result # TextoError
  BY <1>1, FormaPila DEF IInv, llamada, Sana
<1>3. errores' = {} => t # TextoError
  <2>1. decimal => que # {}
    OBVIOUS
  <2> HIDE DEF que
  <2>2. decimal => errores' # {}
    BY <1>1, <2>1, ReportarAlgo
  <2> QED
    BY <1>1, <1>2, <2>2
<1> HIDE DEF t, que
<1>4. Tabla(registros', errores')
  BY <1>1, <1>3, GuardarSana DEF IInv
<1>5. Listado(lexemas, errores')
  BY <1>1, MasErroresTabla DEF IInv
<1>6. turno < n
  BY <1>1 DEF IInv
<1>7. turno' \in 0..n'
  BY <1>1, <1>6, AvanzaEnLista
<1> QED
  BY <1>1, <1>4, <1>5, <1>7 DEF IInv, Pila

LEMMA PasoAsignar ==
  ASSUME IInv, AsignarSimple \/ AsignarCompleja
  PROVE  IInv'
<1>1. /\ turno < n /\ turno \in Nat /\ n \in Nat /\ turno + 3 < n
      /\ DOMAIN lexemas = 1..n /\ lexemas' = lexemas
  <2>1. /\ turno < n /\ ~ Desborda /\ Asigna(turno) /\ lexemas' = lexemas
        /\ EsDeclaracion(turno) \/ Declarada(TextoDe(turno))
    BY DEF AsignarSimple, AsignarCompleja, Recibe, EnTurno
  <2>2. turno \in Nat /\ n \in Nat /\ DOMAIN lexemas = 1..n
    BY DEF IInv, Listado, n
  <2>3. ~ (turno + 3 >= n)
    BY <2>1 DEF Desborda
  <2> QED
    BY <2>1, <2>2, <2>3
<1>2. Tabla(registros, errores) /\ Listado(lexemas, errores)
  BY DEF IInv
<1>3. CASE AsignarSimple
  <2> DEFINE r == AsignacionSimple(turno + 2, TipoDestino(turno))
             que == QueRedeclarar \cup r.que
             t == r.texto
  <2>1. /\ Guardar(t) /\ errores' = errores \cup Reportar(que) /\ Avanzar
        /\ llamadas' = llamadas /\ llamadas = << >>
    BY <1>3 DEF AsignarSimple, Recibe, EnTurno
  <2>2. (turno + 2) + 1 \in DOMAIN lexemas
    BY <1>1
  <2>3. errores = {} /\ r.que = {} => t # TextoError
    BY <2>2, SimpleReporta
  <2> HIDE DEF r, t
  <2>4. que # {} => errores' # {}
    <3> HIDE DEF que
    <3> QED
      BY <2>1, ReportarAlgo
  <2>5. errores' = {} => t # TextoError
    BY <2>1, <2>3, <2>4
  <2> HIDE DEF que
  <2>6. Tabla(registros', errores')
    BY <1>2, <2>1, <2>5, GuardarSana
  <2>7. Listado(lexemas, errores')
    BY <1>2, <2>1, MasErroresTabla
  <2>8. turno' \in 0..n'
    BY <1>1, <2>1, AvanzaEnLista
  <2> QED
    BY <1>1, <2>1, <2>6, <2>7, <2>8 DEF IInv, Pila
<1>4. CASE AsignarCompleja
  <2> DEFINE K == Expresion(turno + 2)
             c == NuevaLlamada(K)
             que == QueRedeclarar \cup QueConvertir(K)
  <2>1. /\ llamadas' = <<c>> /\ errores' = errores \cup Reportar(que)
        /\ registros' = registros /\ turno' = turno
    BY <1>4 DEF AsignarCompleja
  <2>2. Copia(K, lexemas, errores)
    <3>1. turno + 2 \in Nat
      BY <1>1
    <3> QED
      BY <1>2, <3>1, ExpresionSana
  <2> HIDE DEF K
  <2>3. que # {} => errores' # {}
    <3> HIDE DEF que
    <3> QED
      BY <2>1, ReportarAlgo
  <2>4. errores \subseteq errores' /\ (QueConvertir(K) # {} => errores' # {})
    BY <2>1, <2>3
  <2> HIDE DEF que
  <2>5. Sana(c, lexemas, errores')
    BY <1>2, <2>2, <2>4, NuevaSana
  <2> HIDE DEF c
  <2>6. Pila(llamadas', lexemas, errores')
    BY <2>1, <2>5 DEF Pila
  <2>7. Tabla(registros, errores') /\ Listado(lexemas, errores')
    BY <1>2, <2>4, MasErroresTabla
  <2>8. turno' \in 0..n' /\ turno' < n'
    BY <1>1, <2>1 DEF n
  <2> QED
    BY <1>1, <2>1, <2>6, <2>7, <2>8 DEF IInv
<1> QED
  BY <1>3, <1>4

(* An identifier that is given no value. *)
LEMMA PasoSinValor ==
  ASSUME IInv, DeclararSinAsignar \/ Ignorar \/ ReasignarNoDeclarada
  PROVE  IInv'
<1>1. /\ turno < n /\ Avanzar /\ lexemas' = lexemas /\ llamadas = << >>
      /\ llamadas' = llamadas /\ errores \subseteq errores'
  BY DEF DeclararSinAsignar, Ignorar, ReasignarNoDeclarada, EnTurno
<1>2. turno' \in 0..n'
  BY <1>1, AvanzaEnLista
<1>3. Tabla(registros, errores') /\ Listado(lexemas, errores')
  BY <1>1, MasErroresTabla DEF IInv
<1>4. Tabla(registros', errores')
  <2>1. Nulo # TextoError
    BY NuloAssumption
  <2>2. \/ registros' = registros
        \/ registros' = Insertar(registros, TextoDe(turno), TipoDestino(turno), Nulo)
    BY DEF DeclararSinAsignar, Ignorar, ReasignarNoDeclarada
  <2> QED
    BY <1>3, <2>1, <2>2, InsertarSana
<1> QED
  BY <1>1, <1>2, <1>3, <1>4 DEF IInv, Pila

(* The rest leaves the texts, the table and the calls as they are. *)
LEMMA PasoResto ==
  ASSUME IInv,
         \/ Desbordar \/ EmpezarRetornos \/ VerificarRetornoBloque
         \/ TerminarAnalisis \/ UNCHANGED vars
  PROVE  IInv'
<1>1. /\ lexemas' = lexemas /\ registros' = registros /\ turno' = turno
      /\ llamadas' = llamadas /\ errores \subseteq errores'
  BY DEF Desbordar, EmpezarRetornos, VerificarRetornoBloque, TerminarAnalisis, vars
<1>2. Tabla(registros, errores') /\ Listado(lexemas, errores')
  BY <1>1, MasErroresTabla DEF IInv
<1>3. Pila(llamadas, lexemas, errores')
  BY <1>1, MasErroresPila DEF IInv
<1> QED
  BY <1>1, <1>2, <1>3 DEF IInv, n

LEMMA Paso == IInv /\ [Next]_vars => IInv'
BY PasoLeer, PasoLlamar, PasoRegresar, PasoTerminar, PasoAsignar, PasoSinValor,
   PasoResto, Zenon DEF Next, Terminado

LEMMA Invariante == Spec => []IInv
BY Inicio, Paso, PTL DEF Spec

-----------------------------------------------------------------------------
(* A report stands behind every "Error" that the table, a pending          *)
(* expression or a numeral of the list holds, whatever the program         *)
(* analysed.                                                               *)
THEOREM TodoErrorSeReporta == Spec => []ErrorReportado
<1>1. IInv => ErrorReportado
  <2> SUFFICES ASSUME IInv, errores = {} PROVE ErrorReportado
    BY DEF ErrorReportado
  <2>1. \A i \in DOMAIN registros : registros[i].valor # TextoError
    BY DEF IInv, Tabla
  <2>2. \A i \in DOMAIN lexemas : lexemas[i].tipo = "Numero" => lexemas[i].texto # TextoError
    BY DEF IInv, Listado, SinError
  <2>3. \A k \in DOMAIN llamadas : llamadas[k].result # TextoError
    <3>1. CASE llamadas = << >>
      BY <3>1
    <3>2. ASSUME NEW c, Sana(c, lexemas, errores), llamadas = <<c>>
          PROVE  \A k \in DOMAIN llamadas : llamadas[k].result # TextoError
      BY <3>2 DEF Sana
    <3>3. ASSUME NEW c, NEW d, Sana(c, lexemas, errores), Sana(d, lexemas, errores),
                 llamadas = <<c, d>>
          PROVE  \A k \in DOMAIN llamadas : llamadas[k].result # TextoError
      BY <3>3 DEF Sana
    <3> QED
      BY <3>1, <3>2, <3>3 DEF IInv, Pila
  <2> QED
    BY <2>1, <2>2, <2>3 DEF ErrorReportado
<1> QED
  BY <1>1, Invariante, PTL

(* The recursion of AsignacionCompleja never goes deeper than the product  *)
(* of an expression, however long the expression.                          *)
THEOREM RecursionDeDosNiveles == Spec => []RecursionAcotada
<1>1. IInv => RecursionAcotada
  <2> SUFFICES ASSUME IInv PROVE RecursionAcotada
    OBVIOUS
  <2> DEFINE l == Len(llamadas)
  <2>1. l \in {0, 1, 2}
    BY PilaCorta DEF IInv, Pila
  <2>2. RecursionAcotada <=> l <= 2
    BY DEF RecursionAcotada
  <2> HIDE DEF l
  <2>3. l <= 2
    BY <2>1
  <2> QED
    BY <2>2, <2>3
<1> QED
  BY <1>1, Invariante, PTL
=============================================================================
