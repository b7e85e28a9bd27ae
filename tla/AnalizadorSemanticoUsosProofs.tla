------------------- MODULE AnalizadorSemanticoUsosProofs --------------------
(***************************************************************************)
(* Proofs about what AnalizadorSemantico writes into the list, and about   *)
(* what it knows of the variables: that they are declared before they are  *)
(* used, and that an int holds no decimal.  The invariant is that of       *)
(* AnalizadorSemanticoProofs and JInv.                                     *)
(***************************************************************************)
EXTENDS AnalizadorSemanticoProofs

(* What a call of AsignacionCompleja may return. *)
Calculado(t) == t.c \in {"", "0"} \/ t = TextoError

(* What may be written into a lexeme, unless a calculation failed. *)
Escribible(t) == t.c \in {"", "+", "0"}

Redeclarada(E) == \E x \in E : x.que = "redeclarada"

(* A value without a point, for a variable of type int. *)
Entero(t, E) == t # Nulo /\ ConPunto(t) => Redeclarada(E)

Enteros(R, E) ==
  \A i \in DOMAIN R : R[i].tipo = "Int" => Entero(R[i].valor, E)

Terminadores(L) ==
  \A i \in DOMAIN L : L[i].tipo = "OperadorTerminador" <=> L[i].texto = PuntoComa

(* Element x stands for the lexeme at index i of list L: it is that lexeme, *)
(* or a fresh one with the value of the variable there.                    *)
Puesto(x, i, L, E) ==
  \/ /\ x.origen = -1 /\ x.tipo \in {"Numero", "Caracter", "Error"}
     /\ L[i].tipo = "Variable"
  \/ /\ x.origen = i - 1 /\ x.tipo = L[i].tipo /\ x.texto = L[i].texto
     /\ x.tipo = "Variable" => E # {}

(* The elements K of the outermost call are the lexemes after the          *)
(* assignment of the identifier at T, in order, before the semicolon at S.  *)
Sincronizada(K, L, E, T, S) ==
  \A j \in DOMAIN K :
    /\ T + 1 + j < S /\ T + 2 + j \in DOMAIN L
    /\ Puesto(K[j], T + 2 + j, L, E)

(* A call that waits for the product after the operator it has just read.  *)
Espera(c) ==
  /\ c.leidos \in DOMAIN c.copia /\ c.leidos + 3 \in DOMAIN c.copia
  /\ c.copia[c.leidos].tipo = "OperadorAritmetico"
  /\ c.copia[c.leidos + 2].texto \in {Simbolo("*"), Simbolo("/")}

Exterior(P, L, E, T, S) ==
  \/ P = << >>
  \/ \E c : P = <<c>> /\ Sincronizada(c.copia, L, E, T, S) /\ Calculado(c.result)
  \/ \E c, d : /\ P = <<c, d>> /\ Sincronizada(c.copia, L, E, T, S)
               /\ Calculado(c.result) /\ Calculado(d.result) /\ Espera(c)

(* The identifier visited. *)
Visitada == turno < n => TipoDe(turno) = "Variable"

(* The assignment under way. *)
Emprendida(E) ==
  /\ turno + 1 < n /\ TipoDe(turno + 1) = "OperadorAsignacion"
  /\ EsDeclaracion(turno) \/ Declarada(TextoDe(turno))
  /\ EsDeclaracion(turno) /\ Declarada(TextoDe(turno)) => Redeclarada(E)

Asignando == llamadas # << >> => Emprendida(errores)

(* Each record comes from a declaration already visited. *)
Procedencia == \A i \in DOMAIN registros : DeclaradaAntes(registros[i].nombre, turno)

(* The uses visited, and the one under way. *)
Usos ==
  errores = {} =>
    /\ \A p \in 0..(turno - 1) : UsoDeclarado(p)
    /\ llamadas # << >> => UsoDeclarado(turno)

Recorrido == estado \in {"verificando", "listo"} => turno = n /\ llamadas = << >>

JInv ==
  /\ Visitada /\ Asignando /\ Procedencia /\ Usos /\ Recorrido
  /\ Enteros(registros, errores) /\ Terminadores(lexemas)
  /\ estado = "recorriendo" =>
       Exterior(llamadas, lexemas, errores, turno, IndicePuntoComa(turno))

-----------------------------------------------------------------------------
(* Texts *)

LEMMA NombreCalculado ==
  ASSUME NEW t, Calculado(t)
  PROVE  t.c \in {"", "Error", "0"}
<1>1. TextoError.c = "Error"
  BY Zenon DEF TextoError, Simbolo
<1>2. CASE t = TextoError
  BY <1>1, <1>2, Zenon
<1>3. CASE t.c \in {"", "0"}
  BY <1>3, Zenon
<1> QED
  BY <1>2, <1>3, Zenon DEF Calculado

LEMMA NoEsPuntoComa ==
  ASSUME NEW t, Calculado(t)
  PROVE  t # PuntoComa
<1>1. t.c # ";"
  BY NombreCalculado, Zenon
<1>2. PuntoComa.c = ";"
  BY Zenon DEF PuntoComa, Simbolo
<1> QED
  BY <1>1, <1>2, Zenon

LEMMA CalculadosFijos ==
  /\ Calculado(TextoVacio) /\ Calculado(TextoError) /\ Calculado(Numeral(0, 0))
  /\ \A m, e : Calculado(Numeral(m, e))
  /\ ~ ConPunto(TextoError) /\ ~ ConPunto(TextoVacio)
BY DEF Calculado, TextoVacio, TextoError, Simbolo, Numeral, ConPunto, EsNumeral

LEMMA OperacionCalcula ==
  ASSUME NEW izq, NEW der, NEW op, NEW t
  PROVE  Calculado(RealizarOperacion(izq, der, op, t).texto)
<1> DEFINE Bueno(r) == Calculado(r.texto)
<1>1. /\ Bueno(Revienta) /\ Bueno(Valor(TextoVacio)) /\ \A q : Bueno(Fallo(q))
      /\ \A m, e : Bueno(Valor(Numeral(m, e)))
  BY CalculadosFijos DEF Revienta, Valor, Fallo
<1> HIDE DEF Bueno
<1>2. \A a, b, o : Bueno(OperarEnteros(a, b, o))
  BY <1>1 DEF OperarEnteros
<1>3. \A a, b, o : Bueno(OperarDecimales(a, b, o))
  <2>1. \A a, b : /\ Bueno(Valor(SumaDecimal(a, b)))
                  /\ Bueno(Valor(RestaDecimal(a, b)))
                  /\ Bueno(Valor(ProductoDecimal(a, b)))
    BY <1>1 DEF SumaDecimal, RestaDecimal, ProductoDecimal
  <2>2. \A a, b : Bueno(Valor(CocienteDecimal(a, b)))
    BY <1>1, Zenon DEF CocienteDecimal
  <2> QED
    BY <1>1, <2>1, <2>2 DEF OperarDecimales
<1>4. Bueno(RealizarOperacion(izq, der, op, t))
  <2> DEFINE si == IF \A u \in {izq.texto, der.texto} : EsEntero(u)
                     THEN OperarEnteros(izq.texto.m, der.texto.m, op.texto.c)
                     ELSE Revienta
             sd == IF \A u \in {izq.texto, der.texto} : u # Nulo /\ EsNumeral(u)
                     THEN OperarDecimales(izq.texto, der.texto, op.texto.c)
                     ELSE Revienta
  <2>1. RealizarOperacion(izq, der, op, t)
          \in {Revienta, Fallo("tipos incompatibles"), si, sd, Valor(TextoVacio)}
    BY DEF RealizarOperacion
  <2>2. Bueno(si) /\ Bueno(sd)
    BY <1>1, <1>2, <1>3
  <2> HIDE DEF si, sd
  <2> QED
    BY <1>1, <2>1, <2>2
<1> QED
  BY <1>4 DEF Bueno

-----------------------------------------------------------------------------
(* Where the expression ends *)

(* The first semicolon from p on, if there is one. *)
LEMMA PuntoComaPrimero ==
  ASSUME n \in Nat, NEW p \in Nat, IndicePuntoComa(p) # -1
  PROVE  /\ IndicePuntoComa(p) \in p..(n - 1)
         /\ \A i \in p..(IndicePuntoComa(p) - 1) : TextoDe(i) # PuntoComa
<1> DEFINE S == {i \in p..(n - 1) : TextoDe(i) = PuntoComa}
<1>1. S # {} /\ IndicePuntoComa(p) = Min(S)
  BY DEF IndicePuntoComa
<1>2. S \in SUBSET Nat
  OBVIOUS
<1>3. Min(S) \in S /\ \A i \in S : Min(S) <= i
  <2> HIDE DEF S
  <2> QED
    BY <1>1, <1>2, MinimoEsta, MinimoMenor
<1> DEFINE m == Min(S)
<1>4. m \in p..(n - 1) /\ \A i \in S : m <= i
  BY <1>3
<1> HIDE DEF m
<1>5. \A i \in p..(m - 1) : TextoDe(i) # PuntoComa
  <2> TAKE i \in p..(m - 1)
  <2>1. i \in p..(n - 1) /\ ~ (m <= i)
    BY <1>4
  <2> QED
    BY <1>4, <2>1
<1> QED
  BY <1>1, <1>4, <1>5 DEF m

LEMMA PuntoComaDespues ==
  ASSUME n \in Nat, NEW p \in Nat, p + 2 <= n,
         TextoDe(p) # PuntoComa, TextoDe(p + 1) # PuntoComa
  PROVE  IndicePuntoComa(p + 2) = IndicePuntoComa(p)
<1>1. {i \in p..(n - 1) : TextoDe(i) = PuntoComa}
        = {i \in (p + 2)..(n - 1) : TextoDe(i) = PuntoComa}
  <2>1. \A i \in p..(n - 1) : i = p \/ i = p + 1 \/ i \in (p + 2)..(n - 1)
    OBVIOUS
  <2>2. \A i \in (p + 2)..(n - 1) : i \in p..(n - 1)
    OBVIOUS
  <2> QED
    BY <2>1, <2>2
<1> QED
  BY <1>1 DEF IndicePuntoComa

-----------------------------------------------------------------------------
(* A step that keeps what the uses up to the identifier visited look at.   *)
Conserva ==
  /\ n \in Nat /\ n' = n
  /\ \A i \in 0..(n - 1) :
       /\ TipoDe(i)' = TipoDe(i)
       /\ \/ TextoDe(i)' = TextoDe(i)
          \/ /\ turno + 1 < i
             /\ TextoDe(i) # PuntoComa /\ TextoDe(i)' # PuntoComa
             /\ TipoDe(i) = "Variable" => errores' # {}

LEMMA PuntoComaEstable ==
  ASSUME Conserva, NEW p \in Nat
  PROVE  IndicePuntoComa(p)' = IndicePuntoComa(p)
<1>1. n \in Nat /\ n' = n
  BY DEF Conserva
<1>2. \A i \in p..(n - 1) : TextoDe(i)' = PuntoComa <=> TextoDe(i) = PuntoComa
  <2> TAKE i \in p..(n - 1)
  <2>1. i \in 0..(n - 1)
    BY <1>1
  <2> QED
    BY <2>1 DEF Conserva
<1>3. {i \in p..(n' - 1) : TextoDe(i)' = PuntoComa}
        = {i \in p..(n - 1) : TextoDe(i) = PuntoComa}
  BY <1>1, <1>2
<1> QED
  BY <1>3 DEF IndicePuntoComa

LEMMA DeclaracionEstable ==
  ASSUME Conserva, turno \in Nat, turno + 1 < n
  PROVE  /\ \A p \in 0..(turno + 1) : /\ TextoDe(p)' = TextoDe(p)
                                    /\ TipoDe(p)' = TipoDe(p)
         /\ \A p \in 0..turno : EsDeclaracion(p)' <=> EsDeclaracion(p)
         /\ \A t : \A p \in 0..turno : DeclaradaAntes(t, p)' <=> DeclaradaAntes(t, p)
<1>1. \A p \in 0..(turno + 1) : TextoDe(p)' = TextoDe(p) /\ TipoDe(p)' = TipoDe(p)
  <2> TAKE p \in 0..(turno + 1)
  <2>1. p \in 0..(n - 1) /\ ~ (turno + 1 < p)
    BY DEF Conserva
  <2> QED
    BY <2>1 DEF Conserva
<1>2. \A p \in 0..turno : EsDeclaracion(p)' <=> EsDeclaracion(p)
  <2> TAKE p \in 0..turno
  <2>1. p > 0 => TextoDe(p - 1)' = TextoDe(p - 1)
    BY <1>1
  <2> QED
    BY <2>1 DEF EsDeclaracion, EsTipoDeclaracion
<1>3. ASSUME NEW t, NEW p \in 0..turno
      PROVE  DeclaradaAntes(t, p)' <=> DeclaradaAntes(t, p)
  <2>1. \A d \in 1..(p - 1) :
          /\ TipoDe(d)' = TipoDe(d) /\ TextoDe(d)' = TextoDe(d)
          /\ EsDeclaracion(d)' <=> EsDeclaracion(d)
          /\ TipoDe(d + 1)' = TipoDe(d + 1)
    <3> TAKE d \in 1..(p - 1)
    <3>1. d \in 0..turno /\ d \in 0..(turno + 1) /\ d + 1 \in 0..(turno + 1)
      OBVIOUS
    <3> QED
      BY <1>1, <1>2, <3>1
  <2> QED
    BY <2>1 DEF DeclaradaAntes
<1> QED
  BY <1>1, <1>2, <1>3

(* A use visited stays declared. *)
LEMMA UsoEstable ==
  ASSUME Conserva, turno \in Nat, turno + 1 < n, NEW p \in 0..turno,
         errores' = {}, UsoDeclarado(p)
  PROVE  UsoDeclarado(p)'
<1>1. /\ n \in Nat /\ n' = n /\ p \in Nat /\ p + 1 \in 0..(turno + 1)
      /\ p \in 0..(turno + 1)
  BY DEF Conserva
<1>2. IndicePuntoComa(p)' = IndicePuntoComa(p)
  BY <1>1, PuntoComaEstable
<1>3. /\ TipoDe(p)' = TipoDe(p) /\ TextoDe(p)' = TextoDe(p)
      /\ TipoDe(p + 1)' = TipoDe(p + 1)
      /\ EsDeclaracion(p)' <=> EsDeclaracion(p)
      /\ \A t : DeclaradaAntes(t, p)' <=> DeclaradaAntes(t, p)
  BY <1>1, DeclaracionEstable
<1> DEFINE q == IndicePuntoComa(p)
<1>4. q # -1 => q \in p..(n - 1)
  BY <1>1, PuntoComaPrimero
<1>5. q # -1 => PuntoComaCorrecto(p, q)' = PuntoComaCorrecto(p, q)
  <2> SUFFICES ASSUME q # -1 PROVE PuntoComaCorrecto(p, q)' = PuntoComaCorrecto(p, q)
    OBVIOUS
  <2>1. q' = q
    BY <1>2
  <2>2. \A k \in p..(q - 1) : TipoDe(k)' = TipoDe(k)
    <3> TAKE k \in p..(q - 1)
    <3>1. k \in 0..(n - 1)
      BY <1>1, <1>4
    <3> QED
      BY <3>1 DEF Conserva
  <2> HIDE DEF q
  <2>3. \A t : {k \in p..(q' - 1) : TipoDe(k)' = t} = {k \in p..(q - 1) : TipoDe(k) = t}
    BY <2>1, <2>2
  <2> QED
    BY <2>3, Zenon DEF PuntoComaCorrecto
<1>6. Asigna(p)' <=> Asigna(p)
  BY <1>2, <1>3, <1>5 DEF Asigna
<1>7. \A i \in (p + 1)..(q - 1) :
        /\ TipoDe(i)' = TipoDe(i)
        /\ TipoDe(i) = "Variable" => TextoDe(i)' = TextoDe(i)
  <2> TAKE i \in (p + 1)..(q - 1)
  <2>1. i \in 0..(n - 1)
    <3>1. q # -1
      BY <1>1
    <3> QED
      BY <1>1, <1>4, <3>1
  <2> QED
    BY <2>1 DEF Conserva
<1> QED
  BY <1>2, <1>3, <1>6, <1>7 DEF UsoDeclarado

-----------------------------------------------------------------------------
(* The symbol table *)

LEMMA PosicionEsta ==
  ASSUME NEW R, NEW E, Tabla(R, E), NEW nombre, VariableEstaDeclarada(R, nombre)
  PROVE  PosicionDe(R, nombre) \in DOMAIN R /\ R[PosicionDe(R, nombre)].nombre = nombre
<1> DEFINE S == {i \in DOMAIN R : R[i].nombre = nombre}
<1>1. DOMAIN R \subseteq Nat
  BY DEF Tabla, Lista
<1>2. S # {}
  BY DEF VariableEstaDeclarada, Nombres
<1>3. Min(S) \in S
  <2>1. S \in SUBSET Nat
    BY <1>1
  <2> HIDE DEF S
  <2> QED
    BY <1>2, <2>1, MinimoEsta
<1> QED
  BY <1>3 DEF PosicionDe

LEMMA ActualizarCampos ==
  ASSUME NEW R, NEW E, Tabla(R, E), NEW nombre, VariableEstaDeclarada(R, nombre), NEW t
  PROVE  LET S == ActualizarValor(R, nombre, t)
             p == PosicionDe(R, nombre)
         IN  /\ DOMAIN S = DOMAIN R
             /\ \A i \in DOMAIN R :
                  /\ S[i].nombre = R[i].nombre /\ S[i].tipo = R[i].tipo
                  /\ S[i].valor = IF i = p THEN t ELSE R[i].valor
<1> DEFINE p == PosicionDe(R, nombre)
           S == ActualizarValor(R, nombre, t)
           x == [R[p] EXCEPT !.valor = t]
<1>1. S = [R EXCEPT ![p] = x]
  BY DEF ActualizarValor
<1>2. p \in DOMAIN R
  BY PosicionEsta
<1>3. x = [codigo |-> R[p].codigo, nombre |-> R[p].nombre, tipo |-> R[p].tipo,
           valor |-> t]
  BY <1>2 DEF Tabla, EsRegistro
<1> HIDE DEF x, p
<1>4. DOMAIN S = DOMAIN R /\ \A i \in DOMAIN R : S[i] = IF i = p THEN x ELSE R[i]
  <2>1. PICK X : R \in Seq(X)
    BY DEF Tabla, Lista
  <2> HIDE DEF S
  <2> QED
    BY <1>1, <1>2, <2>1
<1> HIDE DEF S
<1>5. x.nombre = R[p].nombre /\ x.tipo = R[p].tipo /\ x.valor = t
  BY <1>3
<1>6. ASSUME NEW i \in DOMAIN R
      PROVE  /\ S[i].nombre = R[i].nombre /\ S[i].tipo = R[i].tipo
             /\ S[i].valor = IF i = p THEN t ELSE R[i].valor
  BY <1>4, <1>5
<1> QED
  BY <1>4, <1>6 DEF S, p

LEMMA AgregarCampos ==
  ASSUME NEW R, NEW E, Tabla(R, E), NEW nombre, NEW tipo, NEW t,
         ~ VariableEstaDeclarada(R, nombre)
  PROVE  LET S == Insertar(R, nombre, tipo, t)
         IN  \A i \in DOMAIN S :
               \/ i \in DOMAIN R /\ S[i] = R[i]
               \/ S[i].nombre = nombre /\ S[i].tipo = tipo /\ S[i].valor = t
<1> DEFINE x == [codigo |-> SiguienteCorrelativo(R), nombre |-> nombre,
                 tipo |-> tipo, valor |-> t]
           S == Insertar(R, nombre, tipo, t)
<1>1. S = Append(R, x)
  BY DEF Insertar
<1>2. x.nombre = nombre /\ x.tipo = tipo /\ x.valor = t
  OBVIOUS
<1> HIDE DEF x, S
<1>3. PICK X : R \in Seq(X)
  BY DEF Tabla, Lista
<1>4. /\ DOMAIN S = 1..(Len(R) + 1) /\ DOMAIN R = 1..Len(R) /\ Len(R) \in Nat
      /\ S[Len(R) + 1] = x /\ \A i \in 1..Len(R) : S[i] = R[i]
  BY <1>1, <1>3
<1>5. \A i \in DOMAIN S : i \in DOMAIN R \/ i = Len(R) + 1
  BY <1>4
<1> QED
  BY <1>2, <1>4, <1>5 DEF S

(* An int only gets a value without a point, unless something is declared  *)
(* twice.                                                                  *)
LEMMA GuardarEnteros ==
  ASSUME Tabla(registros, errores), NEW t, Guardar(t), errores \subseteq errores',
         Enteros(registros, errores),
         EsDeclaracion(turno) \/ Declarada(TextoDe(turno)),
         EsDeclaracion(turno) /\ Declarada(TextoDe(turno)) => Redeclarada(errores'),
         TipoDestino(turno) = "Int" => Entero(t, errores')
  PROVE  Enteros(registros', errores')
<1> DEFINE p == PosicionDe(registros, TextoDe(turno))
<1>1. Enteros(registros, errores')
  BY DEF Enteros, Entero, Redeclarada
<1>2. CASE Redeclarada(errores')
  BY <1>2 DEF Enteros, Entero
<1>3. CASE EsDeclaracion(turno) /\ ~ Declarada(TextoDe(turno))
  <2>1. registros' = Insertar(registros, TextoDe(turno), TipoDestino(turno), t)
    BY <1>3 DEF Guardar
  <2>2. \A i \in DOMAIN registros' :
          \/ i \in DOMAIN registros /\ registros'[i] = registros[i]
          \/ registros'[i].tipo = TipoDestino(turno) /\ registros'[i].valor = t
    BY <1>3, <2>1, AgregarCampos DEF Declarada
  <2> QED
    BY <1>1, <2>2 DEF Enteros
<1>4. CASE ~ EsDeclaracion(turno) /\ Declarada(TextoDe(turno)) /\ t = TextoError
  BY <1>1, <1>4 DEF Guardar
<1>5. CASE ~ EsDeclaracion(turno) /\ Declarada(TextoDe(turno)) /\ t # TextoError
  <2>1. registros' = ActualizarValor(registros, TextoDe(turno), t)
    BY <1>5 DEF Guardar
  <2>2. TipoDestino(turno) = registros[p].tipo
    BY <1>5 DEF TipoDestino, RegistroDe
  <2>3. /\ DOMAIN registros' = DOMAIN registros
        /\ \A i \in DOMAIN registros :
             /\ registros'[i].tipo = registros[i].tipo
             /\ registros'[i].valor = IF i = p THEN t ELSE registros[i].valor
    BY <1>5, <2>1, ActualizarCampos DEF Declarada
  <2> HIDE DEF p
  <2> QED
    BY <1>1, <2>2, <2>3 DEF Enteros
<1> QED
  BY <1>2, <1>3, <1>4, <1>5

(* A value that is a lexeme or a variable of type int. *)
LEMMA SimpleEntero ==
  ASSUME Tabla(registros, errores), Enteros(registros, errores), NEW k
  PROVE  Entero(AsignacionSimple(k, "Int").texto, errores)
<1> DEFINE p == PosicionDe(registros, TextoDe(k))
           r == AsignacionSimple(k, "Int")
<1>1. /\ \A x : Valor(x).texto = x
      /\ \A q : Fallo(q).texto = TextoError
  BY DEF Valor, Fallo
<1>2. CASE r.texto = TextoError
  BY <1>2, CalculadosFijos DEF Entero
<1>3. CASE /\ TipoDe(k) = "Variable" /\ Declarada(TextoDe(k))
           /\ RegistroDe(TextoDe(k)).tipo = "Int"
  <2>1. r.texto = registros[p].valor /\ registros[p].tipo = "Int"
    BY <1>1, <1>3 DEF AsignacionSimple, RegistroDe
  <2>2. p \in DOMAIN registros
    BY <1>3, PosicionEsta DEF Declarada
  <2> QED
    BY <2>1, <2>2 DEF Enteros
<1>4. CASE /\ TipoDe(k) # "Variable"
           /\ TipoElementoToTipoVar(TipoDe(k), TextoDe(k)) = "Int"
  <2>1. r.texto = TextoDe(k)
    BY <1>1, <1>4 DEF AsignacionSimple
  <2>2. ~ ConPunto(TextoDe(k))
    BY <1>4 DEF TipoElementoToTipoVar, TextoNumeroToTipo
  <2> QED
    BY <2>1, <2>2 DEF Entero
<1> QED
  BY <1>1, <1>2, <1>3, <1>4 DEF AsignacionSimple

(* The names of the table. *)
LEMMA GuardarNombres ==
  ASSUME Tabla(registros, errores), NEW t, Guardar(t),
         EsDeclaracion(turno) \/ Declarada(TextoDe(turno))
  PROVE  \A i \in DOMAIN registros' :
           \/ \E j \in DOMAIN registros : registros'[i].nombre = registros[j].nombre
           \/ EsDeclaracion(turno) /\ registros'[i].nombre = TextoDe(turno)
<1>1. CASE EsDeclaracion(turno) /\ ~ Declarada(TextoDe(turno))
  <2>1. registros' = Insertar(registros, TextoDe(turno), TipoDestino(turno), t)
    BY <1>1 DEF Guardar
  <2>2. \A i \in DOMAIN registros' :
          \/ i \in DOMAIN registros /\ registros'[i] = registros[i]
          \/ registros'[i].nombre = TextoDe(turno)
    BY <1>1, <2>1, AgregarCampos DEF Declarada
  <2> QED
    BY <1>1, <2>2
<1>2. CASE Declarada(TextoDe(turno))
  <2>1. \/ registros' = registros
        \/ registros' = ActualizarValor(registros, TextoDe(turno), t)
    BY <1>2 DEF Guardar, Insertar, Declarada
  <2>2. DOMAIN registros' = DOMAIN registros
          /\ \A i \in DOMAIN registros : registros'[i].nombre = registros[i].nombre
    BY <1>2, <2>1, ActualizarCampos DEF Declarada
  <2> QED
    BY <2>2
<1> QED
  BY <1>1, <1>2

-----------------------------------------------------------------------------
(* The end of a turn *)

LEMMA SiguienteEsVariable ==
  ASSUME n \in Nat, NEW p \in Nat, p <= n
  PROVE  LET q == SiguienteVariable(p)
         IN  /\ q \in p..n /\ (q < n => TipoDe(q) = "Variable")
             /\ \A i \in p..(q - 1) : TipoDe(i) # "Variable"
<1> DEFINE S == {i \in p..n : i = n \/ TipoDe(i) = "Variable"}
           q == Min(S)
<1>1. S \in SUBSET Nat /\ n \in S
  OBVIOUS
<1>2. q \in S /\ \A i \in S : q <= i
  <2> HIDE DEF S
  <2> QED
    BY <1>1, MinimoEsta, MinimoMenor
<1>3. SiguienteVariable(p) = q
  BY DEF SiguienteVariable
<1>4. q \in p..n /\ (q = n \/ TipoDe(q) = "Variable")
  BY <1>2
<1> HIDE DEF q
<1>5. \A i \in p..(q - 1) : TipoDe(i) # "Variable"
  <2> TAKE i \in p..(q - 1)
  <2>1. i \in p..n /\ ~ (q <= i)
    BY <1>4
  <2>2. i \notin S
    BY <1>2, <2>1
  <2> QED
    BY <2>1, <2>2
<1> QED
  BY <1>3, <1>4, <1>5

LEMMA MismaLista ==
  ASSUME lexemas' = lexemas
  PROVE  /\ n' = n /\ \A p : TipoDe(p)' = TipoDe(p)
         /\ \A p : UsoDeclarado(p)' <=> UsoDeclarado(p)
         /\ \A t, p : DeclaradaAntes(t, p)' <=> DeclaradaAntes(t, p)
         /\ \A p : IndicePuntoComa(p)' = IndicePuntoComa(p)
<1>1. \A p : TipoDe(p)' = TipoDe(p) /\ TextoDe(p)' = TextoDe(p)
  BY DEF TipoDe, TextoDe
<1>2. n' = n
  BY DEF n
<1>3. \A p : EsDeclaracion(p)' <=> EsDeclaracion(p)
  BY <1>1 DEF EsDeclaracion, EsTipoDeclaracion
<1>4. \A p : IndicePuntoComa(p)' = IndicePuntoComa(p)
  BY <1>1, <1>2 DEF IndicePuntoComa
<1>5. \A t, p : DeclaradaAntes(t, p)' <=> DeclaradaAntes(t, p)
  BY <1>1, <1>3 DEF DeclaradaAntes
<1>6. \A p, q : PuntoComaCorrecto(p, q)' <=> PuntoComaCorrecto(p, q)
  BY <1>1, Zenon DEF PuntoComaCorrecto
<1>7. \A p : Asigna(p)' <=> Asigna(p)
  BY <1>1, <1>3, <1>4, <1>6 DEF Asigna
<1>8. \A p : UsoDeclarado(p)' <=> UsoDeclarado(p)
  BY <1>1, <1>3, <1>4, <1>5, <1>7 DEF UsoDeclarado
<1> QED
  BY <1>1, <1>2, <1>4, <1>5, <1>8

(* A variable in the table has been declared. *)
LEMMA EnTablaDeclarada ==
  ASSUME Procedencia, NEW t, Declarada(t)
  PROVE  DeclaradaAntes(t, turno)
<1>1. PICK i \in DOMAIN registros : registros[i].nombre = t
  BY DEF Declarada, VariableEstaDeclarada, Nombres
<1> QED
  BY <1>1 DEF Procedencia

(* What a turn has to leave, so that the next one finds JInv. *)
LEMMA PasoTurno ==
  ASSUME IInv, JInv, estado = "recorriendo", turno < n,
         Avanzar, lexemas' = lexemas, llamadas' = << >>, errores \subseteq errores',
         errores' = {} => UsoDeclarado(turno),
         Enteros(registros', errores'),
         \A i \in DOMAIN registros' :
           \/ \E j \in DOMAIN registros : registros'[i].nombre = registros[j].nombre
           \/ /\ EsDeclaracion(turno) /\ registros'[i].nombre = TextoDe(turno)
              /\ TipoDe(turno + 1) \in {"OperadorAsignacion", "OperadorTerminador"}
  PROVE  JInv'
<1>1. n \in Nat /\ turno \in Nat /\ turno + 1 \in Nat /\ turno + 1 <= n
  BY DEF IInv, Listado, n
<1>2. turno' = SiguienteVariable(turno + 1) /\ estado' = "recorriendo"
  BY DEF Avanzar
<1>3. /\ turno' \in (turno + 1)..n /\ (turno' < n => TipoDe(turno') = "Variable")
      /\ \A i \in (turno + 1)..(turno' - 1) : TipoDe(i) # "Variable"
  BY <1>1, <1>2, SiguienteEsVariable
<1> DEFINE q == turno'
<1>4. q \in Nat /\ turno < q
  <2>1. q \in (turno + 1)..n
    BY <1>3
  <2> HIDE DEF q
  <2> QED
    BY <1>1, <2>1
<1>5. Visitada'
  BY <1>3 DEF Visitada, TipoDe, n
<1>6. Procedencia'
  <2>1. \A t : DeclaradaAntes(t, turno) => DeclaradaAntes(t, turno')
    <3>1. \A d \in 1..(turno - 1) : d \in 1..(q - 1)
      <4> HIDE DEF q
      <4> QED
        BY <1>1, <1>4
    <3> QED
      BY <3>1 DEF DeclaradaAntes
  <2>2. EsDeclaracion(turno)
          /\ TipoDe(turno + 1) \in {"OperadorAsignacion", "OperadorTerminador"}
          => DeclaradaAntes(TextoDe(turno), turno')
    <3> SUFFICES ASSUME EsDeclaracion(turno),
                        TipoDe(turno + 1) \in {"OperadorAsignacion", "OperadorTerminador"}
                 PROVE  DeclaradaAntes(TextoDe(turno), turno')
      OBVIOUS
    <3>1. turno \in 1..(q - 1)
      <4>1. turno > 0
        BY DEF EsDeclaracion
      <4> HIDE DEF q
      <4> QED
        BY <1>1, <1>4, <4>1
    <3>2. TipoDe(turno) = "Variable"
      BY DEF JInv, Visitada
    <3> QED
      BY <3>1, <3>2 DEF DeclaradaAntes
  <2>3. \A i \in DOMAIN registros' : DeclaradaAntes(registros'[i].nombre, turno')
    BY <2>1, <2>2 DEF JInv, Procedencia
  <2> QED
    BY <2>3 DEF Procedencia, DeclaradaAntes, EsDeclaracion, TipoDe, TextoDe
<1>7. Usos'
  <2> SUFFICES ASSUME errores' = {} PROVE \A p \in 0..(turno' - 1) : UsoDeclarado(p)'
    BY DEF Usos
  <2> TAKE p \in 0..(turno' - 1)
  <2>1. errores = {} /\ UsoDeclarado(turno) /\ \A r \in 0..(turno - 1) : UsoDeclarado(r)
    BY DEF JInv, Usos
  <2>2. CASE p \in 0..(turno - 1) \/ p = turno
    BY <2>1, <2>2, MismaLista
  <2>3. CASE p \in (turno + 1)..(turno' - 1)
    <3>1. UsoDeclarado(p)
      BY <1>3, <2>3 DEF UsoDeclarado
    <3> QED
      BY <3>1, MismaLista
  <2>4. p \in 0..(turno - 1) \/ p = turno \/ p \in (turno + 1)..(turno' - 1)
    <3>1. p \in 0..(q - 1)
      OBVIOUS
    <3> HIDE DEF q
    <3>2. p \in 0..(turno - 1) \/ p = turno \/ p \in (turno + 1)..(q - 1)
      BY <1>1, <1>4, <3>1
    <3> QED
      BY <3>2 DEF q
  <2> QED
    BY <2>2, <2>3, <2>4
<1>8. Asignando' /\ Recorrido'
  BY <1>2 DEF Asignando, Recorrido
<1>9. Terminadores(lexemas')
  BY DEF JInv
<1>10. Exterior(llamadas', lexemas', errores', turno', IndicePuntoComa(turno)')
  BY DEF Exterior
<1> QED
  BY <1>5, <1>6, <1>7, <1>8, <1>9, <1>10 DEF JInv

LEMMA SeReportaRedeclarada ==
  ASSUME EsDeclaracion(turno), Declarada(TextoDe(turno)), NEW que,
         errores' = errores \cup Reportar(QueRedeclarar \cup que)
  PROVE  Redeclarada(errores')
<1>1. "redeclarada" \in QueRedeclarar
  BY DEF QueRedeclarar
<1>2. [que |-> "redeclarada", en |-> turno] \in errores'
  BY <1>1 DEF Reportar
<1> QED
  BY <1>2 DEF Redeclarada

LEMMA TurnoSinValor ==
  ASSUME IInv, JInv, DeclararSinAsignar \/ Ignorar \/ ReasignarNoDeclarada
  PROVE  JInv'
<1>1. /\ turno < n /\ Avanzar /\ lexemas' = lexemas /\ llamadas' = << >>
      /\ estado = "recorriendo"
  BY DEF DeclararSinAsignar, Ignorar, ReasignarNoDeclarada, EnTurno
<1>2. CASE DeclararSinAsignar
  <2>1. /\ EsDeclaracion(turno) /\ ~ Asigna(turno)
        /\ errores' = errores \cup Reportar(QueRedeclarar)
        /\ registros' = IF TipoDe(turno + 1) = "OperadorTerminador"
                          THEN Insertar(registros, TextoDe(turno), TipoDestino(turno), Nulo)
                          ELSE registros
    BY <1>2 DEF DeclararSinAsignar
  <2>2. errores \subseteq errores' /\ UsoDeclarado(turno)
    BY <2>1 DEF UsoDeclarado
  <2>3. Declarada(TextoDe(turno)) => Redeclarada(errores')
    <3>1. errores' = errores \cup Reportar(QueRedeclarar \cup {})
      BY <2>1
    <3> QED
      BY <2>1, <3>1, SeReportaRedeclarada
  <2>4. CASE TipoDe(turno + 1) = "OperadorTerminador"
    <3>1. Guardar(Nulo)
      BY <2>1, <2>4 DEF Guardar
    <3>2. Entero(Nulo, errores')
      BY DEF Entero
    <3>3. Enteros(registros', errores')
      BY <2>1, <2>2, <2>3, <3>1, <3>2, GuardarEnteros DEF IInv, JInv
    <3>4. \A i \in DOMAIN registros' :
            \/ \E j \in DOMAIN registros : registros'[i].nombre = registros[j].nombre
            \/ EsDeclaracion(turno) /\ registros'[i].nombre = TextoDe(turno)
      BY <2>1, <3>1, GuardarNombres DEF IInv
    <3> QED
      BY <1>1, <2>2, <2>4, <3>3, <3>4, PasoTurno
  <2>5. CASE TipoDe(turno + 1) # "OperadorTerminador"
    <3>1. registros' = registros
      BY <2>1, <2>5
    <3>2. Enteros(registros', errores')
      BY <2>2, <3>1 DEF JInv, Enteros, Entero, Redeclarada
    <3> QED
      BY <1>1, <2>2, <3>1, <3>2, PasoTurno
  <2> QED
    BY <2>4, <2>5
<1>3. CASE Ignorar
  <2>1. registros' = registros /\ errores' = errores /\ ~ Asigna(turno)
    BY <1>3 DEF Ignorar
  <2>2. UsoDeclarado(turno) /\ Enteros(registros', errores')
    BY <2>1 DEF UsoDeclarado, JInv
  <2> QED
    BY <1>1, <2>1, <2>2, PasoTurno
<1>4. CASE ReasignarNoDeclarada
  <2>1. registros' = registros /\ errores' = errores \cup Reportar({"no declarada"})
    BY <1>4 DEF ReasignarNoDeclarada
  <2>2. errores \subseteq errores' /\ errores' # {}
    BY <2>1, ReportarAlgo
  <2>3. Enteros(registros', errores')
    BY <2>1, <2>2 DEF JInv, Enteros, Entero, Redeclarada
  <2> QED
    BY <1>1, <2>1, <2>2, <2>3, PasoTurno
<1> QED
  BY <1>2, <1>3, <1>4

(* The semicolon is not the identifier visited, nor the sign after it.     *)
LEMMA TerminadorDespues ==
  ASSUME Listado(lexemas, errores), Terminadores(lexemas), turno \in Nat, turno + 3 < n,
         TipoDe(turno) = "Variable", TipoDe(turno + 1) = "OperadorAsignacion"
  PROVE  /\ TextoDe(turno) # PuntoComa /\ TextoDe(turno + 1) # PuntoComa
         /\ \A i \in 0..(n - 1) :
              TipoDe(i) = "OperadorTerminador" <=> TextoDe(i) = PuntoComa
         /\ IndicePuntoComa(turno + 2) = IndicePuntoComa(turno)
<1>1. n \in Nat /\ DOMAIN lexemas = 1..n
  BY DEF Listado, n
<1>2. \A i \in 0..(n - 1) : TipoDe(i) = "OperadorTerminador" <=> TextoDe(i) = PuntoComa
  <2> TAKE i \in 0..(n - 1)
  <2>1. i + 1 \in DOMAIN lexemas
    BY <1>1
  <2> QED
    BY <2>1 DEF Terminadores, TipoDe, TextoDe
<1>3. turno \in 0..(n - 1) /\ turno + 1 \in 0..(n - 1) /\ turno + 2 <= n
  BY <1>1
<1>4. TextoDe(turno) # PuntoComa /\ TextoDe(turno + 1) # PuntoComa
  BY <1>2, <1>3
<1> QED
  BY <1>1, <1>2, <1>3, <1>4, PuntoComaDespues

LEMMA RecibeBien ==
  ASSUME IInv, JInv, Recibe
  PROVE  /\ n \in Nat /\ turno \in Nat /\ turno + 3 < n /\ DOMAIN lexemas = 1..n
         /\ TipoDe(turno) = "Variable" /\ TipoDe(turno + 1) = "OperadorAsignacion"
         /\ EsDeclaracion(turno) \/ Declarada(TextoDe(turno))
         /\ EsDeclaracion(turno) \/ DeclaradaAntes(TextoDe(turno), turno)
         /\ llamadas = << >> /\ estado = "recorriendo" /\ turno < n
<1>1. /\ turno < n /\ ~ Desborda /\ Asigna(turno) /\ llamadas = << >>
      /\ estado = "recorriendo"
      /\ EsDeclaracion(turno) \/ Declarada(TextoDe(turno))
  BY DEF Recibe, EnTurno
<1>2. turno \in Nat /\ n \in Nat /\ DOMAIN lexemas = 1..n
  BY DEF IInv, Listado, n
<1>3. turno + 3 < n
  <2>1. ~ (turno + 3 >= n)
    BY <1>1 DEF Desborda
  <2> QED
    BY <1>2, <2>1
<1>4. TipoDe(turno) = "Variable" /\ TipoDe(turno + 1) = "OperadorAsignacion"
  BY <1>1 DEF JInv, Visitada, Asigna
<1>5. EsDeclaracion(turno) \/ DeclaradaAntes(TextoDe(turno), turno)
  BY <1>1, EnTablaDeclarada DEF JInv
<1> QED
  BY <1>1, <1>2, <1>3, <1>4, <1>5

LEMMA TurnoSimple ==
  ASSUME IInv, JInv, AsignarSimple
  PROVE  JInv'
<1> DEFINE r == AsignacionSimple(turno + 2, TipoDestino(turno))
<1>1. /\ Recibe /\ TipoDe(turno + 3) = "OperadorTerminador"
      /\ Guardar(r.texto) /\ errores' = errores \cup Reportar(QueRedeclarar \cup r.que)
      /\ Avanzar /\ lexemas' = lexemas /\ llamadas' = llamadas
  BY DEF AsignarSimple
<1>2. /\ n \in Nat /\ turno \in Nat /\ turno + 3 < n
      /\ TipoDe(turno) = "Variable" /\ TipoDe(turno + 1) = "OperadorAsignacion"
      /\ EsDeclaracion(turno) \/ Declarada(TextoDe(turno))
      /\ EsDeclaracion(turno) \/ DeclaradaAntes(TextoDe(turno), turno)
      /\ llamadas = << >> /\ estado = "recorriendo" /\ turno < n
  BY <1>1, RecibeBien
<1>3. TipoDestino(turno) = "Int" => Entero(r.texto, errores')
  <2>1. TipoDestino(turno) = "Int" => Entero(r.texto, errores)
    BY SimpleEntero DEF IInv, JInv
  <2> HIDE DEF r
  <2> QED
    BY <1>1, <2>1 DEF Entero, Redeclarada
<1>4. EsDeclaracion(turno) /\ Declarada(TextoDe(turno)) => Redeclarada(errores')
  <2> HIDE DEF r
  <2> QED
    BY <1>1, SeReportaRedeclarada
<1>5. Enteros(registros', errores')
  <2> HIDE DEF r
  <2> QED
    BY <1>1, <1>2, <1>3, <1>4, GuardarEnteros DEF IInv, JInv
<1>6. \A i \in DOMAIN registros' :
        \/ \E j \in DOMAIN registros : registros'[i].nombre = registros[j].nombre
        \/ EsDeclaracion(turno) /\ registros'[i].nombre = TextoDe(turno)
  <2> HIDE DEF r
  <2> QED
    BY <1>1, <1>2, GuardarNombres DEF IInv
<1>7. errores' = {} => UsoDeclarado(turno)
  <2> SUFFICES ASSUME errores' = {} PROVE UsoDeclarado(turno)
    OBVIOUS
  <2>1. r.que = {}
    <3>1. r.que # {} => QueRedeclarar \cup r.que # {}
      OBVIOUS
    <3> HIDE DEF r
    <3> QED
      BY <1>1, <3>1, ReportarAlgo
  <2>2. TipoDe(turno + 2) = "Variable" => DeclaradaAntes(TextoDe(turno + 2), turno)
    <3>1. \A q : Fallo(q).que # {}
      BY DEF Fallo
    <3>2. TipoDe(turno + 2) = "Variable" => Declarada(TextoDe(turno + 2))
      BY <2>1, <3>1 DEF AsignacionSimple
    <3> QED
      BY <3>2, EnTablaDeclarada DEF JInv
  <2> DEFINE q == IndicePuntoComa(turno)
  <2>3. \A i \in (turno + 1)..(q - 1) : i = turno + 1 \/ i = turno + 2
    <3>1. TextoDe(turno + 3) = PuntoComa
      <4>1. turno + 3 \in 0..(n - 1)
        BY <1>2
      <4> QED
        BY <1>1, <1>2, <4>1, TerminadorDespues DEF IInv, JInv
    <3>2. q # -1 => \A i \in turno..(q - 1) : TextoDe(i) # PuntoComa
      BY <1>2, PuntoComaPrimero
    <3> HIDE DEF q
    <3>3. q # -1 => turno + 3 \notin turno..(q - 1)
      BY <3>1, <3>2
    <3>4. q \in Int
      BY <1>2, PuntoComaPrimero DEF q
    <3> QED
      BY <1>2, <3>3, <3>4
  <2>4. \A i \in (turno + 1)..(q - 1) :
          TipoDe(i) = "Variable" => DeclaradaAntes(TextoDe(i), turno)
    <3> HIDE DEF q
    <3> QED
      BY <1>2, <2>2, <2>3
  <2> QED
    BY <1>2, <2>4 DEF UsoDeclarado
<1>8. errores \subseteq errores' /\ llamadas' = << >>
  BY <1>1, <1>2
<1> QED
  BY <1>1, <1>2, <1>5, <1>6, <1>7, <1>8, PasoTurno

LEMMA TurnoComplejo ==
  ASSUME IInv, JInv, TerminarCompleja
  PROVE  JInv'
<1> DEFINE decimal == TipoDestino(turno) = "Int" /\ ConPunto(llamada.result)
           que == IF decimal THEN {"decimal"} ELSE {}
           t == IF decimal THEN TextoError ELSE llamada.result
<1>1. /\ llamadas # << >> /\ Guardar(t) /\ errores' = errores \cup Reportar(que)
      /\ llamadas' = << >> /\ Avanzar /\ lexemas' = lexemas /\ estado = "recorriendo"
  BY DEF TerminarCompleja, Leida
<1>2. TipoDestino(turno) = "Int" => Entero(t, errores')
  <2>1. TipoDestino(turno) = "Int" => ~ ConPunto(t)
    BY CalculadosFijos
  <2> HIDE DEF t
  <2> QED
    BY <2>1 DEF Entero
<1> HIDE DEF t, que
<1>3. errores \subseteq errores'
  BY <1>1
<1>4. /\ turno < n /\ TipoDe(turno + 1) = "OperadorAsignacion"
      /\ EsDeclaracion(turno) \/ Declarada(TextoDe(turno))
      /\ EsDeclaracion(turno) /\ Declarada(TextoDe(turno)) => Redeclarada(errores)
  BY <1>1 DEF IInv, JInv, Asignando, Emprendida
<1>5. Enteros(registros', errores')
  <2>1. Redeclarada(errores) => Redeclarada(errores')
    BY <1>3 DEF Redeclarada
  <2> QED
    BY <1>1, <1>2, <1>3, <1>4, <2>1, GuardarEnteros DEF IInv, JInv
<1>6. \A i \in DOMAIN registros' :
        \/ \E j \in DOMAIN registros : registros'[i].nombre = registros[j].nombre
        \/ EsDeclaracion(turno) /\ registros'[i].nombre = TextoDe(turno)
  BY <1>1, <1>4, GuardarNombres DEF IInv
<1>7. errores' = {} => UsoDeclarado(turno)
  BY <1>1, <1>3 DEF JInv, Usos
<1> QED
  BY <1>1, <1>3, <1>4, <1>5, <1>6, <1>7, PasoTurno

-----------------------------------------------------------------------------
(* The steps that stay at the identifier and leave the list as it is. *)

LEMMA UsosMismos ==
  ASSUME lexemas' = lexemas, turno' = turno
  PROVE  /\ n' = n /\ \A p : TipoDe(p)' = TipoDe(p) /\ TextoDe(p)' = TextoDe(p)
         /\ \A p : UsoDeclarado(p)' <=> UsoDeclarado(p)
         /\ \A t, p : DeclaradaAntes(t, p)' <=> DeclaradaAntes(t, p)
         /\ \A p : EsDeclaracion(p)' <=> EsDeclaracion(p)
         /\ IndicePuntoComa(turno)' = IndicePuntoComa(turno)
<1>1. \A p : TipoDe(p)' = TipoDe(p) /\ TextoDe(p)' = TextoDe(p)
  BY DEF TipoDe, TextoDe
<1>2. \A p : EsDeclaracion(p)' <=> EsDeclaracion(p)
  BY <1>1 DEF EsDeclaracion, EsTipoDeclaracion
<1>3. IndicePuntoComa(turno)' = IndicePuntoComa(turno)
  <2>1. n' = n
    BY DEF n
  <2> QED
    BY <1>1, <2>1 DEF IndicePuntoComa
<1> QED
  BY <1>1, <1>2, <1>3, MismaLista

LEMMA PasoQuieto ==
  ASSUME IInv, JInv, lexemas' = lexemas, turno' = turno, registros' = registros,
         errores \subseteq errores', Recorrido',
         llamadas = << >> /\ llamadas' # << >> =>
           Emprendida(errores') /\ (errores' = {} => UsoDeclarado(turno)),
         estado' = "recorriendo" =>
           Exterior(llamadas', lexemas, errores', turno, IndicePuntoComa(turno))
  PROVE  JInv'
<1>1. Visitada'
  BY DEF JInv, Visitada, TipoDe, n
<1>2. Asignando'
  <2>1. llamadas # << >> => Emprendida(errores)
    BY DEF JInv, Asignando
  <2>2. llamadas' # << >> => Emprendida(errores) \/ Emprendida(errores')
    BY <2>1
  <2>3. llamadas' # << >> => Emprendida(errores')
    BY <2>2 DEF Emprendida, Redeclarada
  <2>4. llamadas' # << >> => Emprendida(errores)'
    BY <2>3 DEF Emprendida, Redeclarada, EsDeclaracion, EsTipoDeclaracion, TipoDe,
                TextoDe, n, Declarada
  <2> QED
    BY <2>4 DEF Asignando
<1>3. Procedencia'
  BY UsosMismos DEF JInv, Procedencia
<1>4. Usos'
  <2>1. errores' = {} => errores = {}
    OBVIOUS
  <2> QED
    BY <2>1, UsosMismos DEF JInv, Usos
<1>5. Enteros(registros', errores')
  BY DEF JInv, Enteros, Entero, Redeclarada
<1>6. Terminadores(lexemas')
  BY DEF JInv
<1>7. estado' = "recorriendo" =>
        Exterior(llamadas', lexemas', errores', turno', IndicePuntoComa(turno)')
  BY UsosMismos
<1> QED
  BY <1>1, <1>2, <1>3, <1>4, <1>5, <1>6, <1>7 DEF JInv

LEMMA SincronizadaSigue ==
  ASSUME NEW K, NEW L, NEW E, NEW F, NEW T, NEW S, E \subseteq F,
         Sincronizada(K, L, E, T, S)
  PROVE  Sincronizada(K, L, F, T, S)
BY DEF Sincronizada, Puesto

(* The steps that compute nothing. *)
LEMMA PasoSinCalculo ==
  ASSUME IInv, JInv,
         \/ Desbordar \/ EmpezarRetornos \/ VerificarRetornoBloque
         \/ TerminarAnalisis \/ UNCHANGED vars
  PROVE  JInv'
<1>1. /\ lexemas' = lexemas /\ registros' = registros /\ turno' = turno
      /\ llamadas' = llamadas /\ errores \subseteq errores'
  BY DEF Desbordar, EmpezarRetornos, VerificarRetornoBloque, TerminarAnalisis, vars
<1>2. Recorrido'
  BY <1>1, Zenon DEF Desbordar, EmpezarRetornos, VerificarRetornoBloque, TerminarAnalisis,
               vars, JInv, Recorrido, n
<1>3. estado' = "recorriendo" => estado = "recorriendo" /\ errores' = errores
  BY DEF Desbordar, EmpezarRetornos, VerificarRetornoBloque, TerminarAnalisis, vars
<1> QED
  BY <1>1, <1>2, <1>3, PasoQuieto DEF JInv

-----------------------------------------------------------------------------
(* An expression that is started *)

LEMMA ExpresionEsta ==
  ASSUME Listado(lexemas, errores), NEW k \in Nat
  PROVE  LET K == Expresion(k)
             q == IndicePuntoComa(k)
         IN  /\ \A j \in DOMAIN K :
                  /\ j \in Nat /\ k + j - 1 < q /\ k + j \in DOMAIN lexemas
                  /\ K[j].origen = k + j - 1 /\ K[j].tipo = lexemas[k + j].tipo
                  /\ K[j].texto = lexemas[k + j].texto
             /\ \A i \in k..(q - 1) :
                  /\ (i - k) + 1 \in DOMAIN K
                  /\ K[(i - k) + 1].tipo = TipoDe(i) /\ K[(i - k) + 1].texto = TextoDe(i)
<1> DEFINE K == Expresion(k)
           q == IndicePuntoComa(k)
           m == Mayor(0, q - k)
           V(j) == [origen |-> k + j - 1, tipo |-> TipoDe(k + j - 1),
                    texto |-> TextoDe(k + j - 1)]
<1>1. n \in Nat /\ DOMAIN lexemas = 1..n
  BY DEF Listado, n
<1>2. q = -1 \/ q \in k..(n - 1)
  BY <1>1, PuntoComaPrimero
<1>3. K = [j \in 1..m |-> V(j)] /\ m = IF 0 >= q - k THEN 0 ELSE q - k
  BY DEF Expresion, Mayor
<1> HIDE DEF K, m, q
<1>4. DOMAIN K = 1..m /\ \A j \in 1..m : K[j] = V(j)
  BY <1>3
<1>5. \A j \in 1..m : /\ V(j).origen = k + j - 1 /\ V(j).tipo = TipoDe(k + j - 1)
                      /\ V(j).texto = TextoDe(k + j - 1)
  OBVIOUS
<1> HIDE DEF V
<1>6. ASSUME NEW j \in 1..m
      PROVE  /\ j \in Nat /\ k + j - 1 < q /\ k + j \in DOMAIN lexemas
             /\ K[j].origen = k + j - 1 /\ K[j].tipo = lexemas[k + j].tipo
             /\ K[j].texto = lexemas[k + j].texto
  <2>1. j \in Nat /\ k + j - 1 < q /\ k + j \in 1..n /\ (k + j - 1) + 1 = k + j
    BY <1>1, <1>2, <1>3
  <2>2. /\ K[j].origen = k + j - 1 /\ K[j].tipo = TipoDe(k + j - 1)
        /\ K[j].texto = TextoDe(k + j - 1)
    BY <1>4, <1>5
  <2> QED
    BY <1>1, <2>1, <2>2 DEF TipoDe, TextoDe
<1>7. ASSUME NEW i \in k..(q - 1)
      PROVE  /\ (i - k) + 1 \in DOMAIN K
             /\ K[(i - k) + 1].tipo = TipoDe(i) /\ K[(i - k) + 1].texto = TextoDe(i)
  <2> DEFINE j == (i - k) + 1
  <2>1. j \in 1..m /\ k + j - 1 = i
    BY <1>2, <1>3
  <2> HIDE DEF j
  <2>2. j \in DOMAIN K /\ K[j].tipo = TipoDe(i) /\ K[j].texto = TextoDe(i)
    BY <1>4, <1>5, <2>1
  <2> QED
    BY <2>2 DEF j
<1> QED
  BY <1>4, <1>6, <1>7 DEF K, q

(* The result of a call that starts. *)
LEMMA NuevaCampos ==
  ASSUME NEW K
  PROVE  /\ NuevaLlamada(K).copia = Convertir(K) /\ Calculado(NuevaLlamada(K).result)
BY CalculadosFijos DEF NuevaLlamada

(* Its list stands for the lexemes of the expression. *)
LEMMA NuevaSincronizada ==
  ASSUME Listado(lexemas, errores), turno \in Nat, NEW F,
         IndicePuntoComa(turno + 2) = IndicePuntoComa(turno),
         QueConvertir(Expresion(turno + 2)) # {} => F # {}
  PROVE  Sincronizada(NuevaLlamada(Expresion(turno + 2)).copia, lexemas, F, turno,
                      IndicePuntoComa(turno))
<1> DEFINE k == turno + 2
           K == Expresion(k)
           q == IndicePuntoComa(turno)
           V == Convertir(K)
<1>1. k \in Nat /\ IndicePuntoComa(k) = q
  OBVIOUS
<1>2. \A j \in DOMAIN K :
        /\ j \in Nat /\ k + j - 1 < q /\ k + j \in DOMAIN lexemas
        /\ K[j].origen = k + j - 1 /\ K[j].tipo = lexemas[k + j].tipo
        /\ K[j].texto = lexemas[k + j].texto
  <2> HIDE DEF k
  <2> QED
    BY <1>1, ExpresionEsta
<1>3. SinDeclarar(K) # {} => F # {}
  BY DEF QueConvertir
<1>4. DOMAIN V = DOMAIN K
  BY DEF Convertir
<1>5. \A j \in DOMAIN K :
        V[j] = IF K[j].tipo = "Variable" /\ (\A i \in SinDeclarar(K) : j < i)
                 THEN VariableValor(K[j]) ELSE K[j]
  BY DEF Convertir
<1>6. \A x : /\ VariableValor(x).origen = -1
             /\ VariableValor(x).tipo \in {"Numero", "Caracter", "Error"}
  BY DEF VariableValor, TipoVarToTipoElemento
<1> HIDE DEF K, V
<1>7. ASSUME NEW j \in DOMAIN K
      PROVE  /\ turno + 1 + j < q /\ turno + 2 + j \in DOMAIN lexemas
             /\ Puesto(V[j], turno + 2 + j, lexemas, F)
  <2>1. /\ turno + 1 + j < q /\ turno + 2 + j \in DOMAIN lexemas
        /\ K[j].origen = (turno + 2 + j) - 1 /\ K[j].tipo = lexemas[turno + 2 + j].tipo
        /\ K[j].texto = lexemas[turno + 2 + j].texto
    <3>1. /\ k + j - 1 = turno + 1 + j /\ k + j = turno + 2 + j
          /\ turno + 1 + j = (turno + 2 + j) - 1
      BY <1>2
    <3> QED
      BY <1>2, <3>1
  <2>2. CASE K[j].tipo = "Variable" /\ \A i \in SinDeclarar(K) : j < i
    BY <1>5, <1>6, <2>1, <2>2 DEF Puesto
  <2>3. CASE ~ (K[j].tipo = "Variable" /\ \A i \in SinDeclarar(K) : j < i)
    BY <1>3, <1>5, <2>1, <2>3 DEF Puesto
  <2> QED
    BY <2>1, <2>2, <2>3
<1>8. Sincronizada(V, lexemas, F, turno, q)
  <2> HIDE DEF q
  <2> QED
    BY <1>4, <1>7 DEF Sincronizada
<1> QED
  BY <1>8, NuevaCampos DEF V, K

LEMMA PasoEmpezar ==
  ASSUME IInv, JInv, AsignarCompleja
  PROVE  JInv'
<1> DEFINE K == Expresion(turno + 2)
           c == NuevaLlamada(K)
           que == QueRedeclarar \cup QueConvertir(K)
<1>1. /\ llamadas' = <<c>> /\ errores' = errores \cup Reportar(que)
      /\ registros' = registros /\ turno' = turno /\ lexemas' = lexemas
      /\ estado' = estado /\ Recibe
  BY DEF AsignarCompleja
<1>2. /\ n \in Nat /\ turno \in Nat /\ turno + 3 < n
      /\ TipoDe(turno) = "Variable" /\ TipoDe(turno + 1) = "OperadorAsignacion"
      /\ EsDeclaracion(turno) \/ Declarada(TextoDe(turno))
      /\ EsDeclaracion(turno) \/ DeclaradaAntes(TextoDe(turno), turno)
      /\ llamadas = << >> /\ estado = "recorriendo"
  BY <1>1, RecibeBien
<1>3. IndicePuntoComa(turno + 2) = IndicePuntoComa(turno)
  BY <1>2, TerminadorDespues DEF IInv, JInv
<1> HIDE DEF K
<1>4. que # {} => errores' # {}
  <2> HIDE DEF que
  <2> QED
    BY <1>1, ReportarAlgo
<1>5. errores \subseteq errores' /\ (QueConvertir(K) # {} => errores' # {})
  BY <1>1, <1>4
<1>6. Emprendida(errores')
  <2>1. EsDeclaracion(turno) /\ Declarada(TextoDe(turno)) => Redeclarada(errores')
    BY <1>1, SeReportaRedeclarada
  <2> QED
    BY <1>2, <2>1 DEF Emprendida
<1>7. errores' = {} => UsoDeclarado(turno)
  <2> SUFFICES ASSUME errores' = {} PROVE UsoDeclarado(turno)
    OBVIOUS
  <2> DEFINE q == IndicePuntoComa(turno)
  <2>1. SinDeclarar(K) = {}
    BY <1>5 DEF QueConvertir
  <2>2. \A j \in DOMAIN K : K[j].tipo = "Variable" => DeclaradaAntes(K[j].texto, turno)
    BY <2>1, EnTablaDeclarada DEF SinDeclarar, JInv
  <2>3. \A i \in (turno + 2)..(q - 1) :
          TipoDe(i) = "Variable" => DeclaradaAntes(TextoDe(i), turno)
    <3>1. turno + 2 \in Nat
      BY <1>2
    <3>2. \A i \in (turno + 2)..(q - 1) :
            /\ (i - (turno + 2)) + 1 \in DOMAIN K
            /\ K[(i - (turno + 2)) + 1].tipo = TipoDe(i)
            /\ K[(i - (turno + 2)) + 1].texto = TextoDe(i)
      BY <1>3, <3>1, ExpresionEsta DEF IInv, K
    <3> HIDE DEF q
    <3> QED
      BY <2>2, <3>2
  <2>4. \A i \in (turno + 1)..(q - 1) : i = turno + 1 \/ i \in (turno + 2)..(q - 1)
    <3>1. q \in Int
      BY <1>2, PuntoComaPrimero
    <3> HIDE DEF q
    <3> QED
      BY <1>2, <3>1
  <2>5. \A i \in (turno + 1)..(q - 1) :
          TipoDe(i) = "Variable" => DeclaradaAntes(TextoDe(i), turno)
    <3> HIDE DEF q
    <3> QED
      BY <1>2, <2>3, <2>4
  <2> QED
    BY <1>2, <2>5 DEF UsoDeclarado
<1>8. Sincronizada(c.copia, lexemas, errores', turno, IndicePuntoComa(turno))
  BY <1>2, <1>3, <1>5, NuevaSincronizada DEF IInv, K
<1>9. Calculado(c.result)
  BY NuevaCampos
<1> HIDE DEF c, que
<1>10. Exterior(llamadas', lexemas, errores', turno, IndicePuntoComa(turno))
  BY <1>1, <1>8, <1>9 DEF Exterior
<1>11. Recorrido'
  BY <1>1, <1>2 DEF Recorrido
<1> QED
  BY <1>1, <1>5, <1>6, <1>7, <1>10, <1>11, PasoQuieto

-----------------------------------------------------------------------------
(* A step of a call *)

LEMMA ContinuarCalcula ==
  ASSUME NEW debajo, NEW c, NEW L, Sana(c, L, errores), Calculado(c.result),
         Continuar(debajo, c)
  PROVE  /\ errores \subseteq errores' /\ registros' = registros /\ turno' = turno
         /\ \/ llamadas' = llamadas /\ estado' = "excepcion"
            \/ /\ estado' = estado
               /\ \E d : /\ d.copia = c.copia /\ Calculado(d.result)
                         /\ llamadas' = Append(debajo, d)
<1> DEFINE r == RealizarOperacion(c.izq, c.der, c.op, TipoDestino(turno))
<1>1. registros' = registros /\ turno' = turno
  BY DEF Continuar
<1>2. CASE ~ Completa(c)
  BY <1>1, <1>2 DEF Continuar
<1>3. CASE Completa(c) /\ r.caso = "excepcion"
  BY <1>1, <1>3 DEF Continuar
<1>4. CASE Completa(c) /\ r.caso # "excepcion"
  <2>1. /\ llamadas' = Append(debajo, Reducir(c, r)) /\ estado' = estado
        /\ errores' = errores \cup Reportar(r.que)
    BY <1>4 DEF Continuar
  <2>2. r.que = {} => r.texto # TextoError
    BY <1>4, OperacionReporta
  <2>3. Calculado(r.texto)
    BY OperacionCalcula
  <2> HIDE DEF r
  <2>4. errores' = {} => r.texto # TextoError
    BY <2>1, <2>2, ReportarAlgo
  <2>5. Sana(c, L, errores')
    BY <2>1, MasErrores
  <2>6. Reducir(c, r).copia = c.copia /\ Reducir(c, r).result = r.texto
    BY <2>4, <2>5, ReducirSana
  <2> QED
    BY <1>1, <2>1, <2>3, <2>6
<1> QED
  BY <1>2, <1>3, <1>4

LEMMA PasoElemento ==
  ASSUME IInv, JInv, LeerElemento
  PROVE  JInv'
<1> DEFINE c == Leer(llamada)
           q == IndicePuntoComa(turno)
<1>1. /\ llamadas # << >> /\ Continuar(Front(llamadas), c) /\ lexemas' = lexemas
      /\ estado = "recorriendo"
  BY DEF LeerElemento, Leyendo
<1>2. Sana(llamada, lexemas, errores)
  BY <1>1, FormaPila DEF llamada, IInv
<1>3. Sana(c, lexemas, errores) /\ c.copia = llamada.copia /\ c.result = llamada.result
  BY <1>2, LeerSana
<1>4. Exterior(llamadas, lexemas, errores, turno, q)
  BY <1>1 DEF JInv
<1>5. Calculado(llamada.result)
  BY <1>1, <1>4, PilaCorta, Zenon DEF Exterior, llamada
<1> HIDE DEF c, q
<1>6. /\ errores \subseteq errores' /\ registros' = registros /\ turno' = turno
      /\ \/ llamadas' = llamadas /\ estado' = "excepcion"
         \/ /\ estado' = estado
            /\ \E d : /\ d.copia = c.copia /\ Calculado(d.result)
                      /\ llamadas' = Append(Front(llamadas), d)
  BY <1>1, <1>3, <1>5, ContinuarCalcula
<1>7. ASSUME NEW d, d.copia = c.copia, Calculado(d.result),
             llamadas' = Append(Front(llamadas), d)
      PROVE  Exterior(llamadas', lexemas, errores', turno, q)
  <2>1. ASSUME NEW b, llamadas = <<b>>, Sincronizada(b.copia, lexemas, errores, turno, q)
        PROVE  Exterior(llamadas', lexemas, errores', turno, q)
    <3>1. llamada = b /\ llamadas' = <<d>>
      BY <1>7, <2>1, PilaCorta, Zenon DEF llamada
    <3>2. Sincronizada(d.copia, lexemas, errores', turno, q)
      BY <1>3, <1>6, <1>7, <2>1, <3>1, SincronizadaSigue
    <3> QED
      BY <1>7, <3>1, <3>2 DEF Exterior
  <2>2. ASSUME NEW b, NEW e, llamadas = <<b, e>>, Calculado(b.result), Espera(b),
               Sincronizada(b.copia, lexemas, errores, turno, q)
        PROVE  Exterior(llamadas', lexemas, errores', turno, q)
    <3>1. llamadas' = <<b, d>>
      <4>1. Front(llamadas) = <<b>>
        BY <2>2, PilaCorta, Zenon
      <4>2. llamadas' = Append(<<b>>, d)
        BY <1>7, <4>1, Zenon
      <4> QED
        BY <4>2, PilaCorta, Zenon
    <3>2. Sincronizada(b.copia, lexemas, errores', turno, q)
      BY <1>6, <2>2, SincronizadaSigue
    <3> QED
      BY <1>7, <2>2, <3>1, <3>2 DEF Exterior
  <2> QED
    BY <1>1, <1>4, <2>1, <2>2 DEF Exterior
<1>8. estado' = "recorriendo" => Exterior(llamadas', lexemas, errores', turno, q)
  BY <1>6, <1>7
<1>9. Recorrido'
  BY <1>1, <1>6 DEF Recorrido
<1> QED
  BY <1>1, <1>6, <1>8, <1>9, PasoQuieto DEF q

LEMMA PasoProducto ==
  ASSUME IInv, JInv, LlamarProducto
  PROVE  JInv'
<1> DEFINE q == IndicePuntoComa(turno)
<1>1. /\ llamadas # << >> /\ lexemas' = lexemas /\ registros' = registros
      /\ turno' = turno /\ estado = "recorriendo" /\ PrecedeProducto(llamada)
  BY DEF LlamarProducto, Leyendo
<1>2. Sana(llamada, lexemas, errores) /\ llamada.leidos \in Nat
  BY <1>1, FormaPila DEF llamada, Sana, IInv
<1>3. CASE llamada.leidos + 4 > Len(llamada.copia)
  <2>1. errores' = errores /\ llamadas' = llamadas /\ estado' = "excepcion"
    BY <1>3 DEF LlamarProducto
  <2> QED
    BY <1>1, <2>1, PasoQuieto DEF Recorrido
<1>4. CASE ~ (llamada.leidos + 4 > Len(llamada.copia))
  <2> DEFINE K == Producto(llamada)
             c == Leer(llamada)
             d == NuevaLlamada(K)
             m == Len(llamada.copia)
  <2>1. llamadas' = Front(llamadas) \o <<c, d>>
        /\ errores' = errores \cup Reportar(QueConvertir(K)) /\ estado' = estado
    BY <1>4 DEF LlamarProducto
  <2>2. m \in Nat /\ DOMAIN llamada.copia = 1..m
    <3>1. PICK X : llamada.copia \in Seq(X)
      BY <1>2 DEF Sana, Copia, Lista
    <3> QED
      BY <3>1
  <2>3. llamada.leidos + 4 <= m /\ m # 3
    <3> DEFINE y == llamada.leidos
    <3>1. y \in Nat /\ ~ (y + 4 > m)
      BY <1>2, <1>4
    <3> HIDE DEF y, m
    <3>2. y + 4 <= m /\ m # 3
      BY <2>2, <3>1
    <3> QED
      BY <3>2 DEF y
  <2>4. Front(llamadas) = << >> /\ Len(llamadas) = 1
    <3>1. Len(Last(llamadas).copia) # 3
      BY <2>3 DEF llamada
    <3> QED
      BY <1>1, <3>1, FormaPila, Zenon DEF IInv
  <2>5. Exterior(llamadas, lexemas, errores, turno, q)
    BY <1>1 DEF JInv
  <2>6. PICK b : llamadas = <<b>> /\ Calculado(b.result)
                   /\ Sincronizada(b.copia, lexemas, errores, turno, q)
    <3>1. \A b, e : llamadas = <<b, e>> => Front(llamadas) # << >>
      BY PilaCorta, Zenon
    <3> QED
      BY <1>1, <2>4, <2>5, <3>1 DEF Exterior
  <2>7. llamada = b
    BY <2>6, PilaCorta, Zenon DEF llamada
  <2>8. /\ c.copia = b.copia /\ c.leidos = b.leidos + 1 /\ c.result = b.result
    BY <1>2, <2>7, LeerSana
  <2>9. Calculado(d.result)
    BY NuevaCampos
  <2>10. Espera(c)
    <3> DEFINE i == b.leidos + 1
    <3>1. /\ i \in DOMAIN b.copia /\ i + 3 \in DOMAIN b.copia
      BY <1>2, <2>2, <2>3, <2>7
    <3>2. /\ b.copia[i].tipo = "OperadorAritmetico"
          /\ b.copia[i + 2].texto \in {Simbolo("*"), Simbolo("/")}
      BY <1>1, <2>7, Zenon DEF PrecedeProducto
    <3> HIDE DEF i, c
    <3> QED
      BY <2>8, <3>1, <3>2 DEF Espera, i
  <2> HIDE DEF c, d, K
  <2>11. llamadas' = <<c, d>>
    BY <2>1, <2>4, PilaCorta, Zenon
  <2>12. Sincronizada(c.copia, lexemas, errores', turno, q)
    <3>1. errores \subseteq errores'
      BY <2>1
    <3> QED
      BY <2>6, <2>8, <3>1, SincronizadaSigue
  <2>13. Exterior(llamadas', lexemas, errores', turno, q)
    BY <2>6, <2>8, <2>9, <2>10, <2>11, <2>12 DEF Exterior
  <2>14. Recorrido'
    BY <1>1, <2>1 DEF Recorrido
  <2> QED
    BY <1>1, <2>1, <2>13, <2>14, PasoQuieto
<1> QED
  BY <1>3, <1>4

-----------------------------------------------------------------------------
(* A product that is written into the list *)

EsFactor(t) == t \in {Simbolo("*"), Simbolo("/")}

(* No text that is written starts a product. *)
SinFactores ==
  \A i \in DOMAIN lexemas :
    lexemas'[i] # lexemas[i] =>
      /\ ~ EsFactor(lexemas'[i].texto)
      /\ errores = {} => Escribible(lexemas'[i].texto)

LEMMA TextosReducidosSon ==
  ASSUME NEW c, NEW t, Calculado(t), c.leidos \in Nat
  PROVE  LET textos == TextosReducidos(c, t)
         IN  \A j \in DOMAIN c.copia :
               /\ j \notin (c.leidos + 1)..(c.leidos + 3) => textos[j] = c.copia[j].texto
               /\ j \in (c.leidos + 1)..(c.leidos + 3) =>
                    /\ textos[j] # PuntoComa /\ ~ EsFactor(textos[j])
                    /\ t # TextoError => Escribible(textos[j])
               /\ j = c.leidos + 2 => textos[j] = Simbolo("+")
<1> DEFINE textos == TextosReducidos(c, t)
<1>1. Simbolo("+") # PuntoComa
  <2>1. Simbolo("+").c = "+" /\ PuntoComa.c = ";"
    BY Zenon DEF PuntoComa, Simbolo
  <2> QED
    BY <2>1, Zenon
<1>2. t # PuntoComa /\ Numeral(0, 0) # PuntoComa
  BY NoEsPuntoComa, CalculadosFijos
<1>a. ~ EsFactor(t) /\ ~ EsFactor(Numeral(0, 0)) /\ ~ EsFactor(Simbolo("+"))
  <2>1. /\ Simbolo("+").c = "+" /\ Simbolo("*").c = "*" /\ Simbolo("/").c = "/"
    BY Zenon DEF Simbolo
  <2>2. \A u : EsFactor(u) => u.c \in {"*", "/"}
    BY <2>1, Zenon DEF EsFactor
  <2>3. t.c \in {"", "Error", "0"} /\ Numeral(0, 0).c = "0"
    BY NombreCalculado, Zenon DEF Numeral
  <2> QED
    BY <2>1, <2>2, <2>3
<1>b. /\ t # TextoError => Escribible(t)
      /\ Escribible(Numeral(0, 0)) /\ Escribible(Simbolo("+"))
  BY Zenon DEF Calculado, Escribible, Numeral, Simbolo
<1> DEFINE m == Simbolo("+")
           z == Numeral(0, 0)
           l == c.leidos
<1>3. \A j \in DOMAIN c.copia :
        textos[j] = CASE j = l + 1 -> t [] j = l + 2 -> m [] j = l + 3 -> z
                      [] OTHER -> c.copia[j].texto
  BY DEF TextosReducidos
<1> HIDE DEF m, z, l, textos
<1>4. ASSUME NEW j \in DOMAIN c.copia
      PROVE  /\ j \notin (l + 1)..(l + 3) => textos[j] = c.copia[j].texto
             /\ j \in (l + 1)..(l + 3) => textos[j] \in {t, m, z}
             /\ j = l + 2 => textos[j] = m
  <2>1. l \in Nat
    BY DEF l
  <2>2. j \in (l + 1)..(l + 3) <=> j = l + 1 \/ j = l + 2 \/ j = l + 3
    BY <2>1
  <2>3. l + 1 # l + 2 /\ l + 1 # l + 3 /\ l + 2 # l + 3
    BY <2>1
  <2> DEFINE a == l + 1
             b == l + 2
             d == l + 3
  <2>4. textos[j] = CASE j = a -> t [] j = b -> m [] j = d -> z
                      [] OTHER -> c.copia[j].texto
    BY <1>3
  <2> HIDE DEF a, b, d
  <2>5. /\ j = a => textos[j] = t
        /\ j = b => textos[j] = m
        /\ j = d => textos[j] = z
        /\ j \notin {a, b, d} => textos[j] = c.copia[j].texto
    BY <2>3, <2>4 DEF a, b, d
  <2> QED
    BY <2>2, <2>5 DEF a, b, d
<1> QED
  BY <1>1, <1>2, <1>a, <1>b, <1>4 DEF m, z, l, textos

LEMMA EscribeProducto ==
  ASSUME Listado(lexemas, errores), NEW c, Sana(c, lexemas, errores), NEW textos,
         turno \in Nat,
         Sincronizada(c.copia, lexemas, errores, turno, IndicePuntoComa(turno))
  PROVE  LET M == ListaConTextos(c, textos)
         IN  /\ \A i \in DOMAIN lexemas :
                  \/ M[i] = lexemas[i]
                  \/ \E j \in DOMAIN c.copia :
                       /\ i = turno + 2 + j
                       /\ c.copia[j].texto = lexemas[i].texto
                       /\ lexemas[i].tipo = "Variable" => errores # {}
                       /\ M[i] = [tipo |-> lexemas[i].tipo, texto |-> textos[j]]
             /\ \A j \in DOMAIN c.copia :
                  c.copia[j].origen = turno + 1 + j =>
                    M[turno + 2 + j] = [tipo |-> lexemas[turno + 2 + j].tipo,
                                        texto |-> textos[j]]
<1> DEFINE M == ListaConTextos(c, textos)
           K == c.copia
           De(i) == {j \in DOMAIN K : K[j].origen = i - 1}
<1>1. \A i \in DOMAIN lexemas :
        M[i] = IF De(i) = {} THEN lexemas[i]
               ELSE [lexemas[i] EXCEPT !.texto = textos[Min(De(i))]]
  BY DEF ListaConTextos
<1>2. /\ DOMAIN K \subseteq Nat
      /\ n \in Nat /\ DOMAIN lexemas = 1..n
  <2>1. PICK X : K \in Seq(X)
    BY DEF Sana, Copia, Lista
  <2> QED
    BY <2>1 DEF Listado, n
<1>3. \A i \in DOMAIN lexemas : \A u :
        [lexemas[i] EXCEPT !.texto = u] = [tipo |-> lexemas[i].tipo, texto |-> u]
  BY DEF Listado, EsLexema
<1>4. \A j \in DOMAIN K : /\ turno + 2 + j \in DOMAIN lexemas
                          /\ Puesto(K[j], turno + 2 + j, lexemas, errores)
  BY DEF Sincronizada
<1> HIDE DEF M, K
(* An element that is a lexeme is the only one for it. *)
<1>5. ASSUME NEW i \in DOMAIN lexemas, NEW j \in De(i)
      PROVE  /\ j \in DOMAIN K /\ i = turno + 2 + j /\ K[j].texto = lexemas[i].texto
             /\ lexemas[i].tipo = "Variable" => errores # {}
  <2>1. j \in DOMAIN K /\ K[j].origen = i - 1 /\ j \in Nat /\ i \in 1..n
    BY <1>2
  <2> DEFINE p == turno + 2 + j
  <2>2. Puesto(K[j], p, lexemas, errores) /\ p \in Nat
    BY <1>4, <2>1
  <2> HIDE DEF p
  <2>3. K[j].origen # -1
    BY <2>1
  <2>4. /\ K[j].origen = p - 1 /\ K[j].tipo = lexemas[p].tipo
        /\ K[j].texto = lexemas[p].texto
        /\ K[j].tipo = "Variable" => errores # {}
    BY <2>2, <2>3 DEF Puesto
  <2>5. i = p
    BY <2>1, <2>2, <2>4
  <2> QED
    BY <2>1, <2>4, <2>5 DEF p
<1>6. ASSUME NEW i \in DOMAIN lexemas, De(i) # {}
      PROVE  /\ Min(De(i)) \in De(i)
             /\ M[i] = [tipo |-> lexemas[i].tipo, texto |-> textos[Min(De(i))]]
  <2>1. De(i) \in SUBSET Nat
    BY <1>2
  <2>2. Min(De(i)) \in De(i)
    <3> HIDE DEF De
    <3> QED
      BY <1>6, <2>1, MinimoEsta
  <2> HIDE DEF De
  <2> QED
    BY <1>1, <1>3, <1>6, <2>2
<1>7. ASSUME NEW i \in DOMAIN lexemas, M[i] # lexemas[i]
      PROVE  \E j \in DOMAIN K :
               /\ i = turno + 2 + j /\ K[j].texto = lexemas[i].texto
               /\ lexemas[i].tipo = "Variable" => errores # {}
               /\ M[i] = [tipo |-> lexemas[i].tipo, texto |-> textos[j]]
  <2>1. De(i) # {}
    BY <1>1, <1>7
  <2> HIDE DEF De
  <2> QED
    BY <1>5, <1>6, <2>1
<1>8. ASSUME NEW j \in DOMAIN K, K[j].origen = turno + 1 + j
      PROVE  M[turno + 2 + j] = [tipo |-> lexemas[turno + 2 + j].tipo,
                                 texto |-> textos[j]]
  <2> DEFINE i == turno + 2 + j
  <2>1. i \in DOMAIN lexemas /\ j \in Nat
    BY <1>2, <1>4
  <2>2. j \in De(i)
    BY <1>8, <2>1
  <2>3. \A h \in De(i) : h = j
    <3> TAKE h \in De(i)
    <3>1. h \in DOMAIN K /\ i = turno + 2 + h
      <4> HIDE DEF De, i
      <4> QED
        BY <1>5, <2>1
    <3> QED
      BY <1>2, <2>1, <3>1
  <2> HIDE DEF De, i
  <2>4. Min(De(i)) = j
    BY <1>6, <2>1, <2>2, <2>3
  <2>5. M[i] = [tipo |-> lexemas[i].tipo, texto |-> textos[j]]
    BY <1>6, <2>1, <2>2, <2>4
  <2> QED
    BY <2>5 DEF i
<1>9. \A i \in DOMAIN lexemas :
        \/ M[i] = lexemas[i]
        \/ \E j \in DOMAIN K :
             /\ i = turno + 2 + j /\ K[j].texto = lexemas[i].texto
             /\ lexemas[i].tipo = "Variable" => errores # {}
             /\ M[i] = [tipo |-> lexemas[i].tipo, texto |-> textos[j]]
  BY <1>7
<1>10. \A j \in DOMAIN K :
         K[j].origen = turno + 1 + j =>
           M[turno + 2 + j] = [tipo |-> lexemas[turno + 2 + j].tipo,
                               texto |-> textos[j]]
  BY <1>8
<1> QED
  BY <1>9, <1>10 DEF M, K

LEMMA RegresoLlamada ==
  ASSUME IInv, JInv, RegresarProducto
  PROVE  \E c, t :
           LET textos == TextosReducidos(c, t)
           IN  /\ Sana(c, lexemas, errores) /\ Espera(c) /\ Calculado(c.result)
               /\ Sincronizada(c.copia, lexemas, errores, turno, IndicePuntoComa(turno))
               /\ Calculado(t) /\ (errores = {} => t # TextoError)
               /\ lexemas' = ListaConTextos(c, textos)
               /\ Continuar(<< >>, ConTextos(c, textos))
               /\ llamadas # << >> /\ estado = "recorriendo"
<1> DEFINE q == IndicePuntoComa(turno)
<1>1. /\ llamadas # << >> /\ Len(llamadas) > 1 /\ estado = "recorriendo"
      /\ LET c == Last(Front(llamadas))
             textos == TextosReducidos(c, llamada.result)
         IN  /\ lexemas' = ListaConTextos(c, textos)
             /\ Continuar(Front(Front(llamadas)), ConTextos(c, textos))
  BY DEF RegresarProducto, Leida
<1>2. Len(llamadas) # 1
  <2> DEFINE x == Len(llamadas)
  <2>1. x > 1
    BY <1>1
  <2> HIDE DEF x
  <2>2. x # 1
    BY <2>1
  <2> QED
    BY <2>2 DEF x
<1>3. Exterior(llamadas, lexemas, errores, turno, q)
  BY <1>1 DEF JInv
<1>4. PICK c, d : /\ llamadas = <<c, d>> /\ Sincronizada(c.copia, lexemas, errores, turno, q)
                  /\ Calculado(c.result) /\ Calculado(d.result) /\ Espera(c)
  <2>1. \A b : llamadas # <<b>>
    BY <1>2, PilaCorta, Zenon
  <2> QED
    BY <1>1, <1>3, <2>1, Zenon DEF Exterior
<1>5. /\ Last(llamadas) = d /\ Front(llamadas) = <<c>>
      /\ Last(<<c>>) = c /\ Front(<<c>>) = << >>
  BY <1>4, PilaCorta, Zenon
<1>6. llamada = d /\ Last(Front(llamadas)) = c /\ Front(Front(llamadas)) = << >>
  BY <1>5, Zenon DEF llamada
<1>7. Sana(d, lexemas, errores) /\ Sana(c, lexemas, errores)
  BY <1>1, <1>2, <1>5, <1>6, FormaPila, Zenon DEF IInv
<1>8. errores = {} => d.result # TextoError
  BY <1>7 DEF Sana
<1> HIDE DEF q
<1>9. /\ lexemas' = ListaConTextos(c, TextosReducidos(c, d.result))
      /\ Continuar(<< >>, ConTextos(c, TextosReducidos(c, d.result)))
  BY <1>1, <1>6, Zenon
<1> QED
  BY <1>1, <1>4, <1>7, <1>8, <1>9, Zenon DEF q

(* What it leaves. *)
LEMMA ProductoEscrito ==
  ASSUME IInv, JInv, NEW c, NEW t, Sana(c, lexemas, errores), Espera(c), Calculado(t),
         errores = {} => t # TextoError,
         Sincronizada(c.copia, lexemas, errores, turno, IndicePuntoComa(turno)),
         lexemas' = ListaConTextos(c, TextosReducidos(c, t)),
         errores \subseteq errores', turno + 1 < n, turno' = turno
  PROVE  Conserva /\ Escritura /\ SinFactores /\ Terminadores(lexemas')
<1> DEFINE K == c.copia
           textos == TextosReducidos(c, t)
           M == ListaConTextos(c, textos)
           q == IndicePuntoComa(turno)
           l == c.leidos
<1>1. /\ n \in Nat /\ turno \in Nat /\ DOMAIN lexemas = 1..n
      /\ \A i \in DOMAIN lexemas : EsLexema(lexemas[i])
  BY DEF IInv, Listado, n
<1>2. /\ DOMAIN K \subseteq Nat \ {0} /\ l \in DOMAIN K /\ l + 3 \in DOMAIN K
      /\ DOMAIN K = 1..Len(K) /\ Len(K) \in Nat
  <2>1. PICK X : K \in Seq(X)
    BY DEF Sana, Copia, Lista
  <2> QED
    BY <2>1 DEF Espera
<1>3. \A i \in DOMAIN lexemas :
        \/ M[i] = lexemas[i]
        \/ \E j \in DOMAIN K :
             /\ i = turno + 2 + j /\ K[j].texto = lexemas[i].texto
             /\ lexemas[i].tipo = "Variable" => errores # {}
             /\ M[i] = [tipo |-> lexemas[i].tipo, texto |-> textos[j]]
  <2>1. Listado(lexemas, errores)
    BY DEF IInv
  <2>2. Sincronizada(c.copia, lexemas, errores, turno, q)
    OBVIOUS
  <2> HIDE DEF textos
  <2>3. turno \in Nat /\ Sana(c, lexemas, errores)
    BY <1>1
  <2> QED
    BY <2>1, <2>2, <2>3, EscribeProducto
<1>4. \A j \in DOMAIN K :
        /\ j \notin (l + 1)..(l + 3) => textos[j] = K[j].texto
        /\ j \in (l + 1)..(l + 3) =>
             /\ textos[j] # PuntoComa /\ ~ EsFactor(textos[j])
             /\ t # TextoError => Escribible(textos[j])
        /\ j = l + 2 => textos[j] = Simbolo("+")
  BY <1>2, TextosReducidosSon
<1>5. DOMAIN M = 1..n /\ Len(M) = n /\ lexemas' = M
  <2> DEFINE f == [i \in 1..n |-> M[i]]
             Y == {M[i] : i \in 1..n}
  <2>1. M = f
    BY <1>1 DEF ListaConTextos
  <2>2. \A i \in 1..n : M[i] \in Y
    OBVIOUS
  <2> HIDE DEF Y, M
  <2>3. f \in Seq(Y) /\ Len(f) = n /\ DOMAIN f = 1..n
    BY <1>1, <2>2
  <2> QED
    BY <2>1, <2>3 DEF M
<1>6. \A j \in DOMAIN K :
        /\ turno + 1 + j < q /\ turno + 2 + j \in DOMAIN lexemas
        /\ Puesto(K[j], turno + 2 + j, lexemas, errores)
  BY DEF Sincronizada
<1>7. /\ K[l].tipo = "OperadorAritmetico"
      /\ K[l + 2].texto \in {Simbolo("*"), Simbolo("/")}
  BY DEF Espera
<1>8. ~ (turno + 1 + l < -1) /\ q # -1
  <2>1. turno + 1 + l < q
    BY <1>2, <1>6
  <2> HIDE DEF q, l
  <2> QED
    BY <1>1, <1>2, <2>1
<1>9. q \in turno..(n - 1) /\ \A i \in turno..(q - 1) : TextoDe(i) # PuntoComa
  BY <1>1, <1>8, PuntoComaPrimero
<1> HIDE DEF K, textos, M, q, l
(* What changes at index i is one of the three elements of the product. *)
<1>10. ASSUME NEW i \in DOMAIN lexemas, M[i] # lexemas[i]
       PROVE  \E j \in (l + 1)..(l + 3) :
                /\ j \in DOMAIN K /\ i = turno + 2 + j /\ turno + 1 + j < q
                /\ lexemas[i].tipo = "Variable" => errores' # {}
                /\ M[i].tipo = lexemas[i].tipo /\ M[i].texto = textos[j]
                /\ M[i].texto # PuntoComa /\ lexemas[i].texto # PuntoComa
                /\ ~ EsFactor(M[i].texto)
                /\ errores = {} => Escribible(M[i].texto)
  <2>1. PICK j \in DOMAIN K :
          /\ i = turno + 2 + j /\ K[j].texto = lexemas[i].texto
          /\ lexemas[i].tipo = "Variable" => errores # {}
          /\ M[i] = [tipo |-> lexemas[i].tipo, texto |-> textos[j]]
    BY <1>3, <1>10
  <2>2. j \in (l + 1)..(l + 3)
    <3>1. textos[j] # K[j].texto
      BY <1>1, <1>10, <2>1 DEF EsLexema
    <3> QED
      BY <1>4, <3>1
  <2>3. lexemas[i].texto # PuntoComa
    <3> DEFINE p == turno + 1 + j
    <3>1. p \in turno..(q - 1) /\ p + 1 = i
      <4>1. turno \in Nat /\ j \in Nat /\ q \in Int /\ p < q /\ i = turno + 2 + j
        BY <1>1, <1>2, <1>6, <1>9, <2>1
      <4> QED
        BY <4>1
    <3>2. TextoDe(p) # PuntoComa
      <4> HIDE DEF p
      <4> QED
        BY <1>9, <3>1
    <3> HIDE DEF p
    <3> QED
      BY <3>1, <3>2 DEF TextoDe
  <2> QED
    BY <1>4, <1>6, <2>1, <2>2, <2>3
<1>11. \A i \in DOMAIN lexemas : M[i].tipo = lexemas[i].tipo
  BY <1>10
<1>12. n' = n
  BY <1>5 DEF n
<1>13. \A i \in 0..(n - 1) : /\ TipoDe(i)' = M[i + 1].tipo /\ TextoDe(i)' = M[i + 1].texto
                             /\ i + 1 \in DOMAIN lexemas
  BY <1>1, <1>5 DEF TipoDe, TextoDe
<1>14. Terminadores(lexemas')
  <2>1. \A i \in DOMAIN lexemas : M[i].tipo = "OperadorTerminador" <=> M[i].texto = PuntoComa
    BY <1>10, <1>11 DEF JInv, Terminadores
  <2> QED
    BY <1>1, <1>5, <2>1 DEF Terminadores
<1>15. ASSUME NEW i \in 0..(n - 1), M[i + 1] # lexemas[i + 1]
       PROVE  /\ turno + 1 < i /\ i < q
              /\ TextoDe(i) # PuntoComa /\ TextoDe(i)' # PuntoComa
              /\ TipoDe(i) = "Variable" => errores' # {}
              /\ TrasOperador(i)
  <2>1. i + 1 \in DOMAIN lexemas
    BY <1>13
  <2>2. PICK j \in (l + 1)..(l + 3) :
          /\ j \in DOMAIN K /\ i + 1 = turno + 2 + j /\ turno + 1 + j < q
          /\ lexemas[i + 1].tipo = "Variable" => errores' # {}
          /\ M[i + 1].tipo = lexemas[i + 1].tipo /\ M[i + 1].texto = textos[j]
          /\ M[i + 1].texto # PuntoComa /\ lexemas[i + 1].texto # PuntoComa
    BY <1>10, <1>15, <2>1
  <2>3. i = turno + 1 + j /\ turno + 1 < i /\ i < q
    <3>1. turno \in Nat /\ j \in Nat \ {0} /\ i \in Int
      BY <1>1, <1>2, <2>2
    <3>2. i = turno + 1 + j /\ turno + 1 < i
      BY <2>2, <3>1
    <3> QED
      BY <2>2, <3>2
  <2>4. TrasOperador(i)
    <3> DEFINE k == turno + 1 + l
    <3>1. /\ k \in (i - 3)..(i - 1) \cap Nat /\ k + 1 = turno + 2 + l
          /\ k + 3 = turno + 2 + (l + 2) /\ (i = k + 2 => j = l + 2)
          /\ l + 2 \in DOMAIN K
      <4>1. turno \in Nat /\ l \in Nat /\ l + 2 \in DOMAIN K
        BY <1>1, <1>2
      <4> QED
        BY <2>2, <2>3, <4>1
    <3>2. TipoDe(k) = "OperadorAritmetico"
      <4>1. Puesto(K[l], k + 1, lexemas, errores)
        BY <1>2, <1>6, <3>1
      <4> HIDE DEF k
      <4> QED
        BY <1>7, <4>1 DEF Puesto, TipoDe
    <3>3. \/ TextoDe(k + 2) \in {Simbolo("*"), Simbolo("/")}
          \/ TipoDe(k + 2) = "Variable"
      <4>1. Puesto(K[l + 2], k + 3, lexemas, errores)
        BY <1>6, <3>1
      <4>2. (k + 2) + 1 = k + 3
        BY <3>1
      <4> HIDE DEF k
      <4> QED
        BY <1>7, <4>1, <4>2 DEF Puesto, TipoDe, TextoDe
    <3>4. i = k + 2 => TextoDe(i)' = Simbolo("+")
      BY <1>4, <1>13, <2>2, <3>1
    <3> HIDE DEF k
    <3> QED
      BY <3>1, <3>2, <3>3, <3>4 DEF TrasOperador
  <2> QED
    BY <1>13, <2>2, <2>3, <2>4 DEF TipoDe, TextoDe
<1>16. Conserva
  <2>1. ASSUME NEW i \in 0..(n - 1)
        PROVE  /\ TipoDe(i)' = TipoDe(i)
               /\ \/ TextoDe(i)' = TextoDe(i)
                  \/ /\ turno + 1 < i
                     /\ TextoDe(i) # PuntoComa /\ TextoDe(i)' # PuntoComa
                     /\ TipoDe(i) = "Variable" => errores' # {}
    <3>1. TipoDe(i)' = TipoDe(i)
      BY <1>11, <1>13 DEF TipoDe
    <3>2. M[i + 1] = lexemas[i + 1] => TextoDe(i)' = TextoDe(i)
      BY <1>13 DEF TextoDe
    <3> QED
      BY <1>15, <3>1, <3>2
  <2> QED
    BY <1>1, <1>12, <2>1 DEF Conserva
<1>17. Escritura
  <2>1. \A i \in 0..(n - 1) : TipoDe(i)' = TipoDe(i)
    BY <1>16 DEF Conserva
  <2>2. \A i \in 0..(n - 1) : M[i + 1] # lexemas[i + 1] =>
          /\ turno + 1 < i /\ i < q
          /\ TipoDe(i) = "Variable" => errores' # {}
          /\ TrasOperador(i)
    BY <1>15
  <2> QED
    BY <1>5, <1>12, <2>1, <2>2 DEF Escritura, q
<1>18. SinFactores
  BY <1>5, <1>10 DEF SinFactores
<1> QED
  BY <1>14, <1>16, <1>17, <1>18

(* The list of the call goes along with what is written. *)
LEMMA ProductoSincronizado ==
  ASSUME IInv, turno \in Nat, NEW c, NEW textos, Sana(c, lexemas, errores),
         errores = {} => \A j \in DOMAIN c.copia :
                           c.copia[j].tipo # "Variable" => textos[j] # TextoError,
         Sincronizada(c.copia, lexemas, errores, turno, IndicePuntoComa(turno))
  PROVE  LET M == ListaConTextos(c, textos)
             y == ConTextos(c, textos)
         IN  /\ Sana(y, lexemas, errores) /\ y.result = c.result
             /\ Sincronizada(y.copia, M, errores, turno, IndicePuntoComa(turno))
<1> DEFINE M == ListaConTextos(c, textos)
           y == ConTextos(c, textos)
           q == IndicePuntoComa(turno)
<1>1. Listado(lexemas, errores) /\ Copia(c.copia, lexemas, errores)
  BY DEF IInv, Sana
<1>2. /\ DOMAIN M = DOMAIN lexemas
      /\ \A i \in DOMAIN lexemas : M[i].tipo = lexemas[i].tipo
  BY <1>1, ListaConTextosSana
<1>3. /\ Sana(y, lexemas, errores) /\ y.result = c.result
      /\ DOMAIN y.copia = DOMAIN c.copia
      /\ \A j \in DOMAIN c.copia :
           y.copia[j] = [origen |-> c.copia[j].origen, tipo |-> c.copia[j].tipo,
                         texto |-> textos[j]]
  BY ConTextosSana
<1>4. \A j \in DOMAIN c.copia :
        c.copia[j].origen = turno + 1 + j =>
          M[turno + 2 + j] = [tipo |-> lexemas[turno + 2 + j].tipo, texto |-> textos[j]]
  BY <1>1, EscribeProducto
<1>5. \A j \in DOMAIN c.copia :
        /\ turno + 1 + j < q /\ turno + 2 + j \in DOMAIN lexemas
        /\ Puesto(c.copia[j], turno + 2 + j, lexemas, errores)
  BY DEF Sincronizada
<1>6. DOMAIN c.copia \subseteq Nat
  <2>1. PICK X : c.copia \in Seq(X)
    BY <1>1 DEF Copia, Lista
  <2> QED
    BY <2>1
<1> HIDE DEF M, y, q
<1>7. ASSUME NEW j \in DOMAIN c.copia
      PROVE  Puesto(y.copia[j], turno + 2 + j, M, errores)
  <2> DEFINE i == turno + 2 + j
             x == c.copia[j]
             z == y.copia[j]
  <2>1. /\ i \in DOMAIN lexemas /\ i - 1 = turno + 1 + j
        /\ Puesto(x, i, lexemas, errores) /\ M[i].tipo = lexemas[i].tipo
    BY <1>2, <1>5, <1>6
  <2> DEFINE u == textos[j]
  <2>a. z = [origen |-> x.origen, tipo |-> x.tipo, texto |-> u]
    BY <1>3
  <2>b. x.origen = turno + 1 + j => M[i] = [tipo |-> lexemas[i].tipo, texto |-> u]
    BY <1>4
  <2> HIDE DEF i, x, z, u
  <2>2. z.origen = x.origen /\ z.tipo = x.tipo /\ z.texto = u
    BY <2>a
  <2>3. x.origen = i - 1 => M[i].texto = u
    BY <2>b, <2>1
  <2>4. Puesto(z, i, M, errores)
    BY <2>1, <2>2, <2>3 DEF Puesto
  <2> QED
    BY <2>4 DEF i, z
<1>8. Sincronizada(y.copia, M, errores, turno, q)
  BY <1>2, <1>3, <1>5, <1>7 DEF Sincronizada
<1> QED
  BY <1>3, <1>8 DEF M, y, q

LEMMA PasoRegreso ==
  ASSUME IInv, JInv, RegresarProducto
  PROVE  JInv' /\ Escritura /\ SinFactores
<1> DEFINE q == IndicePuntoComa(turno)
<1>1. PICK c, t :
        LET textos == TextosReducidos(c, t)
        IN  /\ Sana(c, lexemas, errores) /\ Espera(c) /\ Calculado(c.result)
            /\ Sincronizada(c.copia, lexemas, errores, turno, q)
            /\ Calculado(t) /\ (errores = {} => t # TextoError)
            /\ lexemas' = ListaConTextos(c, textos)
            /\ Continuar(<< >>, ConTextos(c, textos))
            /\ llamadas # << >> /\ estado = "recorriendo"
  BY RegresoLlamada
<1> DEFINE textos == TextosReducidos(c, t)
           k == ConTextos(c, textos)
<1>2. errores = {} => \A j \in DOMAIN c.copia :
                        c.copia[j].tipo # "Variable" => textos[j] # TextoError
  <2>1. Simbolo("+") # TextoError /\ Numeral(0, 0) # TextoError
    BY TextosDistintos
  <2>2. errores = {} => SinError(c.copia)
    BY <1>1 DEF Sana, Copia
  <2>3. \A j \in DOMAIN c.copia :
          textos[j] \in {t, Simbolo("+"), Numeral(0, 0), c.copia[j].texto}
    BY DEF TextosReducidos
  <2> QED
    BY <1>1, <2>1, <2>2, <2>3 DEF SinError
<1>3. turno \in Nat /\ n \in Nat
  BY DEF IInv, Listado, n
<1>4. Emprendida(errores)
  BY <1>1 DEF JInv, Asignando
<1> HIDE DEF textos
<1>5. /\ Sana(k, lexemas, errores) /\ k.result = c.result
      /\ Sincronizada(k.copia, ListaConTextos(c, textos), errores, turno, q)
  BY <1>1, <1>2, <1>3, ProductoSincronizado
<1> HIDE DEF k
<1>6. Sincronizada(k.copia, lexemas', errores, turno, q) /\ Continuar(<< >>, k)
  BY <1>1, <1>5 DEF textos, k
<1>7. /\ errores \subseteq errores' /\ registros' = registros /\ turno' = turno
      /\ \/ llamadas' = llamadas /\ estado' = "excepcion"
         \/ /\ estado' = estado
            /\ \E d : /\ d.copia = k.copia /\ Calculado(d.result)
                      /\ llamadas' = Append(<< >>, d)
  BY <1>1, <1>5, <1>6, ContinuarCalcula
<1>8. turno + 1 < n
  BY <1>4 DEF Emprendida
<1>9. Conserva /\ Escritura /\ SinFactores /\ Terminadores(lexemas')
  BY <1>1, <1>7, <1>8, ProductoEscrito
<1>10. n' = n /\ IndicePuntoComa(turno)' = q
  BY <1>3, <1>7, <1>9, PuntoComaEstable DEF Conserva
<1>11. /\ \A p \in 0..(turno + 1) : TextoDe(p)' = TextoDe(p) /\ TipoDe(p)' = TipoDe(p)
       /\ \A p \in 0..turno : EsDeclaracion(p)' <=> EsDeclaracion(p)
       /\ \A u : \A p \in 0..turno : DeclaradaAntes(u, p)' <=> DeclaradaAntes(u, p)
  BY <1>3, <1>8, <1>9, DeclaracionEstable
<1>12. turno \in 0..turno /\ turno \in 0..(turno + 1) /\ turno + 1 \in 0..(turno + 1)
  BY <1>3
<1>13. Visitada'
  <2>1. TipoDe(turno) = "Variable"
    BY <1>3, <1>8 DEF JInv, Visitada
  <2>2. TipoDe(turno)' = TipoDe(turno)
    BY <1>7, <1>11, <1>12
  <2> QED
    BY <2>1, <2>2 DEF Visitada
<1>14. Asignando'
  <2>1. /\ TextoDe(turno)' = TextoDe(turno) /\ TipoDe(turno + 1)' = TipoDe(turno + 1)
        /\ EsDeclaracion(turno)' <=> EsDeclaracion(turno)
    BY <1>7, <1>11, <1>12
  <2>2. Declarada(TextoDe(turno))' <=> Declarada(TextoDe(turno))
    BY <1>7, <2>1 DEF Declarada
  <2>3. Redeclarada(errores) => Redeclarada(errores')
    BY <1>7 DEF Redeclarada
  <2> QED
    BY <1>4, <1>7, <1>10, <2>1, <2>2, <2>3 DEF Asignando, Emprendida
<1>15. Procedencia'
  <2>1. \A u : DeclaradaAntes(u, turno)' <=> DeclaradaAntes(u, turno)
    BY <1>7, <1>11, <1>12
  <2> QED
    BY <1>7, <2>1 DEF JInv, Procedencia
<1>16. Usos'
  <2> SUFFICES ASSUME errores' = {}
               PROVE  \A p \in 0..turno : UsoDeclarado(p)'
    <3>1. \A p \in 0..(turno - 1) : p \in 0..turno
      BY <1>3
    <3> QED
      BY <1>7, <1>12, <3>1 DEF Usos
  <2>1. \A p \in 0..turno : UsoDeclarado(p)
    <3>1. errores = {}
      BY <1>7
    <3>2. \A p \in 0..turno : p \in 0..(turno - 1) \/ p = turno
      BY <1>3
    <3> QED
      BY <1>1, <3>1, <3>2 DEF JInv, Usos
  <2> QED
    BY <1>3, <1>8, <1>9, <2>1, UsoEstable
<1>17. Enteros(registros', errores')
  BY <1>7 DEF JInv, Enteros, Entero, Redeclarada
<1>18. Recorrido'
  BY <1>1, <1>7 DEF Recorrido
<1>19. estado' = "recorriendo" => Exterior(llamadas', lexemas', errores', turno, q)
  <2> SUFFICES ASSUME estado' = "recorriendo"
               PROVE  Exterior(llamadas', lexemas', errores', turno, q)
    OBVIOUS
  <2>1. PICK d : /\ d.copia = k.copia /\ Calculado(d.result)
                 /\ llamadas' = Append(<< >>, d)
    BY <1>7
  <2>2. llamadas' = <<d>>
    BY <2>1, PilaCorta, Zenon
  <2>3. Sincronizada(d.copia, lexemas', errores', turno, q)
    BY <1>6, <1>7, <2>1, SincronizadaSigue
  <2> QED
    BY <2>1, <2>2, <2>3 DEF Exterior
<1> QED
  BY <1>7, <1>9, <1>10, <1>13, <1>14, <1>15, <1>16, <1>17, <1>18, <1>19 DEF JInv

-----------------------------------------------------------------------------
(* The invariant *)

LEMMA ComienzoUsos == Extraida(lexemas) /\ Comienzo => JInv
<1> SUFFICES ASSUME Extraida(lexemas), Comienzo PROVE JInv
  OBVIOUS
<1>1. /\ registros = << >> /\ llamadas = << >> /\ turno = SiguienteVariable(0)
      /\ estado = "recorriendo"
  BY DEF Comienzo
<1>2. n \in Nat
  BY ComienzoBien DEF IInv, Listado, n
<1>3. /\ turno \in 0..n /\ (turno < n => TipoDe(turno) = "Variable")
      /\ \A i \in 0..(turno - 1) : TipoDe(i) # "Variable"
  BY <1>1, <1>2, SiguienteEsVariable
<1>4. Visitada /\ Usos
  BY <1>1, <1>3 DEF Visitada, Usos, UsoDeclarado
<1>5. Asignando /\ Recorrido
  BY <1>1 DEF Asignando, Recorrido
<1>6. Procedencia /\ Enteros(registros, errores)
  BY <1>1 DEF Procedencia, Enteros
<1>7. Terminadores(lexemas)
  BY DEF Extraida, Terminadores
<1>8. Exterior(llamadas, lexemas, errores, turno, IndicePuntoComa(turno))
  BY <1>1 DEF Exterior
<1> QED
  BY <1>4, <1>5, <1>6, <1>7, <1>8 DEF JInv

LEMMA InicioUsos == Init => JInv
BY ComienzoUsos, InicioExtraido

LEMMA PasoUsos == IInv /\ JInv /\ [Next]_vars => JInv'
BY TurnoSinValor, TurnoSimple, PasoEmpezar, PasoElemento, PasoProducto, PasoRegreso,
   TurnoComplejo, PasoSinCalculo, Zenon DEF Next, Terminado

LEMMA InvarianteUsos == Spec => [](IInv /\ JInv)
BY Inicio, Paso, InicioUsos, PasoUsos, PTL DEF Spec

-----------------------------------------------------------------------------
(* An int holds a decimal only after something has been declared twice,    *)
(* whatever the program and whatever its expressions compute.              *)
THEOREM EnteroNoGuardaDecimales == Spec => []EnteroSinPunto
<1>1. JInv => EnteroSinPunto
  BY DEF JInv, Enteros, Entero, Redeclarada, EnteroSinPunto
<1> QED
  BY <1>1, InvarianteUsos, PTL

(* A program that is analysed without errors declares every variable that  *)
(* an assignment reads or replaces, further up in its text.                *)
THEOREM TodoUsoSeDeclara == Spec => []UsosDeclarados
<1>1. IInv /\ JInv => UsosDeclarados
  <2> SUFFICES ASSUME IInv, JInv, estado = "listo", errores = {}
               PROVE  \A p \in 0..(n - 1) : UsoDeclarado(p)
    BY DEF UsosDeclarados
  <2> QED
    BY DEF JInv, Usos, Recorrido
<1> QED
  BY <1>1, InvarianteUsos, PTL

LEMMA PasoListado == IInv /\ JInv /\ [Next]_vars => Escritura /\ SinFactores
<1>1. ASSUME lexemas' = lexemas PROVE Escritura /\ SinFactores
  BY <1>1, UsosMismos DEF Escritura, SinFactores, n
<1>2. IInv /\ JInv /\ RegresarProducto => Escritura /\ SinFactores
  BY PasoRegreso
<1>3. [Next]_vars => RegresarProducto \/ lexemas' = lexemas
  <2>1. UNCHANGED vars => lexemas' = lexemas
    BY DEF vars
  <2> QED
    BY <2>1, Zenon DEF Next, Desbordar, DeclararSinAsignar, Ignorar, ReasignarNoDeclarada,
       AsignarSimple, AsignarCompleja, LeerElemento, LlamarProducto, TerminarCompleja,
       EmpezarRetornos, VerificarRetornoBloque, TerminarAnalisis, Terminado
<1> QED
  BY <1>1, <1>2, <1>3

(* What is written through a reference stays within the expression that is *)
(* being computed, and within one of its products.                         *)
THEOREM SoloSeEscribeElProducto == Spec => EscrituraLocal
<1>1. IInv /\ JInv /\ [Next]_vars => [Escritura]_vars
  BY PasoListado
<1> QED
  BY <1>1, InvarianteUsos, PTL DEF Spec, EscrituraLocal
=============================================================================
