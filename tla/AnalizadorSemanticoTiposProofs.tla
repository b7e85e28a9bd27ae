------------------- MODULE AnalizadorSemanticoTiposProofs --------------------
(***************************************************************************)
(* Type correctness of AnalizadorSemantico: what it computes is a text,    *)
(* and never null, wherever it is written.  The invariant is that of       *)
(* AnalizadorSemanticoProofs and KInv.                                     *)
(***************************************************************************)
EXTENDS AnalizadorSemanticoProofs

(* The texts that an element may bring back into the list. *)
Referidos(K) == \A j \in DOMAIN K : K[j].origen # -1 => K[j].texto \in Texto

Pendiente == {c \in Llamada : Referidos(c.copia)}

(* The codes are positions, so that there is always a largest one. *)
Densos(R) == \A i \in DOMAIN R : R[i].codigo = i

Registrada(R) == R \in Seq(RegistroValor) /\ Densos(R)

Informe == [que : QueError, en : Nat]

Estados == {"recorriendo", "verificando", "listo", "excepcion"}

KInv ==
  /\ lexemas \in Seq(LexemaValor)
  /\ Registrada(registros)
  /\ errores \subseteq Informe
  /\ llamadas \in Seq(Pendiente)
  /\ funcion \in Nat
  /\ estado \in Estados
  /\ Len(bloques) \in Nat /\ DOMAIN bloques = 1..Len(bloques)

-----------------------------------------------------------------------------
(* Powers of ten *)

Escalera(f, m) ==
  /\ f \in [0..m -> Nat \ {0}]
  /\ f[0] = 1 /\ \A k \in 1..m : f[k] = 10 * f[k - 1]

(* A set of natural numbers without a least element is empty. *)
LEMMA SinPrimero ==
  ASSUME NEW S \in SUBSET Nat, \A m \in S : \E k \in S : k < m
  PROVE  S = {}
<1> SUFFICES ASSUME S # {} PROVE FALSE
  OBVIOUS
<1> DEFINE m == Min(S)
<1>1. m \in S /\ \A y \in S : m <= y
  BY MinimoEsta, MinimoMenor
<1> HIDE DEF m
<1>2. PICK k \in S : k < m
  BY <1>1
<1>3. m \in Nat /\ k \in Nat /\ m <= k /\ k < m
  BY <1>1, <1>2
<1> QED
  BY <1>3

LEMMA HayEscalera == \A m \in Nat : \E f : Escalera(f, m)
<1> DEFINE S == {m \in Nat : ~ \E f : Escalera(f, m)}
<1>1. 0 \notin S
  <2>1. Escalera([i \in 0..0 |-> 1], 0)
    BY DEF Escalera
  <2> QED
    BY <2>1
<1>2. ASSUME NEW m \in Nat, \E f : Escalera(f, m)
      PROVE  \E f : Escalera(f, m + 1)
  <2>1. PICK f : Escalera(f, m)
    BY <1>2
  <2> DEFINE g == [i \in 0..(m + 1) |-> IF i = m + 1 THEN 10 * f[m] ELSE f[i]]
  <2>2. \A i \in 0..(m + 1) : i = m + 1 \/ i \in 0..m
    OBVIOUS
  <2>3. f[m] \in Nat \ {0} /\ 10 * f[m] \in Nat \ {0}
    BY <2>1 DEF Escalera
  <2>4. g \in [0..(m + 1) -> Nat \ {0}] /\ g[0] = 1 /\ g[m + 1] = 10 * f[m]
    BY <2>1, <2>2, <2>3 DEF Escalera
  <2>5. \A k \in 1..m : g[k] = f[k] /\ g[k - 1] = f[k - 1]
    OBVIOUS
  <2>6. g[(m + 1) - 1] = f[m]
    OBVIOUS
  <2> HIDE DEF g
  <2>7. \A k \in 1..(m + 1) : g[k] = 10 * g[k - 1]
    <3>1. \A k \in 1..(m + 1) : k = m + 1 \/ k \in 1..m
      OBVIOUS
    <3> QED
      BY <2>1, <2>4, <2>5, <2>6, <3>1 DEF Escalera
  <2> QED
    BY <2>4, <2>7 DEF Escalera
<1>3. \A m \in S : \E k \in S : k < m
  <2> TAKE m \in S
  <2>1. m \in Nat /\ m # 0
    BY <1>1
  <2>2. m - 1 \in Nat /\ (m - 1) + 1 = m
    BY <2>1
  <2>3. m - 1 \in S
    BY <1>2, <2>2
  <2> QED
    BY <2>1, <2>3
<1>4. S = {}
  <2> HIDE DEF S
  <2>1. S \in SUBSET Nat
    BY DEF S
  <2> QED
    BY <1>3, <2>1, SinPrimero
<1> QED
  BY <1>4

LEMMA UnaEscalera ==
  ASSUME NEW m \in Nat, NEW p \in Nat, m <= p, NEW f, NEW g, Escalera(f, m), Escalera(g, p)
  PROVE  \A k \in 0..m : f[k] = g[k]
<1> DEFINE S == {k \in 0..m : f[k] # g[k]}
<1>1. S \in SUBSET Nat
  OBVIOUS
<1>2. \A k \in S : \E j \in S : j < k
  <2> TAKE k \in S
  <2>1. k # 0
    BY DEF Escalera
  <2>2. k \in 1..m /\ k \in 1..p
    BY <2>1
  <2>3. f[k] = 10 * f[k - 1] /\ g[k] = 10 * g[k - 1]
    BY <2>2 DEF Escalera
  <2>4. k - 1 \in 0..m
    BY <2>2
  <2>5. f[k - 1] # g[k - 1]
    BY <2>3
  <2> QED
    BY <2>2, <2>4, <2>5
<1> HIDE DEF S
<1>3. S = {}
  BY <1>1, <1>2, SinPrimero
<1> QED
  BY <1>3 DEF S

LEMMA PotenciaEsta ==
  Potencia = [k \in Nat |-> IF k = 0 THEN 1 ELSE 10 * Potencia[k - 1]]
<1> DEFINE F(k) == CHOOSE f : Escalera(f, k)
           G == [k \in Nat |-> F(k)[k]]
<1>1. \A k \in Nat : Escalera(F(k), k)
  BY HayEscalera
<1> HIDE DEF F
<1>2. \A k \in Nat : G[k] = IF k = 0 THEN 1 ELSE 10 * G[k - 1]
  <2> TAKE k \in Nat
  <2>1. CASE k = 0
    <3>1. F(0)[0] = 1
      BY <1>1 DEF Escalera
    <3> QED
      BY <2>1, <3>1
  <2>2. CASE k # 0
    <3>1. k - 1 \in Nat /\ k - 1 <= k /\ k \in 1..k
      BY <2>2
    <3>2. F(k)[k] = 10 * F(k)[k - 1]
      BY <1>1, <3>1 DEF Escalera
    <3>3. F(k - 1)[k - 1] = F(k)[k - 1]
      <4>1. \A j \in 0..(k - 1) : F(k - 1)[j] = F(k)[j]
        BY <1>1, <3>1, UnaEscalera
      <4> QED
        BY <3>1, <4>1
    <3> QED
      BY <2>2, <3>1, <3>2, <3>3
  <2> QED
    BY <2>1, <2>2
<1> HIDE DEF G
<1>3. G = [k \in Nat |-> IF k = 0 THEN 1 ELSE 10 * G[k - 1]]
  <2>1. G = [k \in Nat |-> G[k]]
    BY DEF G
  <2> QED
    BY <1>2, <2>1
<1> QED
  BY <1>3, Zenon DEF Potencia

LEMMA PotenciaPositiva == \A k \in Nat : Potencia[k] \in Nat \ {0}
<1> DEFINE S == {k \in Nat : Potencia[k] \notin Nat \ {0}}
<1>1. \A k \in Nat : Potencia[k] = IF k = 0 THEN 1 ELSE 10 * Potencia[k - 1]
  BY PotenciaEsta
<1>2. \A k \in S : \E j \in S : j < k
  <2> TAKE k \in S
  <2>1. k # 0
    BY <1>1
  <2>2. k - 1 \in Nat /\ Potencia[k] = 10 * Potencia[k - 1]
    BY <1>1, <2>1
  <2>3. Potencia[k - 1] \notin Nat \ {0}
    <3>1. ASSUME Potencia[k - 1] \in Nat \ {0} PROVE FALSE
      BY <2>2, <3>1
    <3> QED
      BY <3>1
  <2> QED
    BY <2>2, <2>3
<1>3. S \in SUBSET Nat
  OBVIOUS
<1> HIDE DEF S
<1>4. S = {}
  BY <1>2, <1>3, SinPrimero
<1> QED
  BY <1>4 DEF S
-----------------------------------------------------------------------------
(* Arithmetic *)

LEMMA CocienteEntero ==
  ASSUME NEW a \in Int, NEW b \in Int, b # 0
  PROVE  Cociente(a, b) \in Int
<1>1. \A p \in Int : \A q \in Int : q > 0 => p \div q \in Int
  OBVIOUS
<1>2. \A p \in Int : \A q \in Int : q # 0 =>
        (IF q > 0 THEN p \div q ELSE (-p) \div (-q)) \in Int
  <2> SUFFICES ASSUME NEW p \in Int, NEW q \in Int, q # 0
               PROVE  (IF q > 0 THEN p \div q ELSE (-p) \div (-q)) \in Int
    OBVIOUS
  <2>1. CASE q > 0
    BY <1>1, <2>1
  <2>2. CASE ~ (q > 0)
    <3>1. -p \in Int /\ -q \in Int /\ -q > 0
      BY <2>2
    <3> QED
      BY <1>1, <2>2, <3>1
  <2> QED
    BY <2>1, <2>2
<1>3. -a \in Int
  OBVIOUS
<1> DEFINE x == IF b > 0 THEN a \div b ELSE (-a) \div (-b)
           y == IF b > 0 THEN (-a) \div b ELSE (-(-a)) \div (-b)
<1>4. x \in Int /\ y \in Int
  BY <1>2, <1>3
<1>5. Cociente(a, b) = IF (a >= 0) = (b > 0) THEN x ELSE -y
  BY DEF Cociente
<1> HIDE DEF x, y
<1> QED
  BY <1>4, <1>5

LEMMA EnvolverEntero == \A m \in Int : Envolver(m) \in Int
<1> TAKE m \in Int
<1>1. 2 * (IntMax + 1) \in Int /\ 2 * (IntMax + 1) > 0 /\ IntMax \in Nat
  BY IntMaxAssumption
<1> DEFINE q == 2 * (IntMax + 1)
           a == m + IntMax + 1
<1>2. a \in Int /\ q \in Int /\ q > 0
  BY <1>1
<1>3. Envolver(m) = (a % q) - (IntMax + 1)
  BY DEF Envolver
<1> HIDE DEF a, q
<1>4. a % q \in Int
  BY <1>2
<1> QED
  BY <1>1, <1>3, <1>4

(* A numeral is a text. *)
LEMMA NumeralesTextos ==
  /\ \A m \in Int : \A e \in Nat : Numeral(m, e) \in Texto
  /\ TextoVacio \in Texto /\ TextoError \in Texto
  /\ Simbolo("+") \in Texto
<1>1. \A s \in NombreTexto : Simbolo(s) \in Texto
  BY DEF Simbolo, Texto
<1>2. \A m \in Int : \A e \in Nat : Numeral(m, e) \in Texto
  <2>1. "0" \in NombreTexto
    BY DEF NombreTexto
  <2> QED
    BY <2>1 DEF Numeral, Texto
<1>3. "" \in NombreTexto /\ "Error" \in NombreTexto /\ "+" \in NombreTexto
  BY Zenon DEF NombreTexto
<1> QED
  BY <1>1, <1>2, <1>3, Zenon DEF TextoVacio, TextoError

LEMMA ProductoNoNulo ==
  ASSUME NEW x \in Int, NEW y \in Int, x # 0, y # 0
  PROVE  x * y \in Int /\ x * y # 0
OBVIOUS

-----------------------------------------------------------------------------
(* Operations *)

(* A text, and reports of the kinds there are. *)
Legible(r) == r.texto \in Texto /\ r.que \subseteq QueError

LEMMA ResultadosLegibles ==
  /\ Legible(Revienta) /\ \A x \in Texto : Legible(Valor(x))
  /\ \A q \in QueError : Legible(Fallo(q))
<1>1. TextoError \in Texto
  BY NumeralesTextos
<1> QED
  BY <1>1 DEF Legible, Revienta, Valor, Fallo

LEMMA FallosDichos ==
  {"division entre cero", "division decimal", "tipos incompatibles", "no existe",
   "tipo distinto", "no compatible", "no declarada", "redeclarada", "decimal",
   "sin retorno", "retorno no valido"} \subseteq QueError
BY DEF QueError

LEMMA EnterosLegibles ==
  ASSUME NEW a \in Int, NEW b \in Int, NEW o
  PROVE  Legible(OperarEnteros(a, b, o))
<1>1. \A m \in Int : Legible(Valor(Numeral(m, 0)))
  <2>1. 0 \in Nat
    OBVIOUS
  <2> QED
    BY <2>1, NumeralesTextos, ResultadosLegibles, Zenon
<1>2. Legible(Valor(TextoVacio)) /\ Legible(Revienta)
  BY NumeralesTextos, ResultadosLegibles
<1>3. Legible(Fallo("division entre cero")) /\ Legible(Fallo("division decimal"))
  BY ResultadosLegibles, FallosDichos
<1> DEFINE suma == Valor(Numeral(Envolver(a + b), 0))
           resta == Valor(Numeral(Envolver(a - b), 0))
           producto == Valor(Numeral(Envolver(a * b), 0))
           q == Cociente(a, b)
           division == IF b = 0 THEN Fallo("division entre cero")
                       ELSE IF ~ EnRango(q) THEN Revienta
                       ELSE IF q % 1 = 0 THEN Valor(Numeral(q, 0))
                       ELSE Fallo("division decimal")
<1>4. Legible(suma) /\ Legible(resta) /\ Legible(producto)
  <2>1. a + b \in Int /\ a - b \in Int /\ a * b \in Int
    OBVIOUS
  <2> QED
    BY <1>1, <2>1, EnvolverEntero
<1>5. Legible(division)
  <2>1. b # 0 => q \in Int
    BY CocienteEntero
  <2> HIDE DEF q
  <2> QED
    BY <1>1, <1>2, <1>3, <2>1
<1>6. OperarEnteros(a, b, o) =
        CASE o = "+" -> suma [] o = "-" -> resta [] o = "*" -> producto
          [] o = "/" -> division [] OTHER -> Valor(TextoVacio)
  BY DEF OperarEnteros
<1> HIDE DEF suma, resta, producto, division
<1> QED
  BY <1>2, <1>4, <1>5, <1>6

(* The mantissa of a text that is printed with more digits. *)
LEMMA AlineadaEntera ==
  ASSUME NEW t \in Texto, NEW e \in Nat, t.e <= e
  PROVE  Alineada(t, e) \in Int
<1>1. t.m \in Int /\ t.e \in Nat
  BY DEF Texto
<1>2. e - t.e \in Nat
  BY <1>1
<1>3. Potencia[e - t.e] \in Int
  BY <1>2, PotenciaPositiva
<1> DEFINE x == t.m
           y == Potencia[e - t.e]
<1>4. Alineada(t, e) = x * y
  BY DEF Alineada
<1>5. x \in Int /\ y \in Int
  BY <1>1, <1>3
<1> HIDE DEF x, y
<1> QED
  BY <1>4, <1>5

LEMMA SumasTextos ==
  ASSUME NEW a \in Texto, NEW b \in Texto
  PROVE  /\ SumaDecimal(a, b) \in Texto /\ RestaDecimal(a, b) \in Texto
         /\ ProductoDecimal(a, b) \in Texto
<1> DEFINE e == Mayor(a.e, b.e)
           x == Alineada(a, e)
           y == Alineada(b, e)
<1>1. a.m \in Int /\ b.m \in Int /\ a.e \in Nat /\ b.e \in Nat
  BY DEF Texto
<1>2. e \in Nat /\ a.e <= e /\ b.e <= e
  BY <1>1 DEF Mayor
<1> HIDE DEF e
<1>3. x \in Int /\ y \in Int
  BY <1>2, AlineadaEntera
<1>4. SumaDecimal(a, b) = Numeral(x + y, e) /\ RestaDecimal(a, b) = Numeral(x - y, e)
  BY DEF SumaDecimal, RestaDecimal, e
<1> HIDE DEF x, y
<1>5. x + y \in Int /\ x - y \in Int
  BY <1>3
<1>6. SumaDecimal(a, b) \in Texto /\ RestaDecimal(a, b) \in Texto
  BY <1>2, <1>4, <1>5, NumeralesTextos
<1>7. a.m * b.m \in Int /\ a.e + b.e \in Nat
  BY <1>1
<1> QED
  BY <1>6, <1>7, NumeralesTextos DEF ProductoDecimal

LEMMA CocienteTexto ==
  ASSUME NEW a \in Texto, NEW b \in Texto, b.m # 0
  PROVE  CocienteDecimal(a, b) \in Texto
<1> DEFINE menor == Mayor(0, a.e - b.e)
           arriba(s) == a.m * Potencia[b.e + s]
           abajo == b.m * Potencia[a.e]
           exactas == {s \in menor..EscalaMax :
                         Cociente(arriba(s), abajo) * abajo = arriba(s)}
           d == IF exactas = {} THEN Mayor(menor, EscalaMax) ELSE Min(exactas)
<1>1. a.m \in Int /\ b.m \in Int /\ a.e \in Nat /\ b.e \in Nat
  BY DEF Texto
<1>2. menor \in Nat
  BY <1>1 DEF Mayor
<1> HIDE DEF menor
<1>3. exactas \in SUBSET Nat
  <2>1. menor..EscalaMax \in SUBSET Nat
    BY <1>2
  <2> HIDE DEF abajo, arriba
  <2> QED
    BY <2>1
<1>4. d \in Nat
  <2>1. exactas # {} => Min(exactas) \in Nat
    BY <1>3, MinimoEsta
  <2>2. Mayor(menor, EscalaMax) \in Nat
    BY <1>2, EscalaMaxAssumption DEF Mayor
  <2> HIDE DEF exactas
  <2> QED
    BY <2>1, <2>2
<1>5. CocienteDecimal(a, b) = Numeral(Cociente(arriba(d), abajo), d)
  BY Zenon DEF CocienteDecimal, menor
<1> HIDE DEF d, exactas
<1>6. arriba(d) \in Int
  <2>1. Potencia[b.e + d] \in Int
    BY <1>1, <1>4, PotenciaPositiva
  <2> DEFINE x == a.m
             y == Potencia[b.e + d]
  <2>2. x \in Int /\ y \in Int /\ arriba(d) = x * y
    BY <1>1, <2>1
  <2> HIDE DEF x, y, arriba
  <2> QED
    BY <2>2
<1>7. abajo \in Int /\ abajo # 0
  <2> DEFINE x == b.m
             y == Potencia[a.e]
  <2>1. x \in Int /\ x # 0 /\ y \in Int /\ y # 0 /\ abajo = x * y
    BY <1>1, PotenciaPositiva
  <2> HIDE DEF x, y, abajo
  <2> QED
    BY <2>1, ProductoNoNulo
<1> HIDE DEF arriba, abajo
<1>8. Cociente(arriba(d), abajo) \in Int
  BY <1>6, <1>7, CocienteEntero
<1> QED
  BY <1>4, <1>5, <1>8, NumeralesTextos

LEMMA DecimalesLegibles ==
  ASSUME NEW a \in Texto, NEW b \in Texto, NEW o
  PROVE  Legible(OperarDecimales(a, b, o))
<1>1. /\ Legible(Valor(TextoVacio)) /\ Legible(Valor(SumaDecimal(a, b)))
      /\ Legible(Valor(RestaDecimal(a, b))) /\ Legible(Valor(ProductoDecimal(a, b)))
  BY NumeralesTextos, SumasTextos, ResultadosLegibles
<1>2. Legible(Fallo("division entre cero"))
  BY ResultadosLegibles, FallosDichos
<1>3. b.m # 0 => Legible(Valor(CocienteDecimal(a, b)))
  BY CocienteTexto, ResultadosLegibles
<1> QED
  BY <1>1, <1>2, <1>3 DEF OperarDecimales

(* The result of an operation on two elements is a text: what is null      *)
(* raises first.                                                           *)
LEMMA OperacionLegible ==
  ASSUME NEW izq \in Elemento, NEW der \in Elemento, NEW op, NEW t
  PROVE  Legible(RealizarOperacion(izq, der, op, t))
<1> DEFINE F(x) == IF t \in Decimales THEN t ELSE TipoElementoToTipoVar(x.tipo, x.texto)
           si == IF \A u \in {izq.texto, der.texto} : EsEntero(u)
                   THEN OperarEnteros(izq.texto.m, der.texto.m, op.texto.c)
                   ELSE Revienta
           sd == IF \A u \in {izq.texto, der.texto} : u # Nulo /\ EsNumeral(u)
                   THEN OperarDecimales(izq.texto, der.texto, op.texto.c)
                   ELSE Revienta
           nulo == \E x \in {izq, der} : x.tipo = "Numero" /\ x.texto = Nulo
<1>1. RealizarOperacion(izq, der, op, t) =
        IF nulo THEN Revienta
        ELSE IF F(izq) # F(der) THEN Fallo("tipos incompatibles")
        ELSE IF F(izq) = "Int" THEN si
        ELSE IF F(izq) \in Decimales THEN sd
        ELSE Valor(TextoVacio)
  BY Zenon DEF RealizarOperacion
<1>2. izq.texto \in Texto \cup {Nulo} /\ der.texto \in Texto \cup {Nulo}
  BY DEF Elemento
<1>3. Legible(Revienta) /\ Legible(Valor(TextoVacio))
      /\ Legible(Fallo("tipos incompatibles"))
  BY NumeralesTextos, ResultadosLegibles, FallosDichos
<1>4. Legible(sd)
  BY <1>2, <1>3, DecimalesLegibles
<1>5. \A x : F(x) = "Int" => x.tipo = "Numero"
  BY DEF Decimales, TipoElementoToTipoVar
<1>6. ~ nulo /\ F(izq) = F(der) /\ F(izq) = "Int" => Legible(si)
  <2> SUFFICES ASSUME ~ nulo, F(izq) = "Int", F(der) = "Int" PROVE Legible(si)
    BY Zenon
  <2>1. izq.texto # Nulo /\ der.texto # Nulo
    BY <1>5
  <2>2. izq.texto \in Texto /\ der.texto \in Texto
    BY <1>2, <2>1
  <2>3. izq.texto.m \in Int /\ der.texto.m \in Int
    BY <2>2 DEF Texto
  <2> QED
    BY <1>3, <2>3, EnterosLegibles
<1> HIDE DEF F, si, sd, nulo
<1> QED
  BY <1>1, <1>3, <1>4, <1>6

-----------------------------------------------------------------------------
(* The symbol table *)

LEMMA ActualizarTipos ==
  ASSUME NEW R, Registrada(R), NEW nombre, NEW t \in Texto \cup {Nulo}
  PROVE  Registrada(ActualizarValor(R, nombre, t))
<1> DEFINE p == PosicionDe(R, nombre)
           S == ActualizarValor(R, nombre, t)
           x == [R[p] EXCEPT !.valor = t]
           X == RegistroValor
<1>1. S = [R EXCEPT ![p] = x]
  BY DEF ActualizarValor
<1>2. p \in DOMAIN R => x \in X /\ x.codigo = R[p].codigo
  <2> SUFFICES ASSUME p \in DOMAIN R PROVE x \in X /\ x.codigo = R[p].codigo
    OBVIOUS
  <2>1. R[p] \in X
    <3> HIDE DEF X, p
    <3> QED
      BY DEF Registrada, X
  <2> DEFINE y == R[p]
  <2>2. y \in X /\ x = [y EXCEPT !.valor = t]
    BY <2>1
  <2> HIDE DEF y, x
  <2>3. x \in X /\ x.codigo = y.codigo
    BY <2>2 DEF RegistroValor
  <2> QED
    BY <2>3 DEF y
<1>3. R \in Seq(X) /\ \A i \in DOMAIN R : R[i].codigo = i
  BY DEF Registrada, Densos
<1> HIDE DEF x, p, S, X
<1>4. CASE p \in DOMAIN R
  <2>1. S \in Seq(X) /\ DOMAIN S = DOMAIN R
        /\ \A i \in DOMAIN R : S[i] = IF i = p THEN x ELSE R[i]
    BY <1>1, <1>2, <1>3, <1>4
  <2>2. \A i \in DOMAIN S : S[i].codigo = i
    BY <1>2, <1>3, <1>4, <2>1
  <2> QED
    BY <2>1, <2>2 DEF Registrada, Densos, S, X
<1>5. CASE p \notin DOMAIN R
  <2>1. S = R
    BY <1>1, <1>3, <1>5
  <2> QED
    BY <2>1 DEF S
<1> QED
  BY <1>4, <1>5

LEMMA CodigoSiguiente ==
  ASSUME NEW R, Registrada(R)
  PROVE  SiguienteCorrelativo(R) = Len(R) + 1
<1> DEFINE l == Len(R)
           C == Codigos(R)
<1>1. l \in Nat /\ DOMAIN R = 1..l /\ (R = << >> <=> l = 0)
  <2> DEFINE X == RegistroValor
  <2>1. R \in Seq(X)
    BY DEF Registrada
  <2> HIDE DEF X
  <2> QED
    BY <2>1
<1> HIDE DEF l
<1>2. C = 1..l
  <2>1. \A i \in 1..l : R[i].codigo = i
    BY <1>1 DEF Registrada, Densos
  <2> QED
    BY <1>1, <2>1 DEF Codigos
<1> HIDE DEF C
<1>3. CASE R = << >>
  BY <1>1, <1>3 DEF SiguienteCorrelativo, l
<1>4. CASE R # << >>
  <2>1. l \in C /\ \A y \in C : y <= l /\ y \in Nat
    BY <1>1, <1>2, <1>4
  <2>2. Max(C) = l
    <3>1. \A x \in C : (\A y \in C : x >= y) => x = l
      BY <1>1, <2>1
    <3>2. \A y \in C : l >= y
      BY <2>1
    <3> QED
      BY <2>1, <3>1, <3>2 DEF Max
  <2>3. SiguienteCorrelativo(R) = Max(C) + 1
    BY <1>4 DEF SiguienteCorrelativo, C
  <2> QED
    BY <2>2, <2>3 DEF l
<1> QED
  BY <1>3, <1>4

LEMMA InsertarTipos ==
  ASSUME NEW R, Registrada(R), NEW nombre \in Texto, NEW tipo \in TipoVariable,
         NEW t \in Texto \cup {Nulo}
  PROVE  Registrada(Insertar(R, nombre, tipo, t))
<1>1. CASE VariableEstaDeclarada(R, nombre)
  BY <1>1, ActualizarTipos DEF Insertar
<1>2. CASE ~ VariableEstaDeclarada(R, nombre)
  <2> DEFINE x == [codigo |-> SiguienteCorrelativo(R), nombre |-> nombre,
                   tipo |-> tipo, valor |-> t]
             S == Append(R, x)
             X == RegistroValor
             l == Len(R)
  <2>1. Insertar(R, nombre, tipo, t) = S
    BY <1>2 DEF Insertar
  <2>2. R \in Seq(X) /\ \A i \in DOMAIN R : R[i].codigo = i
    BY DEF Registrada, Densos
  <2>3. l \in Nat /\ DOMAIN R = 1..l
    <3> HIDE DEF X
    <3> QED
      BY <2>2
  <2>4. x \in X /\ x.codigo = l + 1
    BY <2>3, CodigoSiguiente DEF RegistroValor
  <2> HIDE DEF x, X
  <2>5. S \in Seq(X) /\ DOMAIN S = 1..(l + 1) /\ S[l + 1] = x
        /\ \A i \in 1..l : S[i] = R[i]
    BY <2>2, <2>3, <2>4
  <2> HIDE DEF S, l
  <2>6. \A i \in 1..(l + 1) : i \in 1..l \/ i = l + 1
    BY <2>3
  <2>7. \A i \in DOMAIN S : S[i].codigo = i
    BY <2>2, <2>3, <2>4, <2>5, <2>6
  <2> QED
    BY <2>1, <2>5, <2>7 DEF Registrada, Densos, X
<1> QED
  BY <1>1, <1>2

(* The record of a declared variable. *)
LEMMA RegistroEsta ==
  ASSUME Registrada(registros), NEW nombre, Declarada(nombre)
  PROVE  /\ RegistroDe(nombre).tipo \in TipoVariable
         /\ RegistroDe(nombre).valor \in Texto \cup {Nulo}
<1> DEFINE S == {i \in DOMAIN registros : registros[i].nombre = nombre}
           X == RegistroValor
<1>1. registros \in Seq(X)
  BY DEF Registrada
<1> HIDE DEF X
<1>2. S \in SUBSET Nat /\ \A i \in S : registros[i] \in X
  BY <1>1
<1>3. S # {}
  BY DEF Declarada, VariableEstaDeclarada, Nombres
<1>4. Min(S) \in S
  BY <1>2, <1>3, MinimoEsta
<1>5. RegistroDe(nombre) = registros[Min(S)]
  BY DEF RegistroDe, PosicionDe
<1> HIDE DEF S
<1>6. RegistroDe(nombre) \in X
  BY <1>2, <1>4, <1>5
<1> QED
  BY <1>6 DEF X, RegistroValor

LEMMA ReportarInforme ==
  ASSUME turno \in Nat, NEW que \in SUBSET QueError
  PROVE  Reportar(que) \subseteq Informe
BY DEF Reportar, Informe

-----------------------------------------------------------------------------
(* A call of AsignacionCompleja *)

(* The list of a call: elements that may be brought back are texts. *)
Traida(K) == K \in Seq(Elemento) /\ Referidos(K)

LEMMA PendienteDe ==
  ASSUME NEW c
  PROVE  c \in Pendiente <=>
           /\ c \in [copia : Seq(Elemento), leidos : Nat,
                     izq : Elemento \cup {Ninguno}, der : Elemento \cup {Ninguno},
                     op : Elemento \cup {Ninguno}, result : Texto]
           /\ Referidos(c.copia)
BY DEF Pendiente, Llamada

LEMMA LeerTipos ==
  ASSUME NEW c \in Pendiente, c.leidos < Len(c.copia)
  PROVE  Leer(c) \in Pendiente
<1> DEFINE K == c.copia
           E == Elemento
           P == Elemento \cup {Ninguno}
           x == K[c.leidos + 1]
           l == c.leidos + 1
           i == IF EsOperando(x) /\ c.izq = Ninguno THEN x ELSE c.izq
           d == IF EsOperando(x) /\ c.izq # Ninguno THEN x ELSE c.der
           o == IF x.tipo = "OperadorAritmetico" THEN x ELSE c.op
           x1 == [c EXCEPT !.leidos = l]
           x2 == [x1 EXCEPT !.izq = i]
           x3 == [x2 EXCEPT !.der = d]
           x4 == [x3 EXCEPT !.op = o]
           U == [copia : Seq(E), leidos : Nat, izq : P, der : P, op : P, result : Texto]
<1>1. Leer(c) = x4
  BY DEF Leer
<1>2. c \in U /\ Referidos(K)
  BY PendienteDe
<1>3. K \in Seq(E) /\ c.leidos \in Nat /\ c.izq \in P /\ c.der \in P /\ c.op \in P
  <2> HIDE DEF E, P
  <2> QED
    BY <1>2
<1>4. x \in E /\ l \in Nat
  <2> HIDE DEF E
  <2> QED
    BY <1>3
<1>5. x \in P
  BY <1>4
<1>6. i \in P /\ d \in P /\ o \in P
  <2> HIDE DEF P, x
  <2> QED
    BY <1>3, <1>5
<1> HIDE DEF x, l, i, d, o, E, P
<1>7. x1 \in U /\ x1.copia = K
  BY <1>2, <1>4
<1> HIDE DEF x1
<1>8. x2 \in U /\ x2.copia = K
  BY <1>6, <1>7
<1> HIDE DEF x2
<1>9. x3 \in U /\ x3.copia = K
  BY <1>6, <1>8
<1> HIDE DEF x3
<1>10. x4 \in U /\ x4.copia = K
  BY <1>6, <1>9
<1> HIDE DEF x4, K
<1>11. x4 \in Pendiente
  BY <1>2, <1>10, PendienteDe DEF E, P
<1> QED
  BY <1>1, <1>11

LEMMA ReducirTipos ==
  ASSUME NEW c \in Pendiente, NEW r, r.texto \in Texto
  PROVE  Reducir(c, r) \in Pendiente
<1> DEFINE E == Elemento
           P == Elemento \cup {Ninguno}
           i == [origen |-> -1, tipo |-> "Numero", texto |-> r.texto]
           t == r.texto
           x1 == [c EXCEPT !.result = t]
           x2 == [x1 EXCEPT !.der = Ninguno]
           x3 == [x2 EXCEPT !.op = Ninguno]
           x4 == [x3 EXCEPT !.izq = i]
           U == [copia : Seq(E), leidos : Nat, izq : P, der : P, op : P, result : Texto]
<1>1. Reducir(c, r) = x4
  BY DEF Reducir
<1>2. c \in U /\ Referidos(c.copia)
  BY PendienteDe
<1>3. i \in P
  BY DEF Elemento, TipoElemento
<1>4. Ninguno \in P /\ t \in Texto
  OBVIOUS
<1> HIDE DEF i, t, E, P
<1>5. x1 \in U /\ x1.copia = c.copia
  BY <1>2, <1>4
<1> HIDE DEF x1
<1>6. x2 \in U /\ x2.copia = c.copia
  BY <1>4, <1>5
<1> HIDE DEF x2
<1>7. x3 \in U /\ x3.copia = c.copia
  BY <1>4, <1>6
<1> HIDE DEF x3
<1>8. x4 \in U /\ x4.copia = c.copia
  BY <1>3, <1>7
<1> HIDE DEF x4
<1>9. x4 \in Pendiente
  BY <1>2, <1>8, PendienteDe DEF E, P
<1> QED
  BY <1>1, <1>9

LEMMA VariableElemento ==
  ASSUME Registrada(registros), NEW x, Declarada(x.texto)
  PROVE  VariableValor(x) \in Elemento /\ VariableValor(x).origen = -1
<1> DEFINE t == TipoVarToTipoElemento(RegistroDe(x.texto).tipo)
           v == RegistroDe(x.texto).valor
<1>1. v \in Texto \cup {Nulo}
  BY RegistroEsta
<1>2. t \in TipoElemento
  BY DEF TipoVarToTipoElemento, TipoElemento
<1>3. VariableValor(x) = [origen |-> -1, tipo |-> t, texto |-> v]
  BY DEF VariableValor
<1> HIDE DEF t, v
<1> QED
  BY <1>1, <1>2, <1>3 DEF Elemento

LEMMA NuevaTipos ==
  ASSUME Registrada(registros), NEW K, Traida(K)
  PROVE  NuevaLlamada(K) \in Pendiente
<1> DEFINE V == Convertir(K)
           E == Elemento
           l == IF \E j \in DOMAIN K : K[j].tipo = "Parentesis" THEN Len(K) ELSE 0
           t == IF SinDeclarar(K) = {} THEN TextoVacio ELSE TextoError
<1>1. K \in Seq(E) /\ Referidos(K)
  BY DEF Traida
<1>2. Len(K) \in Nat /\ DOMAIN K = 1..Len(K) /\ \A j \in DOMAIN K : K[j] \in E
  <2> HIDE DEF E
  <2> QED
    BY <1>1
<1>3. V = [j \in DOMAIN K |->
             IF K[j].tipo = "Variable" /\ (\A k \in SinDeclarar(K) : j < k)
               THEN VariableValor(K[j]) ELSE K[j]]
  BY DEF Convertir
<1>4. ASSUME NEW j \in DOMAIN K
      PROVE  V[j] \in E /\ (V[j].origen # -1 => V[j].texto \in Texto)
  <2>1. CASE K[j].tipo = "Variable" /\ (\A k \in SinDeclarar(K) : j < k)
    <3>1. j \notin SinDeclarar(K)
      BY <1>2, <2>1
    <3>2. Declarada(K[j].texto)
      BY <2>1, <3>1 DEF SinDeclarar
    <3>3. V[j] = VariableValor(K[j])
      BY <1>3, <2>1
    <3> QED
      BY <3>2, <3>3, VariableElemento
  <2>2. CASE ~ (K[j].tipo = "Variable" /\ (\A k \in SinDeclarar(K) : j < k))
    <3>1. V[j] = K[j]
      BY <1>3, <2>2
    <3> QED
      BY <1>1, <1>2, <3>1 DEF Referidos
  <2> QED
    BY <2>1, <2>2
<1>5. DOMAIN V = DOMAIN K
  BY <1>3
<1>6. V \in Seq(E)
  <2> DEFINE f == [j \in 1..Len(K) |-> V[j]]
  <2>1. V = f
    BY <1>2, <1>3
  <2>2. \A j \in 1..Len(K) : V[j] \in E
    BY <1>2, <1>4
  <2> HIDE DEF E, V
  <2>3. f \in Seq(E)
    BY <1>2, <2>2
  <2> QED
    BY <2>1, <2>3
<1>7. Referidos(V)
  BY <1>4, <1>5 DEF Referidos
<1>8. l \in Nat /\ t \in Texto
  BY <1>2, NumeralesTextos
<1>9. NuevaLlamada(K) = [copia |-> V, leidos |-> l, izq |-> Ninguno,
                         der |-> Ninguno, op |-> Ninguno, result |-> t]
  BY DEF NuevaLlamada
<1> HIDE DEF V, l, t
<1>10. NuevaLlamada(K).copia = V
  BY <1>9
<1>11. NuevaLlamada(K) \in [copia : Seq(E), leidos : Nat, izq : E \cup {Ninguno},
                           der : E \cup {Ninguno}, op : E \cup {Ninguno}, result : Texto]
  <2> HIDE DEF E
  <2> QED
    BY <1>6, <1>8, <1>9
<1> QED
  BY <1>7, <1>10, <1>11, PendienteDe

LEMMA ProductoTraido ==
  ASSUME NEW c \in Pendiente, c.leidos + 4 <= Len(c.copia)
  PROVE  Traida(Producto(c))
<1> DEFINE K == c.copia
           l == c.leidos
           P == Producto(c)
           E == Elemento
<1>1. K \in Seq(E) /\ l \in Nat /\ l + 4 <= Len(K) /\ Referidos(K)
  BY PendienteDe
<1>2. P = SubSeq(K, l + 2, l + 4)
  BY DEF Producto
<1> HIDE DEF K, l, P, E
<1>3. P \in Seq(E) /\ Len(P) = 3 /\ \A j \in 1..3 : P[j] = K[l + 1 + j]
  BY <1>1, <1>2
<1>4. DOMAIN P = 1..3 /\ \A j \in 1..3 : l + 1 + j \in DOMAIN K
  BY <1>1, <1>3
<1>5. Referidos(P)
  BY <1>1, <1>3, <1>4 DEF Referidos
<1> QED
  BY <1>3, <1>5 DEF Traida, P, E

(* The texts written for the product, where they reach the list. *)
LEMMA TextosTraidos ==
  ASSUME NEW c \in Pendiente, NEW t \in Texto
  PROVE  \A j \in DOMAIN c.copia :
           /\ TextosReducidos(c, t)[j] \in Texto \cup {Nulo}
           /\ c.copia[j].origen # -1 => TextosReducidos(c, t)[j] \in Texto
<1> DEFINE K == c.copia
           f == TextosReducidos(c, t)
           E == Elemento
<1>1. K \in Seq(E) /\ Referidos(K)
  BY PendienteDe
<1>2. \A j \in DOMAIN K : K[j] \in E
  <2> HIDE DEF E, K
  <2> QED
    BY <1>1
<1>3. \A j \in DOMAIN K : K[j].texto \in Texto \cup {Nulo}
  BY <1>2 DEF Elemento
<1>4. \A j \in DOMAIN K : f[j] \in {t, Simbolo("+"), Numeral(0, 0), K[j].texto}
  BY DEF TextosReducidos
<1>5. Simbolo("+") \in Texto /\ Numeral(0, 0) \in Texto
  BY NumeralesTextos
<1>6. \A j \in DOMAIN K :
        f[j] \in Texto \cup {Nulo} /\ (K[j].origen # -1 => f[j] \in Texto)
  <2> HIDE DEF f, K
  <2> QED
    BY <1>1, <1>3, <1>4, <1>5 DEF Referidos
<1> QED
  BY <1>6, Zenon

LEMMA ConTextosTipos ==
  ASSUME NEW c \in Pendiente, NEW f,
         \A j \in DOMAIN c.copia :
           /\ f[j] \in Texto \cup {Nulo}
           /\ c.copia[j].origen # -1 => f[j] \in Texto
  PROVE  ConTextos(c, f) \in Pendiente
<1> DEFINE K == c.copia
           E == Elemento
           P == Elemento \cup {Ninguno}
           V == [j \in DOMAIN K |-> [K[j] EXCEPT !.texto = f[j]]]
           y == [c EXCEPT !.copia = V]
           U == [copia : Seq(E), leidos : Nat, izq : P, der : P, op : P, result : Texto]
<1>1. ConTextos(c, f) = y
  BY DEF ConTextos
<1>2. c \in U /\ Referidos(K)
  BY PendienteDe
<1>3. K \in Seq(E)
  <2> HIDE DEF E, P
  <2> QED
    BY <1>2
<1>4. Len(K) \in Nat /\ DOMAIN K = 1..Len(K) /\ \A j \in DOMAIN K : K[j] \in E
  <2> HIDE DEF E, K
  <2> QED
    BY <1>3
<1>5. ASSUME NEW j \in DOMAIN K
      PROVE  V[j] \in E /\ (V[j].origen # -1 => V[j].texto \in Texto)
  <2> DEFINE x == K[j]
             u == f[j]
  <2>1. x \in E /\ u \in Texto \cup {Nulo} /\ (x.origen # -1 => u \in Texto)
    BY <1>4
  <2>2. V[j] = [x EXCEPT !.texto = u]
    OBVIOUS
  <2> HIDE DEF x, u, V
  <2>3. V[j] = [origen |-> x.origen, tipo |-> x.tipo, texto |-> u]
    BY <2>1, <2>2 DEF Elemento
  <2>4. x.origen \in Int /\ x.tipo \in TipoElemento
    BY <2>1 DEF Elemento
  <2> QED
    BY <2>1, <2>3, <2>4 DEF Elemento
<1>6. V \in Seq(E) /\ DOMAIN V = DOMAIN K
  <2> DEFINE g == [j \in 1..Len(K) |-> V[j]]
  <2>1. V = g /\ DOMAIN V = DOMAIN K
    BY <1>4
  <2>2. \A j \in 1..Len(K) : V[j] \in E
    BY <1>4, <1>5
  <2> HIDE DEF E, V
  <2>3. g \in Seq(E)
    BY <1>4, <2>2
  <2> QED
    BY <2>1, <2>3
<1>7. Referidos(V)
  BY <1>5, <1>6 DEF Referidos
<1> HIDE DEF V, E, P, K
<1>8. y \in U /\ y.copia = V
  BY <1>2, <1>6
<1> HIDE DEF y
<1>9. y \in Pendiente
  BY <1>7, <1>8, PendienteDe DEF E, P
<1> QED
  BY <1>1, <1>9

LEMMA ListaConTextosTipos ==
  ASSUME NEW c \in Pendiente, lexemas \in Seq(LexemaValor), NEW f,
         \A j \in DOMAIN c.copia : c.copia[j].origen # -1 => f[j] \in Texto
  PROVE  ListaConTextos(c, f) \in Seq(LexemaValor)
<1> DEFINE M == ListaConTextos(c, f)
           X == LexemaValor
           De(i) == {j \in DOMAIN c.copia : c.copia[j].origen = i - 1}
<1>1. M = [i \in DOMAIN lexemas |->
             IF De(i) = {} THEN lexemas[i]
             ELSE [lexemas[i] EXCEPT !.texto = f[Min(De(i))]]]
  BY DEF ListaConTextos
<1>2. n \in Nat /\ DOMAIN lexemas = 1..n /\ \A i \in 1..n : lexemas[i] \in X
  <2>1. lexemas \in Seq(X)
    OBVIOUS
  <2> HIDE DEF X
  <2> QED
    BY <2>1 DEF n
<1>3. ASSUME NEW i \in 1..n PROVE M[i] \in X
  <2>1. CASE De(i) = {}
    BY <1>1, <1>2, <2>1
  <2>2. CASE De(i) # {}
    <3> DEFINE j == Min(De(i))
               x == lexemas[i]
               u == f[j]
    <3>1. De(i) \in SUBSET Nat
      <4> DEFINE E == Elemento
      <4>1. c.copia \in Seq(E)
        BY PendienteDe
      <4> HIDE DEF E
      <4>2. DOMAIN c.copia \subseteq Nat
        BY <4>1
      <4> QED
        BY <4>2
    <3>2. j \in De(i)
      <4> HIDE DEF De
      <4> QED
        BY <2>2, <3>1, MinimoEsta
    <3>3. j \in DOMAIN c.copia /\ c.copia[j].origen # -1
      <4>1. j \in DOMAIN c.copia /\ c.copia[j].origen = i - 1
        BY <3>2
      <4> HIDE DEF j
      <4> QED
        BY <4>1
    <3>4. u \in Texto /\ x \in X
      <4> HIDE DEF j
      <4> QED
        BY <1>2, <3>3
    <3>5. M[i] = [x EXCEPT !.texto = u]
      <4> HIDE DEF De, X
      <4> QED
        BY <1>1, <1>2, <2>2
    <3> HIDE DEF M, x, u
    <3>6. M[i] = [tipo |-> x.tipo, texto |-> u] /\ x.tipo \in TipoElemento
      BY <3>4, <3>5 DEF LexemaValor
    <3> QED
      BY <3>4, <3>6 DEF LexemaValor
  <2> QED
    BY <2>1, <2>2
<1> DEFINE g == [i \in 1..n |-> M[i]]
<1>4. M = g
  BY <1>1, <1>2
<1> HIDE DEF M, X
<1>5. g \in Seq(X)
  BY <1>2, <1>3
<1> QED
  BY <1>4, <1>5 DEF M, X

(* The elements of an expression are lexemes of the list. *)
LEMMA ExpresionTraida ==
  ASSUME lexemas \in Seq(LexemaValor), NEW k \in Nat
  PROVE  Traida(Expresion(k))
<1> DEFINE S == {i \in k..(n - 1) : TextoDe(i) = PuntoComa}
           m == Mayor(0, IndicePuntoComa(k) - k)
           K == Expresion(k)
           X == LexemaValor
           V(j) == [origen |-> k + j - 1, tipo |-> TipoDe(k + j - 1),
                    texto |-> TextoDe(k + j - 1)]
<1>1. n \in Nat /\ DOMAIN lexemas = 1..n /\ \A i \in 1..n : lexemas[i] \in X
  <2>1. lexemas \in Seq(X)
    OBVIOUS
  <2> HIDE DEF X
  <2> QED
    BY <2>1 DEF n
<1>2. m \in Nat /\ (m > 0 => k + m <= n - 1)
  <2> DEFINE p == IndicePuntoComa(k)
  <2>1. p = IF S = {} THEN -1 ELSE Min(S)
    BY DEF IndicePuntoComa
  <2> HIDE DEF p
  <2>2. S \in SUBSET Nat /\ \A i \in S : i <= n - 1
    <3> HIDE DEF m, K, V
    <3>1. \A i \in S : i \in k..(n - 1)
      OBVIOUS
    <3> HIDE DEF S
    <3> QED
      BY <1>1, <3>1
  <2>3. S # {} => Min(S) \in S
    BY <2>2, MinimoEsta
  <2> HIDE DEF S
  <2>4. p = -1 \/ (p \in Nat /\ p <= n - 1)
    BY <2>1, <2>2, <2>3
  <2>5. m = IF 0 >= p - k THEN 0 ELSE p - k
    BY DEF Mayor, p
  <2> HIDE DEF m
  <2> QED
    BY <1>1, <2>4, <2>5
<1>3. K = [j \in 1..m |-> V(j)]
  BY DEF Expresion
<1> HIDE DEF m, S
<1>4. ASSUME NEW j \in 1..m
      PROVE  V(j) \in Elemento /\ V(j).texto \in Texto
  <2>1. k + j \in 1..n /\ (k + j - 1) + 1 = k + j /\ k + j - 1 \in Int
    BY <1>1, <1>2
  <2>2. TipoDe(k + j - 1) = lexemas[k + j].tipo /\ TextoDe(k + j - 1) = lexemas[k + j].texto
    BY <2>1 DEF TipoDe, TextoDe
  <2>3. lexemas[k + j] \in LexemaValor
    BY <1>1, <2>1
  <2>4. TipoDe(k + j - 1) \in TipoElemento /\ TextoDe(k + j - 1) \in Texto
    BY <2>2, <2>3 DEF LexemaValor
  <2> QED
    BY <2>1, <2>4 DEF Elemento
<1> DEFINE E == Elemento
<1>5. \A j \in 1..m : V(j) \in E
  BY <1>4
<1>6. K \in Seq(E)
  <2> HIDE DEF E, V, K
  <2> QED
    BY <1>2, <1>3, <1>5
<1>7. \A j \in DOMAIN K : K[j].texto \in Texto
  <2> HIDE DEF V, K
  <2> QED
    BY <1>3, <1>4
<1> QED
  BY <1>6, <1>7 DEF Traida, Referidos

(* The type that the identifier visited declares. *)
LEMMA DestinoDeclarado ==
  ASSUME NEW p, EsDeclaracion(p)
  PROVE  TipoDestino(p) \in TipoVariable
BY DEF TipoDestino, TextoToTipo, TipoVariable

LEMMA LexemaEn ==
  ASSUME lexemas \in Seq(LexemaValor), NEW i \in Nat, i < n
  PROVE  TipoDe(i) \in TipoElemento /\ TextoDe(i) \in Texto
<1> DEFINE X == LexemaValor
<1>1. lexemas \in Seq(X)
  OBVIOUS
<1> HIDE DEF X
<1>2. n \in Nat /\ i + 1 \in 1..n /\ DOMAIN lexemas = 1..n
  BY <1>1 DEF n
<1>3. lexemas[i + 1] \in X
  BY <1>1, <1>2
<1> QED
  BY <1>3 DEF X, LexemaValor, TipoDe, TextoDe

LEMMA GuardarTipos ==
  ASSUME Registrada(registros), lexemas \in Seq(LexemaValor), turno \in Nat, turno < n,
         NEW t \in Texto \cup {Nulo}, Guardar(t)
  PROVE  Registrada(registros')
<1>1. TextoDe(turno) \in Texto
  BY LexemaEn
<1>2. CASE EsDeclaracion(turno)
  BY <1>1, <1>2, DestinoDeclarado, InsertarTipos DEF Guardar
<1>3. CASE ~ EsDeclaracion(turno)
  BY <1>3, ActualizarTipos DEF Guardar
<1> QED
  BY <1>2, <1>3

-----------------------------------------------------------------------------
(* The stack *)

LEMMA CimaYResto ==
  ASSUME NEW X, NEW P \in Seq(X), P # << >>
  PROVE  Front(P) \in Seq(X) /\ Last(P) \in X /\ Len(Front(P)) = Len(P) - 1
<1>1. Len(P) \in Nat /\ Len(P) # 0 /\ Len(P) \in DOMAIN P
  OBVIOUS
<1>2. Last(P) \in X
  BY <1>1 DEF Last
<1> DEFINE m == Len(P) - 1
<1>3. Front(P) = SubSeq(P, 1, m)
  BY DEF Front
<1>4. m \in Nat /\ m <= Len(P)
  BY <1>1
<1> HIDE DEF m
<1>5. \A i \in 1..m : P[i] \in X
  BY <1>4
<1>6. SubSeq(P, 1, m) \in Seq(X) /\ Len(SubSeq(P, 1, m)) = m
  BY <1>4, <1>5
<1> QED
  BY <1>2, <1>3, <1>6 DEF m

LEMMA Apilar ==
  ASSUME NEW X, NEW P \in Seq(X), NEW c \in X, NEW d \in X
  PROVE  /\ Append(P, c) \in Seq(X) /\ P \o <<c, d>> \in Seq(X) /\ <<c>> \in Seq(X)
         /\ << >> \in Seq(X)
OBVIOUS

LEMMA ContinuarTipos ==
  ASSUME turno \in Nat, errores \subseteq Informe, estado \in Estados,
         llamadas \in Seq(Pendiente), NEW debajo \in Seq(Pendiente),
         NEW c \in Pendiente, Continuar(debajo, c)
  PROVE  /\ llamadas' \in Seq(Pendiente) /\ errores' \subseteq Informe
         /\ estado' \in Estados
<1> DEFINE r == RealizarOperacion(c.izq, c.der, c.op, TipoDestino(turno))
           X == Pendiente
<1>1. c.izq \in Elemento \cup {Ninguno} /\ c.der \in Elemento \cup {Ninguno}
  BY PendienteDe
<1>2. CASE ~ Completa(c)
  <2>1. llamadas' = Append(debajo, c) /\ errores' = errores /\ estado' = estado
    BY <1>2 DEF Continuar
  <2> QED
    BY <2>1, Apilar
<1>3. CASE Completa(c) /\ r.caso = "excepcion"
  <2>1. llamadas' = llamadas /\ errores' = errores /\ estado' = "excepcion"
    BY <1>3 DEF Continuar
  <2> QED
    BY <2>1 DEF Estados
<1>4. CASE Completa(c) /\ r.caso # "excepcion"
  <2>1. /\ llamadas' = Append(debajo, Reducir(c, r))
        /\ errores' = errores \cup Reportar(r.que) /\ estado' = estado
    BY <1>4 DEF Continuar
  <2>2. c.izq \in Elemento /\ c.der \in Elemento
    BY <1>1, <1>4 DEF Completa
  <2>3. Legible(r)
    BY <2>2, OperacionLegible
  <2> HIDE DEF r
  <2>4. Reducir(c, r) \in Pendiente /\ Reportar(r.que) \subseteq Informe
    BY <2>3, ReducirTipos, ReportarInforme DEF Legible
  <2> QED
    BY <2>1, <2>4, Apilar
<1> QED
  BY <1>2, <1>3, <1>4

-----------------------------------------------------------------------------
(* The steps *)

LEMMA QueSeDice ==
  /\ QueRedeclarar \subseteq QueError
  /\ \A K : QueConvertir(K) \subseteq QueError
BY DEF QueRedeclarar, QueConvertir, QueError

(* What both invariants say of the identifier visited. *)
LEMMA Turno ==
  ASSUME IInv
  PROVE  turno \in Nat /\ n \in Nat /\ (llamadas # << >> => turno < n)
BY DEF IInv, Listado, n

(* What an action that leaves the blocks and the functions has to keep. *)
LEMMA Basta ==
  ASSUME KInv, lexemas' \in Seq(LexemaValor), Registrada(registros'),
         errores' \subseteq Informe, llamadas' \in Seq(Pendiente), estado' \in Estados,
         bloques' = bloques, funcion' = funcion
  PROVE  KInv'
BY DEF KInv, Registrada, Densos, Informe, Pendiente, Referidos, Estados

LEMMA TiposLeer ==
  ASSUME IInv, KInv, LeerElemento
  PROVE  KInv'
<1> DEFINE X == Pendiente
<1>1. /\ llamadas # << >> /\ llamada.leidos < Len(llamada.copia)
      /\ Continuar(Front(llamadas), Leer(llamada)) /\ lexemas' = lexemas
  BY DEF LeerElemento, Leyendo
<1>2. llamadas \in Seq(X)
  BY DEF KInv
<1> HIDE DEF X
<1>3. Front(llamadas) \in Seq(X) /\ llamada \in X
  BY <1>1, <1>2, CimaYResto DEF llamada
<1>4. Leer(llamada) \in Pendiente
  BY <1>1, <1>3, LeerTipos DEF X
<1>5. /\ turno \in Nat /\ errores \subseteq Informe /\ estado \in Estados
      /\ lexemas \in Seq(LexemaValor) /\ Registrada(registros)
  BY Turno DEF KInv
<1>6. /\ llamadas' \in Seq(Pendiente) /\ errores' \subseteq Informe
      /\ estado' \in Estados
  BY <1>1, <1>2, <1>3, <1>4, <1>5, ContinuarTipos DEF X
<1>7. registros' = registros /\ bloques' = bloques /\ funcion' = funcion
  BY <1>1 DEF Continuar
<1> QED
  BY <1>1, <1>5, <1>6, <1>7, Basta

LEMMA TiposLlamar ==
  ASSUME IInv, KInv, LlamarProducto
  PROVE  KInv'
<1> DEFINE X == Pendiente
           K == Producto(llamada)
           c == Leer(llamada)
           d == NuevaLlamada(K)
           p == Front(llamadas)
<1>1. /\ llamadas # << >> /\ llamada.leidos < Len(llamada.copia)
      /\ lexemas' = lexemas /\ bloques' = bloques /\ registros' = registros
      /\ turno' = turno /\ funcion' = funcion
  BY DEF LlamarProducto, Leyendo
<1>2. llamadas \in Seq(X)
  BY DEF KInv
<1>3. p \in Seq(X) /\ llamada \in X
  <2> HIDE DEF X
  <2> QED
    BY <1>1, <1>2, CimaYResto DEF llamada
<1>4. /\ turno \in Nat /\ errores \subseteq Informe /\ estado \in Estados
      /\ lexemas \in Seq(LexemaValor) /\ Registrada(registros)
  BY Turno DEF KInv
<1>5. /\ llamadas' \in Seq(Pendiente) /\ errores' \subseteq Informe
      /\ estado' \in Estados
  <2>1. CASE llamada.leidos + 4 > Len(llamada.copia)
    <3>1. estado' = "excepcion" /\ errores' = errores /\ llamadas' = llamadas
      BY <2>1 DEF LlamarProducto
    <3> QED
      BY <1>2, <1>4, <3>1 DEF Estados
  <2>2. CASE ~ (llamada.leidos + 4 > Len(llamada.copia))
    <3>1. /\ llamadas' = p \o <<c, d>> /\ estado' = estado
          /\ errores' = errores \cup Reportar(QueConvertir(K))
      BY <2>2 DEF LlamarProducto
    <3>2. llamada.leidos + 4 <= Len(llamada.copia)
      <4> DEFINE l == llamada.leidos
                 m == Len(llamada.copia)
                 E == Elemento
      <4>1. l \in Nat /\ llamada.copia \in Seq(E)
        BY <1>3, PendienteDe
      <4> HIDE DEF E
      <4>2. m \in Nat /\ ~ (l + 4 > m)
        BY <2>2, <4>1
      <4> HIDE DEF l, m
      <4>3. l + 4 <= m
        BY <4>1, <4>2
      <4> QED
        BY <4>3 DEF l, m
    <3>3. Traida(K)
      BY <1>3, <3>2, ProductoTraido
    <3>4. c \in X
      BY <1>1, <1>3, LeerTipos
    <3>5. d \in X
      <4> HIDE DEF K
      <4> QED
        BY <1>4, <3>3, NuevaTipos
    <3>6. Reportar(QueConvertir(K)) \subseteq Informe
      BY <1>4, QueSeDice, ReportarInforme
    <3> HIDE DEF c, d, K, p, X
    <3>7. llamadas' \in Seq(X) /\ errores' \subseteq Informe
      BY <1>3, <1>4, <3>1, <3>4, <3>5, <3>6, Apilar
    <3> QED
      BY <1>4, <3>1, <3>7 DEF X
  <2> QED
    BY <2>1, <2>2
<1> QED
  BY <1>1, <1>4, <1>5, Basta

LEMMA TiposRegresar ==
  ASSUME IInv, KInv, RegresarProducto
  PROVE  KInv'
<1> DEFINE X == Pendiente
           abajo == Front(llamadas)
           c == Last(abajo)
           t == llamada.result
           textos == TextosReducidos(c, t)
           k == ConTextos(c, textos)
<1>1. /\ llamadas # << >> /\ Len(llamadas) > 1
      /\ lexemas' = ListaConTextos(c, textos) /\ Continuar(Front(abajo), k)
  BY DEF RegresarProducto, Leida
<1>2. llamadas \in Seq(X)
  BY DEF KInv
<1>3. llamada \in X /\ abajo \in Seq(X) /\ abajo # << >>
  <2> HIDE DEF X, abajo
  <2>1. llamada \in X /\ abajo \in Seq(X) /\ Len(abajo) = Len(llamadas) - 1
    BY <1>1, <1>2, CimaYResto DEF llamada, abajo
  <2>2. Len(llamadas) \in Nat
    BY <1>2
  <2> QED
    BY <1>1, <2>1, <2>2
<1>4. c \in X /\ Front(abajo) \in Seq(X)
  <2> HIDE DEF X, abajo
  <2> QED
    BY <1>3, CimaYResto
<1>5. t \in Texto
  BY <1>3, PendienteDe
<1> HIDE DEF c, t
<1>6. \A j \in DOMAIN c.copia :
        /\ textos[j] \in Texto \cup {Nulo}
        /\ c.copia[j].origen # -1 => textos[j] \in Texto
  BY <1>4, <1>5, TextosTraidos
<1> HIDE DEF textos
<1>7. /\ turno \in Nat /\ errores \subseteq Informe /\ estado \in Estados
      /\ lexemas \in Seq(LexemaValor) /\ Registrada(registros)
  BY Turno DEF KInv
<1>8. lexemas' \in Seq(LexemaValor)
  BY <1>1, <1>4, <1>6, <1>7, ListaConTextosTipos
<1>9. k \in X
  BY <1>4, <1>6, ConTextosTipos
<1> HIDE DEF k, abajo
<1>10. /\ llamadas' \in Seq(Pendiente) /\ errores' \subseteq Informe
       /\ estado' \in Estados
  BY <1>1, <1>2, <1>4, <1>7, <1>9, ContinuarTipos
<1>11. registros' = registros /\ bloques' = bloques /\ funcion' = funcion
  BY <1>1 DEF Continuar
<1> QED
  BY <1>7, <1>8, <1>10, <1>11, Basta

LEMMA TiposTerminar ==
  ASSUME IInv, KInv, TerminarCompleja
  PROVE  KInv'
<1> DEFINE decimal == TipoDestino(turno) = "Int" /\ ConPunto(llamada.result)
           que == IF decimal THEN {"decimal"} ELSE {}
           t == IF decimal THEN TextoError ELSE llamada.result
           X == Pendiente
<1>1. /\ llamadas # << >> /\ Guardar(t) /\ errores' = errores \cup Reportar(que)
      /\ llamadas' = << >> /\ Avanzar /\ lexemas' = lexemas
  BY DEF TerminarCompleja, Leida
<1>2. llamadas \in Seq(X)
  BY DEF KInv
<1>3. llamada \in X
  <2> HIDE DEF X
  <2> QED
    BY <1>1, <1>2, CimaYResto DEF llamada
<1>4. t \in Texto \cup {Nulo}
  <2>1. llamada.result \in Texto
    BY <1>3, PendienteDe
  <2> QED
    BY <2>1, NumeralesTextos
<1>5. que \in SUBSET QueError
  BY FallosDichos
<1> HIDE DEF t, que
<1>6. /\ turno \in Nat /\ turno < n /\ errores \subseteq Informe /\ estado \in Estados
      /\ lexemas \in Seq(LexemaValor) /\ Registrada(registros)
  BY <1>1, Turno DEF KInv
<1>7. Registrada(registros')
  BY <1>1, <1>4, <1>6, GuardarTipos
<1>8. errores' \subseteq Informe
  BY <1>1, <1>5, <1>6, ReportarInforme
<1>9. bloques' = bloques /\ funcion' = funcion /\ estado' = estado
  BY <1>1 DEF Avanzar
<1>10. llamadas' \in Seq(Pendiente)
  BY <1>1
<1> QED
  BY <1>1, <1>6, <1>7, <1>8, <1>9, <1>10, Basta

LEMMA TiposAsignar ==
  ASSUME IInv, KInv, AsignarSimple \/ AsignarCompleja
  PROVE  KInv'
<1>1. /\ turno \in Nat /\ n \in Nat /\ turno < n /\ turno + 3 < n
      /\ lexemas' = lexemas
  <2>1. /\ turno < n /\ ~ Desborda /\ Asigna(turno) /\ lexemas' = lexemas
        /\ EsDeclaracion(turno) \/ Declarada(TextoDe(turno))
    BY DEF AsignarSimple, AsignarCompleja, Recibe, EnTurno
  <2>2. turno \in Nat /\ n \in Nat
    BY Turno
  <2>3. ~ (turno + 3 >= n)
    BY <2>1 DEF Desborda
  <2> QED
    BY <2>1, <2>2, <2>3
<1>2. /\ errores \subseteq Informe /\ estado \in Estados
      /\ lexemas \in Seq(LexemaValor) /\ Registrada(registros)
      /\ llamadas \in Seq(Pendiente)
  BY DEF KInv
<1>3. CASE AsignarSimple
  <2> DEFINE r == AsignacionSimple(turno + 2, TipoDestino(turno))
             que == QueRedeclarar \cup r.que
             t == r.texto
  <2>1. /\ Guardar(t) /\ errores' = errores \cup Reportar(que) /\ Avanzar
        /\ llamadas' = llamadas
    BY <1>3 DEF AsignarSimple
  <2>2. turno + 2 \in Nat /\ turno + 2 < n
    BY <1>1
  <2>3. TextoDe(turno + 2) \in Texto
    BY <1>2, <2>2, LexemaEn
  <2>4. t \in Texto \cup {Nulo} /\ que \in SUBSET QueError
    <3>1. \A x : Valor(x).texto = x /\ Valor(x).que = {}
      BY DEF Valor
    <3>2. \A q \in QueError : Fallo(q).texto \in Texto /\ Fallo(q).que \subseteq QueError
      BY NumeralesTextos DEF Fallo
    <3>3. Declarada(TextoDe(turno + 2)) =>
            RegistroDe(TextoDe(turno + 2)).valor \in Texto \cup {Nulo}
      BY <1>2, RegistroEsta
    <3>4. "no existe" \in QueError /\ "tipo distinto" \in QueError
            /\ "no compatible" \in QueError
      BY FallosDichos
    <3>5. r.texto \in Texto \cup {Nulo} /\ r.que \subseteq QueError
      BY <2>3, <3>1, <3>2, <3>3, <3>4 DEF AsignacionSimple
    <3> QED
      BY <3>5, QueSeDice
  <2> HIDE DEF r, t, que
  <2>5. Registrada(registros')
    BY <1>1, <1>2, <2>1, <2>4, GuardarTipos
  <2>6. errores' \subseteq Informe
    BY <1>1, <1>2, <2>1, <2>4, ReportarInforme
  <2>7. bloques' = bloques /\ funcion' = funcion /\ estado' = estado
    BY <2>1 DEF Avanzar
  <2> QED
    BY <1>1, <1>2, <2>1, <2>5, <2>6, <2>7, Basta
<1>4. CASE AsignarCompleja
  <2> DEFINE K == Expresion(turno + 2)
             c == NuevaLlamada(K)
             que == QueRedeclarar \cup QueConvertir(K)
  <2>1. /\ llamadas' = <<c>> /\ errores' = errores \cup Reportar(que)
        /\ registros' = registros /\ bloques' = bloques /\ funcion' = funcion
        /\ estado' = estado
    BY <1>4 DEF AsignarCompleja
  <2>2. turno + 2 \in Nat
    BY <1>1
  <2>3. Traida(K)
    BY <1>2, <2>2, ExpresionTraida
  <2> HIDE DEF K
  <2>4. que \in SUBSET QueError
    BY QueSeDice
  <2>5. c \in Pendiente
    BY <1>2, <2>3, NuevaTipos
  <2> HIDE DEF c, que
  <2>6. llamadas' \in Seq(Pendiente)
    <3> DEFINE X == Pendiente
    <3>1. c \in X
      BY <2>5
    <3> HIDE DEF X
    <3>2. llamadas' \in Seq(X)
      BY <2>1, <3>1
    <3> QED
      BY <3>2 DEF X
  <2>7. errores' \subseteq Informe
    BY <1>1, <1>2, <2>1, <2>4, ReportarInforme
  <2> QED
    BY <1>1, <1>2, <2>1, <2>6, <2>7, Basta
<1> QED
  BY <1>3, <1>4

LEMMA TiposSinValor ==
  ASSUME IInv, KInv, DeclararSinAsignar \/ Ignorar \/ ReasignarNoDeclarada
  PROVE  KInv'
<1>1. /\ turno \in Nat /\ turno < n /\ Avanzar /\ lexemas' = lexemas
      /\ llamadas' = llamadas
  BY Turno DEF DeclararSinAsignar, Ignorar, ReasignarNoDeclarada, EnTurno
<1>2. /\ errores \subseteq Informe /\ estado \in Estados
      /\ lexemas \in Seq(LexemaValor) /\ Registrada(registros)
      /\ llamadas \in Seq(Pendiente)
  BY DEF KInv
<1>3. errores' \subseteq Informe
  <2>1. \/ errores' = errores
        \/ errores' = errores \cup Reportar(QueRedeclarar)
        \/ errores' = errores \cup Reportar({"no declarada"})
    BY DEF DeclararSinAsignar, Ignorar, ReasignarNoDeclarada
  <2>2. {"no declarada"} \in SUBSET QueError /\ QueRedeclarar \in SUBSET QueError
    BY FallosDichos, QueSeDice
  <2> QED
    BY <1>1, <1>2, <2>1, <2>2, ReportarInforme
<1>4. Registrada(registros')
  <2>1. \/ registros' = registros
        \/ /\ EsDeclaracion(turno)
           /\ registros' = Insertar(registros, TextoDe(turno), TipoDestino(turno), Nulo)
    BY DEF DeclararSinAsignar, Ignorar, ReasignarNoDeclarada
  <2>2. TextoDe(turno) \in Texto
    BY <1>1, <1>2, LexemaEn
  <2> QED
    BY <1>2, <2>1, <2>2, DestinoDeclarado, InsertarTipos
<1>5. bloques' = bloques /\ funcion' = funcion /\ estado' = estado
  BY <1>1 DEF Avanzar
<1> QED
  BY <1>1, <1>2, <1>3, <1>4, <1>5, Basta

(* The function that comes next, or the number after the last. *)
LEMMA SiguienteFuncionHay ==
  ASSUME Len(bloques) \in Nat, DOMAIN bloques = 1..Len(bloques),
         NEW k \in Nat, k <= Len(bloques) + 1
  PROVE  SiguienteFuncion(k) \in Nat
<1> DEFINE m == Len(bloques)
           S == {b \in k..(m + 1) : b \in DOMAIN bloques =>
                   bloques[b].tipo = "Funcion" /\ bloques[b].padre = 0}
<1>1. SiguienteFuncion(k) = Min(S)
  BY DEF SiguienteFuncion
<1>2. m + 1 \in k..(m + 1) /\ m + 1 \notin DOMAIN bloques
  <2>1. m \in Nat /\ DOMAIN bloques = 1..m /\ k <= m + 1
    OBVIOUS
  <2> HIDE DEF m, S
  <2> QED
    BY <2>1
<1>3. m + 1 \in S
  BY <1>2
<1>4. S \in SUBSET Nat
  <2>1. k..(m + 1) \subseteq Nat
    OBVIOUS
  <2> HIDE DEF m
  <2> QED
    BY <2>1
<1> HIDE DEF S
<1>5. Min(S) \in S
  BY <1>3, <1>4, MinimoEsta
<1> QED
  BY <1>1, <1>4, <1>5

LEMMA TiposResto ==
  ASSUME IInv, KInv,
         \/ Desbordar \/ EmpezarRetornos \/ VerificarRetornoBloque
         \/ TerminarAnalisis \/ UNCHANGED vars
  PROVE  KInv'
<1>1. /\ lexemas' = lexemas /\ bloques' = bloques /\ registros' = registros
      /\ turno' = turno /\ llamadas' = llamadas
  BY DEF Desbordar, EmpezarRetornos, VerificarRetornoBloque, TerminarAnalisis, vars
<1>2. /\ errores \subseteq Informe /\ estado \in Estados /\ funcion \in Nat
      /\ lexemas \in Seq(LexemaValor) /\ Registrada(registros)
      /\ llamadas \in Seq(Pendiente)
      /\ Len(bloques) \in Nat /\ DOMAIN bloques = 1..Len(bloques)
  BY DEF KInv
<1>3. errores' \subseteq Informe
  <2>1. n \in Nat
    BY Turno
  <2>2. [que |-> "sin retorno", en |-> n] \in Informe
        /\ [que |-> "retorno no valido", en |-> n] \in Informe
    BY <2>1, FallosDichos DEF Informe
  <2>3. CASE Desbordar
    <3>1. errores' = errores \cup Reportar(QueRedeclarar)
      BY <2>3 DEF Desbordar
    <3>2. QueRedeclarar \in SUBSET QueError
      BY QueSeDice
    <3> QED
      BY <1>2, <3>1, <3>2, Turno, ReportarInforme
  <2>4. CASE EmpezarRetornos \/ VerificarRetornoBloque \/ TerminarAnalisis \/ UNCHANGED vars
    <3>1. errores' \subseteq errores \cup {[que |-> "sin retorno", en |-> n],
                                          [que |-> "retorno no valido", en |-> n]}
      BY <2>4 DEF EmpezarRetornos, VerificarRetornoBloque, TerminarAnalisis, vars
    <3> HIDE DEF Informe
    <3> QED
      BY <1>2, <2>2, <3>1
  <2> QED
    BY <2>3, <2>4
<1>4. estado' \in Estados
  BY <1>2 DEF Estados, Desbordar, EmpezarRetornos, VerificarRetornoBloque,
              TerminarAnalisis, vars
<1>5. funcion' \in Nat
  <2> DEFINE m == Len(bloques)
  <2>1. \/ funcion' = funcion
        \/ funcion' = SiguienteFuncion(1)
        \/ funcion <= m /\ funcion' = SiguienteFuncion(funcion + 1)
    BY DEF Desbordar, EmpezarRetornos, VerificarRetornoBloque, TerminarAnalisis, vars
  <2>2. m \in Nat /\ DOMAIN bloques = 1..m
    BY <1>2
  <2>3. 1 \in Nat /\ 1 <= m + 1
    BY <2>2
  <2>4. SiguienteFuncion(1) \in Nat
    BY <2>2, <2>3, SiguienteFuncionHay
  <2>5. funcion <= m => SiguienteFuncion(funcion + 1) \in Nat
    <3> SUFFICES ASSUME funcion <= m PROVE SiguienteFuncion(funcion + 1) \in Nat
      OBVIOUS
    <3>1. funcion + 1 \in Nat /\ funcion + 1 <= m + 1
      <4> HIDE DEF m
      <4> QED
        BY <1>2, <2>2
    <3> QED
      BY <2>2, <3>1, SiguienteFuncionHay
  <2> QED
    BY <1>2, <2>1, <2>4, <2>5
<1> QED
  BY <1>1, <1>2, <1>3, <1>4, <1>5
  DEF KInv, Registrada, Densos, Informe, Pendiente, Referidos, Estados

LEMMA TiposPaso == IInv /\ KInv /\ [Next]_vars => KInv'
BY TiposLeer, TiposLlamar, TiposRegresar, TiposTerminar, TiposAsignar, TiposSinValor,
   TiposResto, Zenon DEF Next, Terminado

LEMMA TiposInicio == Init => KInv
<1> SUFFICES ASSUME Init PROVE KInv
  OBVIOUS
<1>1. PICK e \in Entradas : lexemas = e.lexemas /\ bloques = e.bloques
  BY DEF Init
<1>2. lexemas \in Seq(LexemaValor)
        /\ Len(bloques) \in Nat /\ DOMAIN bloques = 1..Len(bloques)
  BY <1>1, EntradasAssumption DEF Extraida
<1>3. /\ registros = << >> /\ errores = {} /\ llamadas = << >> /\ funcion = 0
      /\ estado = "recorriendo"
  BY DEF Init, Comienzo
<1>4. Registrada(registros) /\ llamadas \in Seq(Pendiente)
  BY <1>3 DEF Registrada, Densos
<1> QED
  BY <1>2, <1>3, <1>4 DEF KInv, Estados

-----------------------------------------------------------------------------
(* Every text that the analysis computes, brings back into the list or     *)
(* keeps is a text and not null, but that of a variable without a value;   *)
(* the positions stay within the list, whatever the program analysed.      *)
THEOREM TiposDelSemantico == Spec => []TypeOK
<1>1. IInv /\ KInv => TypeOK
  <2> SUFFICES ASSUME IInv, KInv PROVE TypeOK
    OBVIOUS
  <2>1. llamadas \in Seq(Llamada)
    <3> DEFINE X == Pendiente
               Y == Llamada
    <3>1. llamadas \in Seq(X) /\ \A c \in X : c \in Y
      BY DEF KInv, Pendiente
    <3> HIDE DEF X, Y
    <3>2. llamadas \in Seq(Y)
      BY <3>1
    <3> QED
      BY <3>2 DEF Y
  <2> QED
    BY <2>1 DEF IInv, KInv, TypeOK, Registrada, Informe, Estados
<1> QED
  BY <1>1, Inicio, Paso, TiposInicio, TiposPaso, PTL DEF Spec
=============================================================================
