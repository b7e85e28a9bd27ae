----------------------- MODULE GeneradorCodigoProofs -----------------------
(***************************************************************************)
(* Proofs about GeneradorCodigo, for every list of lexemes, every list of  *)
(* blocks (the parse of a text or not) and every depth of structures.      *)
(***************************************************************************)
EXTENDS GeneradorCodigo, FiniteSetTheorems, WellFoundedInduction, TLAPS

(* A list whose codes are its positions. *)
Lista(R) == \E X : R \in Seq(X)
Densos(R) == \A i \in DOMAIN R : R[i].codigo = i

(* What a part of the walk returns. *)
Bien(g) ==
  /\ g = [caso |-> g.caso, triplos |-> g.triplos, expresiones |-> g.expresiones]
  /\ Lista(g.triplos) /\ Densos(g.triplos)
  /\ Lista(g.expresiones) /\ Densos(g.expresiones)

(* h comes from g, and unless it raises it has added n lines. *)
Anade(g, h, n) ==
  /\ Bien(h)
  /\ h.caso # "excepcion" => Len(h.expresiones) = Len(g.expresiones) + n

-----------------------------------------------------------------------------
(* SiguienteCodigo, the maximum plus one, is the length plus one. *)
LEMMA SiguienteEsLargo ==
  ASSUME NEW R, Lista(R), Densos(R)
  PROVE  Siguiente(R) = Len(R) + 1
<1>1. Len(R) \in Nat /\ DOMAIN R = 1..Len(R) /\ (R = << >> <=> Len(R) = 0)
  BY DEF Lista
<1>2. CASE R = << >>
  BY <1>1, <1>2 DEF Siguiente
<1>3. CASE R # << >>
  <2>1. {R[i].codigo : i \in DOMAIN R} = 1..Len(R)
    BY <1>1 DEF Densos
  <2>2. Max(1..Len(R)) = Len(R)
    BY <1>1, <1>3 DEF Max
  <2> QED
    BY <1>3, <2>1, <2>2 DEF Siguiente
<1> QED
  BY <1>2, <1>3

(* A record with the next code at the end of a dense list. *)
LEMMA AgregarDenso ==
  ASSUME NEW R, Lista(R), Densos(R), NEW e, e.codigo = Siguiente(R)
  PROVE  /\ Lista(Append(R, e)) /\ Densos(Append(R, e))
         /\ Len(Append(R, e)) = Len(R) + 1
<1>1. PICK X : R \in Seq(X)
  BY DEF Lista
<1> DEFINE Y == X \cup {e}
<1>2. R \in Seq(Y) /\ e \in Y
  BY <1>1
<1>3. /\ Append(R, e) \in Seq(Y) /\ Len(Append(R, e)) = Len(R) + 1
      /\ Append(R, e)[Len(R) + 1] = e
      /\ \A i \in 1..Len(R) : Append(R, e)[i] = R[i]
      /\ Len(R) \in Nat /\ DOMAIN R = 1..Len(R)
      /\ DOMAIN Append(R, e) = 1..(Len(R) + 1)
  BY <1>2
<1>4. Densos(Append(R, e))
  <2>1. e.codigo = Len(R) + 1
    BY SiguienteEsLargo
  <2> QED
    BY <1>3, <2>1 DEF Densos
<1> QED
  BY <1>3, <1>4 DEF Lista

LEMMA TripletaAnade ==
  ASSUME NEW g, Bien(g), NEW operador, NEW primero, NEW segundo
  PROVE  LET h == GenerarTripleta(g, operador, primero, segundo)
         IN  /\ Bien(h) /\ h.caso = g.caso /\ h.expresiones = g.expresiones
<1> DEFINE e == [codigo |-> Siguiente(g.triplos), operador |-> operador,
                 primero |-> primero, segundo |-> segundo]
           T == Append(g.triplos, e)
           h == GenerarTripleta(g, operador, primero, segundo)
<1>1. e.codigo = Siguiente(g.triplos)
  OBVIOUS
<1>2. Lista(T) /\ Densos(T)
  BY <1>1, AgregarDenso DEF Bien
<1>3. h = [g EXCEPT !.triplos = T]
  BY DEF GenerarTripleta
<1>4. h = [caso |-> g.caso, triplos |-> T, expresiones |-> g.expresiones]
  <2> HIDE DEF T, h
  <2> QED
    BY <1>3 DEF Bien
<1> HIDE DEF T, h
<1>5. /\ h.caso = g.caso /\ h.triplos = T /\ h.expresiones = g.expresiones
      /\ h = [caso |-> h.caso, triplos |-> h.triplos, expresiones |-> h.expresiones]
  BY <1>4
<1>6. Bien(h)
  BY <1>2, <1>5 DEF Bien
<1> QED
  BY <1>5, <1>6 DEF h

LEMMA LineaAnade ==
  ASSUME NEW g, Bien(g), NEW e, e.codigo = Siguiente(g.expresiones)
  PROVE  LET h == [g EXCEPT !.expresiones = Append(g.expresiones, e)]
         IN  Anade(g, h, 1) /\ h.caso = g.caso
<1> DEFINE E == Append(g.expresiones, e)
           h == [g EXCEPT !.expresiones = E]
<1>1. Lista(E) /\ Densos(E) /\ Len(E) = Len(g.expresiones) + 1
  BY AgregarDenso DEF Bien
<1> HIDE DEF E
<1>2. h = [caso |-> g.caso, triplos |-> g.triplos, expresiones |-> E]
  BY DEF Bien
<1> HIDE DEF h
<1>3. /\ h.caso = g.caso /\ h.triplos = g.triplos /\ h.expresiones = E
      /\ h = [caso |-> h.caso, triplos |-> h.triplos, expresiones |-> h.expresiones]
  BY <1>2
<1>4. Bien(h)
  BY <1>1, <1>3 DEF Bien
<1>5. Anade(g, h, 1)
  BY <1>1, <1>3, <1>4 DEF Anade
<1> QED
  BY <1>3, <1>5 DEF h, E

LEMMA ExpresionAnade ==
  ASSUME NEW g, Bien(g), NEW inicial, NEW operador, NEW izq, NEW der
  PROVE  LET h == GenerarExpresion(g, inicial, operador, izq, der)
         IN  Anade(g, h, 1) /\ h.caso = g.caso
<1> DEFINE e == [codigo |-> Siguiente(g.expresiones), inicial |-> inicial,
                 operador |-> operador, izq |-> izq, der |-> der,
                 salto |-> SinSalto]
           h == GenerarExpresion(g, inicial, operador, izq, der)
<1>1. e.codigo = Siguiente(g.expresiones)
  OBVIOUS
<1>2. h = [g EXCEPT !.expresiones = Append(g.expresiones, e)]
  BY DEF GenerarExpresion
<1> HIDE DEF e, h
<1> QED
  BY <1>1, <1>2, LineaAnade DEF h

LEMMA TextoAnade ==
  ASSUME NEW g, Bien(g), NEW palabra, NEW condicion, NEW destino
  PROVE  Anade(g, GenerarExpresionTexto(g, palabra, condicion, destino), 1)
<1> DEFINE e == [codigo |-> Siguiente(g.expresiones), inicial |-> 0, operador |-> Nulo,
                 izq |-> SinLado, der |-> SinLado,
                 salto |-> [palabra |-> palabra, condicion |-> condicion,
                            destino |-> destino]]
           h == GenerarExpresionTexto(g, palabra, condicion, destino)
<1>1. e.codigo = Siguiente(g.expresiones)
  OBVIOUS
<1>2. h = [g EXCEPT !.expresiones = Append(g.expresiones, e)]
  BY DEF GenerarExpresionTexto
<1> HIDE DEF e, h
<1> QED
  BY <1>1, <1>2, LineaAnade DEF h

LEMMA LanzarAnade ==
  ASSUME NEW g, Bien(g), NEW f, NEW n
  PROVE  Anade(f, Lanzar(g), n)
<1>1. Lanzar(g) = [caso |-> "excepcion", triplos |-> g.triplos,
                   expresiones |-> g.expresiones]
  BY DEF Lanzar, Bien
<1> QED
  BY <1>1 DEF Anade, Bien

LEMMA IfAnade ==
  ASSUME NEW g, Bien(g), NEW C, NEW destino
  PROVE  Anade(g, GenerarIf(g, C, destino), 1)
BY LanzarAnade, TextoAnade DEF GenerarIf

-----------------------------------------------------------------------------
(* Sentences *)

LEMMA DeclaracionAnade ==
  ASSUME NEW g, Bien(g), NEW L
  PROVE  Anade(g, ProcesarDeclaracion(g, L), 1)
<1> DEFINE h == GenerarTripleta(g, Nulo, L[1], L[2])
<1>1. Bien(h) /\ h.expresiones = g.expresiones
  BY TripletaAnade
<1> HIDE DEF h
<1>2. Anade(h, GenerarExpresion(h, UltimaTripleta(h), Nulo, SinLado, SinLado), 1)
  BY <1>1, ExpresionAnade
<1> QED
  BY <1>1, <1>2 DEF ProcesarDeclaracion, Anade, h

LEMMA ParcialBien ==
  ASSUME NEW g, Bien(g), NEW L, NEW k
  PROVE  Bien(Parcial(g, L, k))
<1> DEFINE h == GenerarTripleta(g, L[k].texto, L[k - 1], L[k + 1])
<1>1. Bien(h)
  BY TripletaAnade
<1> HIDE DEF h
<1>2. Anade(h, GenerarExpresion(h, UltimaTripleta(h), Nulo, SinLado, SinLado), 1)
  BY <1>1, ExpresionAnade
<1> QED
  BY <1>2 DEF Parcial, Anade, h

LEMMA UnOperadorBien ==
  ASSUME NEW g, Bien(g), NEW L, NEW inicial, NEW k
  PROVE  Bien(ProcesarUnOperador(g, L, inicial, k))
<1>1. Bien(Lanzar(g))
  BY LanzarAnade DEF Anade
<1>2. Bien(GenerarExpresion(g, inicial, L[k].texto, LadoDe(g, L[k - 1]),
                            LadoDe(g, L[k + 1])))
  BY ExpresionAnade DEF Anade
<1> QED
  BY <1>1, <1>2 DEF ProcesarUnOperador

LEMMA DosOperadoresBien ==
  ASSUME NEW g, Bien(g), NEW L, NEW inicial, NEW k
  PROVE  Bien(ProcesarDosOperadores(g, L, inicial, k))
<1>1. Bien(Lanzar(g))
  BY LanzarAnade DEF Anade
<1>2. \A j, operador, izq, der :
        Bien(GenerarExpresion(Parcial(g, L, j), inicial, operador, izq, der))
  BY ParcialBien, ExpresionAnade DEF Anade
<1> QED
  BY <1>1, <1>2 DEF ProcesarDosOperadores

LEMMA OperacionBien ==
  ASSUME NEW g, Bien(g), NEW L
  PROVE  Bien(ProcesarOperacion(g, L))
<1> DEFINE h == IF L[1].tipo = "TipoDato" THEN ProcesarDeclaracion(g, L) ELSE g
           inicial == IF L[1].tipo = "TipoDato" THEN UltimaTripleta(h)
                      ELSE BuscarTripletaPorNombre(g, L[1].texto)
           k == Min(Operadores(L))
<1>1. Bien(h)
  BY DeclaracionAnade DEF Anade
<1>2. ProcesarOperacion(g, L) \in {ProcesarUnOperador(h, L, inicial, k),
                                  ProcesarDosOperadores(h, L, inicial, k), h}
  BY DEF ProcesarOperacion
<1> HIDE DEF h, inicial, k
<1> QED
  BY <1>1, <1>2, UnOperadorBien, DosOperadoresBien

LEMMA SentenciaBien ==
  ASSUME NEW g, Bien(g), NEW L
  PROVE  Bien(ProcesarSentencia(g, L))
<1>1. Bien(Lanzar(g)) /\ Bien(ProcesarDeclaracion(g, L))
  BY LanzarAnade, DeclaracionAnade DEF Anade
<1>2. Bien(ProcesarOperacion(g, L))
  BY OperacionBien
<1>3. \A signo : Bien(ProcesarIncremento(g, L, signo))
  BY ExpresionAnade DEF ProcesarIncremento, Anade
<1> QED
  BY <1>1, <1>2, <1>3 DEF ProcesarSentencia

-----------------------------------------------------------------------------
(* Structures *)

LEMMA AbrirBien ==
  ASSUME NEW g, Bien(g), NEW L
  PROVE  Bien(Abrir(g, L))
<1>1. Bien(Lanzar(g))
  BY LanzarAnade DEF Anade
<1>2. \A C, d : Bien(GenerarIf(g, C, d)) /\ Bien(GenerarExpresionTexto(g, "ELSE", C, d))
  BY IfAnade, TextoAnade DEF Anade
<1>3. Bien(ProcesarSentencia(g, PrimerBloqueFor(L)))
  BY SentenciaBien
<1> QED
  BY <1>1, <1>2, <1>3 DEF Abrir

LEMMA CerrarBien ==
  ASSUME NEW g, Bien(g), NEW L, NEW m
  PROVE  Bien(Cerrar(g, L, m))
<1> DEFINE h == ProcesarSentencia(g, BloqueFinalFor(L))
<1>1. Bien(h)
  BY SentenciaBien
<1> HIDE DEF h
<1>2. \A f, C, d : Bien(f) => /\ Bien(GenerarIf(f, C, d))
                              /\ Bien(GenerarExpresionTexto(f, "IF", C, d))
  BY IfAnade, TextoAnade DEF Anade
<1> QED
  BY <1>1, <1>2 DEF Cerrar, h

(* The first part of a regular structure leaves the label where            *)
(* iniciaBucle says that the body will start.                              *)
LEMMA AbrirLlegaAlCuerpo ==
  ASSUME NEW g, Bien(g), NEW L, EsRegular(L),
         Abrir(g, L).caso # "excepcion"
  PROVE  IniciaBucle(g, L) = Len(Abrir(g, L).expresiones) + 1
<1> DEFINE h == Abrir(g, L)
           n == Len(g.expresiones)
<1>1. n \in Nat /\ Siguiente(g.expresiones) = n + 1
  BY SiguienteEsLargo DEF Bien, Lista
<1>2. CASE L[1].texto \in {Simbolo("while"), Simbolo("if"), Simbolo("else")}
  <2>1. Anade(g, h, 1)
    BY <1>2, IfAnade, TextoAnade DEF Abrir, Simbolo
  <2>2. IniciaBucle(g, L) = n + 2
    BY <1>1, <1>2 DEF IniciaBucle, Simbolo
  <2> QED
    BY <1>1, <2>1, <2>2 DEF Anade
<1>3. CASE L[1].texto = Simbolo("do")
  <2>1. h = g
    BY <1>3 DEF Abrir, Simbolo
  <2>2. IniciaBucle(g, L) = n + 1
    BY <1>1, <1>3 DEF IniciaBucle
  <2> QED
    BY <2>1, <2>2
<1>4. CASE L[1].texto = Simbolo("for") /\ DeclaraSimple(PrimerBloqueFor(L))
  <2>1. h \in {Lanzar(g), ProcesarDeclaracion(g, PrimerBloqueFor(L))}
    <3>1. h \in {Lanzar(g), ProcesarSentencia(g, PrimerBloqueFor(L))}
      BY <1>4 DEF Abrir, Simbolo
    <3>2. ProcesarSentencia(g, PrimerBloqueFor(L))
            \in {Lanzar(g), ProcesarDeclaracion(g, PrimerBloqueFor(L))}
      BY <1>4 DEF ProcesarSentencia
    <3> QED
      BY <3>1, <3>2
  <2>2. Anade(g, h, 1)
    BY <2>1, LanzarAnade, DeclaracionAnade
  <2>3. IniciaBucle(g, L) = n + 2
    BY <1>1, <1>4 DEF IniciaBucle, Simbolo
  <2> QED
    BY <1>1, <2>2, <2>3 DEF Anade
<1> QED
  BY <1>2, <1>3, <1>4 DEF EsRegular

-----------------------------------------------------------------------------
(* The stack of pending calls *)

EsMarco(f) ==
  f = [bloque |-> f.bloque, resto |-> f.resto, primero |-> f.primero,
       destino |-> f.destino, condicion |-> f.condicion]

(* Calls that have already taken an inner block. *)
Quieta(q) ==
  Lista(q) /\ \A i \in 1..Len(q) : EsMarco(q[i]) /\ ~ q[i].primero

(* Only the innermost call may not have taken one, and when it is that of  *)
(* a regular structure its label is the next one, n + 1.                   *)
EnSuSitio(f, n) ==
  f.primero /\ EsRegular(LexemasDe(f.bloque)) => f.destino = n + 1
PilaBien(p, n) ==
  /\ Lista(p) /\ Len(p) > 0 /\ Quieta(Front(p))
  /\ EsMarco(Last(p)) /\ EnSuSitio(Last(p), n)

LEMMA AlFinal ==
  ASSUME NEW q, Lista(q), NEW f
  PROVE  /\ Lista(Append(q, f)) /\ Len(Append(q, f)) = Len(q) + 1
         /\ Len(q) \in Nat
         /\ Append(q, f)[Len(q) + 1] = f
         /\ \A i \in 1..Len(q) : Append(q, f)[i] = q[i]
         /\ Front(Append(q, f)) = q /\ Last(Append(q, f)) = f
<1>1. PICK X : q \in Seq(X)
  BY DEF Lista
<1> DEFINE Y == X \cup {f}
           p == Append(q, f)
<1>2. q \in Seq(Y) /\ f \in Y
  BY <1>1
<1>3. /\ p \in Seq(Y) /\ Len(p) = Len(q) + 1 /\ Len(q) \in Nat
      /\ p[Len(q) + 1] = f
      /\ \A i \in 1..Len(q) : p[i] = q[i]
  BY <1>2
<1> HIDE DEF p
<1>4. Front(p) = q
  <2>1. Front(p) = SubSeq(p, 1, Len(q))
    BY <1>3 DEF Front
  <2>2. /\ SubSeq(p, 1, Len(q)) \in Seq(Y) /\ Len(SubSeq(p, 1, Len(q))) = Len(q)
        /\ \A i \in 1..Len(q) : SubSeq(p, 1, Len(q))[i] = p[i]
    BY <1>3
  <2> QED
    BY <1>2, <1>3, <2>1, <2>2
<1> QED
  BY <1>3, <1>4 DEF Last, Lista, p

LEMMA ApilarQuieta ==
  ASSUME NEW q, Quieta(q), NEW f, EsMarco(f), ~ f.primero
  PROVE  Quieta(Append(q, f))
<1>1. \A i \in 1..(Len(q) + 1) : i \in 1..Len(q) \/ i = Len(q) + 1
  BY AlFinal DEF Quieta
<1> QED
  BY <1>1, AlFinal DEF Quieta

LEMMA ApilarBien ==
  ASSUME NEW q, Quieta(q), NEW f, EsMarco(f), NEW n, EnSuSitio(f, n)
  PROVE  PilaBien(Append(q, f), n)
BY AlFinal DEF Quieta, PilaBien

LEMMA QuietaEsBien ==
  ASSUME NEW q, Quieta(q), Len(q) > 0, NEW n
  PROVE  PilaBien(q, n)
<1>1. PICK X : q \in Seq(X)
  BY DEF Quieta, Lista
<1>2. /\ Front(q) \in Seq(X) /\ Len(Front(q)) = Len(q) - 1 /\ Len(q) \in Nat
      /\ \A i \in 1..(Len(q) - 1) : Front(q)[i] = q[i]
  <2> DEFINE k == Len(q) - 1
  <2>1. Len(q) \in Nat /\ k \in Nat /\ \A i \in 1..k : i \in 1..Len(q)
    BY <1>1
  <2>2. /\ SubSeq(q, 1, k) \in Seq(X) /\ Len(SubSeq(q, 1, k)) = k
        /\ \A i \in 1..k : SubSeq(q, 1, k)[i] = q[i]
    <3> HIDE DEF k
    <3>1. \A i \in 1..k : q[i] \in X
      BY <1>1, <2>1
    <3> QED
      BY <1>1, <2>1, <3>1
  <2>3. Front(q) = SubSeq(q, 1, k)
    BY DEF Front
  <2> QED
    BY <2>1, <2>2, <2>3
<1>3. Quieta(Front(q))
  BY <1>2 DEF Quieta, Lista
<1>4. EsMarco(Last(q)) /\ ~ Last(q).primero
  BY <1>2 DEF Last, Quieta
<1> QED
  BY <1>3, <1>4 DEF PilaBien, EnSuSitio, Quieta

-----------------------------------------------------------------------------
(* The invariant: dense codes, and the label of the innermost structure    *)
(* that has not taken an inner block is the next one.                      *)
IInv == Bien(Actual) /\ PilaBien(pila, Len(expresiones))

LEMMA InicioBien ==
  Init => IInv
<1> SUFFICES ASSUME Init PROVE IInv
  OBVIOUS
<1> USE DEF Init, Comienzo
<1> DEFINE f == [bloque |-> 0, resto |-> BloquesInterno(0), primero |-> FALSE,
                 destino |-> 0, condicion |-> << >>]
<1>1. Lista(<< >>) /\ Densos(<< >>) /\ Quieta(<< >>)
  BY DEF Lista, Densos, Quieta
<1>2. Bien(Actual)
  <2>1. /\ Actual.triplos = << >> /\ Actual.expresiones = << >>
        /\ Actual = [caso |-> Actual.caso, triplos |-> Actual.triplos,
                     expresiones |-> Actual.expresiones]
    BY DEF Actual
  <2> QED
    BY <1>1, <2>1 DEF Bien
<1>3. PilaBien(pila, Len(expresiones))
  <2>1. EsMarco(f) /\ EnSuSitio(f, Len(expresiones))
    BY DEF EsMarco, EnSuSitio
  <2>2. pila = Append(<< >>, f)
    OBVIOUS
  <2> HIDE DEF f
  <2> QED
    BY <1>1, <2>1, <2>2, ApilarBien
<1> QED
  BY <1>2, <1>3 DEF IInv

(* What a call becomes when it takes its next inner block. *)
LEMMA MarcoCambiado ==
  ASSUME NEW m, EsMarco(m), NEW r, NEW v
  PROVE  [m EXCEPT !.resto = r, !.primero = v]
           = [bloque |-> m.bloque, resto |-> r, primero |-> v,
              destino |-> m.destino, condicion |-> m.condicion]
<1> DEFINE m1 == [m EXCEPT !.resto = r]
           m2 == [m EXCEPT !.resto = r, !.primero = v]
<1>1. m2 = [m1 EXCEPT !.primero = v]
  OBVIOUS
<1>2. m1 = [bloque |-> m.bloque, resto |-> r, primero |-> m.primero,
            destino |-> m.destino, condicion |-> m.condicion]
  BY DEF EsMarco
<1> HIDE DEF m1, m2
<1> QED
  BY <1>1, <1>2 DEF m2

LEMMA MarcoAvanzado ==
  ASSUME NEW m, EsMarco(m), NEW r
  PROVE  LET f == [m EXCEPT !.resto = r, !.primero = FALSE]
         IN  EsMarco(f) /\ ~ f.primero
<1> DEFINE f == [m EXCEPT !.resto = r, !.primero = FALSE]
<1>1. f = [bloque |-> m.bloque, resto |-> r, primero |-> FALSE,
           destino |-> m.destino, condicion |-> m.condicion]
  BY MarcoCambiado
<1> HIDE DEF f
<1>2. EsMarco(f) /\ ~ f.primero
  BY <1>1 DEF EsMarco
<1> QED
  BY <1>2 DEF f

LEMMA AvanzadoQuieta ==
  ASSUME IInv
  PROVE  Quieta(Avanzado) /\ Len(Avanzado) > 0 /\ Lista(Avanzado)
<1> DEFINE f == [marco EXCEPT !.resto = Tail(@), !.primero = FALSE]
<1>1. Quieta(Front(pila)) /\ EsMarco(marco)
  BY DEF IInv, PilaBien, marco
<1>3. EsMarco(f) /\ ~ f.primero
  BY <1>1, MarcoAvanzado
<1>4. Avanzado = Append(Front(pila), f)
  BY DEF Avanzado
<1> HIDE DEF f
<1> QED
  BY <1>1, <1>3, <1>4, ApilarQuieta, AlFinal DEF Quieta

(* A step that returns g with the calls p, or raises and leaves all as it is. *)
LEMMA AplicarConserva ==
  ASSUME IInv, NEW g, NEW p, Aplicar(g, p), Bien(g),
         g.caso # "excepcion" => PilaBien(p, Len(g.expresiones))
  PROVE  IInv'
<1>1. lexemas' = lexemas /\ bloques' = bloques
  BY DEF Aplicar
<1>2. \A f, n : EnSuSitio(f, n)' <=> EnSuSitio(f, n)
  BY <1>1 DEF EnSuSitio, LexemasDe
<1>3. CASE g.caso = "excepcion"
  <2>1. triplos' = triplos /\ expresiones' = expresiones /\ pila' = pila
    BY <1>3 DEF Aplicar
  <2> QED
    BY <1>2, <2>1 DEF IInv, Bien, Actual, PilaBien
<1>4. CASE g.caso # "excepcion"
  <2>1. triplos' = g.triplos /\ expresiones' = g.expresiones /\ pila' = p
    BY <1>4 DEF Aplicar
  <2>2. PilaBien(pila, Len(expresiones))'
    BY <1>2, <1>4, <2>1 DEF PilaBien
  <2>3. Bien(Actual)'
    BY <2>1 DEF Bien, Actual
  <2> QED
    BY <2>2, <2>3 DEF IInv
<1> QED
  BY <1>3, <1>4

LEMMA PasoBien ==
  ASSUME IInv, [Next]_vars
  PROVE  IInv'
<1>0. Bien(Actual) /\ Actual.expresiones = expresiones
  BY DEF IInv, Actual
<1>1. CASE Sentencia
  <2> DEFINE g == ProcesarSentencia(Actual, LexemasDe(bloque))
  <2>1. Bien(g)
    BY <1>0, SentenciaBien
  <2>2. PilaBien(Avanzado, Len(g.expresiones))
    BY AvanzadoQuieta, QuietaEsBien
  <2>3. Aplicar(g, Avanzado)
    BY <1>1 DEF Sentencia
  <2> HIDE DEF g
  <2> QED
    BY <2>1, <2>2, <2>3, AplicarConserva
<1>2. CASE AbrirEstructura
  <2> DEFINE L == LexemasDe(bloque)
             g == Abrir(Actual, L)
             nuevo == [bloque |-> bloque, resto |-> BloquesInterno(bloque),
                       primero |-> TRUE, destino |-> IniciaBucle(Actual, L),
                       condicion |-> Condicion(Actual, LexemasCondicion(L))]
  <2>1. Bien(g)
    BY <1>0, AbrirBien
  <2>2. Aplicar(g, Append(Avanzado, nuevo))
    BY <1>2 DEF AbrirEstructura
  <2>3. g.caso # "excepcion" => PilaBien(Append(Avanzado, nuevo), Len(g.expresiones))
    <3> SUFFICES ASSUME g.caso # "excepcion"
                 PROVE  PilaBien(Append(Avanzado, nuevo), Len(g.expresiones))
      OBVIOUS
    <3>1. EsMarco(nuevo)
      BY DEF EsMarco
    <3>2. nuevo.bloque = bloque /\ nuevo.destino = IniciaBucle(Actual, L)
      OBVIOUS
    <3>3. EsRegular(L) => IniciaBucle(Actual, L) = Len(g.expresiones) + 1
      BY <1>0, AbrirLlegaAlCuerpo
    <3>4. EnSuSitio(nuevo, Len(g.expresiones))
      <4> HIDE DEF nuevo, g
      <4> QED
        BY <3>2, <3>3 DEF EnSuSitio
    <3> HIDE DEF nuevo, g
    <3> QED
      BY <3>1, <3>4, AvanzadoQuieta, ApilarBien
  <2> HIDE DEF g, nuevo
  <2> QED
    BY <2>1, <2>2, <2>3, AplicarConserva
<1>3. CASE CerrarEstructura
  <2> DEFINE g == Cerrar(Actual, LexemasDe(marco.bloque), marco)
  <2>1. Bien(g)
    BY <1>0, CerrarBien
  <2>2. Aplicar(g, Front(pila)) /\ Len(pila) > 1
    BY <1>3 DEF CerrarEstructura
  <2>3. PilaBien(Front(pila), Len(g.expresiones))
    <3>1. PICK X : pila \in Seq(X)
      BY DEF IInv, PilaBien, Lista
    <3>2. Len(pila) - 1 \in Nat /\ Len(SubSeq(pila, 1, Len(pila) - 1)) = Len(pila) - 1
      BY <3>1, <2>2
    <3>3. Quieta(Front(pila)) /\ Len(Front(pila)) > 0
      BY <2>2, <3>1, <3>2 DEF IInv, PilaBien, Front
    <3> QED
      BY <3>3, QuietaEsBien
  <2> HIDE DEF g
  <2> QED
    BY <2>1, <2>2, <2>3, AplicarConserva
<1>4. CASE UNCHANGED <<lexemas, bloques, triplos, expresiones, pila>>
  BY <1>4 DEF IInv, Bien, Actual, PilaBien, EnSuSitio, LexemasDe
<1> QED
  BY <1>1, <1>2, <1>3, <1>4
     DEF Next, TerminarGeneracion, Imprimir, Terminado, vars

LEMMA SiempreBien ==
  Spec => []IInv
BY InicioBien, PasoBien, PTL DEF Spec

-----------------------------------------------------------------------------
(* The code of every triplet and of every line is its position: the names  *)
(* T1, T2, ... and L1, L2, ... of the printed code are unique.             *)
THEOREM CodigosSonPosiciones ==
  Spec => []CodigosDensos
<1>1. IInv => CodigosDensos
  BY DEF IInv, Bien, Actual, CodigosDensos, Densos
<1> QED
  BY <1>1, SiempreBien, PTL

(* The label kept for the jumps of a structure, computed before its body,  *)
(* is that of the first line of its body, at any depth of structures.      *)
THEOREM ElSaltoVaAlCuerpo ==
  Spec => SaltoAlCuerpo
<1> DEFINE Paso ==
      PorProcesar /\ marco.primero /\ Len(expresiones') > Len(expresiones)
        /\ EsRegular(LexemasDe(marco.bloque))
      => expresiones'[Len(expresiones) + 1].codigo = marco.destino
<1>1. IInv /\ IInv' /\ [Next]_vars => [Paso]_vars
  <2> SUFFICES ASSUME IInv, IInv', marco.primero, Len(expresiones') > Len(expresiones),
                      EsRegular(LexemasDe(marco.bloque))
               PROVE  expresiones'[Len(expresiones) + 1].codigo = marco.destino
    OBVIOUS
  <2>1. marco.destino = Len(expresiones) + 1
    BY DEF IInv, PilaBien, EnSuSitio, marco
  <2>2. Lista(expresiones) /\ Lista(expresiones') /\ Densos(expresiones')
    BY DEF IInv, Bien, Actual
  <2>3. Len(expresiones) \in Nat /\ Len(expresiones') \in Nat
        /\ DOMAIN expresiones' = 1..Len(expresiones')
    BY <2>2 DEF Lista
  <2>4. Len(expresiones) + 1 \in DOMAIN expresiones'
    BY <2>3
  <2> QED
    BY <2>1, <2>2, <2>4 DEF Densos
<1>2. Spec => [][Paso]_vars
  BY <1>1, SiempreBien, PTL DEF Spec
<1> QED
  BY <1>2 DEF SaltoAlCuerpo

-----------------------------------------------------------------------------
(* Least and greatest elements, and the elements of a list at some positions *)

LEMMA MinimoEsta ==
  ASSUME NEW S \in SUBSET Nat, S # {}
  PROVE  Min(S) \in S /\ \A y \in S : Min(S) <= y
<1>1. PICK x \in S : \A y \in S : ~ (<<y, x>> \in OpToRel(<, Nat))
  BY NatLessThanWellFounded, WFMin
<1>2. \A y \in S : x <= y
  <2> TAKE y \in S
  <2>1. y \in Nat /\ x \in Nat
    OBVIOUS
  <2>2. y < x => <<y, x>> \in OpToRel(<, Nat)
    BY <2>1, Zenon DEF OpToRel
  <2>3. ~ (y < x)
    BY <1>1, <2>2, Zenon
  <2> QED
    BY <2>1, <2>3
<1> QED
  BY <1>2 DEF Min

LEMMA MaximoEsta ==
  ASSUME NEW m \in Nat, NEW S \in SUBSET (0..m), S # {}
  PROVE  Max(S) \in S /\ \A y \in S : y <= Max(S)
<1> DEFINE R == {m - i : i \in S}
<1>1. R \in SUBSET Nat /\ R # {}
  <2>1. \A i \in S : m - i \in Nat
    OBVIOUS
  <2>2. \A z \in R : z \in Nat
    BY <2>1
  <2> QED
    BY <2>2
<1>2. Min(R) \in R /\ \A y \in R : Min(R) <= y
  BY <1>1, MinimoEsta
<1> DEFINE r == Min(R)
<1>3. PICK x \in S : r = m - x
  BY <1>2
<1>4. \A y \in S : r <= m - y
  BY <1>2
<1> HIDE DEF r
<1>5. \A y \in S : x >= y /\ y <= x
  BY <1>3, <1>4
<1>6. \A z \in S : (\A y \in S : z >= y) => \A y \in S : y <= z
  OBVIOUS
<1> QED
  BY <1>5, <1>6 DEF Max

(* A set of natural numbers without a least element is empty. *)
LEMMA SinPrimero ==
  ASSUME NEW S \in SUBSET Nat, \A m \in S : \E k \in S : k < m
  PROVE  S = {}
<1> SUFFICES ASSUME S # {} PROVE FALSE
  OBVIOUS
<1> DEFINE m == Min(S)
<1>1. m \in S /\ \A y \in S : m <= y
  BY MinimoEsta
<1> HIDE DEF m
<1>2. PICK k \in S : k < m
  BY <1>1
<1>3. m \in Nat /\ k \in Nat /\ m <= k /\ k < m
  BY <1>1, <1>2
<1> QED
  BY <1>3

(* The recursive function of Partes, up to m. *)
Otra(L, S, k, r) == IF k \in S THEN Append(r, L[k]) ELSE r
Tramo(f, m, L, S) ==
  f = [k \in 0..m |-> IF k = 0 THEN << >> ELSE Otra(L, S, k, f[k - 1])]

LEMMA HayTramo ==
  ASSUME NEW L, NEW S
  PROVE  \A m \in Nat : \E f : Tramo(f, m, L, S)
<1> DEFINE T == {m \in Nat : ~ \E f : Tramo(f, m, L, S)}
<1>1. 0 \notin T
  <2> DEFINE f == [k \in 0..0 |-> << >>]
  <2>1. f = [k \in 0..0 |-> IF k = 0 THEN << >> ELSE Otra(L, S, k, f[k - 1])]
    <3>1. \A k \in 0..0 : k = 0
      OBVIOUS
    <3> QED
      BY <3>1
  <2> QED
    BY <2>1 DEF Tramo
<1>2. ASSUME NEW m \in Nat, \E f : Tramo(f, m, L, S)
      PROVE  \E f : Tramo(f, m + 1, L, S)
  <2>1. PICK f : Tramo(f, m, L, S)
    BY <1>2
  <2> DEFINE g == [i \in 0..(m + 1) |-> IF i = m + 1 THEN Otra(L, S, m + 1, f[m]) ELSE f[i]]
             paso(k) == IF k = 0 THEN << >> ELSE Otra(L, S, k, g[k - 1])
  <2>2. \A i \in 0..m : f[i] = IF i = 0 THEN << >> ELSE Otra(L, S, i, f[i - 1])
    <3> DEFINE h == [k \in 0..m |-> IF k = 0 THEN << >> ELSE Otra(L, S, k, f[k - 1])]
    <3>1. f = h
      BY <2>1 DEF Tramo
    <3>2. \A i \in 0..m : h[i] = IF i = 0 THEN << >> ELSE Otra(L, S, i, f[i - 1])
      OBVIOUS
    <3> HIDE DEF h
    <3> QED
      BY <3>1, <3>2
  <2>3. \A i \in 0..m : g[i] = f[i]
    OBVIOUS
  <2>4. g[m + 1] = Otra(L, S, m + 1, g[m])
    BY <2>3
  <2>5. g = [i \in 0..(m + 1) |-> g[i]]
    OBVIOUS
  <2> HIDE DEF g
  <2>6. ASSUME NEW i \in 0..(m + 1) PROVE g[i] = paso(i)
    <3>1. CASE i = m + 1
      BY <2>4, <3>1
    <3>2. CASE i # m + 1
      <4>1. i \in 0..m /\ (i # 0 => i - 1 \in 0..m)
        BY <3>2
      <4> QED
        BY <2>2, <2>3, <4>1
    <3> QED
      BY <3>1, <3>2
  <2>7. g = [k \in 0..(m + 1) |-> paso(k)]
    <3> HIDE DEF paso
    <3> QED
      BY <2>5, <2>6
  <2> QED
    BY <2>7, Zenon DEF Tramo
<1>3. \A m \in T : \E k \in T : k < m
  <2> TAKE m \in T
  <2>1. m \in Nat /\ m # 0
    BY <1>1
  <2>2. m - 1 \in Nat /\ (m - 1) + 1 = m
    BY <2>1
  <2>3. m - 1 \in T
    BY <1>2, <2>2
  <2> QED
    BY <2>1, <2>3
<1>4. T = {}
  <2> HIDE DEF T
  <2>1. T \in SUBSET Nat
    BY DEF T
  <2> QED
    BY <1>3, <2>1, SinPrimero
<1> QED
  BY <1>4

LEMMA PartesLista ==
  ASSUME NEW X, NEW L \in Seq(X), NEW S
  PROVE  Partes(L, S) \in Seq(X)
<1> DEFINE m == Len(L)
           F == CHOOSE f : Tramo(f, m, L, S)
           M == {k \in 0..m : F[k] \notin Seq(X)}
<1>1. m \in Nat /\ \A i \in 1..m : L[i] \in X
  OBVIOUS
<1>2. Tramo(F, m, L, S)
  BY <1>1, HayTramo
<1>3. Partes(L, S) = F[m]
  BY Zenon DEF Partes, Tramo, Otra
<1> HIDE DEF m, F
<1>4. \A k \in 0..m : F[k] = IF k = 0 THEN << >> ELSE Otra(L, S, k, F[k - 1])
  <2> DEFINE h == [k \in 0..m |-> IF k = 0 THEN << >> ELSE Otra(L, S, k, F[k - 1])]
  <2>1. F = h
    BY <1>2 DEF Tramo
  <2>2. \A i \in 0..m : h[i] = IF i = 0 THEN << >> ELSE Otra(L, S, i, F[i - 1])
    OBVIOUS
  <2> HIDE DEF h
  <2> QED
    BY <2>1, <2>2
<1>5. \A k \in M : \E j \in M : j < k
  <2> TAKE k \in M
  <2>1. F[0] \in Seq(X)
    <3>1. F[0] = << >>
      BY <1>1, <1>4
    <3> QED
      BY <3>1
  <2>2. k # 0 /\ k \in 1..m /\ k - 1 \in 0..m /\ k - 1 < k
    BY <1>1, <2>1
  <2>3. F[k - 1] \in Seq(X) => F[k] \in Seq(X)
    <3> SUFFICES ASSUME F[k - 1] \in Seq(X) PROVE F[k] \in Seq(X)
      OBVIOUS
    <3>1. F[k] = Otra(L, S, k, F[k - 1])
      BY <1>4, <2>2
    <3>2. L[k] \in X
      BY <1>1, <2>2
    <3> DEFINE r == F[k - 1]
               e == L[k]
    <3>3. Append(r, e) \in Seq(X)
      <4> HIDE DEF r, e
      <4>1. r \in Seq(X) /\ e \in X
        BY <3>2 DEF r, e
      <4> QED
        BY <4>1
    <3> QED
      BY <3>1, <3>3 DEF Otra
  <2> QED
    BY <2>2, <2>3
<1>6. M = {}
  <2>1. M \in SUBSET Nat
    BY <1>1
  <2> HIDE DEF M
  <2> QED
    BY <1>5, <2>1, SinPrimero
<1> QED
  BY <1>1, <1>3, <1>6

-----------------------------------------------------------------------------
(* Types of what a part of the walk adds *)

(* What a part of the walk returns, with its types. *)
Tipado(g) ==
  /\ Bien(g)
  /\ g.triplos \in Seq(Tripleta) /\ g.expresiones \in Seq(Expresion)

LEMMA SiguienteNatural ==
  ASSUME NEW R, Lista(R), Densos(R)
  PROVE  Siguiente(R) \in Nat
<1>1. Len(R) \in Nat
  BY DEF Lista
<1> QED
  BY <1>1, SiguienteEsLargo

LEMMA BuscarNatural ==
  ASSUME NEW g, Tipado(g), NEW nombre
  PROVE  BuscarTripletaPorNombre(g, nombre) \in Nat
<1> DEFINE T == g.triplos
           con == {i \in DOMAIN T : T[i].segundo.texto = nombre}
<1>1. BuscarTripletaPorNombre(g, nombre) = IF con = {} THEN 0 ELSE T[Min(con)].codigo
  BY Zenon DEF BuscarTripletaPorNombre
<1>2. T \in Seq(Tripleta)
  BY DEF Tipado
<1> HIDE DEF T
<1>3. DOMAIN T = 1..Len(T) /\ Len(T) \in Nat /\ \A i \in DOMAIN T : T[i] \in Tripleta
  BY <1>2
<1>4. con \in SUBSET Nat /\ con \subseteq DOMAIN T
  <2>1. \A i \in con : i \in DOMAIN T
    BY Zenon
  <2> HIDE DEF con
  <2> QED
    BY <1>3, <2>1
<1>5. con # {} => Min(con) \in DOMAIN T
  <2> HIDE DEF con
  <2> QED
    BY <1>4, MinimoEsta
<1>6. \A i \in DOMAIN T : T[i].codigo \in Nat
  BY <1>3 DEF Tripleta
<1> HIDE DEF con
<1> QED
  BY <1>1, <1>5, <1>6

LEMMA SinLadoTipo ==
  SinLado \in Lado
BY DEF SinLado, Lado

LEMMA LadoDeTipo ==
  ASSUME NEW g, Tipado(g), NEW x \in LexemaValor
  PROVE  LadoDe(g, x) \in Lado
<1>1. x.texto \in Texto
  BY DEF LexemaValor
<1>2. BuscarTripletaPorNombre(g, x.texto) \in Nat
  BY BuscarNatural
<1>3. \A t \in Nat : LadoTripleta(t) \in Lado
  BY DEF LadoTripleta, Lado
<1>4. \A t \in Texto : LadoTexto(t) \in Lado
  BY DEF LadoTexto, Lado
<1> QED
  BY <1>1, <1>2, <1>3, <1>4, Zenon DEF LadoDe

LEMMA TripletaTipo ==
  ASSUME NEW g, Tipado(g), NEW operador \in Texto \cup {Nulo},
         NEW primero \in LexemaValor, NEW segundo \in LexemaValor
  PROVE  /\ Tipado(GenerarTripleta(g, operador, primero, segundo))
         /\ UltimaTripleta(GenerarTripleta(g, operador, primero, segundo)) \in Nat
<1> DEFINE e == [codigo |-> Siguiente(g.triplos), operador |-> operador,
                 primero |-> primero, segundo |-> segundo]
           T == Append(g.triplos, e)
           h == GenerarTripleta(g, operador, primero, segundo)
<1>1. Bien(h) /\ h.expresiones = g.expresiones
  BY TripletaAnade DEF Tipado
<1>2. h.triplos = T
  <2>1. h = [g EXCEPT !.triplos = T]
    BY DEF GenerarTripleta
  <2>2. "triplos" \in DOMAIN g
    BY DEF Tipado, Bien
  <2> HIDE DEF T, h
  <2> QED
    BY <2>1, <2>2
<1>3. e \in Tripleta
  <2>1. Siguiente(g.triplos) \in Nat
    BY SiguienteNatural DEF Tipado, Bien
  <2> QED
    BY <2>1 DEF Tripleta
<1>4. g.triplos \in Seq(Tripleta) /\ g.expresiones \in Seq(Expresion)
  BY DEF Tipado
<1>5. e.codigo \in Nat
  BY <1>3 DEF Tripleta
<1> HIDE DEF e, h
<1> DEFINE C == Tripleta
<1> HIDE DEF C
<1>6. e \in C /\ g.triplos \in Seq(C)
  BY <1>3, <1>4 DEF C
<1>7. T \in Seq(C) /\ T[Len(T)] = e
  BY <1>6
<1>8. Tipado(h)
  BY <1>1, <1>2, <1>4, <1>7 DEF Tipado, C
<1>9. UltimaTripleta(h) \in Nat
  BY <1>2, <1>5, <1>7 DEF UltimaTripleta, Last
<1> QED
  BY <1>8, <1>9 DEF h

LEMMA LineaTipo ==
  ASSUME NEW g, Tipado(g), NEW e \in Expresion, e.codigo = Siguiente(g.expresiones)
  PROVE  Tipado([g EXCEPT !.expresiones = Append(g.expresiones, e)])
<1> DEFINE E == Append(g.expresiones, e)
           h == [g EXCEPT !.expresiones = E]
           C == Expresion
<1>1. Bien(h)
  BY LineaAnade DEF Tipado, Anade
<1>2. g.triplos \in Seq(Tripleta) /\ g.expresiones \in Seq(C) /\ e \in C
  BY DEF Tipado
<1>3. E \in Seq(C)
  <2> HIDE DEF C
  <2> QED
    BY <1>2
<1>4. h.triplos = g.triplos /\ h.expresiones = E
  <2>1. "expresiones" \in DOMAIN g /\ "triplos" \in DOMAIN g
    BY DEF Tipado, Bien
  <2> HIDE DEF E
  <2> QED
    BY <2>1
<1> HIDE DEF h, E
<1>5. Tipado(h)
  BY <1>1, <1>2, <1>3, <1>4 DEF Tipado
<1> QED
  BY <1>5 DEF h, E

LEMMA ExpresionTipo ==
  ASSUME NEW g, Tipado(g), NEW inicial \in Nat, NEW operador \in Texto \cup {Nulo},
         NEW izq \in Lado, NEW der \in Lado
  PROVE  Tipado(GenerarExpresion(g, inicial, operador, izq, der))
<1> DEFINE e == [codigo |-> Siguiente(g.expresiones), inicial |-> inicial,
                 operador |-> operador, izq |-> izq, der |-> der,
                 salto |-> SinSalto]
<1>1. Siguiente(g.expresiones) \in Nat
  BY SiguienteNatural DEF Tipado, Bien
<1>2. SinSalto \in Salto
  <2>1. << >> \in Seq(Lado)
    OBVIOUS
  <2> HIDE DEF Lado
  <2> QED
    BY <2>1 DEF SinSalto, Salto
<1>3. e \in Expresion
  BY <1>1, <1>2 DEF Expresion
<1>4. e.codigo = Siguiente(g.expresiones)
  OBVIOUS
<1>5. GenerarExpresion(g, inicial, operador, izq, der)
        = [g EXCEPT !.expresiones = Append(g.expresiones, e)]
  BY DEF GenerarExpresion
<1> HIDE DEF e
<1> QED
  BY <1>3, <1>4, <1>5, LineaTipo

LEMMA TextoTipo ==
  ASSUME NEW g, Tipado(g), NEW palabra \in {"IF", "ELSE"}, NEW condicion \in Seq(Lado),
         NEW destino \in Nat
  PROVE  Tipado(GenerarExpresionTexto(g, palabra, condicion, destino))
<1> DEFINE s == [palabra |-> palabra, condicion |-> condicion, destino |-> destino]
           e == [codigo |-> Siguiente(g.expresiones), inicial |-> 0, operador |-> Nulo,
                 izq |-> SinLado, der |-> SinLado, salto |-> s]
<1>1. Siguiente(g.expresiones) \in Nat
  BY SiguienteNatural DEF Tipado, Bien
<1>2. s \in Salto
  BY DEF Salto
<1>3. e \in Expresion
  <2> HIDE DEF s
  <2> QED
    BY <1>1, <1>2, SinLadoTipo DEF Expresion
<1>4. e.codigo = Siguiente(g.expresiones)
  OBVIOUS
<1>5. GenerarExpresionTexto(g, palabra, condicion, destino)
        = [g EXCEPT !.expresiones = Append(g.expresiones, e)]
  BY DEF GenerarExpresionTexto
<1> HIDE DEF e
<1> QED
  BY <1>3, <1>4, <1>5, LineaTipo

LEMMA LanzarTipo ==
  ASSUME NEW g, Tipado(g)
  PROVE  Tipado(Lanzar(g)) /\ Lanzar(g).caso = "excepcion"
<1> DEFINE h == Lanzar(g)
<1>1. h = [caso |-> "excepcion", triplos |-> g.triplos, expresiones |-> g.expresiones]
  BY DEF Lanzar, Tipado, Bien
<1>2. Bien(h)
  BY LanzarAnade DEF Tipado, Anade
<1> HIDE DEF h
<1>3. h.triplos = g.triplos /\ h.expresiones = g.expresiones /\ h.caso = "excepcion"
  BY <1>1
<1> QED
  BY <1>2, <1>3 DEF Tipado, h
-----------------------------------------------------------------------------
(* Types of what a sentence adds *)

LEMMA TextoDeLexema ==
  ASSUME NEW L \in Seq(LexemaValor), NEW i \in DOMAIN L
  PROVE  L[i] \in LexemaValor /\ L[i].texto \in Texto
<1>1. L[i] \in LexemaValor
  <2> DEFINE X == LexemaValor
  <2>1. L \in Seq(X)
    OBVIOUS
  <2> HIDE DEF X
  <2>2. L[i] \in X
    BY <2>1
  <2> QED
    BY <2>2 DEF X
<1> QED
  BY <1>1 DEF LexemaValor

(* A line about the last triplet. *)
LEMMA LineaDeTripleta ==
  ASSUME NEW h, Tipado(h), UltimaTripleta(h) \in Nat,
         NEW f, f = GenerarExpresion(h, UltimaTripleta(h), Nulo, SinLado, SinLado)
  PROVE  Tipado(f) /\ UltimaTripleta(f) \in Nat
<1>1. Tipado(f)
  BY ExpresionTipo, SinLadoTipo
<1>2. f.triplos = h.triplos
  <2> DEFINE E == Append(h.expresiones,
                    [codigo |-> Siguiente(h.expresiones), inicial |-> UltimaTripleta(h),
                     operador |-> Nulo, izq |-> SinLado, der |-> SinLado,
                     salto |-> SinSalto])
  <2>1. f = [h EXCEPT !.expresiones = E]
    BY DEF GenerarExpresion
  <2>2. "triplos" \in DOMAIN h
    BY DEF Tipado, Bien
  <2> HIDE DEF E
  <2> QED
    BY <2>1, <2>2
<1> QED
  BY <1>1, <1>2 DEF UltimaTripleta

LEMMA DeclaracionTipo ==
  ASSUME NEW g, Tipado(g), NEW L \in Seq(LexemaValor), {1, 2} \subseteq DOMAIN L
  PROVE  /\ Tipado(ProcesarDeclaracion(g, L))
         /\ UltimaTripleta(ProcesarDeclaracion(g, L)) \in Nat
<1> DEFINE h == GenerarTripleta(g, Nulo, L[1], L[2])
<1>1. L[1] \in LexemaValor /\ L[2] \in LexemaValor
  BY TextoDeLexema
<1>2. Tipado(h) /\ UltimaTripleta(h) \in Nat
  BY <1>1, TripletaTipo
<1>3. ProcesarDeclaracion(g, L)
        = GenerarExpresion(h, UltimaTripleta(h), Nulo, SinLado, SinLado)
  BY DEF ProcesarDeclaracion
<1> HIDE DEF h
<1> QED
  BY <1>2, <1>3, LineaDeTripleta

LEMMA ParcialTipo ==
  ASSUME NEW g, Tipado(g), NEW L \in Seq(LexemaValor), NEW k,
         {k - 1, k, k + 1} \subseteq DOMAIN L
  PROVE  Tipado(Parcial(g, L, k)) /\ UltimaTripleta(Parcial(g, L, k)) \in Nat
<1> DEFINE h == GenerarTripleta(g, L[k].texto, L[k - 1], L[k + 1])
<1>1. L[k].texto \in Texto /\ L[k - 1] \in LexemaValor /\ L[k + 1] \in LexemaValor
  BY TextoDeLexema
<1>2. Tipado(h) /\ UltimaTripleta(h) \in Nat
  BY <1>1, TripletaTipo
<1>3. Parcial(g, L, k)
        = GenerarExpresion(h, UltimaTripleta(h), Nulo, SinLado, SinLado)
  BY DEF Parcial
<1> HIDE DEF h
<1> QED
  BY <1>2, <1>3, LineaDeTripleta

LEMMA UnOperadorTipo ==
  ASSUME NEW g, Tipado(g), NEW L \in Seq(LexemaValor), NEW inicial \in Nat,
         NEW k \in DOMAIN L
  PROVE  Tipado(ProcesarUnOperador(g, L, inicial, k))
<1>1. CASE {k - 1, k + 1} \subseteq DOMAIN L
  <2>1. L[k].texto \in Texto /\ L[k - 1] \in LexemaValor /\ L[k + 1] \in LexemaValor
    BY <1>1, TextoDeLexema
  <2>2. LadoDe(g, L[k - 1]) \in Lado /\ LadoDe(g, L[k + 1]) \in Lado
    BY <2>1, LadoDeTipo
  <2>3. Tipado(GenerarExpresion(g, inicial, L[k].texto, LadoDe(g, L[k - 1]),
                                LadoDe(g, L[k + 1])))
    BY <2>1, <2>2, ExpresionTipo
  <2> QED
    BY <1>1, <2>3, Zenon DEF ProcesarUnOperador
<1>2. CASE ~ {k - 1, k + 1} \subseteq DOMAIN L
  BY <1>2, LanzarTipo, Zenon DEF ProcesarUnOperador
<1> QED
  BY <1>1, <1>2

LEMMA DosOperadoresTipo ==
  ASSUME NEW g, Tipado(g), NEW L \in Seq(LexemaValor), NEW inicial \in Nat,
         NEW k \in DOMAIN L
  PROVE  Tipado(ProcesarDosOperadores(g, L, inicial, k))
<1> DEFINE caben == {k - 1, k + 3} \subseteq DOMAIN L
           d == Parcial(g, L, k + 2)
           izq == IF L[k - 1].tipo = "Variable"
                    THEN LadoTripleta(BuscarTripletaPorNombre(d, L[k + 3].texto))
                    ELSE LadoTexto(L[k - 1].texto)
           a == Parcial(g, L, k)
           uno == GenerarExpresion(d, inicial, L[k].texto, izq,
                                   LadoTripleta(UltimaTripleta(d)))
           dos == GenerarExpresion(a, inicial, L[k + 2].texto,
                                   LadoTripleta(UltimaTripleta(a)), LadoDe(a, L[k + 3]))
           f == ProcesarDosOperadores(g, L, inicial, k)
<1>1. f = IF ~ caben THEN Lanzar(g) ELSE IF ProductoDespues(L, k) THEN uno ELSE dos
  BY Zenon DEF ProcesarDosOperadores
<1>2. ASSUME caben PROVE Tipado(uno) /\ Tipado(dos)
  <2>1. {k - 1, k, k + 1, k + 2, k + 3} \subseteq DOMAIN L
        /\ k + 2 - 1 = k + 1 /\ k + 2 + 1 = k + 3
    BY <1>2
  <2>2. \A i \in {k - 1, k, k + 1, k + 2, k + 3} :
          L[i] \in LexemaValor /\ L[i].texto \in Texto
    BY <2>1, TextoDeLexema
  <2>3. \A t \in Nat : LadoTripleta(t) \in Lado
    BY DEF LadoTripleta, Lado
  <2>4. \A t \in Texto : LadoTexto(t) \in Lado
    BY DEF LadoTexto, Lado
  <2>5. Tipado(d) /\ UltimaTripleta(d) \in Nat
    <3>1. {(k + 2) - 1, k + 2, (k + 2) + 1} \subseteq DOMAIN L
      BY <2>1
    <3> QED
      BY <3>1, ParcialTipo
  <2>6. Tipado(a) /\ UltimaTripleta(a) \in Nat
    BY <2>1, ParcialTipo
  <2> HIDE DEF d, a
  <2>7. izq \in Lado
    <3>1. BuscarTripletaPorNombre(d, L[k + 3].texto) \in Nat
      BY <2>5, BuscarNatural
    <3> QED
      BY <2>2, <2>3, <2>4, <3>1
  <2>8. LadoDe(a, L[k + 3]) \in Lado
    BY <2>2, <2>6, LadoDeTipo
  <2> HIDE DEF izq
  <2>9. Tipado(uno)
    BY <2>2, <2>3, <2>5, <2>7, ExpresionTipo
  <2>10. Tipado(dos)
    BY <2>2, <2>3, <2>6, <2>8, ExpresionTipo
  <2> QED
    BY <2>9, <2>10
<1>3. Tipado(Lanzar(g))
  BY LanzarTipo
<1> HIDE DEF caben, uno, dos, f
<1>4. Tipado(f)
  BY <1>1, <1>2, <1>3
<1> QED
  BY <1>4 DEF f

LEMMA OperacionTipo ==
  ASSUME NEW g, Tipado(g), NEW L \in Seq(LexemaValor), L # << >>,
         L[1].tipo = "TipoDato" => 2 \in DOMAIN L, Operadores(L) # {}
  PROVE  Tipado(ProcesarOperacion(g, L))
<1> DEFINE h == IF L[1].tipo = "TipoDato" THEN ProcesarDeclaracion(g, L) ELSE g
           inicial == IF L[1].tipo = "TipoDato" THEN UltimaTripleta(h)
                      ELSE BuscarTripletaPorNombre(g, L[1].texto)
           k == Min(Operadores(L))
<1>1. Tipado(h) /\ inicial \in Nat
  <2>1. 1 \in DOMAIN L
    OBVIOUS
  <2>2. CASE L[1].tipo = "TipoDato"
    <3>1. Tipado(ProcesarDeclaracion(g, L)) /\ UltimaTripleta(ProcesarDeclaracion(g, L)) \in Nat
      BY <2>1, <2>2, DeclaracionTipo
    <3> QED
      BY <2>2, <3>1
  <2>3. CASE L[1].tipo # "TipoDato"
    BY <2>3, BuscarNatural
  <2> QED
    BY <2>2, <2>3
<1>2. k \in DOMAIN L
  <2>1. Operadores(L) \subseteq DOMAIN L
    BY DEF Operadores
  <2>2. DOMAIN L \subseteq Nat
    OBVIOUS
  <2> QED
    BY <2>1, <2>2, MinimoEsta
<1>3. ProcesarOperacion(g, L) \in {ProcesarUnOperador(h, L, inicial, k),
                                  ProcesarDosOperadores(h, L, inicial, k), h}
  BY DEF ProcesarOperacion
<1> HIDE DEF h, inicial, k
<1> QED
  BY <1>1, <1>2, <1>3, UnOperadorTipo, DosOperadoresTipo

LEMMA IncrementoTipo ==
  ASSUME NEW g, Tipado(g), NEW L, NEW signo \in {"+", "-"}
  PROVE  Tipado(ProcesarIncremento(g, L, signo))
<1> DEFINE t == BuscarTripletaPorNombre(g, L[1].texto)
<1>1. t \in Nat
  BY BuscarNatural
<1>2. ProcesarIncremento(g, L, signo)
        = GenerarExpresion(g, t, Simbolo(signo), LadoTripleta(t), LadoTexto(Numeral(1, 0)))
  BY DEF ProcesarIncremento
<1> HIDE DEF t
<1>3. Simbolo(signo) \in Texto /\ Numeral(1, 0) \in Texto
  <2>1. signo \in NombreTexto /\ "0" \in NombreTexto
    BY Zenon DEF NombreTexto
  <2>2. 0 \in Int /\ 0 \in Nat /\ 1 \in Int
    OBVIOUS
  <2> HIDE DEF NombreTexto
  <2> QED
    BY <2>1, <2>2 DEF Simbolo, Numeral, Texto
<1>4. LadoTripleta(t) \in Lado /\ LadoTexto(Numeral(1, 0)) \in Lado
  BY <1>1, <1>3 DEF LadoTripleta, LadoTexto, Lado
<1> QED
  BY <1>1, <1>2, <1>3, <1>4, ExpresionTipo

LEMMA SentenciaTipo ==
  ASSUME NEW g, Tipado(g), NEW L \in Seq(LexemaValor)
  PROVE  Tipado(ProcesarSentencia(g, L))
<1> DEFINE f == ProcesarSentencia(g, L)
<1>1. CASE Desborda(L)
  BY <1>1, LanzarTipo, Zenon DEF ProcesarSentencia
<1>2. CASE ~ Desborda(L)
  <2>1. L # << >> /\ (L[1].tipo = "TipoDato" => Len(L) # 1)
    BY <1>2, Zenon DEF Desborda
  <2>2. 1 \in DOMAIN L /\ (L[1].tipo = "TipoDato" => 2 \in DOMAIN L)
    <3>1. Len(L) \in Nat /\ Len(L) # 0 /\ DOMAIN L = 1..Len(L)
      BY <2>1
    <3> QED
      BY <2>1, <3>1
  <2>3. DeclaraSimple(L) => Tipado(ProcesarDeclaracion(g, L))
    BY <2>2, DeclaracionTipo DEF DeclaraSimple
  <2>4. Operadores(L) # {} => Tipado(ProcesarOperacion(g, L))
    BY <2>1, <2>2, OperacionTipo
  <2>5. Tipado(ProcesarIncremento(g, L, "+")) /\ Tipado(ProcesarIncremento(g, L, "-"))
    BY IncrementoTipo
  <2> QED
    BY <1>2, <2>3, <2>4, <2>5, Zenon DEF ProcesarSentencia
<1> QED
  BY <1>1, <1>2
-----------------------------------------------------------------------------
(* Types of what a structure adds *)

LEMMA TrozoLista ==
  ASSUME NEW X, NEW s \in Seq(X), NEW i \in Int, NEW j \in Int, i..j \subseteq 1..Len(s)
  PROVE  SubSeq(s, i, j) \in Seq(X)
OBVIOUS

(* The positions at which a text is found. *)
LEMMA IndiceDeRango ==
  ASSUME NEW X, NEW L \in Seq(X), NEW t
  PROVE  IndiceDe(L, t) \in Int /\ -1 <= IndiceDe(L, t) /\ IndiceDe(L, t) < Len(L)
<1> DEFINE I == {i \in 1..Len(L) : L[i].texto = Simbolo(t)}
<1>1. IndiceDe(L, t) = (IF I # {} THEN Min(I) ELSE 0) - 1
  BY DEF IndiceDe, SelectInSeq
<1>2. I \subseteq 1..Len(L)
  BY Zenon
<1>3. Len(L) \in Nat
  OBVIOUS
<1> HIDE DEF I
<1>4. I # {} => Min(I) \in 1..Len(L)
  <2>1. I \in SUBSET Nat
    BY <1>2, <1>3
  <2> QED
    BY <1>2, <2>1, MinimoEsta
<1> QED
  BY <1>1, <1>3, <1>4

LEMMA UltimoIndiceDeRango ==
  ASSUME NEW X, NEW L \in Seq(X), NEW t
  PROVE  /\ UltimoIndiceDe(L, t) \in Int
         /\ -1 <= UltimoIndiceDe(L, t) /\ UltimoIndiceDe(L, t) < Len(L)
<1> DEFINE I == {i \in 1..Len(L) : L[i].texto = Simbolo(t)}
<1>1. UltimoIndiceDe(L, t) = (IF I # {} THEN Max(I) ELSE 0) - 1
  BY DEF UltimoIndiceDe, SelectLastInSeq
<1>2. I \subseteq 1..Len(L)
  BY Zenon
<1>3. Len(L) \in Nat
  OBVIOUS
<1> HIDE DEF I
<1>4. I # {} => Max(I) \in 1..Len(L)
  <2>1. I \in SUBSET (0..Len(L))
    BY <1>2, <1>3
  <2> QED
    BY <1>2, <1>3, <2>1, MaximoEsta
<1> QED
  BY <1>1, <1>3, <1>4

LEMMA EntreLista ==
  ASSUME NEW X, NEW L \in Seq(X), NEW i \in Int, NEW j \in Int, -1 <= i, j < Len(L)
  PROVE  Entre(L, i, j) \in Seq(X)
<1>1. Len(L) \in Nat
  OBVIOUS
<1>2. i + 2 \in Int /\ (i + 2)..j \subseteq 1..Len(L)
  BY <1>1
<1> QED
  BY <1>2, TrozoLista DEF Entre

LEMMA CondicionLista ==
  ASSUME NEW X, NEW L \in Seq(X)
  PROVE  LexemasCondicion(L) \in Seq(X) /\ CondicionFor(L) \in Seq(X)
<1>1. \A t : /\ IndiceDe(L, t) \in Int /\ -1 <= IndiceDe(L, t) /\ IndiceDe(L, t) < Len(L)
             /\ UltimoIndiceDe(L, t) \in Int /\ UltimoIndiceDe(L, t) < Len(L)
  BY IndiceDeRango, UltimoIndiceDeRango
<1>2. \A t, u : /\ Entre(L, IndiceDe(L, t), IndiceDe(L, u)) \in Seq(X)
                /\ Entre(L, IndiceDe(L, t), UltimoIndiceDe(L, u)) \in Seq(X)
  BY <1>1, EntreLista
<1> QED
  BY <1>2, Zenon DEF LexemasCondicion, CondicionFor

(* The parts of a for that its loops can copy. *)
LEMMA PartesDelFor ==
  ASSUME NEW X, NEW L \in Seq(X), ~ ForDesborda(L)
  PROVE  PrimerBloqueFor(L) \in Seq(X) /\ BloqueFinalFor(L) \in Seq(X)
<1> DEFINE C == LexemasCondicion(L)
           i == IndiceDe(L, ";")
           u == UltimoIndiceDe(L, ";")
           f == IndiceDe(L, ")")
<1>1. PrimerBloqueFor(L) = SubSeq(C, 1, i - 1) /\ BloqueFinalFor(L) = SubSeq(C, u, f - 2)
  BY Zenon DEF PrimerBloqueFor, BloqueFinalFor
<1>2. 1..(i - 1) \subseteq 1..Len(C) /\ u..(f - 2) \subseteq 1..Len(C)
  BY Zenon DEF ForDesborda
<1>3. i \in Int /\ u \in Int /\ f \in Int
  BY IndiceDeRango, UltimoIndiceDeRango, Zenon
<1>4. C \in Seq(X)
  BY CondicionLista
<1> HIDE DEF C, i, u, f
<1>5. i - 1 \in Int /\ f - 2 \in Int
  BY <1>3
<1> QED
  BY <1>1, <1>2, <1>3, <1>4, <1>5, TrozoLista

LEMMA CondicionTipo ==
  ASSUME NEW g, Tipado(g), NEW C \in Seq(LexemaValor)
  PROVE  Condicion(g, C) \in Seq(Lado)
<1>1. \A i \in DOMAIN C : LadoDe(g, C[i]) \in Lado
  BY TextoDeLexema, LadoDeTipo
<1> DEFINE X == Lado
<1>2. \A i \in 1..Len(C) : LadoDe(g, C[i]) \in X
  BY <1>1
<1>3. Len(C) \in Nat /\ DOMAIN C = 1..Len(C)
  OBVIOUS
<1> HIDE DEF X
<1>4. [i \in 1..Len(C) |-> LadoDe(g, C[i])] \in Seq(X)
  BY <1>2, <1>3
<1> QED
  BY <1>3, <1>4 DEF Condicion, X

LEMMA IfTipo ==
  ASSUME NEW g, Tipado(g), NEW C \in Seq(LexemaValor), NEW destino \in Nat
  PROVE  Tipado(GenerarIf(g, C, destino))
<1>1. Tipado(GenerarExpresionTexto(g, "IF", Condicion(g, C), destino))
  BY CondicionTipo, TextoTipo
<1> QED
  BY <1>1, LanzarTipo, Zenon DEF GenerarIf

LEMMA AbrirTipo ==
  ASSUME NEW g, Tipado(g), NEW L \in Seq(LexemaValor)
  PROVE  Tipado(Abrir(g, L))
<1> DEFINE d == Siguiente(g.expresiones) + 1
<1>1. d \in Nat
  BY SiguienteNatural DEF Tipado, Bien
<1>2. Tipado(GenerarIf(g, LexemasCondicion(L), d))
  BY <1>1, CondicionLista, IfTipo
<1>3. Tipado(GenerarExpresionTexto(g, "ELSE", << >>, d))
  <2>1. << >> \in Seq(Lado)
    OBVIOUS
  <2> QED
    BY <1>1, <2>1, TextoTipo
<1>4. ~ ForDesborda(L) => Tipado(ProcesarSentencia(g, PrimerBloqueFor(L)))
  BY PartesDelFor, SentenciaTipo
<1>5. Tipado(Lanzar(g))
  BY LanzarTipo
<1> DEFINE a == GenerarIf(g, LexemasCondicion(L), d)
           b == GenerarExpresionTexto(g, "ELSE", << >>, d)
           c == ProcesarSentencia(g, PrimerBloqueFor(L))
           l == Lanzar(g)
<1>6. /\ Abrir(g, L) \in {a, b, c, l, g}
      /\ Abrir(g, L) = c => ~ ForDesborda(L) \/ Abrir(g, L) \in {a, b, l, g}
  BY DEF Abrir
<1> HIDE DEF a, b, c, l
<1> QED
  BY <1>2, <1>3, <1>4, <1>5, <1>6 DEF a, b, c, l

(* A for that was opened can be closed. *)
Abierta(L) == L[1].texto = Simbolo("for") => ~ ForDesborda(L)

LEMMA AbrirAbierta ==
  ASSUME NEW g, NEW L, Abrir(g, L).caso # "excepcion", Tipado(g)
  PROVE  Abierta(L)
<1> SUFFICES ASSUME L[1].texto = Simbolo("for"), ForDesborda(L) PROVE FALSE
  BY DEF Abierta
<1>1. Abrir(g, L) = Lanzar(g)
  BY DEF Abrir, Simbolo
<1> QED
  BY <1>1, LanzarTipo

LEMMA CerrarTipo ==
  ASSUME NEW g, Tipado(g), NEW L \in Seq(LexemaValor), Abierta(L), NEW m \in Marco
  PROVE  Tipado(Cerrar(g, L, m))
<1> DEFINE a == GenerarExpresionTexto(g, "IF", m.condicion, m.destino)
           b == GenerarIf(g, LexemasCondicion(L), m.destino)
           h == ProcesarSentencia(g, BloqueFinalFor(L))
           c == GenerarIf(h, CondicionFor(L), m.destino)
           f == Cerrar(g, L, m)
<1>1. m.condicion \in Seq(Lado) /\ m.destino \in Nat
  BY DEF Marco
<1>2. Tipado(a)
  BY <1>1, TextoTipo
<1>3. LexemasCondicion(L) \in Seq(LexemaValor) /\ CondicionFor(L) \in Seq(LexemaValor)
  BY CondicionLista
<1>4. Tipado(b)
  BY <1>1, <1>3, IfTipo
<1>5. ASSUME ~ ForDesborda(L) PROVE Tipado(h) /\ Tipado(c)
  <2>1. Tipado(h)
    BY <1>5, PartesDelFor, SentenciaTipo
  <2> HIDE DEF h
  <2> QED
    BY <1>1, <1>3, <2>1, IfTipo
<1>6. f = CASE L[1].texto = Simbolo("while") -> a
            [] L[1].texto = Simbolo("do") -> b
            [] L[1].texto = Simbolo("for") -> IF h.caso = "excepcion" THEN h ELSE c
            [] OTHER -> g
  BY Zenon DEF Cerrar
<1> HIDE DEF a, b, h, c, f
<1>7. Tipado(f)
  BY <1>2, <1>4, <1>5, <1>6 DEF Abierta
<1> QED
  BY <1>7 DEF f
-----------------------------------------------------------------------------
(* The invariant with types: besides the types of the variables, no for    *)
(* with missing parts is pending, so that closing it copies lexemes.       *)

Dados ==
  /\ lexemas \in Seq(LexemaValor)
  /\ Len(bloques) \in Nat /\ DOMAIN bloques = 1..Len(bloques)

Abiertas(p) == \A i \in 2..Len(p) : Abierta(LexemasDe(p[i].bloque))

KInv == IInv /\ TypeOK /\ Dados /\ Abiertas(pila)

LEMMA LexemasDeTipo ==
  ASSUME Dados, NEW b
  PROVE  LexemasDe(b) \in Seq(LexemaValor)
<1> DEFINE S == {i \in DOMAIN lexemas : i - 1 \in bloques[b].lex}
           X == LexemaValor
<1>1. S \in SUBSET DOMAIN lexemas
  OBVIOUS
<1>2. LexemasDe(b) = Partes(lexemas, S)
  BY DEF LexemasDe, Porcion
<1>3. lexemas \in Seq(X)
  BY DEF Dados
<1> HIDE DEF S, X
<1>4. Partes(lexemas, S) \in Seq(X)
  BY <1>1, <1>3, PartesLista
<1> QED
  BY <1>2, <1>4 DEF X

LEMMA InternosTipo ==
  ASSUME Dados, NEW b
  PROVE  BloquesInterno(b) \in Seq(Nat)
<1> DEFINE S == {c \in DOMAIN bloques : bloques[c].padre = b}
           L == [c \in DOMAIN bloques |-> c]
<1>1. BloquesInterno(b) = Partes(L, S)
  BY DEF BloquesInterno
<1>2. L \in Seq(Nat)
  BY DEF Dados
<1> HIDE DEF L, S
<1> QED
  BY <1>1, <1>2, PartesLista

(* The pending calls, one frame at a time. *)
LEMMA PilaTipada ==
  ASSUME KInv
  PROVE  /\ Len(pila) \in Nat /\ Len(pila) > 0
         /\ \A i \in 1..Len(pila) : pila[i] \in Marco
         /\ marco \in Marco /\ marco = pila[Len(pila)]
         /\ Front(pila) \in Seq(Marco) /\ Len(Front(pila)) = Len(pila) - 1
         /\ \A i \in 1..(Len(pila) - 1) : Front(pila)[i] = pila[i]
<1> DEFINE X == Marco
           n == Len(pila) - 1
<1>1. pila \in Seq(X) /\ Len(pila) > 0
  BY DEF KInv, TypeOK, IInv, PilaBien
<1>2. marco = pila[Len(pila)] /\ Front(pila) = SubSeq(pila, 1, n)
  BY DEF marco, Last, Front
<1> HIDE DEF X
<1>3. /\ Len(pila) \in Nat /\ \A i \in 1..Len(pila) : pila[i] \in X
      /\ n \in Nat /\ Len(pila) = n + 1
  BY <1>1
<1>4. marco \in X
  BY <1>1, <1>2, <1>3
<1> HIDE DEF n
<1>5. /\ SubSeq(pila, 1, n) \in Seq(X) /\ Len(SubSeq(pila, 1, n)) = n
      /\ \A i \in 1..n : SubSeq(pila, 1, n)[i] = pila[i]
  BY <1>1, <1>3
<1> QED
  BY <1>1, <1>2, <1>3, <1>4, <1>5 DEF X, n

(* A frame more, or a step of the innermost one. *)
LEMMA ApilarTipada ==
  ASSUME NEW q \in Seq(Marco), NEW f \in Marco, Abiertas(q),
         Len(q) > 0 => Abierta(LexemasDe(f.bloque))
  PROVE  Append(q, f) \in Seq(Marco) /\ Abiertas(Append(q, f))
<1> DEFINE X == Marco
           p == Append(q, f)
<1>1. q \in Seq(X) /\ f \in X
  OBVIOUS
<1> HIDE DEF X
<1>2. /\ p \in Seq(X) /\ Len(q) \in Nat /\ Len(p) = Len(q) + 1 /\ p[Len(q) + 1] = f
      /\ \A i \in 1..Len(q) : p[i] = q[i]
  BY <1>1
<1> HIDE DEF p
<1>3. ASSUME NEW i \in 2..Len(p) PROVE Abierta(LexemasDe(p[i].bloque))
  <2>1. CASE i \in 2..Len(q)
    BY <1>2, <2>1 DEF Abiertas
  <2>2. CASE i = Len(q) + 1
    BY <1>2, <2>2
  <2> QED
    BY <1>2, <2>1, <2>2
<1> QED
  BY <1>2, <1>3 DEF Abiertas, X, p

LEMMA FrenteTipado ==
  ASSUME KInv
  PROVE  Abiertas(Front(pila))
<1>1. \A i \in 2..(Len(pila) - 1) : Abierta(LexemasDe(pila[i].bloque))
  BY PilaTipada DEF KInv, Abiertas
<1>2. \A i \in 2..(Len(pila) - 1) : Front(pila)[i] = pila[i]
  BY PilaTipada
<1> QED
  BY <1>1, <1>2, PilaTipada DEF Abiertas

LEMMA AvanzadoTipado ==
  ASSUME KInv, marco.resto # << >>
  PROVE  /\ Avanzado \in Seq(Marco) /\ Abiertas(Avanzado)
         /\ bloque \in Nat
<1> DEFINE f == [marco EXCEPT !.resto = Tail(@), !.primero = FALSE]
<1>1. marco \in Marco
  BY PilaTipada
<1>2. /\ marco.bloque \in Nat /\ marco.resto \in Seq(Nat)
      /\ marco.destino \in Nat /\ marco.condicion \in Seq(Lado)
  BY <1>1 DEF Marco
<1>3. Tail(marco.resto) \in Seq(Nat) /\ Head(marco.resto) \in Nat
  BY <1>2
<1>4. f = [bloque |-> marco.bloque, resto |-> Tail(marco.resto), primero |-> FALSE,
           destino |-> marco.destino, condicion |-> marco.condicion]
  <2>1. EsMarco(marco)
    BY DEF KInv, IInv, PilaBien, marco
  <2> QED
    BY <2>1, MarcoCambiado
<1>5. f \in Marco /\ f.bloque = marco.bloque
  <2> DEFINE r == Tail(marco.resto)
             c == marco.condicion
  <2> HIDE DEF r, c, f
  <2> QED
    BY <1>2, <1>3, <1>4 DEF Marco, r, c
<1>6. Avanzado = Append(Front(pila), f)
  BY DEF Avanzado
<1> HIDE DEF f
<1>7. Len(Front(pila)) > 0 => Abierta(LexemasDe(f.bloque))
  <2>1. Len(pila) > 1 => Abierta(LexemasDe(pila[Len(pila)].bloque))
    BY PilaTipada DEF KInv, Abiertas
  <2>2. Len(Front(pila)) > 0 => Len(pila) > 1
    BY PilaTipada
  <2> QED
    BY <1>5, <2>1, <2>2, PilaTipada
<1>8. Avanzado \in Seq(Marco) /\ Abiertas(Avanzado)
  BY <1>5, <1>6, <1>7, PilaTipada, FrenteTipado, ApilarTipada
<1> QED
  BY <1>3, <1>8 DEF bloque

LEMMA ActualTipado ==
  ASSUME KInv
  PROVE  Tipado(Actual) /\ Actual.caso = "bien"
BY DEF KInv, IInv, TypeOK, Tipado, Actual

(* A step that returns g with the calls p, or raises and leaves all as it is. *)
LEMMA AplicarTipa ==
  ASSUME KInv, IInv', NEW g, NEW p, Aplicar(g, p), Tipado(g),
         g.caso # "excepcion" => p \in Seq(Marco) /\ Abiertas(p)
  PROVE  KInv'
<1>1. lexemas' = lexemas /\ bloques' = bloques /\ salida' = salida
  BY DEF Aplicar
<1>2. Dados'
  BY <1>1 DEF KInv, Dados
<1>3. \A q : Abiertas(q)' <=> Abiertas(q)
  BY <1>1 DEF Abiertas, LexemasDe
<1>4. CASE g.caso = "excepcion"
  <2>1. triplos' = triplos /\ expresiones' = expresiones /\ pila' = pila
        /\ estado' = "excepcion"
    BY <1>4 DEF Aplicar
  <2>2. Abiertas(pila)'
    BY <1>3, <2>1 DEF KInv, Abiertas
  <2> QED
    BY <1>1, <1>2, <2>1, <2>2 DEF KInv, TypeOK
<1>5. CASE g.caso # "excepcion"
  <2>1. triplos' = g.triplos /\ expresiones' = g.expresiones /\ pila' = p
        /\ estado' = estado
    BY <1>5 DEF Aplicar
  <2>2. Abiertas(pila)'
    BY <1>3, <1>5, <2>1 DEF Abiertas
  <2> QED
    BY <1>1, <1>2, <1>5, <2>1, <2>2 DEF KInv, TypeOK, Tipado
<1> QED
  BY <1>4, <1>5

LEMMA InicioTipado ==
  Init => KInv
<1> SUFFICES ASSUME Init PROVE KInv
  OBVIOUS
<1>1. Dados
  BY EntradasAssumption DEF Init, Dados
<1>2. BloquesInterno(0) \in Seq(Nat)
  BY <1>1, InternosTipo
<1> DEFINE f == [bloque |-> 0, resto |-> BloquesInterno(0), primero |-> FALSE,
                 destino |-> 0, condicion |-> << >>]
<1>3. pila = Append(<< >>, f)
  BY DEF Init, Comienzo
<1>4. f \in Marco
  <2>1. << >> \in Seq(Lado)
    OBVIOUS
  <2> DEFINE r == BloquesInterno(0)
  <2> HIDE DEF r
  <2> QED
    BY <1>2, <2>1 DEF Marco, r
<1> HIDE DEF f
<1> DEFINE q == << >>
<1>5. q \in Seq(Marco) /\ Abiertas(q) /\ ~ (Len(q) > 0) /\ pila = Append(q, f)
  BY <1>3 DEF Abiertas
<1> HIDE DEF q
<1>6. pila \in Seq(Marco) /\ Abiertas(pila)
  BY <1>4, <1>5, ApilarTipada
<1>7. /\ triplos = << >> /\ expresiones = << >> /\ salida = << >>
      /\ estado = "generando"
  BY DEF Init, Comienzo
<1>8. << >> \in Seq(Tripleta) /\ << >> \in Seq(Expresion) /\ << >> \in Seq(Linea)
  OBVIOUS
<1>9. TypeOK
  BY <1>6, <1>7, <1>8 DEF TypeOK
<1> QED
  BY <1>1, <1>6, <1>9, InicioBien DEF KInv
LEMMA LineaDeTipo ==
  ASSUME NEW e \in Expresion
  PROVE  LineaDe(e) \in Linea
<1>1. e.codigo \in Nat /\ e.salto \in Salto
  BY DEF Expresion
<1>2. e.salto.destino \in Nat
  BY <1>1 DEF Salto
<1> QED
  BY <1>1, <1>2 DEF LineaDe, Linea

LEMMA SalidaTipo ==
  ASSUME KInv, Imprimir
  PROVE  salida' \in Seq(Linea)
<1> DEFINE lineas == Partes(expresiones, Imprimibles)
           X == Linea
           Y == Expresion
           s == [i \in DOMAIN lineas |-> LineaDe(lineas[i])]
<1>1. salida' \in {salida, s}
  BY DEF Imprimir
<1>2. Imprimibles \in SUBSET DOMAIN expresiones
  BY DEF Imprimibles
<1>3. salida \in Seq(X) /\ expresiones \in Seq(Y)
  BY DEF KInv, TypeOK
<1>4. \A e \in Y : LineaDe(e) \in X
  BY LineaDeTipo
<1> HIDE DEF X, Y
<1>5. lineas \in Seq(Y)
  BY <1>2, <1>3, PartesLista
<1> HIDE DEF lineas
<1>6. /\ Len(lineas) \in Nat /\ DOMAIN lineas = 1..Len(lineas)
      /\ \A i \in 1..Len(lineas) : lineas[i] \in Y
  BY <1>5
<1>7. [i \in 1..Len(lineas) |-> LineaDe(lineas[i])] \in Seq(X)
  BY <1>4, <1>6
<1>8. s \in Seq(X)
  BY <1>6, <1>7
<1> HIDE DEF s
<1>9. salida' \in Seq(X)
  BY <1>1, <1>3, <1>8
<1> QED
  BY <1>9 DEF X

LEMMA PasoTipado ==
  ASSUME KInv, [Next]_vars
  PROVE  KInv'
<1>0. IInv' /\ Tipado(Actual) /\ Actual.expresiones = expresiones
  BY PasoBien, ActualTipado DEF KInv, Actual
<1>1. CASE Sentencia
  <2> DEFINE g == ProcesarSentencia(Actual, LexemasDe(bloque))
  <2>1. marco.resto # << >> /\ Aplicar(g, Avanzado)
    BY <1>1 DEF Sentencia, PorProcesar
  <2>2. LexemasDe(bloque) \in Seq(LexemaValor)
    BY LexemasDeTipo DEF KInv
  <2>3. Tipado(g)
    BY <1>0, <2>2, SentenciaTipo
  <2> HIDE DEF g
  <2> QED
    BY <1>0, <2>1, <2>3, AvanzadoTipado, AplicarTipa
<1>2. CASE AbrirEstructura
  <2> DEFINE L == LexemasDe(bloque)
             g == Abrir(Actual, L)
             nuevo == [bloque |-> bloque, resto |-> BloquesInterno(bloque),
                       primero |-> TRUE, destino |-> IniciaBucle(Actual, L),
                       condicion |-> Condicion(Actual, LexemasCondicion(L))]
  <2>1. marco.resto # << >> /\ Aplicar(g, Append(Avanzado, nuevo))
    BY <1>2 DEF AbrirEstructura, PorProcesar
  <2>2. L \in Seq(LexemaValor) /\ BloquesInterno(bloque) \in Seq(Nat)
    BY LexemasDeTipo, InternosTipo DEF KInv
  <2>3. Tipado(g)
    BY <1>0, <2>2, AbrirTipo
  <2>4. nuevo \in Marco
    <3>1. IniciaBucle(Actual, L) \in Nat
      <4>1. Siguiente(expresiones) \in Nat
        BY <1>0, SiguienteNatural DEF Tipado, Bien
      <4> QED
        BY <1>0, <4>1 DEF IniciaBucle
    <3>2. Condicion(Actual, LexemasCondicion(L)) \in Seq(Lado)
      BY <1>0, <2>2, CondicionLista, CondicionTipo
    <3>3. bloque \in Nat
      BY <2>1, AvanzadoTipado
    <3> DEFINE c == Condicion(Actual, LexemasCondicion(L))
               r == BloquesInterno(bloque)
               d == IniciaBucle(Actual, L)
    <3> HIDE DEF c, r, d
    <3> QED
      BY <2>2, <3>1, <3>2, <3>3 DEF Marco, c, r, d
  <2>5. nuevo.bloque = bloque
    OBVIOUS
  <2>6. g.caso # "excepcion" => Abierta(LexemasDe(nuevo.bloque))
    BY <1>0, <2>5, AbrirAbierta
  <2> HIDE DEF g, nuevo
  <2>7. g.caso # "excepcion" =>
          Append(Avanzado, nuevo) \in Seq(Marco) /\ Abiertas(Append(Avanzado, nuevo))
    BY <2>1, <2>4, <2>6, AvanzadoTipado, ApilarTipada
  <2> QED
    BY <1>0, <2>1, <2>3, <2>7, AplicarTipa
<1>3. CASE CerrarEstructura
  <2> DEFINE L == LexemasDe(marco.bloque)
             g == Cerrar(Actual, L, marco)
  <2>1. Len(pila) > 1 /\ Aplicar(g, Front(pila))
    BY <1>3 DEF CerrarEstructura
  <2>2. L \in Seq(LexemaValor)
    BY LexemasDeTipo DEF KInv
  <2>3. Abierta(L)
    <3>1. Len(pila) \in 2..Len(pila)
      BY <2>1, PilaTipada
    <3>2. Abierta(LexemasDe(pila[Len(pila)].bloque))
      BY <3>1 DEF KInv, Abiertas
    <3> QED
      BY <3>2, PilaTipada
  <2>4. Tipado(g)
    BY <1>0, <2>2, <2>3, PilaTipada, CerrarTipo
  <2> HIDE DEF g
  <2> QED
    BY <1>0, <2>1, <2>4, PilaTipada, FrenteTipado, AplicarTipa
<1>4. CASE TerminarGeneracion \/ Imprimir \/ UNCHANGED vars
  <2>1. UNCHANGED <<lexemas, bloques, triplos, expresiones, pila>>
    BY <1>4 DEF TerminarGeneracion, Imprimir, vars
  <2>2. Dados' /\ Abiertas(pila)'
    BY <2>1 DEF KInv, Dados, Abiertas, LexemasDe
  <2>3. salida' \in Seq(Linea)
    BY <1>4, SalidaTipo DEF TerminarGeneracion, vars, KInv, TypeOK
  <2>4. estado' \in {"generando", "generado", "listo", "excepcion"}
    BY <1>4 DEF TerminarGeneracion, Imprimir, vars, KInv, TypeOK
  <2> QED
    BY <1>0, <2>1, <2>2, <2>3, <2>4 DEF KInv, TypeOK
<1> QED
  BY <1>1, <1>2, <1>3, <1>4 DEF Next, Terminado

(* Types: whatever the list of lexemes and the list of blocks, every        *)
(* operand, condition and label that the walk records is a lexeme of the   *)
(* list, one of its texts or a number: when it would index outside a       *)
(* sentence it raises before it records anything.                          *)
THEOREM TiposDelGenerador ==
  Spec => []TypeOK
<1>1. KInv => TypeOK
  BY DEF KInv
<1> QED
  BY <1>1, InicioTipado, PasoTipado, PTL DEF Spec
=============================================================================
