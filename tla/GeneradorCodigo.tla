--------------------------- MODULE GeneradorCodigo --------------------------
(***************************************************************************)
(* The generator of intermediate code, GeneradorCodigo.cs.  GenerarCodigo  *)
(* walks over the blocks of the parse, into those that are structures; for *)
(* each it adds triplets (a declared variable, or a product or sum kept    *)
(* for later) and expressions, the numbered lines of the code.  Then       *)
(* GenerarTextoResult prints the lines.  The pending calls of ProcesarWhile *)
(* and the other structures are the stack pila, and a step processes one   *)
(* sentence or the part of a structure before or after its inner blocks.   *)
(*                                                                         *)
(* A triplet is referred to by its code, and 0 stands for null.  Nothing   *)
(* catches an exception.                                                   *)
(***************************************************************************)
EXTENDS Lexemas, Textos, FiniteSetsExt, SequencesExt

CONSTANTS Nulo,      \* null, where a text is expected
          Entradas   \* pairs of a list of lexemes and its blocks

ASSUME NuloAssumption == Nulo \notin Texto

VARIABLES lexemas,     \* the list that was parsed, never changed
          bloques,     \* the blocks of the parse, as AnalizadorSintactico has them
          triplos,     \* Triplos
          expresiones, \* ExpresionTripletas
          pila,        \* pending calls over inner blocks, the outermost first
          salida,      \* the lines printed
          estado       \* "generando", "generado", "listo" or "excepcion"

vars == <<lexemas, bloques, triplos, expresiones, pila, salida, estado>>

LexemaValor == [tipo : TipoElemento, texto : Texto]

ASSUME EntradasAssumption ==
  \A e \in Entradas :
    /\ e.lexemas \in Seq(LexemaValor)
    /\ Len(e.bloques) \in Nat /\ DOMAIN e.bloques = 1..Len(e.bloques)

(* Tripleta.cs; its block is only read by a method that nothing calls. *)
Tripleta == [codigo : Nat, operador : Texto \cup {Nulo},
             primero : LexemaValor, segundo : LexemaValor]

(* A side of an expression, or a part of a condition: a triplet, or a text, *)
(* or neither when the triplet looked up does not exist.                   *)
Lado == [tripleta : Nat, texto : Texto \cup {Nulo}]
SinLado == [tripleta |-> 0, texto |-> Nulo]

(* TextoMandatorio: IF or ELSE, a condition, and the line to go to. *)
Salto == [palabra : {"IF", "ELSE", "ninguna"}, condicion : Seq(Lado),
          destino : Nat]
SinSalto == [palabra |-> "ninguna", condicion |-> << >>, destino |-> 0]

(* ExpresionTripleta.cs. *)
Expresion == [codigo : Nat, inicial : Nat, operador : Texto \cup {Nulo},
              izq : Lado, der : Lado, salto : Salto]

(* A pending call: the structure (0 for GenerarCodigo itself), its inner   *)
(* blocks still to be processed, whether none has been yet, iniciaBucle    *)
(* and the condition as it was read at the start.                          *)
Marco == [bloque : Nat, resto : Seq(Nat), primero : BOOLEAN, destino : Nat,
          condicion : Seq(Lado)]

(* A line printed: its label and the label it jumps to, 0 for none.  Of    *)
(* the rest of the line only the order of its parts would be left to tell. *)
Linea == [etiqueta : Nat, destino : Nat]

(* The type invariant. *)
TypeOK ==
  /\ triplos \in Seq(Tripleta)
  /\ expresiones \in Seq(Expresion)
  /\ pila \in Seq(Marco)
  /\ salida \in Seq(Linea)
  /\ estado \in {"generando", "generado", "listo", "excepcion"}

-----------------------------------------------------------------------------
(* What a part of the walk adds, or the exception it raises. *)
Actual == [caso |-> "bien", triplos |-> triplos, expresiones |-> expresiones]
Lanzar(g) == [g EXCEPT !.caso = "excepcion"]

(* Here and below, a definition called Mut... is the next one with a        *)
(* plausible mistake; the properties must reject it.                       *)
MutSinIncremento(R) == IF R = << >> THEN 1 ELSE Max({R[i].codigo : i \in DOMAIN R})

(* The largest code of a list plus one. *)
Siguiente(R) == IF R = << >> THEN 1 ELSE Max({R[i].codigo : i \in DOMAIN R}) + 1

GenerarTripleta(g, operador, primero, segundo) ==
  [g EXCEPT !.triplos =
     Append(@, [codigo |-> Siguiente(@), operador |-> operador,
                primero |-> primero, segundo |-> segundo])]

UltimaTripleta(g) == Last(g.triplos).codigo

GenerarExpresion(g, inicial, operador, izq, der) ==
  [g EXCEPT !.expresiones =
     Append(@, [codigo |-> Siguiente(@), inicial |-> inicial,
                operador |-> operador, izq |-> izq, der |-> der,
                salto |-> SinSalto])]

GenerarExpresionTexto(g, palabra, condicion, destino) ==
  [g EXCEPT !.expresiones =
     Append(@, [codigo |-> Siguiente(@), inicial |-> 0, operador |-> Nulo,
                izq |-> SinLado, der |-> SinLado,
                salto |-> [palabra |-> palabra, condicion |-> condicion,
                           destino |-> destino]])]

MutMenosUno(g, nombre) ==
  LET con == {i \in DOMAIN g.triplos : g.triplos[i].segundo.texto = nombre}
  IN  IF con = {} THEN -1 ELSE g.triplos[Min(con)].codigo

MutBuscaUltima(g, nombre) ==
  LET con == {i \in DOMAIN g.triplos : g.triplos[i].segundo.texto = nombre}
  IN  IF con = {} THEN 0 ELSE g.triplos[Max(con)].codigo

(* The first triplet whose second operand has that text. *)
BuscarTripletaPorNombre(g, nombre) ==
  LET con == {i \in DOMAIN g.triplos : g.triplos[i].segundo.texto = nombre}
  IN  IF con = {} THEN 0 ELSE g.triplos[Min(con)].codigo

LadoTripleta(t) == [tripleta |-> t, texto |-> Nulo]
LadoTexto(t) == [tripleta |-> 0, texto |-> t]

LadoDe(g, x) ==
  IF x.tipo = "Variable" THEN LadoTripleta(BuscarTripletaPorNombre(g, x.texto))
  ELSE LadoTexto(x.texto)

-----------------------------------------------------------------------------
(* Sentences: L are the lexemes of a block, counted from 1. *)

Simples == {"Variable", "Numero", "Cadena"}

Operadores(L) == {i \in DOMAIN L : L[i].tipo = "OperadorAritmetico"}

EsProducto(t) == t \in {Simbolo("*"), Simbolo("/")}

(* The tests of ProcesarBloque read a lexeme that is not there. *)
Desborda(L) ==
  \/ L = << >>
  \/ L[1].tipo = "Variable" /\ Len(L) = 1
  \/ /\ L[1].tipo = "TipoDato"
     /\ \/ Len(L) = 1
        \/ /\ L[2].tipo = "Variable"
           /\ \/ Len(L) = 2
              \/ /\ L[3].tipo = "OperadorAsignacion"
                 /\ Len(L) = 3 \/ (Len(L) = 4 /\ L[4].tipo \in Simples)

MutSoloAsignada(L) ==
  /\ L[1].tipo = "TipoDato" /\ L[2].tipo = "Variable"
  /\ L[3].tipo = "OperadorAsignacion"
  /\ L[4].tipo \in Simples /\ L[5].tipo = "OperadorTerminador"

(* int x ; or int x = y ; *)
DeclaraSimple(L) ==
  /\ L[1].tipo = "TipoDato" /\ L[2].tipo = "Variable"
  /\ \/ L[3].tipo = "OperadorTerminador"
     \/ /\ L[3].tipo = "OperadorAsignacion"
        /\ L[4].tipo \in Simples /\ L[5].tipo = "OperadorTerminador"

ProcesarDeclaracion(g, L) ==
  LET h == GenerarTripleta(g, Nulo, L[1], L[2])
  IN  GenerarExpresion(h, UltimaTripleta(h), Nulo, SinLado, SinLado)

(* One operator, at k. *)
ProcesarUnOperador(g, L, inicial, k) ==
  IF {k - 1, k + 1} \subseteq DOMAIN L
    THEN GenerarExpresion(g, inicial, L[k].texto,
                          LadoDe(g, L[k - 1]), LadoDe(g, L[k + 1]))
    ELSE Lanzar(g)

(* A triplet of its own for the operation at k, with its line. *)
Parcial(g, L, k) ==
  LET h == GenerarTripleta(g, L[k].texto, L[k - 1], L[k + 1])
  IN  GenerarExpresion(h, UltimaTripleta(h), Nulo, SinLado, SinLado)

ProductoDespues(L, k) ==
  /\ \E i \in DOMAIN L : EsProducto(L[i].texto)
  /\ ~ EsProducto(L[k].texto)

(* Two operators, the first at k and the second taken to be at k + 2.  If  *)
(* only the second is * or /, it is done first; then, when the operand     *)
(* before k is a variable, the one after k + 2 is looked up in its place.  *)
ProcesarDosOperadores(g, L, inicial, k) ==
  IF ~ {k - 1, k + 3} \subseteq DOMAIN L THEN Lanzar(g)
  ELSE IF ProductoDespues(L, k)
    THEN LET h == Parcial(g, L, k + 2)
             izq == IF L[k - 1].tipo = "Variable"
                      THEN LadoTripleta(BuscarTripletaPorNombre(h, L[k + 3].texto))
                      ELSE LadoTexto(L[k - 1].texto)
         IN  GenerarExpresion(h, inicial, L[k].texto, izq,
                              LadoTripleta(UltimaTripleta(h)))
  ELSE LET h == Parcial(g, L, k)
       IN  GenerarExpresion(h, inicial, L[k + 2].texto,
                            LadoTripleta(UltimaTripleta(h)), LadoDe(h, L[k + 3]))

(* Three operators or more leave only the declaration. *)
ProcesarOperacion(g, L) ==
  LET declara == L[1].tipo = "TipoDato"
      h == IF declara THEN ProcesarDeclaracion(g, L) ELSE g
      inicial == IF declara THEN UltimaTripleta(h)
                 ELSE BuscarTripletaPorNombre(g, L[1].texto)
      k == Min(Operadores(L))
  IN  CASE Cardinality(Operadores(L)) = 1 -> ProcesarUnOperador(h, L, inicial, k)
        [] Cardinality(Operadores(L)) = 2 -> ProcesarDosOperadores(h, L, inicial, k)
        [] OTHER -> h

(* x ++ or x --, by the arithmetic operator with the same sign. *)
ProcesarIncremento(g, L, signo) ==
  LET t == BuscarTripletaPorNombre(g, L[1].texto)
  IN  GenerarExpresion(g, t, Simbolo(signo), LadoTripleta(t),
                       LadoTexto(Numeral(1, 0)))

(* A sentence of any other form adds nothing. *)
ProcesarSentencia(g, L) ==
  IF Desborda(L) THEN Lanzar(g)
  ELSE IF DeclaraSimple(L) THEN ProcesarDeclaracion(g, L)
  ELSE IF Operadores(L) # {} THEN ProcesarOperacion(g, L)
  ELSE IF L[1].tipo = "Variable" /\ L[2].tipo = "OperadorIncremental"
    THEN ProcesarIncremento(g, L, "+")
  ELSE IF L[1].tipo = "Variable" /\ L[2].tipo = "OperadorDecremental"
    THEN ProcesarIncremento(g, L, "-")
  ELSE g

-----------------------------------------------------------------------------
(* Structures *)

(* The elements of a list at the positions S, in order. *)
Partes(lista, S) ==
  LET hasta[k \in 0..Len(lista)] ==
        IF k = 0 THEN << >>
        ELSE IF k \in S THEN Append(hasta[k - 1], lista[k])
        ELSE hasta[k - 1]
  IN  hasta[Len(lista)]

(* The lexemes of a list at the indices I, counted from 0. *)
Porcion(lista, I) == Partes(lista, {i \in DOMAIN lista : i - 1 \in I})

(* Lexemas of block b, and its BloquesInterno. *)
LexemasDe(b) == Porcion(lexemas, bloques[b].lex)

BloquesInterno(b) ==
  Partes([c \in DOMAIN bloques |-> c], {c \in DOMAIN bloques : bloques[c].padre = b})

(* FindIndex and FindLastIndex of a text, counted from 0. *)
IndiceDe(L, t) == SelectInSeq(L, LAMBDA x : x.texto = Simbolo(t)) - 1
UltimoIndiceDe(L, t) == SelectLastInSeq(L, LAMBDA x : x.texto = Simbolo(t)) - 1

(* The lexemes strictly between two positions counted from 0. *)
Entre(L, i, j) == SubSeq(L, i + 2, j)

LexemasCondicion(L) == Entre(L, IndiceDe(L, "("), IndiceDe(L, ")"))

(* What GenerarTextoCondicion returns, and when it raises instead. *)
Condicion(g, C) == [i \in DOMAIN C |-> LadoDe(g, C[i])]
CondicionRevienta(g, C) ==
  \E i \in DOMAIN C : C[i].tipo = "Variable"
                        /\ BuscarTripletaPorNombre(g, C[i].texto) = 0

(* The line that jumps to destino under the condition C. *)
GenerarIf(g, C, destino) ==
  IF CondicionRevienta(g, C) THEN Lanzar(g)
  ELSE GenerarExpresionTexto(g, "IF", Condicion(g, C), destino)

(* The parts of a for between its parentheses; the loops that copy them    *)
(* index the list of what is between the parentheses.                      *)
PrimerBloqueFor(L) ==
  SubSeq(LexemasCondicion(L), 1, IndiceDe(L, ";") - 1)
BloqueFinalFor(L) ==
  SubSeq(LexemasCondicion(L), UltimoIndiceDe(L, ";"), IndiceDe(L, ")") - 2)
CondicionFor(L) == Entre(L, IndiceDe(L, ";"), UltimoIndiceDe(L, ";"))

ForDesborda(L) ==
  LET c == Len(LexemasCondicion(L))
      primero == 1..(IndiceDe(L, ";") - 1)
      final == UltimoIndiceDe(L, ";")..(IndiceDe(L, ")") - 2)
  IN  ~ (primero \cup final) \subseteq 1..c

(* The part of a structure before its inner blocks. *)
Abrir(g, L) ==
  CASE L[1].texto \in {Simbolo("while"), Simbolo("if")} ->
         GenerarIf(g, LexemasCondicion(L), Siguiente(g.expresiones) + 1)
    [] L[1].texto = Simbolo("else") ->
         GenerarExpresionTexto(g, "ELSE", << >>, Siguiente(g.expresiones) + 1)
    [] L[1].texto = Simbolo("for") ->
         IF ForDesborda(L) THEN Lanzar(g)
         ELSE ProcesarSentencia(g, PrimerBloqueFor(L))
    [] OTHER -> g

MutDestinoAqui(g, L) == Siguiente(g.expresiones)

(* iniciaBucle, from the code before Abrir. *)
IniciaBucle(g, L) ==
  IF L[1].texto = Simbolo("do") THEN Siguiente(g.expresiones)
  ELSE Siguiente(g.expresiones) + 1

(* The part after them; while repeats its first line as it was. *)
Cerrar(g, L, m) ==
  CASE L[1].texto = Simbolo("while") ->
         GenerarExpresionTexto(g, "IF", m.condicion, m.destino)
    [] L[1].texto = Simbolo("do") -> GenerarIf(g, LexemasCondicion(L), m.destino)
    [] L[1].texto = Simbolo("for") ->
         LET h == ProcesarSentencia(g, BloqueFinalFor(L))
         IN  IF h.caso = "excepcion" THEN h
             ELSE GenerarIf(h, CondicionFor(L), m.destino)
    [] OTHER -> g

-----------------------------------------------------------------------------
(* GenerarCodigo *)

Comienzo ==
  /\ triplos = << >> /\ expresiones = << >> /\ salida = << >>
  /\ pila = <<[bloque |-> 0, resto |-> BloquesInterno(0), primero |-> FALSE,
               destino |-> 0, condicion |-> << >>]>>
  /\ estado = "generando"

Init ==
  /\ \E e \in Entradas : lexemas = e.lexemas /\ bloques = e.bloques
  /\ Comienzo

marco == Last(pila)
PorProcesar == estado = "generando" /\ marco.resto # << >>
Recorrido == estado = "generando" /\ marco.resto = << >>

bloque == Head(marco.resto)

(* The pending call once its next inner block is taken. *)
Avanzado == Append(Front(pila), [marco EXCEPT !.resto = Tail(@), !.primero = FALSE])

(* The step adds what g holds and leaves the calls p, unless it raises.    *)
Aplicar(g, p) ==
  /\ IF g.caso = "excepcion"
       THEN /\ estado' = "excepcion"
            /\ UNCHANGED <<triplos, expresiones, pila>>
       ELSE /\ triplos' = g.triplos
            /\ expresiones' = g.expresiones
            /\ pila' = p
            /\ UNCHANGED estado
  /\ UNCHANGED <<lexemas, bloques, salida>>

(* A sentence, or a function: its header only. *)
Sentencia ==
  /\ PorProcesar /\ bloques[bloque].tipo # "Estructura"
  /\ \E L \in {LexemasDe(bloque)} : Aplicar(ProcesarSentencia(Actual, L), Avanzado)

AbrirEstructura ==
  /\ PorProcesar /\ bloques[bloque].tipo = "Estructura"
  /\ \E L \in {LexemasDe(bloque)} :
       LET g == Abrir(Actual, L)
           nuevo == [bloque |-> bloque, resto |-> BloquesInterno(bloque),
                     primero |-> TRUE, destino |-> IniciaBucle(Actual, L),
                     condicion |-> Condicion(Actual, LexemasCondicion(L))]
       IN  Aplicar(g, Append(Avanzado, nuevo))

CerrarEstructura ==
  /\ Recorrido /\ Len(pila) > 1
  /\ \E L \in {LexemasDe(marco.bloque)} : Aplicar(Cerrar(Actual, L, marco), Front(pila))

TerminarGeneracion ==
  /\ Recorrido /\ Len(pila) = 1
  /\ estado' = "generado"
  /\ UNCHANGED <<lexemas, bloques, triplos, expresiones, pila, salida>>

-----------------------------------------------------------------------------
(* GenerarTextoResult *)

TripletaDe(codigo) ==
  triplos[Min({i \in DOMAIN triplos : triplos[i].codigo = codigo})]

EsSalto(e) == e.salto # SinSalto
EsParcial(e) ==
  ~ EsSalto(e) /\ e.operador = Nulo /\ TripletaDe(e.inicial).operador # Nulo
Presente(lado) == lado # SinLado

(* An expression with an operator and without one of its sides is skipped. *)
Imprimible(e) ==
  \/ EsSalto(e)
  \/ e.operador = Nulo
  \/ Presente(e.izq) /\ Presente(e.der)

Imprimibles == {i \in DOMAIN expresiones : Imprimible(expresiones[i])}

(* A null is asked for its code: the variable assigned to, or an operand   *)
(* of a partial operation.                                                 *)
ImprimirRevienta(e) ==
  \/ ~ EsSalto(e) /\ Imprimible(e) /\ e.inicial = 0
  \/ /\ EsParcial(e)
     /\ CondicionRevienta(Actual, <<TripletaDe(e.inicial).primero,
                                    TripletaDe(e.inicial).segundo>>)

LineaDe(e) ==
  IF EsSalto(e) THEN [etiqueta |-> 0, destino |-> e.salto.destino]
  ELSE [etiqueta |-> e.codigo, destino |-> 0]

Imprimir ==
  /\ estado = "generado"
  /\ IF \E i \in DOMAIN expresiones : ImprimirRevienta(expresiones[i])
       THEN estado' = "excepcion" /\ UNCHANGED salida
       ELSE LET lineas == Partes(expresiones, Imprimibles)
            IN  /\ estado' = "listo"
                /\ salida' = [i \in DOMAIN lineas |-> LineaDe(lineas[i])]
  /\ UNCHANGED <<lexemas, bloques, triplos, expresiones, pila>>

Terminado == estado \in {"listo", "excepcion"} /\ UNCHANGED vars

Next ==
  \/ Sentencia \/ AbrirEstructura \/ CerrarEstructura
  \/ TerminarGeneracion \/ Imprimir \/ Terminado

(* A single synchronous call on the user-interface thread: it runs on      *)
(* until it returns or raises.                                             *)
Spec == Init /\ [][Next]_vars /\ WF_vars(Next)
-----------------------------------------------------------------------------
(* The codes of triplets and lines are their positions: "T3" and "L3" in   *)
(* the code name one triplet and one line.                                 *)
CodigosDensos ==
  /\ \A i \in DOMAIN triplos : triplos[i].codigo = i
  /\ \A i \in DOMAIN expresiones : expresiones[i].codigo = i

(* A structure, by its lexemes: any but a for whose first part is not a    *)
(* declaration with at most a single value.  Such a part adds no line, or  *)
(* two, and iniciaBucle is computed as if it added one.                    *)
EsRegular(L) ==
  \/ L[1].texto \in {Simbolo("while"), Simbolo("if"), Simbolo("else"), Simbolo("do")}
  \/ L[1].texto = Simbolo("for") /\ DeclaraSimple(PrimerBloqueFor(L))

(* The label that the jumps of a structure will name, computed before any  *)
(* of its body is, is that of the first line of its body, provided that    *)
(* the body starts with a block that adds a line.                          *)
SaltoAlCuerpo ==
  [][PorProcesar /\ marco.primero /\ Len(expresiones') > Len(expresiones)
       /\ EsRegular(LexemasDe(marco.bloque))
     => expresiones'[Len(expresiones) + 1].codigo = marco.destino]_vars

-----------------------------------------------------------------------------
(* What an expression of the code stands for, from the triplets T: the     *)
(* text of a variable or a literal, or an operation on two of them.        *)
DeTripleta(T, codigo) ==
  LET t == T[codigo]
  IN  IF t.operador = Nulo THEN <<t.segundo.texto>>
      ELSE <<t.primero.texto, t.operador, t.segundo.texto>>

DeLado(T, lado) ==
  IF lado.tripleta = 0 THEN <<lado.texto>> ELSE DeTripleta(T, lado.tripleta)

CuatroOperadores == {Simbolo("+"), Simbolo("-"), Simbolo("*"), Simbolo("/")}

(* Where the value of an assignment starts: x = or int x = *)
Valor(L) == SelectInSeq(L, LAMBDA x : x.tipo = "OperadorAsignacion") + 1

(* ... = a op b ;  or  ... = a op b op c ;  *)
OperacionPlana(L) ==
  LET v == Valor(L)
  IN  /\ v \in {3, 4} /\ Len(L) \in {v + 3, v + 5}
      /\ \A i \in {v, v + 2, v + 4} \cap 1..(Len(L) - 1) :
           L[i].tipo \in {"Variable", "Numero"}
      /\ \A i \in {v + 1, v + 3} \cap 1..(Len(L) - 1) :
           L[i].texto \in CuatroOperadores

(* The operation that the sentence writes, with precedence. *)
Arbol(L) ==
  LET v == Valor(L)
      t(i) == L[i].texto
  IN  IF Len(L) = v + 3 THEN <<<<t(v)>>, t(v + 1), <<t(v + 2)>>>>
      ELSE IF EsProducto(t(v + 3)) /\ ~ EsProducto(t(v + 1))
        THEN <<<<t(v)>>, t(v + 1), <<t(v + 2), t(v + 3), t(v + 4)>>>>
      ELSE <<<<t(v), t(v + 1), t(v + 2)>>, t(v + 3), <<t(v + 4)>>>>

(* a + b * c with a variable a other than c. *)
ProductoTrasVariable(L) ==
  LET v == Valor(L)
  IN  /\ Len(L) = v + 5
      /\ EsProducto(L[v + 3].texto) /\ ~ EsProducto(L[v + 1].texto)
      /\ L[v].tipo = "Variable" /\ L[v].texto # L[v + 4].texto

(* The last line added stands for the operation of L, done into the        *)
(* variable of L.                                                          *)
Fiel(L, T, e) ==
  /\ e.inicial # 0 /\ DeTripleta(T, e.inicial) = <<L[Valor(L) - 2].texto>>
  /\ <<DeLado(T, e.izq), e.operador, DeLado(T, e.der)>> = Arbol(L)

-----------------------------------------------------------------------------
(* Texts in which every variable has a triplet before it is used.          *)

FueraDeFuncion(i) ==
  ~ \E b \in DOMAIN bloques :
      /\ bloques[b].tipo = "Funcion"
      /\ i \in bloques[b].incia..bloques[b].finaliza

TipoEn(i) == lexemas[i + 1].tipo
TextoEn(i) == lexemas[i + 1].texto

(* The lexemes from p up to the next semicolon, or the last one. *)
Hasta(p) ==
  LET fin == Min({j \in p..(Len(lexemas) - 1) :
                    TextoEn(j) = Simbolo(";") \/ j = Len(lexemas) - 1})
  IN  SubSeq(lexemas, p + 1, fin + 1)

(* The declaration at p gives its variable a triplet. *)
DeclaraConTripleta(p) ==
  /\ TipoEn(p) = "TipoDato" /\ TipoEn(p + 1) = "Variable"
  /\ LET L == Hasta(p)
     IN  \/ Len(L) = 3
         \/ Len(L) = 5 /\ L[4].tipo \in Simples
         \/ Operadores(L) # {}

TodoConTripleta ==
  LET fuera == {i \in 0..(Len(lexemas) - 1) : FueraDeFuncion(i)}
      declaran == {p \in fuera : DeclaraConTripleta(p)}
  IN  \A i \in fuera :
        /\ TextoEn(i) # Simbolo("return")
        /\ TipoEn(i) = "Variable" =>
             \E p \in declaran : p < i /\ TextoEn(p + 1) = TextoEn(i)

(* The code of an assignment of one or two operations stands for what the  *)
(* sentence writes, and its operands are the triplets of the declarations, *)
(* never a partial result that happens to end in the same name.            *)
ExpresionFiel ==
  [][PorProcesar /\ estado' = "generando" =>
       LET L == LexemasDe(bloque)
       IN  OperacionPlana(L) /\ ~ ProductoTrasVariable(L) =>
             \/ Fiel(L, triplos', Last(expresiones'))
             \/ ~ TodoConTripleta]_vars

(* When every variable has a triplet before it is used, and nothing is     *)
(* returned outside a function, no null is ever read: neither the walk nor *)
(* the printing raises.                                                    *)
SinNulos ==
  estado = "excepcion" =>
    \/ \E b \in DOMAIN bloques : bloques[b].error
    \/ ~ TodoConTripleta

-----------------------------------------------------------------------------
(* "Primero debemos setear donde es que inicia nuestro bloque, en que L",  *)
(* at lines 289, 315 and 341: the jump to a block goes to a line of the    *)
(* printed code that has its label.                                        *)
SaltoAEtiqueta ==
  estado = "listo" =>
    \A i \in DOMAIN salida : salida[i].destino # 0 =>
      \E j \in DOMAIN salida : salida[j].etiqueta = salida[i].destino

(* "A partir de aca falta leer el segundo operando y su variable", at line *)
(* 188: also after a product the other operand of the sum is read.         *)
OperandoLeido ==
  [][PorProcesar /\ estado' = "generando" =>
       LET L == LexemasDe(bloque)
       IN  OperacionPlana(L) =>
             \/ Fiel(L, triplos', Last(expresiones'))
             \/ ~ TodoConTripleta]_vars

(* "Verifico si es una asignación simple con declaración", at line 50: a   *)
(* declaration with a single value gives its variable a triplet.           *)
DeclaracionConTripleta ==
  [][PorProcesar /\ estado' = "generando" =>
       LET L == LexemasDe(bloque)
       IN  L[1].tipo = "TipoDato" /\ Len(L) = 5 /\ L[3].texto = Simbolo("=")
             => \E i \in DOMAIN triplos' : triplos'[i].segundo = L[2]]_vars
=============================================================================
