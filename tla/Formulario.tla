----------------------------- MODULE Formulario -----------------------------
(***************************************************************************)
(* The window, Form1.cs: the button that clears it, and the handlers of    *)
(* the four that compile.  These run the syntactic analyser, the semantic  *)
(* analyser and the generator one after the other on one list of lexemes.  *)
(* The analysers are objects that live as long as the window.  The         *)
(* syntactic button is the only one that makes its analyser a new symbol   *)
(* table, so the other two parse with the tokens of an earlier text.  The  *)
(* semantic analyser writes into the lexemes, and the code is generated    *)
(* from a second parse of the same list.                                   *)
(*                                                                         *)
(* Nothing catches an exception: the press ends there and the window keeps *)
(* what it showed.  The text in the box is given as the list of lexemes    *)
(* that AnalizadorLexico extracts from it.                                 *)
(***************************************************************************)
EXTENDS Integers, Sequences

CONSTANTS Programas,      \* texts of the box
          Nadie,          \* what a part that shows nothing was made from
          Nulo,           \* null, where a text is expected
          IntMax,         \* largest int
          EscalaMax,      \* digits after the point an inexact quotient keeps
          MaxVacios,      \* bound on the empty blocks recorded at a standstill
          MaxPulsaciones  \* bound on the presses of buttons that compile

ASSUME NadieAssumption == Nadie \notin Programas
ASSUME LimitesAssumption ==
  MaxPulsaciones \in Nat /\ MaxVacios \in Nat /\ IntMax \in Nat /\ EscalaMax \in Nat \ {0}

VARIABLES
  \* The window.
  caja, cuadro, arbol, tabla,
  pulsaciones,  \* presses so far
  \* A press: its button, its phase, its list, what the parser sees of it,
  \* and the blocks of the first parse while the second one goes on.
  boton, fase, lexemas, vista, primeros,
  \* The syntactic analyser.
  numTokens, posCursor, pila, bloques, estadoSint,
  \* The semantic analyser.
  registros, errores, turno, llamadas, funcion, estadoSem,
  \* The generator.
  triplos, expresiones, pilaGen, salida, estadoGen

ventana == <<caja, cuadro, arbol, tabla, pulsaciones>>
sint == <<vista, numTokens, posCursor, pila, bloques, estadoSint>>
sem == <<registros, errores, turno, llamadas, funcion, estadoSem>>
gen == <<triplos, expresiones, pilaGen, salida, estadoGen>>
vars == <<ventana, boton, fase, lexemas, primeros, sint, sem, gen>>

(* The syntactic analyser looks at kinds and at fixed texts only. *)
VistaDe(L) == [i \in DOMAIN L |-> [tipo |-> L[i].tipo, texto |-> L[i].texto.c]]

Sint == INSTANCE AnalizadorSintactico
          WITH lexemas <- vista, estado <- estadoSint,
               Entradas <- {}, TokensPrevios <- {}
Sem == INSTANCE AnalizadorSemantico
         WITH estado <- estadoSem, Entradas <- {}
Gen == INSTANCE GeneradorCodigo
         WITH pila <- pilaGen, estado <- estadoGen, Entradas <- {}

ASSUME NuloAssumption == Nulo \notin Sem!Texto \cup {Sem!TextoError}

(* The empty text, which the box may always be cleared to. *)
Vacio == << >>

ASSUME ProgramasAssumption ==
  Vacio \in Programas /\ \A p \in Programas : Sem!Extraida(p)

Botones == {"lexico", "sintactico", "semantico", "codigo"}
Quieta == fase = "espera"

Resultados == {"nada", "lexemas", "errores sintacticos", "sintaxis correcta",
               "errores semanticos", "semantica correcta", "codigo"}

(* The type invariant; between presses no call is pending. *)
TypeOK ==
  /\ caja \in Programas
  /\ cuadro \in [que : Resultados, de : Programas \cup {Nadie}]
  /\ {arbol, tabla} \subseteq Programas \cup {Nadie}
  /\ pulsaciones \in 0..MaxPulsaciones
  /\ boton \in Botones
  /\ fase \in {"espera", "leyendo", "analizando", "releyendo", "generando"}
  /\ numTokens \in Nat
  /\ Quieta => pila = << >> /\ llamadas = << >> /\ pilaGen = << >>

-----------------------------------------------------------------------------
(* What the handlers hold in locals, and what an analyser makes anew when  *)
(* it is called, when no press is worked on.                               *)
Libre ==
  /\ lexemas = << >> /\ vista = << >> /\ primeros = << >>
  /\ posCursor = 0 /\ pila = << >> /\ bloques = << >> /\ estadoSint = "libre"
  /\ registros = << >> /\ errores = {} /\ turno = 0 /\ llamadas = << >>
  /\ funcion = 0 /\ estadoSem = "libre"
  /\ triplos = << >> /\ expresiones = << >> /\ pilaGen = << >>
  /\ salida = << >> /\ estadoGen = "libre"

Init ==
  /\ caja \in Programas
  /\ cuadro = [que |-> "nada", de |-> Nadie]
  /\ arbol = Nadie /\ tabla = Nadie
  /\ pulsaciones = 0 /\ boton = "lexico" /\ fase = "espera"
  /\ numTokens = 0
  /\ Libre

(* The calls of the analysers: what Comienzo says of each. *)
EmpezarLectura ==
  /\ vista' = VistaDe(lexemas')
  /\ posCursor' = 0
  /\ pila' = <<[stop |-> Len(lexemas'), fin |-> 0, duenno |-> 0]>>
  /\ bloques' = << >>
  /\ estadoSint' = "analizando"

EmpezarAnalisis ==
  /\ registros' = << >> /\ errores' = {} /\ llamadas' = << >> /\ funcion' = 0
  /\ turno' = Sem!SiguienteVariable(0)
  /\ estadoSem' = "recorriendo"

EmpezarCodigo ==
  /\ triplos' = << >> /\ expresiones' = << >> /\ salida' = << >>
  /\ pilaGen' = <<[bloque |-> 0, resto |-> Gen!BloquesInterno(0),
                   primero |-> FALSE, destino |-> 0, condicion |-> << >>]>>
  /\ estadoGen' = "generando"

(* The user changes the text, by typing or by opening a file. *)
Escribir ==
  /\ Quieta /\ pulsaciones < MaxPulsaciones
  /\ caja' \in Programas \ {caja}
  /\ UNCHANGED <<cuadro, arbol, tabla, pulsaciones, boton, fase, lexemas, primeros>>
  /\ UNCHANGED <<sint, sem, gen>>

(* The button that clears the text and the result, but neither the tree    *)
(* nor the symbols.                                                        *)
Borrar ==
  /\ Quieta /\ pulsaciones < MaxPulsaciones
  /\ caja' = Vacio
  /\ cuadro' = [que |-> "nada", de |-> Nadie]
  /\ UNCHANGED <<arbol, tabla, pulsaciones, boton, fase, lexemas, primeros>>
  /\ UNCHANGED <<sint, sem, gen>>

PulsarLexico ==
  /\ Quieta /\ pulsaciones < MaxPulsaciones
  /\ pulsaciones' = pulsaciones + 1
  /\ boton' = "lexico"
  /\ cuadro' = [que |-> "lexemas", de |-> caja]
  /\ UNCHANGED <<caja, arbol, tabla, fase, lexemas, primeros, sint, sem, gen>>

(* The other buttons extract the lexemes and parse them. *)
Pulsar(b) ==
  /\ Quieta /\ pulsaciones < MaxPulsaciones
  /\ pulsaciones' = pulsaciones + 1
  /\ boton' = b /\ fase' = "leyendo" /\ lexemas' = caja
  /\ EmpezarLectura
  /\ numTokens' = IF b = "sintactico" THEN Sint!CantidadTokens' ELSE numTokens
  /\ UNCHANGED <<caja, cuadro, arbol, tabla, primeros, sem, gen>>

(* A step of the parse. *)
Leer ==
  /\ fase \in {"leyendo", "releyendo"} /\ estadoSint = "analizando"
  /\ UNCHANGED lexemas
  /\ Sint!Next
  /\ UNCHANGED <<ventana, boton, fase, primeros, sem, gen>>

MutSinSoltar ==
  /\ fase' = "espera"
  /\ UNCHANGED <<caja, pulsaciones, boton, lexemas, primeros, sint, sem, gen>>

(* The handler returns, and nothing of it is left. *)
Soltar ==
  /\ fase' = "espera"
  /\ lexemas' = << >> /\ vista' = << >> /\ primeros' = << >>
  /\ posCursor' = 0 /\ pila' = << >> /\ bloques' = << >> /\ estadoSint' = "libre"
  /\ registros' = << >> /\ errores' = {} /\ turno' = 0 /\ llamadas' = << >>
  /\ funcion' = 0 /\ estadoSem' = "libre"
  /\ triplos' = << >> /\ expresiones' = << >> /\ pilaGen' = << >>
  /\ salida' = << >> /\ estadoGen' = "libre"
  /\ UNCHANGED <<caja, pulsaciones, boton, numTokens>>

Mostrar(que) == cuadro' = [que |-> que, de |-> caja]

Leido == fase = "leyendo" /\ estadoSint = "listo"
Rechazado == Leido /\ Sint!ExtraerErroresBloques # {}
Aceptado == Leido /\ Sint!ExtraerErroresBloques = {}

MutConArbol ==
  /\ Rechazado
  /\ Mostrar("errores sintacticos")
  /\ tabla' = IF boton = "sintactico" THEN caja ELSE tabla
  /\ UNCHANGED arbol
  /\ Soltar

(* Only the syntactic button shows its symbols also then. *)
MostrarErroresSintax ==
  /\ Rechazado
  /\ Mostrar("errores sintacticos")
  /\ tabla' = IF boton = "sintactico" THEN caja ELSE tabla
  /\ arbol' = Nadie
  /\ Soltar

MostrarSintaxis ==
  /\ Aceptado /\ boton = "sintactico"
  /\ Mostrar("sintaxis correcta")
  /\ arbol' = caja /\ tabla' = caja
  /\ Soltar

(* The tree is drawn before the semantic analysis. *)
ProcesarLexemas ==
  /\ Aceptado /\ boton # "sintactico"
  /\ arbol' = caja
  /\ fase' = "analizando"
  /\ UNCHANGED <<caja, cuadro, tabla, pulsaciones, boton, lexemas, primeros, sint, gen>>
  /\ EmpezarAnalisis

Analizar ==
  /\ fase = "analizando" /\ estadoSem \notin {"listo", "excepcion"}
  /\ Sem!Next
  /\ UNCHANGED <<ventana, boton, fase, primeros, gen>>
  /\ UNCHANGED <<vista, numTokens, posCursor, pila, estadoSint>>

Analizado == fase = "analizando" /\ estadoSem = "listo"

MostrarSemantica ==
  /\ Analizado /\ (boton = "semantico" \/ errores # {})
  /\ Mostrar(IF errores # {} THEN "errores semanticos" ELSE "semantica correcta")
  /\ tabla' = caja
  /\ UNCHANGED arbol
  /\ Soltar

MutSinPos ==
  /\ Analizado /\ boton = "codigo" /\ errores = {}
  /\ fase' = "releyendo" /\ primeros' = bloques
  /\ UNCHANGED <<ventana, boton, lexemas, vista, numTokens, posCursor, sem, gen>>
  /\ pila' = <<[stop |-> Len(lexemas), fin |-> 0, duenno |-> 0]>>
  /\ bloques' = << >> /\ estadoSint' = "analizando"

(* The same list is parsed again, from position 0. *)
Releer ==
  /\ Analizado /\ boton = "codigo" /\ errores = {}
  /\ fase' = "releyendo" /\ primeros' = bloques
  /\ UNCHANGED <<ventana, boton, lexemas, numTokens, sem, gen>>
  /\ EmpezarLectura

GenerarCodigo ==
  /\ fase = "releyendo" /\ estadoSint = "listo"
  /\ fase' = "generando"
  /\ UNCHANGED <<ventana, boton, lexemas, primeros, sint, sem>>
  /\ EmpezarCodigo

Generar ==
  /\ fase = "generando" /\ estadoGen \notin {"listo", "excepcion"}
  /\ Gen!Next
  /\ UNCHANGED <<ventana, boton, fase, primeros, sem>>
  /\ UNCHANGED <<vista, numTokens, posCursor, pila, estadoSint>>

MostrarCodigo ==
  /\ fase = "generando" /\ estadoGen = "listo"
  /\ Mostrar("codigo")
  /\ tabla' = caja
  /\ UNCHANGED arbol
  /\ Soltar

(* An exception of any phase ends the press. *)
Fallar ==
  /\ "excepcion" \in {estadoSint, estadoSem, estadoGen}
  /\ UNCHANGED <<cuadro, arbol, tabla>>
  /\ Soltar

Manejar ==
  \/ Leer \/ MostrarErroresSintax \/ MostrarSintaxis \/ ProcesarLexemas
  \/ Analizar \/ MostrarSemantica \/ Releer \/ GenerarCodigo \/ Generar
  \/ MostrarCodigo \/ Fallar

Next ==
  \/ Escribir \/ Borrar \/ PulsarLexico \/ (\E b \in Botones \ {"lexico"} : Pulsar(b))
  \/ Manejar

(* A handler runs on until it returns or raises; the user may stop at any  *)
(* time.                                                                   *)
Spec == Init /\ [][Next]_vars /\ WF_vars(Manejar)

-----------------------------------------------------------------------------
(* However the presses of buttons follow each other and wherever they      *)
(* raise, the window does what Ventana promises: a result is shown with    *)
(* the tree and the symbols of its own text, and what a press that raised  *)
(* leaves behind is at most its tree.                                      *)
V == INSTANCE Ventana WITH ocupada <- fase # "espera"
EsUnaVentana == V!Spec

(* What the semantic analysis writes into the lexemes does not change how  *)
(* they are parsed: the second parse raises nothing, does not stand still, *)
(* and gives the generator the blocks that the first one gave the semantic *)
(* analyser.  All of this only if it writes over no lexeme that the parser *)
(* knows by its text, a brace or a semicolon: that may happen in an error  *)
(* that is not reported, and in the header of a function, which no rule of *)
(* the parser looks into.                                                  *)
SegundaLecturaIgual ==
  (\A i \in DOMAIN lexemas :
     lexemas[i] # caja[i] => caja[i].texto.c \notin Sint!TextosLeidos) =>
    /\ fase = "releyendo" =>
         /\ estadoSint # "excepcion"
         /\ Len(bloques) <= Len(primeros)
         /\ Sint!EnBucle => Sint!Manejador(posCursor) # "ninguno"
    /\ fase = "generando" => bloques = primeros

(* Position i is one of the three after an operator that is followed, two  *)
(* lexemes later, by * or /, or by a variable, which may hold such a text. *)
EnProducto(i) ==
  \E k \in (i - 3)..(i - 1) \cap DOMAIN caja :
    /\ caja[k].tipo = "OperadorAritmetico"
    /\ caja[k + 2].texto \in {Sem!Simbolo("*"), Sem!Simbolo("/")} \/ caja[k + 2].tipo = "Variable"

(* The code is that of the text in the box, except where an operator is    *)
(* followed by a product: there the semantic analysis has put the value of *)
(* the product and "+ 0" in place of its operands and its operator.  The   *)
(* kinds are those of the text everywhere, and so are the variables.       *)
CodigoDelTexto ==
  fase = "generando" =>
    /\ DOMAIN lexemas = DOMAIN caja
    /\ \A i \in DOMAIN lexemas :
         /\ lexemas[i].tipo = caja[i].tipo
         /\ lexemas[i] # caja[i] => EnProducto(i) /\ caja[i].tipo # "Variable"

(* The parser stands for ever on a lexeme that starts no construct. *)
Parada ==
  /\ fase = "leyendo" /\ Sint!EnBucle
  /\ ~ Sint!IniciaConstruccion(vista[posCursor + 1])

(* The window answers again after every press, unless the parser stands    *)
(* still in it.                                                            *)
PulsacionTermina == (fase # "espera") ~> (Quieta \/ Parada)
=============================================================================
