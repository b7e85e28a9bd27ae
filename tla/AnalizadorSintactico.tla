------------------------ MODULE AnalizadorSintactico ------------------------
(***************************************************************************)
(* The syntactic analyser, AnalizadorSintactico.cs.  One call of           *)
(* RealizarAnalisisSintax from a button handler is a recursive descent:    *)
(* RealizarAnalisisSintax loops over ObtenerSiguienteBloque, which calls a *)
(* handler, which calls RealizarAnalisisSintax again for a body between    *)
(* braces.  Here the pending calls of RealizarAnalisisSintax are the stack *)
(* pila, and a step runs one handler up to the point where it returns or   *)
(* makes the recursive call; the rest of the handler, after that call      *)
(* returns, is the step that closes the block.                             *)
(*                                                                         *)
(* Positions count lexemes from 0, as in the code.  A handler that indexes *)
(* past the end of the list raises ArgumentOutOfRangeException: nothing    *)
(* catches it, so the whole analysis ends without a result.                *)
(***************************************************************************)
EXTENDS Lexemas, FiniteSets, FiniteSetsExt

CONSTANTS Entradas,      \* lists of lexemes that may be analysed
          TokensPrevios, \* sizes a symbol table of an earlier text may have
          MaxVacios      \* bound on the empty blocks recorded at a standstill

ASSUME EntradasAssumption == Entradas \subseteq Seq(Lexema)
ASSUME TokensPreviosAssumption == TokensPrevios \subseteq Nat
ASSUME MaxVaciosAssumption == MaxVacios \in Nat

VARIABLES lexemas,   \* the list under analysis, never changed
          numTokens, \* TablaSimbolos.Tokens.Count
          posCursor, \* the cursor all handlers share by reference
          pila,      \* pending calls of RealizarAnalisisSintax
          bloques,   \* the blocks created so far, each with its parent
          estado     \* "analizando", "listo" or "excepcion"

vars == <<lexemas, numTokens, posCursor, pila, bloques, estado>>

n == Len(lexemas)
Tipo(i) == lexemas[i + 1].tipo
Texto(i) == lexemas[i + 1].texto

(* A pending call: its arguments indiceStop and finBloquePadre, and the    *)
(* block whose body it reads (0 for the call of the button handler).       *)
Marco == [stop : Int, fin : Nat, duenno : Nat]

(* Bloque.cs, with BloquesInterno turned around into padre, the number of  *)
(* the enclosing block; lex are the positions of Lexemas, which handlers   *)
(* always add in increasing order.  Of an error only its presence is kept. *)
Bloque == [tipo : {"Sentencia", "Estructura", "Funcion"}, error : BOOLEAN,
           incia : Nat, finaliza : Nat, padre : Nat, lex : SUBSET Nat]

(* The type invariant.  Its one deep part is the cursor: every handler     *)
(* keeps it within the list, the end included.                             *)
TypeOK ==
  /\ lexemas \in Seq(Lexema)
  /\ numTokens \in Nat
  /\ posCursor \in 0..n
  /\ pila \in Seq(Marco) /\ pila # << >>
  /\ bloques \in Seq(Bloque)
  /\ estado \in {"analizando", "listo", "excepcion"}

marco == pila[Len(pila)]
Debajo == SubSeq(pila, 1, Len(pila) - 1)

-----------------------------------------------------------------------------
(* Utilities: searches over the whole list. *)

MinimoO(S) == IF S = {} THEN -1 ELSE Min(S)

IndicePuntoComa(i) == MinimoO({j \in i..(n - 1) : Texto(j) = ";"})

Cuenta(i, j, t) == Cardinality({k \in i..(j - 1) : Texto(k) = t})

(* Here and below, a definition called Mut... is the next one with a        *)
(* plausible mistake; the properties must reject it.                       *)
MutSinAnidar(i, abre, cierra) ==
  MinimoO({j \in i..(n - 1) : Texto(j) = cierra})

(* The first closing symbol from i on that no opening symbol from i on     *)
(* pairs with.                                                             *)
IndiceBalance(i, abre, cierra) ==
  MinimoO({j \in i..(n - 1) :
             Texto(j) = cierra /\ Cuenta(i, j, abre) = Cuenta(i, j, cierra)})

HayParentesisCierre == \E i \in 0..(n - 1) : Texto(i) = ")"

DelimitadoresBalanceados(i, j) == Cuenta(i, j, "(") = Cuenta(i, j, ")")

PuntoComaCorrecto(i, j) ==
  LET Veces(t) == Cardinality({k \in i..(j - 1) : Tipo(k) = t})
  IN  /\ Veces("OperadorAsignacion") <= 1
      /\ Veces("TipoDato") <= 1
      /\ Veces("Llave") = 0

Operando(i)   == Tipo(i) \in {"Numero", "Variable"}
Comparador(i) == Tipo(i) \in {"OperadorLogico", "OperadorRelacional"}

CondicionEstructuraCorrecta(i) ==
  Operando(i) /\ Comparador(i + 1) /\ Operando(i + 2)

(* The three positions are read only as far as the conjunction goes on. *)
CondicionDesborda(i) ==
  \/ i >= n
  \/ Operando(i) /\ \/ i + 1 >= n
                    \/ Comparador(i + 1) /\ i + 2 >= n

InitForCorrecto(i, puntoComa) ==
  \/ /\ puntoComa - i = 5
     /\ Texto(i + 1) = "int" /\ Tipo(i + 2) = "Variable"
     /\ Tipo(i + 3) = "OperadorAsignacion" /\ Tipo(i + 4) = "Numero"
  \/ /\ puntoComa - i = 4
     /\ Tipo(i + 1) = "Variable"
     /\ Tipo(i + 2) = "OperadorAsignacion" /\ Tipo(i + 3) = "Numero"

IncrementoForCorrecto(i, parentesis) ==
  \/ /\ parentesis - i = 2
     /\ Tipo(i) = "Variable"
     /\ Tipo(i + 1) \in {"OperadorIncremental", "OperadorDecremental"}
  \/ /\ parentesis - i = 5
     /\ Tipo(i) = "Variable" /\ Tipo(i + 1) = "OperadorAsignacion"
     /\ Texto(i + 2) = Texto(i)
     /\ Tipo(i + 3) = "OperadorAritmetico" /\ Tipo(i + 4) = "Numero"

-----------------------------------------------------------------------------
(* Rules applied to every lexeme of a sentence that ends in a semicolon,   *)
(* so position i is never the last one.                                    *)

RechazaVariable(i) ==
  /\ Tipo(i) = "Variable"
  /\ Tipo(i + 1) \notin
       {"OperadorAsignacion", "OperadorAritmetico", "OperadorDecremental",
        "OperadorIncremental", "OperadorLogico", "OperadorRelacional",
        "Coma", "OperadorTerminador", "Parentesis"}

RechazaTipoVar(i) == Tipo(i) = "TipoDato" /\ Tipo(i + 1) # "Variable"

(* After "[" the rule walks to the semicolon and reads Tokens, a list of   *)
(* identifiers only, at the positions of lexemes: "]" is never found there *)
(* and the walk leaves the list when it is shorter than the text.          *)
TipoVarDesborda(i) ==
  /\ Tipo(i) = "TipoDato"
  /\ Texto(i + 1) = "["
  /\ IndicePuntoComa(i + 1) > numTokens

RechazaAsignacion(i) ==
  /\ Tipo(i) = "OperadorAsignacion"
  /\ Tipo(i + 1) \notin
       {"Variable", "Numero", "Cadena", "Caracter", "Parentesis"}

RechazaOperadorAritmetico(i) ==
  /\ Tipo(i) = "OperadorAritmetico"
  /\ \E j \in {i - 1, i + 1} :
       Tipo(j) \notin {"Numero", "Variable", "Parentesis"}

BuscarError(i) ==
  \/ RechazaVariable(i)
  \/ RechazaTipoVar(i)
  \/ RechazaAsignacion(i)
  \/ RechazaOperadorAritmetico(i)

-----------------------------------------------------------------------------
(* What a handler started at p has done when it returns ("cerrado"), makes *)
(* the recursive call for a body that ends at fin ("abierto"), or indexes  *)
(* past the end of the list ("excepcion").                                 *)

NuevoBloque(tipo, error, incia, finaliza, lex) ==
  [tipo |-> tipo, error |-> error, incia |-> incia, finaliza |-> finaliza,
   padre |-> 0, lex |-> lex]

Excepcion == [caso |-> "excepcion"]

Cerrado(bloque, cursor) ==
  [caso |-> "cerrado", bloque |-> bloque, cursor |-> cursor]

Abierto(bloque, cursor, fin) ==
  [caso |-> "abierto", bloque |-> bloque, cursor |-> cursor, fin |-> fin]

MutUnoDeMas(fin) == IF fin = 0 THEN n + 1 ELSE fin

FinEfectivo(fin) == IF fin = 0 THEN n ELSE fin

(* Where the cursor ends when all lexemes from c to the end of the parent  *)
(* are read; c itself when it is already past that end.                    *)
Drenar(c, fin) == Max({c, FinEfectivo(fin)})

MutSinResto(tipo, p, c, fin) ==
  Cerrado(NuevoBloque(tipo, TRUE, p, 0, p..(c - 1)), Drenar(c, fin))

MutSinAvance(tipo, p, c, fin) ==
  Cerrado(NuevoBloque(tipo, TRUE, p, 0, p..(Drenar(c, fin) - 1)), c)

(* The handlers' common exit with an error found at c: every lexeme from c *)
(* to the end of the parent goes into the block.  Finaliza stays 0.        *)
Falla(tipo, p, c, fin) ==
  LET hasta == Drenar(c, fin)
  IN  Cerrado(NuevoBloque(tipo, TRUE, p, 0, p..(hasta - 1)), hasta)

BloqueError(p, fin) == Falla("Sentencia", p, p, fin)

MutSinIncia(p, c, fin) ==
  LET cierre == IndiceBalance(c, "{", "}")
  IN  IF cierre = -1
        THEN Falla("Estructura", p, c, fin)
        ELSE Abierto(NuevoBloque("Estructura", FALSE, 0, 0, p..(c - 1)),
                     c, cierre)

(* A body that starts at c, after its "{".  It is read up to the position  *)
(* before the one that closes it, exclusive.                               *)
Cuerpo(p, c, fin) ==
  LET cierre == IndiceBalance(c, "{", "}")
  IN  IF cierre = -1
        THEN Falla("Estructura", p, c, fin)
        ELSE Abierto(NuevoBloque("Estructura", FALSE, p, 0, p..(c - 1)),
                     c, cierre)

AnalizarSentencia(p, fin) ==
  LET pc == IndicePuntoComa(p)
      hasta == Drenar(p, fin)
      rechazados == {i \in p..pc : BuscarError(i)}
  IN  IF pc = -1 \/ ~ PuntoComaCorrecto(p, pc)
        THEN Cerrado(NuevoBloque("Sentencia", TRUE, p, hasta - 1,
                                 p..(hasta - 1)), hasta)
      ELSE IF ~ DelimitadoresBalanceados(p, pc)
        THEN BloqueError(p, fin)
      ELSE IF \E i \in p..(pc - 1) : TipoVarDesborda(i)
        THEN Excepcion
      ELSE Cerrado(NuevoBloque("Sentencia", rechazados # {}, p, pc,
                               (p..pc) \ rechazados),
                   pc + 1)

(* A function without a closing brace keeps only its header: the rest is   *)
(* left to be read as if it stood outside.                                 *)
AnalizarBloqueFuncion(p, parentesis) ==
  LET c == parentesis + 2
      cierre == IndiceBalance(c, "{", "}")
      bloque == NuevoBloque("Funcion", cierre = -1, p, 0, p..(c - 1))
  IN  IF cierre = -1 THEN Cerrado(bloque, c) ELSE Abierto(bloque, c, cierre)

ProcesarTipoVariable(p, fin) ==
  IF p + 2 < n - 1 /\ Texto(p + 2) = "("
    THEN LET parentesis == IndiceBalance(p + 3, "(", ")")
             sig == parentesis + 1
         IN  IF parentesis = -1 THEN BloqueError(p, fin)
             ELSE IF sig >= n THEN Excepcion
             ELSE IF Texto(sig) = "{"
               THEN AnalizarBloqueFuncion(p, parentesis)
             ELSE IF Tipo(sig) \in {"OperadorAritmetico", "OperadorLogico",
                                    "OperadorRelacional",
                                    "OperadorTerminador"}
               THEN AnalizarSentencia(p, fin)
             ELSE BloqueError(p, fin)
    ELSE AnalizarSentencia(p, fin)

ProcesarTipoDato(p, fin) ==
  IF p + 1 >= n THEN Excepcion
  ELSE IF Tipo(p + 1) = "Variable" THEN ProcesarTipoVariable(p, fin)
  ELSE BloqueError(p, fin)

ProcesarVariable(p, fin) ==
  IF p + 1 >= n THEN Excepcion
  ELSE IF Texto(p + 1) \in {"=", "++", "--", "+=", "-=", "*=", "/="}
    THEN AnalizarSentencia(p, fin)
  ELSE BloqueError(p, fin)

AnalizarFor(p, fin) ==
  LET parentesis == IndiceBalance(p + 2, "(", ")")
      pc1 == IndicePuntoComa(p + 1)
      pc2 == IndicePuntoComa(pc1 + 1)
      llave == parentesis + 1
      FallaEn(c) == Falla("Estructura", p, c, fin)
  IN  IF p + 1 >= n \/ Texto(p + 1) # "(" \/ ~ HayParentesisCierre
        THEN FallaEn(p + 1)
      ELSE IF pc1 = -1 \/ ~ InitForCorrecto(p + 1, pc1)
        THEN FallaEn(p + 1)
      ELSE IF pc2 = -1 \/ ~ CondicionEstructuraCorrecta(pc1 + 1)
        THEN FallaEn(pc1 + 1)
      ELSE IF ~ IncrementoForCorrecto(pc2 + 1, parentesis)
        THEN FallaEn(pc2 + 1)
      ELSE IF llave >= n \/ Texto(llave) # "{"
        THEN FallaEn(llave)
      ELSE Cuerpo(p, llave + 1, fin)

(* "(" condition ")" from position i on, for while, if and the end of      *)
(* do...while: where it fails, overflows, or ends.                         *)
LeerCondicion(i) ==
  LET parentesis == IndiceBalance(i + 2, "(", ")")
  IN  IF i >= n THEN [caso |-> "excepcion"]
      ELSE IF Texto(i) # "(" \/ ~ HayParentesisCierre
        THEN [caso |-> "falla", cursor |-> i]
      ELSE IF CondicionDesborda(i + 1) THEN [caso |-> "excepcion"]
      ELSE IF ~ CondicionEstructuraCorrecta(i + 1)
        THEN [caso |-> "falla", cursor |-> i + 1]
      ELSE LET c == IF parentesis = -1 THEN i + 1 ELSE parentesis + 1
           IN  IF c >= n THEN [caso |-> "excepcion"]
               ELSE [caso |-> "leida", cursor |-> c]

AnalizarCondicional(p, fin) ==
  LET cond == LeerCondicion(p + 1)
      FallaEn(c) == Falla("Estructura", p, c, fin)
  IN  CASE cond.caso = "excepcion" -> Excepcion
        [] cond.caso = "falla" -> FallaEn(cond.cursor)
        [] cond.caso = "leida" ->
             IF Texto(cond.cursor) # "{" THEN FallaEn(cond.cursor)
             ELSE Cuerpo(p, cond.cursor + 1, fin)

(* do and else: the body follows at once. *)
AnalizarConLlave(p, fin) ==
  IF p + 1 >= n THEN Excepcion
  ELSE IF Texto(p + 1) # "{" THEN Falla("Estructura", p, p + 1, fin)
  ELSE Cuerpo(p, p + 2, fin)

(* The rest of AnalizarDoWhile once the body has been read up to c: the    *)
(* block's further lexemes, the cursor and whether it failed.              *)
TerminarDoWhile(c, fin) ==
  LET cond == LeerCondicion(c + 2)
      FallaEn(i) == Falla("Estructura", c, i, fin)
  IN  IF c >= n THEN Excepcion
      ELSE IF Texto(c) # "}" THEN FallaEn(c)
      ELSE IF c + 1 >= n THEN Excepcion
      ELSE IF Texto(c + 1) # "while" THEN FallaEn(c + 1)
      ELSE CASE cond.caso = "excepcion" -> Excepcion
             [] cond.caso = "falla" -> FallaEn(cond.cursor)
             [] cond.caso = "leida" ->
                  IF Tipo(cond.cursor) # "OperadorTerminador"
                    THEN FallaEn(cond.cursor)
                  ELSE Cerrado(NuevoBloque("Estructura", FALSE, c,
                                           cond.cursor, c..cond.cursor),
                               cond.cursor + 1)

(* The texts that all of this asks for.  Of any other text it only counts  *)
(* whether two lexemes of a for's increment have the same.                 *)
TextosLeidos ==
  {";", "(", ")", "{", "}", "[", "int", "=", "++", "--", "+=", "-=", "*=", "/=",
   "while", "return", "for", "do", "if", "else"}

-----------------------------------------------------------------------------
(* ConstruirTablaSimbolos makes a token of each identifier. *)
CantidadTokens == Cardinality({i \in 0..(n - 1) : Tipo(i) = "Variable"})

(* The button handler starts the analysis of the list it has extracted. *)
Comienzo ==
  /\ posCursor = 0
  /\ pila = <<[stop |-> n, fin |-> 0, duenno |-> 0]>>
  /\ bloques = << >>
  /\ estado = "analizando"

Init ==
  /\ lexemas \in Entradas
  /\ numTokens \in TokensPrevios \cup {CantidadTokens}
  /\ Comienzo

(* The loop condition of the innermost pending call. *)
EnBucle == estado = "analizando" /\ posCursor < marco.stop
FinDeBucle == estado = "analizando" /\ ~ (posCursor < marco.stop)

Lanzar ==
  /\ estado' = "excepcion"
  /\ UNCHANGED <<lexemas, numTokens, posCursor, pila, bloques>>

(* The innermost pending call adds the blocks that handlers return to      *)
(* those of the block whose body it reads.                                 *)
EnPadre(bloque) == [bloque EXCEPT !.padre = marco.duenno]

(* A handler that reads a body waits for a new pending call.               *)
Aplicar(r) ==
  \/ r.caso = "excepcion" /\ Lanzar
  \/ /\ r.caso \in {"cerrado", "abierto"}
     /\ posCursor' = r.cursor
     /\ bloques' = Append(bloques, EnPadre(r.bloque))
     /\ pila' = IF r.caso = "cerrado" THEN pila
                ELSE Append(pila, [stop |-> r.fin - 1, fin |-> r.fin,
                                   duenno |-> Len(bloques) + 1])
     /\ UNCHANGED <<lexemas, numTokens, estado>>

EsReservada(i, t) == Tipo(i) = "PalabraReservada" /\ Texto(i) = t

MutSinElse(i) ==
  IF Tipo(i) = "TipoDato" THEN "ProcesarTipoDato"
  ELSE IF Tipo(i) = "Variable" THEN "ProcesarVariable"
  ELSE IF EsReservada(i, "return") THEN "AnalizarSentencia"
  ELSE IF EsReservada(i, "for") THEN "AnalizarFor"
  ELSE IF EsReservada(i, "while") THEN "AnalizarWhile"
  ELSE IF EsReservada(i, "do") THEN "AnalizarDoWhile"
  ELSE IF EsReservada(i, "if") THEN "AnalizarIf"
  ELSE "ninguno"

(* The handler that ObtenerSiguienteBloque picks by the lexeme at i. *)
Manejador(i) ==
  IF Tipo(i) = "TipoDato" THEN "ProcesarTipoDato"
  ELSE IF Tipo(i) = "Variable" THEN "ProcesarVariable"
  ELSE IF EsReservada(i, "return") THEN "AnalizarSentencia"
  ELSE IF EsReservada(i, "for") THEN "AnalizarFor"
  ELSE IF EsReservada(i, "while") THEN "AnalizarWhile"
  ELSE IF EsReservada(i, "do") THEN "AnalizarDoWhile"
  ELSE IF EsReservada(i, "if") THEN "AnalizarIf"
  ELSE IF EsReservada(i, "else") THEN "AnalizarElse"
  ELSE "ninguno"

TipoDato ==
  /\ EnBucle /\ Manejador(posCursor) = "ProcesarTipoDato"
  /\ Aplicar(ProcesarTipoDato(posCursor, marco.fin))

ReAsignacion ==
  /\ EnBucle /\ Manejador(posCursor) = "ProcesarVariable"
  /\ Aplicar(ProcesarVariable(posCursor, marco.fin))

Retorno ==
  /\ EnBucle /\ Manejador(posCursor) = "AnalizarSentencia"
  /\ Aplicar(AnalizarSentencia(posCursor, marco.fin))

For ==
  /\ EnBucle /\ Manejador(posCursor) = "AnalizarFor"
  /\ Aplicar(AnalizarFor(posCursor, marco.fin))

While ==
  /\ EnBucle /\ Manejador(posCursor) = "AnalizarWhile"
  /\ Aplicar(AnalizarCondicional(posCursor, marco.fin))

If ==
  /\ EnBucle /\ Manejador(posCursor) = "AnalizarIf"
  /\ Aplicar(AnalizarCondicional(posCursor, marco.fin))

DoWhile ==
  /\ EnBucle /\ Manejador(posCursor) = "AnalizarDoWhile"
  /\ Aplicar(AnalizarConLlave(posCursor, marco.fin))

Else ==
  /\ EnBucle /\ Manejador(posCursor) = "AnalizarElse"
  /\ Aplicar(AnalizarConLlave(posCursor, marco.fin))

(* No handler takes the lexeme: an empty block is added and the cursor     *)
(* stays, so the loop repeats this for ever.  After MaxVacios empty blocks *)
(* the repetition no longer changes the state.                             *)
SinManejador ==
  /\ EnBucle /\ Manejador(posCursor) = "ninguno"
  /\ bloques' =
       IF Cardinality({b \in DOMAIN bloques : bloques[b].lex = {}})
            < MaxVacios
         THEN Append(bloques, EnPadre(NuevoBloque("Sentencia", FALSE, 0, 0, {})))
         ELSE bloques
  /\ UNCHANGED <<lexemas, numTokens, posCursor, pila, estado>>

EsDoWhile(b) == EsReservada(bloques[b].incia, "do")

MutCierraAntes ==
  /\ FinDeBucle /\ Len(pila) > 1 /\ ~ EsDoWhile(marco.duenno)
  /\ IF posCursor >= n THEN Lanzar
     ELSE /\ bloques' = [bloques EXCEPT
                           ![marco.duenno].finaliza = posCursor - 1,
                           ![marco.duenno].lex = @ \cup {posCursor}]
          /\ posCursor' = posCursor + 1
          /\ pila' = Debajo
          /\ UNCHANGED <<lexemas, numTokens, estado>>

(* The recursive call of a function, for, while, if or else returns: the   *)
(* lexeme under the cursor, whatever it is, closes the block.              *)
CerrarBloque ==
  /\ FinDeBucle /\ Len(pila) > 1 /\ ~ EsDoWhile(marco.duenno)
  /\ IF posCursor >= n THEN Lanzar
     ELSE /\ bloques' = [bloques EXCEPT
                           ![marco.duenno].finaliza = posCursor,
                           ![marco.duenno].lex = @ \cup {posCursor}]
          /\ posCursor' = posCursor + 1
          /\ pila' = Debajo
          /\ UNCHANGED <<lexemas, numTokens, estado>>

(* The recursive call of a do...while returns.  An error drains up to the  *)
(* end of the block the do...while stands in.                              *)
CerrarDoWhile ==
  /\ FinDeBucle /\ Len(pila) > 1 /\ EsDoWhile(marco.duenno)
  /\ LET r == TerminarDoWhile(posCursor, pila[Len(pila) - 1].fin)
     IN  IF r.caso = "excepcion" THEN Lanzar
         ELSE /\ bloques' = [bloques EXCEPT
                               ![marco.duenno].error = r.bloque.error,
                               ![marco.duenno].finaliza = r.bloque.finaliza,
                               ![marco.duenno].lex = @ \cup r.bloque.lex]
              /\ posCursor' = r.cursor
              /\ pila' = Debajo
              /\ UNCHANGED <<lexemas, numTokens, estado>>

(* The call of the button handler returns. *)
TerminarAnalisis ==
  /\ FinDeBucle /\ Len(pila) = 1
  /\ estado' = "listo"
  /\ UNCHANGED <<lexemas, numTokens, posCursor, pila, bloques>>

Terminado == estado # "analizando" /\ UNCHANGED vars

Next ==
  \/ TipoDato \/ ReAsignacion \/ Retorno \/ For \/ While \/ If \/ DoWhile
  \/ Else \/ SinManejador \/ CerrarBloque \/ CerrarDoWhile
  \/ TerminarAnalisis \/ Terminado

(* A single synchronous call on the user-interface thread: it runs on      *)
(* until it returns or raises.                                             *)
Spec == Init /\ [][Next]_vars /\ WF_vars(Next)

-----------------------------------------------------------------------------
(* The tree that the window draws.  LlenarArbol finds the children of a    *)
(* node by the position where the parent starts, not by the parent itself. *)

NodosHijos(b) ==
  {c \in DOMAIN bloques :
     /\ bloques[c].padre # 0
     /\ bloques[bloques[c].padre].incia = bloques[b].incia}

(* Every block that holds lexemes is drawn over exactly its own inner      *)
(* blocks: no two such blocks start at the same lexeme.                    *)
ArbolFiel ==
  \A b \in DOMAIN bloques :
    bloques[b].lex # {} =>
      NodosHijos(b) = {c \in DOMAIN bloques : bloques[c].padre = b}

(* Every lexeme the cursor has passed belongs to exactly one block.  The   *)
(* only lexemes that vanish are those a rule rejects, inside a sentence    *)
(* that carries the error.  Nothing ahead of the cursor is in a block.     *)
LexemaUnaVez ==
  /\ \A b \in DOMAIN bloques : bloques[b].lex \subseteq 0..(posCursor - 1)
  /\ \A i \in 0..(posCursor - 1) :
       LET en == {b \in DOMAIN bloques : i \in bloques[b].lex}
       IN  \/ Cardinality(en) = 1
           \/ /\ en = {}
              /\ \E b \in DOMAIN bloques :
                   /\ bloques[b].error
                   /\ i \in bloques[b].incia..bloques[b].finaliza

(* Inner blocks lie strictly inside their parent: after its first lexeme   *)
(* and, once the parent has its end, before its last one.                  *)
Anidados ==
  \A b \in DOMAIN bloques :
    LET q == bloques[b].padre
    IN  q # 0 => /\ q < b
                 /\ \A i \in bloques[b].lex :
                      /\ bloques[q].incia < i
                      /\ bloques[q].finaliza # 0 => i < bloques[q].finaliza

(* While the analysis goes on, every step moves the cursor forward, or     *)
(* returns from a pending call without moving it (a do...while that fails  *)
(* past the end of its parent), or stands on a lexeme that no handler      *)
(* takes: the loops over blocks have no other way to repeat themselves.    *)
AvanzaORegresa ==
  [][estado' = "analizando" =>
       \/ posCursor' > posCursor
       \/ posCursor' = posCursor /\ pila' = Debajo
       \/ EnBucle /\ Manejador(posCursor) = "ninguno"]_vars

(* The lexemes a sentence, a structure or a function starts with. *)
IniciaConstruccion(l) ==
  \/ l.tipo \in {"TipoDato", "Variable"}
  \/ /\ l.tipo = "PalabraReservada"
     /\ l.texto \in {"return", "for", "while", "do", "if", "else"}

(* Every analysis ends, with a list of blocks or an exception, or comes to *)
(* stand for ever on a lexeme that starts no construct.                    *)
Termina ==
  <>(\/ estado # "analizando"
     \/ EnBucle /\ ~ IniciaConstruccion(lexemas[posCursor + 1]))

-----------------------------------------------------------------------------
(* ExtraerErroresBloques: the errors of the outermost blocks and of their  *)
(* immediate inner blocks.                                                 *)
ExtraerErroresBloques ==
  {b \in DOMAIN bloques :
     /\ bloques[b].error
     /\ \/ bloques[b].padre = 0
        \/ bloques[bloques[b].padre].padre = 0}

(* "Analisis Sintactico ejecutado de forma correcta!", which the window    *)
(* shows when that list is empty: then no block has an error.              *)
SinErroresOcultos ==
  estado = "listo" /\ ExtraerErroresBloques = {} =>
    \A b \in DOMAIN bloques : ~ bloques[b].error

(* "Me indica donde finaliza el bloque", of the property Finaliza: in a    *)
(* finished analysis it is the last lexeme of every block.                 *)
FinalizaEsElFin ==
  estado = "listo" =>
    \A b \in DOMAIN bloques :
      bloques[b].lex # {} => bloques[b].finaliza = Max(bloques[b].lex)
=============================================================================
