------------------------ MODULE AnalizadorSemantico -------------------------
(***************************************************************************)
(* The semantic analyser, AnalizadorSemantico.cs.  One call of             *)
(* ProcesarLexemas visits the identifiers of the list in order: a          *)
(* declaration or a reassignment computes a value and records it in the    *)
(* symbol table, everything else is passed over.  A value of more than one *)
(* lexeme is computed by AsignacionCompleja, one element per step; the     *)
(* pending calls of AsignacionCompleja are the stack llamadas.  Then       *)
(* VerificarFuncionesRetorno visits the outermost functions.               *)
(*                                                                         *)
(* Lexemes are objects.  AsignacionCompleja works on a list of references  *)
(* to them, so a text it writes changes the list under analysis, unless    *)
(* the element is a fresh lexeme that stands for the value of a variable.  *)
(* Positions count from 0.  Nothing catches an exception.                  *)
(***************************************************************************)
EXTENDS Lexemas, Aritmetica, Simbolos, SequencesExt

CONSTANT Entradas   \* pairs of a list of lexemes and its blocks

ASSUME NuloAssumption == Nulo \notin Texto \cup {TextoError}

VARIABLES lexemas,   \* the list, with texts that the analysis may change
          bloques,   \* the blocks of the parse, as AnalizadorSintactico has them
          registros, \* TablaSimbolos.RegistrosTabla
          errores,   \* Errores: what is reported, at the identifier visited
          turno,     \* the identifier visited, or the number of lexemes
          llamadas,  \* pending calls of AsignacionCompleja
          funcion,   \* the function whose return is verified
          estado

vars == <<lexemas, bloques, registros, errores, turno, llamadas, funcion,
          estado>>

n == Len(lexemas)
TipoDe(i) == lexemas[i + 1].tipo
TextoDe(i) == lexemas[i + 1].texto

PuntoComa == Simbolo(";")

LexemaValor == [tipo : TipoElemento, texto : Texto]

(* A list that is extracted from a text.  A string has its quotes in its   *)
(* text: only an identifier can be "Error".  The semicolon is a lexeme of   *)
(* its own, and the only one of its kind.  Identifiers are tried for after  *)
(* the words of the language and numbers: a text that is an identifier     *)
(* somewhere is one everywhere, and starts with a letter or a low line,    *)
(* unlike what the analysis computes but for "Error".  Only a numeral has  *)
(* a value.                                                                *)
Extraida(L) ==
  /\ L \in Seq(LexemaValor)
  /\ \A i \in DOMAIN L :
       /\ L[i].texto = TextoError => L[i].tipo = "Variable"
       /\ L[i].tipo = "OperadorTerminador" <=> L[i].texto = PuntoComa
       /\ EsNumeral(L[i].texto) \/ L[i].texto = Simbolo(L[i].texto.c)
       /\ L[i].tipo = "Variable" =>
            /\ L[i].texto.c \notin {"", "+", "0"}
            /\ \A j \in DOMAIN L : L[j].texto.c = L[i].texto.c => L[j].tipo = "Variable"

ASSUME EntradasAssumption ==
  \A e \in Entradas :
    /\ Extraida(e.lexemas)
    /\ Len(e.bloques) \in Nat /\ DOMAIN e.bloques = 1..Len(e.bloques)

(* Declared types: what EsTipoDeclaracion lets through. *)
TipoVariable == {"Int", "Char", "Float", "Double", "Void"}

RegistroValor == [codigo : Nat, nombre : Texto, tipo : TipoVariable,
                  valor : Texto \cup {Nulo}]

QueError == {"redeclarada", "no declarada", "tipo distinto", "no existe",
             "no compatible", "decimal", "division entre cero",
             "division decimal", "tipos incompatibles", "sin retorno",
             "retorno no valido"}

(* An element of copiaLexemas: a lexeme of the list, at position origen, or *)
(* a fresh one, with origen -1.                                            *)
Elemento == [origen : Int, tipo : TipoElemento, texto : Texto \cup {Nulo}]
Ninguno == [origen |-> -1, tipo |-> "ninguno", texto |-> Nulo]

(* A pending call: its list, the number of elements read, ladoIzq, ladoDer *)
(* and op, and the result so far.                                          *)
Llamada == [copia : Seq(Elemento), leidos : Nat,
            izq : Elemento \cup {Ninguno}, der : Elemento \cup {Ninguno},
            op : Elemento \cup {Ninguno}, result : Texto]

(* The type invariant. *)
TypeOK ==
  /\ lexemas \in Seq(LexemaValor)
  /\ registros \in Seq(RegistroValor)
  /\ errores \subseteq [que : QueError, en : Nat]
  /\ turno \in 0..n
  /\ llamadas \in Seq(Llamada)
  /\ funcion \in Nat
  /\ estado \in {"recorriendo", "verificando", "listo", "excepcion"}

-----------------------------------------------------------------------------
(* Types of texts *)

EsTipoDeclaracion(t) == t.c \in {"int", "char", "float", "double", "void"}

TextoToTipo(t) ==
  CASE t.c = "int" -> "Int"
    [] t.c = "char" -> "Char"
    [] t.c = "float" -> "Float"
    [] t.c = "double" -> "Double"
    [] OTHER -> "Void"

Decimales == {"Float", "Double"}

TextoNumeroToTipo(t, helper) == IF ConPunto(t) THEN helper ELSE "Int"

(* The type of an element; the kinds that are no value count as Void. *)
TipoElementoToTipoVar(tipo, t) ==
  CASE tipo = "Numero"   -> TextoNumeroToTipo(t, "Float")
    [] tipo = "Cadena"   -> "CharString"
    [] tipo = "Caracter" -> "Char"
    [] OTHER             -> "Void"

(* Here and below, a definition called Mut... is the next one with a        *)
(* plausible mistake; the properties must reject it.                       *)
MutMismoTipo(tipoVariable) == tipoVariable

TipoVarToTipoElemento(tipoVariable) ==
  CASE tipoVariable = "Char" -> "Caracter"
    [] tipoVariable \in {"Int", "Float", "Double"} -> "Numero"
    [] OTHER -> "Error"

-----------------------------------------------------------------------------
(* A computed text, a computed "Error" with its report, or an exception. *)
Valor(t) == [caso |-> "valor", texto |-> t, que |-> {}]
Fallo(q) == [caso |-> "valor", texto |-> TextoError, que |-> {q}]
Revienta == [caso |-> "excepcion", texto |-> TextoError, que |-> {}]

(* The test of the code for an exact division takes the quotient modulo 1: *)
(* it is always passed.  The least int divided by -1 raises.               *)
OperarEnteros(a, b, op) ==
  CASE op = "+" -> Valor(Numeral(Envolver(a + b), 0))
    [] op = "-" -> Valor(Numeral(Envolver(a - b), 0))
    [] op = "*" -> Valor(Numeral(Envolver(a * b), 0))
    [] op = "/" -> IF b = 0 THEN Fallo("division entre cero")
                   ELSE LET q == Cociente(a, b)
                        IN  IF ~ EnRango(q) THEN Revienta
                            ELSE IF q % 1 = 0 THEN Valor(Numeral(q, 0))
                            ELSE Fallo("division decimal")
    [] OTHER -> Valor(TextoVacio)

OperarDecimales(a, b, op) ==
  CASE op = "+" -> Valor(SumaDecimal(a, b))
    [] op = "-" -> Valor(RestaDecimal(a, b))
    [] op = "*" -> Valor(ProductoDecimal(a, b))
    [] op = "/" -> IF b.m = 0 THEN Fallo("division entre cero")
                   ELSE Valor(CocienteDecimal(a, b))
    [] OTHER -> Valor(TextoVacio)

(* Null texts raise when their type is asked for, before any other test.   *)
(* A target of type float or double makes every operand a decimal; texts   *)
(* that do not parse raise.                                                *)
RealizarOperacion(izq, der, op, tipoVariable) ==
  LET Forzado(x) == IF tipoVariable \in Decimales THEN tipoVariable
                    ELSE TipoElementoToTipoVar(x.tipo, x.texto)
      lados == {izq.texto, der.texto}
  IN  IF \E x \in {izq, der} : x.tipo = "Numero" /\ x.texto = Nulo
        THEN Revienta
      ELSE IF Forzado(izq) # Forzado(der) THEN Fallo("tipos incompatibles")
      ELSE IF Forzado(izq) = "Int"
        THEN IF \A t \in lados : EsEntero(t)
               THEN OperarEnteros(izq.texto.m, der.texto.m, op.texto.c)
               ELSE Revienta
      ELSE IF Forzado(izq) \in Decimales
        THEN IF \A t \in lados : t # Nulo /\ EsNumeral(t)
               THEN OperarDecimales(izq.texto, der.texto, op.texto.c)
               ELSE Revienta
      ELSE Valor(TextoVacio)
-----------------------------------------------------------------------------
(* AsignacionCompleja *)

(* First(x => x.Nombre == lexema.Texto), of a declared variable. *)
RegistroDe(nombre) == registros[PosicionDe(registros, nombre)]

Declarada(nombre) == VariableEstaDeclarada(registros, nombre)

VariableValor(x) ==
  LET r == RegistroDe(x.texto)
  IN  [origen |-> -1, tipo |-> TipoVarToTipoElemento(r.tipo),
       texto |-> r.valor]

SinDeclarar(copia) ==
  {j \in DOMAIN copia : copia[j].tipo = "Variable" /\ ~ Declarada(copia[j].texto)}

(* Variables are replaced by their values up to the first undeclared one. *)
Convertir(copia) ==
  [j \in DOMAIN copia |->
     IF copia[j].tipo = "Variable" /\ (\A k \in SinDeclarar(copia) : j < k)
       THEN VariableValor(copia[j]) ELSE copia[j]]

MutSinReporte(copia) == {}

QueConvertir(copia) ==
  IF SinDeclarar(copia) = {} THEN {} ELSE {"no declarada"}

(* A call that starts: after the conversion, a list with a parenthesis is  *)
(* left as it is.                                                          *)
NuevaLlamada(copia) ==
  [copia |-> Convertir(copia),
   leidos |-> IF \E j \in DOMAIN copia : copia[j].tipo = "Parentesis"
                THEN Len(copia) ELSE 0,
   izq |-> Ninguno, der |-> Ninguno, op |-> Ninguno,
   result |-> IF SinDeclarar(copia) = {} THEN TextoVacio ELSE TextoError]

EsOperando(x) == x.tipo \in {"Numero", "Cadena", "Caracter"}

MutSinContar(c) ==
  LET x == c.copia[c.leidos + 1]
  IN  [c EXCEPT !.izq = IF EsOperando(x) /\ c.izq = Ninguno THEN x ELSE @,
                !.op = IF x.tipo = "OperadorAritmetico" THEN x ELSE @]

(* The body of the loop up to its second test, for the next element. *)
Leer(c) ==
  LET x == c.copia[c.leidos + 1]
  IN  [c EXCEPT !.leidos = @ + 1,
                !.izq = IF EsOperando(x) /\ c.izq = Ninguno THEN x ELSE @,
                !.der = IF EsOperando(x) /\ c.izq # Ninguno THEN x ELSE @,
                !.op = IF x.tipo = "OperadorAritmetico" THEN x ELSE @]

Completa(c) == Ninguno \notin {c.izq, c.der, c.op}

(* The result of an operation becomes the left side of the next one. *)
Reducir(c, r) ==
  [c EXCEPT !.result = r.texto, !.der = Ninguno, !.op = Ninguno,
            !.izq = [origen |-> -1, tipo |-> "Numero", texto |-> r.texto]]

(* An operator followed, two elements later, by * or /. *)
PrecedeProducto(c) ==
  LET i == c.leidos + 1
  IN  /\ c.copia[i].tipo = "OperadorAritmetico"
      /\ i + 2 <= Len(c.copia)
      /\ c.copia[i + 2].texto \in {Simbolo("*"), Simbolo("/")}

MutRestoEntero(c) == SubSeq(c.copia, c.leidos + 2, Len(c.copia))

(* The product that is computed first: the three elements after the        *)
(* operator.                                                               *)
Producto(c) == SubSeq(c.copia, c.leidos + 2, c.leidos + 4)

MutSinCero(c, t) ==
  [j \in DOMAIN c.copia |->
     CASE j = c.leidos + 1 -> t
       [] j = c.leidos + 2 -> Simbolo("+")
       [] OTHER -> c.copia[j].texto]

(* The texts once the product has become "t + 0"; the operator before it   *)
(* has been read.                                                          *)
TextosReducidos(c, t) ==
  [j \in DOMAIN c.copia |->
     CASE j = c.leidos + 1 -> t
       [] j = c.leidos + 2 -> Simbolo("+")
       [] j = c.leidos + 3 -> Numeral(0, 0)
       [] OTHER -> c.copia[j].texto]

ConTextos(c, textos) ==
  [c EXCEPT !.copia = [j \in DOMAIN @ |-> [@[j] EXCEPT !.texto = textos[j]]]]

MutEscribeAlLado(c, textos) ==
  [i \in DOMAIN lexemas |->
     LET de == {j \in DOMAIN c.copia : c.copia[j].origen = i}
     IN  IF de = {} THEN lexemas[i]
         ELSE [lexemas[i] EXCEPT !.texto = textos[Min(de)]]]

(* The same texts written through the references to the list. *)
ListaConTextos(c, textos) ==
  [i \in DOMAIN lexemas |->
     LET de == {j \in DOMAIN c.copia : c.copia[j].origen = i - 1}
     IN  IF de = {} THEN lexemas[i]
         ELSE [lexemas[i] EXCEPT !.texto = textos[Min(de)]]]

-----------------------------------------------------------------------------
(* ProcesarLexemas *)

SiguienteVariable(p) ==
  Min({i \in p..n : i = n \/ TipoDe(i) = "Variable"})

SiguienteFuncion(k) ==
  Min({b \in k..(Len(bloques) + 1) :
         b \in DOMAIN bloques =>
           bloques[b].tipo = "Funcion" /\ bloques[b].padre = 0})

IndicePuntoComa(p) ==
  LET puntos == {i \in p..(n - 1) : TextoDe(i) = PuntoComa}
  IN  IF puntos = {} THEN -1 ELSE Min(puntos)

PuntoComaCorrecto(i, j) ==
  LET Veces(t) == Cardinality({k \in i..(j - 1) : TipoDe(k) = t})
  IN  /\ Veces("OperadorAsignacion") <= 1
      /\ Veces("TipoDato") <= 1
      /\ Veces("Llave") = 0

EsDeclaracion(p) == p > 0 /\ EsTipoDeclaracion(TextoDe(p - 1))

(* The identifier at p is given a value. *)
Asigna(p) ==
  /\ TipoDe(p + 1) = "OperadorAsignacion"
  /\ \/ EsDeclaracion(p)
     \/ /\ IndicePuntoComa(p) # -1
        /\ PuntoComaCorrecto(p, IndicePuntoComa(p))

TipoDestino(p) ==
  IF EsDeclaracion(p) THEN TextoToTipo(TextoDe(p - 1))
  ELSE RegistroDe(TextoDe(p)).tipo

(* The value, alone before its semicolon, is at k. *)
AsignacionSimple(k, tipoVariable) ==
  IF TipoDe(k) = "Variable"
    THEN IF ~ Declarada(TextoDe(k)) THEN Fallo("no existe")
         ELSE IF RegistroDe(TextoDe(k)).tipo # tipoVariable
           THEN Fallo("tipo distinto")
         ELSE Valor(RegistroDe(TextoDe(k)).valor)
  ELSE IF TipoElementoToTipoVar(TipoDe(k), TextoDe(k)) = tipoVariable
    THEN Valor(TextoDe(k))
  ELSE Fallo("no compatible")

Reportar(que) == {[que |-> q, en |-> turno] : q \in que}

QueRedeclarar ==
  IF EsDeclaracion(turno) /\ Declarada(TextoDe(turno))
    THEN {"redeclarada"} ELSE {}

(* A declaration records even "Error"; a reassignment does not. *)
Guardar(t) ==
  registros' =
    IF EsDeclaracion(turno)
      THEN Insertar(registros, TextoDe(turno), TipoDestino(turno), t)
    ELSE IF t # TextoError
      THEN ActualizarValor(registros, TextoDe(turno), t)
    ELSE registros

Avanzar ==
  /\ turno' = SiguienteVariable(turno + 1)
  /\ UNCHANGED <<bloques, funcion, estado>>
-----------------------------------------------------------------------------
(* The call of the button handler. *)
Comienzo ==
  /\ registros = << >>
  /\ errores = {}
  /\ turno = SiguienteVariable(0)
  /\ llamadas = << >>
  /\ funcion = 0
  /\ estado = "recorriendo"

Init ==
  /\ \E e \in Entradas : lexemas = e.lexemas /\ bloques = e.bloques
  /\ Comienzo

EnTurno == estado = "recorriendo" /\ turno < n /\ llamadas = << >>

(* A position past the end is read. *)
Desborda ==
  turno + 1 < n =>
    /\ Asigna(turno)
    /\ EsDeclaracion(turno) \/ Declarada(TextoDe(turno))
    /\ turno + 3 >= n

(* A second declaration has been reported by then. *)
Desbordar ==
  /\ EnTurno /\ Desborda
  /\ errores' = errores \cup Reportar(QueRedeclarar)
  /\ estado' = "excepcion"
  /\ UNCHANGED <<lexemas, bloques, registros, turno, llamadas, funcion>>

(* int x ; is recorded without a value; a function or a parameter is not   *)
(* recorded at all.                                                        *)
DeclararSinAsignar ==
  /\ EnTurno /\ ~ Desborda
  /\ EsDeclaracion(turno) /\ ~ Asigna(turno)
  /\ errores' = errores \cup Reportar(QueRedeclarar)
  /\ registros' =
       IF TipoDe(turno + 1) = "OperadorTerminador"
         THEN Insertar(registros, TextoDe(turno), TipoDestino(turno), Nulo)
         ELSE registros
  /\ Avanzar
  /\ UNCHANGED <<lexemas, llamadas>>

(* An identifier in an expression, a condition or a call. *)
Ignorar ==
  /\ EnTurno /\ ~ Desborda
  /\ ~ EsDeclaracion(turno) /\ ~ Asigna(turno)
  /\ Avanzar
  /\ UNCHANGED <<lexemas, registros, errores, llamadas>>

ReasignarNoDeclarada ==
  /\ EnTurno /\ ~ Desborda
  /\ Asigna(turno) /\ ~ EsDeclaracion(turno) /\ ~ Declarada(TextoDe(turno))
  /\ errores' = errores \cup Reportar({"no declarada"})
  /\ Avanzar
  /\ UNCHANGED <<lexemas, registros, llamadas>>

Recibe ==
  /\ EnTurno /\ ~ Desborda /\ Asigna(turno)
  /\ EsDeclaracion(turno) \/ Declarada(TextoDe(turno))

AsignarSimple ==
  /\ Recibe /\ TipoDe(turno + 3) = "OperadorTerminador"
  /\ LET r == AsignacionSimple(turno + 2, TipoDestino(turno))
     IN  /\ Guardar(r.texto)
         /\ errores' = errores \cup Reportar(QueRedeclarar \cup r.que)
  /\ Avanzar
  /\ UNCHANGED <<lexemas, llamadas>>

(* The elements of the expression at k, up to its semicolon. *)
Expresion(k) ==
  [j \in 1..Mayor(0, IndicePuntoComa(k) - k) |->
     [origen |-> k + j - 1, tipo |-> TipoDe(k + j - 1),
      texto |-> TextoDe(k + j - 1)]]

AsignarCompleja ==
  /\ Recibe /\ TipoDe(turno + 3) # "OperadorTerminador"
  /\ LET copia == Expresion(turno + 2)
     IN  /\ llamadas' = <<NuevaLlamada(copia)>>
         /\ errores' =
              errores \cup Reportar(QueRedeclarar \cup QueConvertir(copia))
  /\ UNCHANGED <<lexemas, bloques, registros, turno, funcion, estado>>

-----------------------------------------------------------------------------
llamada == Last(llamadas)
Leyendo == llamadas # << >> /\ estado = "recorriendo"
             /\ llamada.leidos < Len(llamada.copia)
Leida == llamadas # << >> /\ estado = "recorriendo"
           /\ llamada.leidos >= Len(llamada.copia)

(* The end of an iteration of call c, above the calls debajo: the          *)
(* operation is done once its three parts are there.                       *)
Continuar(debajo, c) ==
  LET r == RealizarOperacion(c.izq, c.der, c.op, TipoDestino(turno))
  IN  /\ IF ~ Completa(c)
           THEN /\ llamadas' = Append(debajo, c)
                /\ UNCHANGED <<errores, estado>>
         ELSE IF r.caso = "excepcion"
           THEN /\ estado' = "excepcion"
                /\ UNCHANGED <<errores, llamadas>>
         ELSE /\ llamadas' = Append(debajo, Reducir(c, r))
              /\ errores' = errores \cup Reportar(r.que)
              /\ UNCHANGED estado
      /\ UNCHANGED <<bloques, registros, turno, funcion>>

LeerElemento ==
  /\ Leyendo /\ ~ PrecedeProducto(llamada)
  /\ Continuar(Front(llamadas), Leer(llamada))
  /\ UNCHANGED lexemas

(* The recursive call for a product raises when the list ends too early. *)
LlamarProducto ==
  /\ Leyendo /\ PrecedeProducto(llamada)
  /\ IF llamada.leidos + 4 > Len(llamada.copia)
       THEN estado' = "excepcion" /\ UNCHANGED <<errores, llamadas>>
       ELSE /\ llamadas' = Front(llamadas) \o
                  <<Leer(llamada), NuevaLlamada(Producto(llamada))>>
            /\ errores' =
                 errores \cup Reportar(QueConvertir(Producto(llamada)))
            /\ UNCHANGED estado
  /\ UNCHANGED <<lexemas, bloques, registros, turno, funcion>>

(* It returns to the call below, which writes the product into its list.   *)
RegresarProducto ==
  /\ Leida /\ Len(llamadas) > 1
  /\ LET abajo == Front(llamadas)
         c == Last(abajo)
         textos == TextosReducidos(c, llamada.result)
     IN  /\ lexemas' = ListaConTextos(c, textos)
         /\ Continuar(Front(abajo), ConTextos(c, textos))

MutSinVerTipo ==
  /\ Leida /\ Len(llamadas) = 1
  /\ Guardar(llamada.result)
  /\ llamadas' = << >>
  /\ Avanzar
  /\ UNCHANGED <<lexemas, errores>>

(* The outermost call returns. *)
TerminarCompleja ==
  /\ Leida /\ Len(llamadas) = 1
  /\ LET decimal == TipoDestino(turno) = "Int" /\ ConPunto(llamada.result)
     IN  /\ Guardar(IF decimal THEN TextoError ELSE llamada.result)
         /\ errores' =
              errores \cup Reportar(IF decimal THEN {"decimal"} ELSE {})
  /\ llamadas' = << >>
  /\ Avanzar
  /\ UNCHANGED lexemas

-----------------------------------------------------------------------------
(* VerificarFuncionesRetorno *)

EmpezarRetornos ==
  /\ estado = "recorriendo" /\ turno = n /\ llamadas = << >>
  /\ estado' = "verificando"
  /\ funcion' = SiguienteFuncion(1)
  /\ UNCHANGED <<lexemas, bloques, registros, errores, turno, llamadas>>

(* The inner blocks of a function in which a return is written. *)
ConRetorno(f) ==
  {b \in DOMAIN bloques :
     /\ bloques[b].padre = f
     /\ \E i \in bloques[b].lex : TextoDe(i) = Simbolo("return")}

(* What the second lexeme of a return gives back: an exception, or whether *)
(* it has the type that the function declares.                             *)
TipoRetornado(i, esperado) ==
  LET helper == IF esperado \in Decimales THEN esperado ELSE "Float"
  IN  IF TipoDe(i) = "Numero" THEN TextoNumeroToTipo(TextoDe(i), helper)
      ELSE IF Declarada(TextoDe(i)) THEN RegistroDe(TextoDe(i)).tipo
      ELSE "excepcion"

(* A function without a return is reported, and then raises all the same.  *)
VerificarRetornoBloque ==
  /\ estado = "verificando" /\ funcion <= Len(bloques)
  /\ LET esperado == TextoToTipo(TextoDe(Min(bloques[funcion].lex)))
         lex == bloques[Min(ConRetorno(funcion))].lex
         segundo == Min(lex \ {Min(lex)})
         sigue == /\ Cardinality(lex) > 1
                  /\ TipoRetornado(segundo, esperado) # "excepcion"
     IN  /\ errores' = errores \cup
              IF ConRetorno(funcion) = {} THEN {[que |-> "sin retorno", en |-> n]}
              ELSE IF sigue /\ TipoRetornado(segundo, esperado) # esperado
                THEN {[que |-> "retorno no valido", en |-> n]}
              ELSE {}
         /\ IF ConRetorno(funcion) # {} /\ sigue
              THEN /\ funcion' = SiguienteFuncion(funcion + 1)
                   /\ UNCHANGED estado
              ELSE /\ estado' = "excepcion"
                   /\ UNCHANGED funcion
  /\ UNCHANGED <<lexemas, bloques, registros, turno, llamadas>>

TerminarAnalisis ==
  /\ estado = "verificando" /\ funcion > Len(bloques)
  /\ estado' = "listo"
  /\ UNCHANGED <<lexemas, bloques, registros, errores, turno, llamadas, funcion>>

Terminado == estado \in {"listo", "excepcion"} /\ UNCHANGED vars

Next ==
  \/ Desbordar \/ DeclararSinAsignar \/ Ignorar \/ ReasignarNoDeclarada
  \/ AsignarSimple \/ AsignarCompleja
  \/ LeerElemento \/ LlamarProducto \/ RegresarProducto \/ TerminarCompleja
  \/ EmpezarRetornos \/ VerificarRetornoBloque \/ TerminarAnalisis
  \/ Terminado

(* A single synchronous call on the user-interface thread: it runs on      *)
(* until it returns or raises.                                             *)
Spec == Init /\ [][Next]_vars /\ WF_vars(Next)
-----------------------------------------------------------------------------
(* A variable of type int holds a text with a point only if some name was  *)
(* declared twice: the second declaration replaces the value and keeps the *)
(* type, and copies of that variable spread the value.  Nothing else can   *)
(* bring a decimal into an int, although expressions of decimals may be    *)
(* assigned to one.                                                        *)
EnteroSinPunto ==
  \A i \in DOMAIN registros :
    registros[i].tipo = "Int" /\ registros[i].valor # Nulo
      /\ ConPunto(registros[i].valor)
    => \E x \in errores : x.que = "redeclarada"

(* "Error" is never kept as a value, in the table, in a pending expression *)
(* or in a numeral of the list, without a report: the text that stands for *)
(* a failure and the list of failures do not drift apart.                  *)
ErrorReportado ==
  (\/ \E i \in DOMAIN registros : registros[i].valor = TextoError
   \/ \E k \in DOMAIN llamadas : llamadas[k].result = TextoError
   \/ \E i \in DOMAIN lexemas : /\ lexemas[i].tipo = "Numero"
                                /\ lexemas[i].texto = TextoError)
    => errores # {}

(* The recursion of AsignacionCompleja is two calls deep at most: the three *)
(* elements of a product leave no room for another one.                    *)
RecursionAcotada == Len(llamadas) <= 2

(* Position i is one of the three after an operator that is followed, two  *)
(* elements later, by * or /, or by a variable: a variable of type void may *)
(* hold the text "*".  An operator is only written over with "+".           *)
TrasOperador(i) ==
  \E k \in (i - 3)..(i - 1) \cap Nat :
    /\ TipoDe(k) = "OperadorAritmetico"
    /\ \/ TextoDe(k + 2) \in {Simbolo("*"), Simbolo("/")}
       \/ TipoDe(k + 2) = "Variable"
    /\ i = k + 2 => TextoDe(i)' = Simbolo("+")

(* What a write through a reference may reach: the three elements of a     *)
(* product, in the expression assigned to the identifier visited, and a    *)
(* variable only after an error, which keeps the list from being parsed    *)
(* again.  Kinds and delimiters stay.                                      *)
Escritura ==
  /\ n' = n
  /\ \A i \in 0..(n - 1) : lexemas'[i + 1] # lexemas[i + 1] =>
       /\ turno + 1 < i /\ i < IndicePuntoComa(turno)
       /\ TipoDe(i)' = TipoDe(i)
       /\ TipoDe(i) = "Variable" => errores' # {}
       /\ TrasOperador(i)

EscrituraLocal == [][Escritura]_vars

(* The identifier of text t is declared, with or without a value, before   *)
(* position p.                                                             *)
DeclaradaAntes(t, p) ==
  \E d \in 1..(p - 1) :
    /\ TipoDe(d) = "Variable" /\ TextoDe(d) = t
    /\ EsDeclaracion(d)
    /\ TipoDe(d + 1) \in {"OperadorAsignacion", "OperadorTerminador"}

(* If p is assigned to, it and what is assigned to it are declared.         *)
UsoDeclarado(p) ==
  TipoDe(p) = "Variable" /\ Asigna(p) =>
    /\ EsDeclaracion(p) \/ DeclaradaAntes(TextoDe(p), p)
    /\ \A i \in (p + 1)..(IndicePuntoComa(p) - 1) :
         TipoDe(i) = "Variable" => DeclaradaAntes(TextoDe(i), p)

(* After an analysis without errors, every variable that an assignment     *)
(* reads or replaces has been declared further up in the text.             *)
UsosDeclarados ==
  estado = "listo" /\ errores = {} => \A p \in 0..(n - 1) : UsoDeclarado(p)

(* Every analysis returns or raises: each loop over a list that it changes *)
(* comes to its end.                                                       *)
Termina == <>(estado \in {"listo", "excepcion"})

-----------------------------------------------------------------------------
(* "Creo una copia de todos los lexemas de manera parcial", at line 220:   *)
(* the analysis leaves the list as it is.                                  *)
LexemasIntactos == [][lexemas' = lexemas]_vars

DividiendoInexacto ==
  /\ Leyendo /\ ~ PrecedeProducto(llamada)
  /\ LET c == Leer(llamada)
     IN  /\ Completa(c)
         /\ c.op.texto = Simbolo("/") /\ TipoDestino(turno) = "Int"
         /\ c.izq.texto # Nulo /\ c.der.texto # Nulo
         /\ EsEntero(c.izq.texto) /\ EsEntero(c.der.texto)
         /\ c.der.texto.m # 0
         /\ Cociente(c.izq.texto.m, c.der.texto.m) * c.der.texto.m
              # c.izq.texto.m

(* "La division resulta en un resultado decimal, no asiganble al tipo      *)
(* int", at line 371: an inexact division of ints is reported.             *)
DivisionInexactaReportada ==
  [][DividiendoInexacto =>
       \E x \in errores' : x.que = "division decimal" /\ x.en = turno]_vars

(* "Al llegar aca si tiene valor de retorno", at line 681: a function that *)
(* was reported to have no return does not get there, so that the report   *)
(* reaches the window.                                                     *)
SinRetornoSeInforma ==
  (\E x \in errores : x.que = "sin retorno") => estado # "excepcion"
=============================================================================
