# A TLA+ model of the compiler front end

The program is a Windows Forms application in C# that analyses a small C-like
language: it splits a text into lexemes, builds a tree of blocks, checks
declarations and types, and generates three-address code.  This directory holds
TLA+ modules that model it, TLC configurations that check them on small
instances, and TLAPS proofs of the theorems that should hold for every text.

Paths in this file are relative to `src/`; line numbers are those of the C#
files.  Spanish names are those of the source.

## 1. The system

### Components

| Component | Source | State it keeps | Operations |
|---|---|---|---|
| Lexical analyser | `Procesos/AnalizadorLexico.cs` | none | `RetirarComentarios`, `RetirarSaltos`, `ExtraerLexemas` |
| Lexemes | `Procesos/Lexema.cs`, `Procesos/Enums.cs` | text and kind, both writable | none |
| Symbol table | `Procesos/TablaSimbolos.cs`, `RegistroTabla.cs`, `Token.cs` | `RegistrosTabla`, `Tokens` | `SiguienteCorrelativo`, `InsertarRegistro`, `ActualizarValorRegistro`, `VariableEstaDeclarada`, `ProcesarListadoLexemas` |
| Syntactic analyser | `Procesos/AnalizadorSintactico.cs` | `TablaSimbolos`; during a call, the cursor `posCursor` passed by reference and the call stack | `ConstruirTablaSimbolos`, `RealizarAnalisisSintax` and its handlers, `ExtraerErroresBloques` |
| Blocks | `Procesos/Bloque.cs` | kind, start, end, errors, own lexemes, inner blocks, parent | `HacersePadre`, `BloquesPlanos` |
| Semantic analyser | `Procesos/AnalizadorSemantico.cs` | its own `TablaSimbolos`, `Errores` | `ProcesarLexemas`: declarations, reassignments, expressions, returns |
| Code generator | `Procesos/GeneradorCodigo.cs`, `Tripleta.cs`, `ExpresionTripleta.cs` | `Triplos`, `ExpresionTripletas` | `GenerarCodigo`, `GenerarTextoResult` |
| Main window | `Compilador/Form1.cs` | one analyser of each kind for the life of the window, the texts, the tree, the table shown | four buttons that compile, and those that open, save and clear the text |
| Tests | `UnitTest/AnalizadorLexicoTest.cs` | | cover the lexical analyser only |

`Compilador/Form1.Designer.cs` (generated layout) and `Compilador/Program.cs`
(start-up) hold no logic of the compiler.  `Compilador/libreriaC` is a copy of a
third-party C toolchain, most of the files of the repository by number; the
program never runs it (`GenerarAsm`, `LeerAsm` and the `GetPath...` methods of
`Form1.cs` are called by nothing).

### How they interact

Everything runs synchronously on the user-interface thread; no thread or timer is
involved.  Of the seven buttons, "Abrir" puts the contents of a file in the text
box, "Guardar a C" writes the text to a file, and "Borrar" clears the text and
the result, but neither the tree nor the table.  The other four compile: their
handlers in `Form1.cs` take the text and run a prefix of this pipeline:

    text -> ExtraerLexemas -> ConstruirTablaSimbolos -> RealizarAnalisisSintax
         -> ExtraerErroresBloques / LlenarArbol -> ProcesarLexemas (semantic)
         -> RealizarAnalisisSintax again -> GenerarCodigo -> GenerarTextoResult

- The lexical button stops after the first step.
- The syntactic button (`Form1.cs:240`) rebuilds the symbol table of the
  syntactic analyser and stops after the tree.
- The semantic and code buttons (`Form1.cs:278`, `:328`) do *not* rebuild that
  table: they parse with the tokens of whatever text the syntactic button last
  saw.
- Lexemes are objects shared by reference between the list, the blocks and the
  semantic analyser, which writes their texts while it evaluates expressions.
  The code button parses the same list a second time.
- No handler catches exceptions.  `ArgumentOutOfRangeException` from a list
  index and `InvalidOperationException` from `First` end the phase, and what the
  earlier phases have written stays on the window.

### What is hard here

There is no concurrency and nothing is stored.  What is hard is:

- a recursive descent in which all handlers share one cursor, each with its own
  early returns, and where a body ends is decided by searches over the *whole*
  list, which ignore where the enclosing block ends;
- off-by-one boundaries: a body is read to the position before its closing
  brace, *exclusive*;
- a cursor that may not move (a loop without end), or move past the end of the
  block it is in;
- partial errors: a wrong header drains the rest of the enclosing block, a
  wrong function does not;
- values, errors and exceptions that travel as the same text, `"Error"`;
- labels that are computed before the lines they name exist;
- stale or shared data: tokens of an earlier text, texts of lexemes changed by
  another phase, blocks matched by start position instead of by reference.

`PROJECT.json` lists these hazards at the line where each one bites.

### What makes each component correct

- *Syntactic analyser.*  Every lexeme it passes is in exactly one block or was
  rejected within a block with an error; blocks nest; the tree drawn is the
  tree built; every step makes progress; a well-formed program gets exactly its
  own structure; an error in the tree is reported.
- *Symbol table.*  Codes are unique and dense, names unique, the first token of
  a name points to its record; the list of records behaves as a map.
- *Semantic analyser.*  A failure is never taken for a value without a report; an
  int holds no decimal; variables are declared before they are used; an
  expression gets its value; what is written into the list leaves its structure.
- *Code generator.*  Codes are unique; the label of a jump is that of the body;
  the operands are those of the source; nothing null is read.
- *Lexical analyser.*  No character is lost; comments and strings are told apart;
  a token is read as what it is.
- *Window.*  What is shown after a button belongs to one text, and the window
  answers again.

## 2. What is modelled

| Module | Models | Kind |
|---|---|---|
| `Lexemas` | `Lexema`, `TipoElemento`, the kind that `ExtraerLexemas` gives each fixed text | operators |
| `Textos` | texts as far as they are compared or read as numbers | operators |
| `AnalizadorLexico` | removal of comments and line ends, scan by the regular expression | specification |
| `Simbolos` | the operations of `TablaSimbolos.cs` on the list of records | operators |
| `MapaSimbolos` | what a symbol table promises: a partial map | abstract specification |
| `TablaSimbolos` | one instance of the table and the calls its owner makes; refines `MapaSimbolos` | specification |
| `AnalizadorSintactico` | the whole syntactic analyser | specification |
| `Aritmetica` | int and decimal arithmetic on numerals | operators |
| `AnalizadorSemantico` | the whole semantic analyser, on records from `Simbolos` | specification |
| `GeneradorCodigo` | the code generator and the printing of its lines | specification |
| `Formulario` | the window and its buttons, composed of the three analysers; refines `Ventana` | specification |
| `Ventana` | what the window promises: results, tree and symbols of one text | abstract specification |
| `MCLexico`, `MCTablaSimbolos`, `MCSintactico`, `MCBienFormado`, `MCSemantico`, `MCExpresiones`, `MCGenerador`, `MCFormulario` | instances for TLC | |
| `TablaSimbolosProofs`, `AnalizadorSintacticoProofs`, `GeneradorCodigoProofs`, `AnalizadorLexicoProofs`, `FormularioProofs` | theorems, one module per component | |
| `AnalizadorSemanticoProofs`, `AnalizadorSemanticoUsosProofs`, `AnalizadorSemanticoTiposProofs` | theorems of the semantic analyser: on `"Error"` and the recursion; on declarations, uses and writes; on types. The last two extend the first | |

### `AnalizadorSintactico`

One behaviour is one call of `RealizarAnalisisSintax` from a button handler.

| Model | Code |
|---|---|
| `lexemas` | the list `listaLexemas`; positions count from 0, as in C# |
| `posCursor` | the `ref int` parameter of every handler |
| `pila` | the pending calls of `RealizarAnalisisSintax`: `indiceStop`, `finBloquePadre`, and the block each one reads for |
| `bloques` | all blocks created so far; `padre` stands for the nesting in `BloquesInterno` (0: outermost) |
| `numTokens` | `TablaSimbolos.Tokens.Count`, the only part of the table the parser reads |
| `estado` | running, returned, or ended by an exception |

There is one action for each branch of `ObtenerSiguienteBloque` (`TipoDato`,
`ReAsignacion`, `Retorno`, `For`, `While`, `If`, `DoWhile`, `Else` and
`SinManejador` for the lexeme no branch takes).  An action runs the handler up
to the point where it returns or makes the recursive call for its body; then
`CerrarBloque` or `CerrarDoWhile` runs the rest of the handler after that call
has returned, and `TerminarAnalisis` returns to the button.  What a handler does
is an operator of its name whose result says which of three things happens:
`Cerrado` (it returned a block), `Abierto` (it calls for a body) or `Excepcion`
(it indexed past the list).  Each is in the order of the code's tests, since an
earlier failure changes where the cursor stands.

Abstractions: of an error text only its presence is kept, per block; a kind of
block is `Sentencia`, `Estructura` or `Funcion`; the lexemes of a block are the
set of their positions, as handlers add them in increasing order.

`SinManejador` is the standstill of the code: `ObtenerSiguienteBloque` returns a
block without moving the cursor and the loop of `RealizarAnalisisSintax` runs
for ever, adding blocks.  `MaxVacios` bounds the number of such empty blocks;
after that the step no longer changes the state.

### `TablaSimbolos`

The two analysers own one instance each and call it differently, so the owner is
chosen in the initial state and guards the actions: `ProcesarLexema` is one turn
of `ProcesarListadoLexemas` (syntactic); `InsertarRegistro` and
`ActualizarValorRegistro` are the calls of the semantic analyser at
`AnalizadorSemantico.cs:64-130`; `NuevaTabla` is the new instance each analysis
starts with.  `MaxTokens` bounds the list of tokens.

### `AnalizadorLexico`

`codigo` is the text as a sequence of characters and `pos` where the scan stands.
`RetirarBloque`, `RetirarLinea` and `Copiar` are the matches of the regular
expression of `RetirarComentarios`; `RetirarSaltos` is the call of that name;
`ExtraerLexema` is one turn of the loop over matches of `ExtraerLexemas`: the
first alternative, in the order they are written, that matches at `pos`, or one
character passed over when none does.  A match of kind `Error` that is a blank
gives no lexeme, as in the code.  The words of `Enums.cs` are the constant
`Palabras`, in order, since the order decides (`double` before `do`).

Abstractions: a line end of two characters is one character `"nl"`; the
backslash is left out, and with it escapes in literals.

### `AnalizadorSemantico`

One behaviour is one call of `ProcesarLexemas`.

| Model | Code |
|---|---|
| `lexemas` | the list; the analysis writes into its texts |
| `registros` | `TablaSimbolos.RegistrosTabla` of this analyser, with null values |
| `errores` | `Errores`: what was reported, and at which identifier |
| `turno` | the identifier of the loop at line 27 |
| `llamadas` | pending calls of `AsignacionCompleja`: its list, `ladoIzq`, `ladoDer`, `op`, `result`, and how many elements have been read |
| `funcion` | the function of the loop at line 667 |

The loop over identifiers has one action per outcome: `Desbordar` (an index past
the end, after the report of a second declaration), `DeclararSinAsignar`,
`Ignorar`, `ReasignarNoDeclarada`, `AsignarSimple` and `AsignarCompleja`.  An expression is read one element per
step (`LeerElemento`); an operator that stands two before a `*` or `/` makes the
recursive call (`LlamarProducto`), and its return (`RegresarProducto`) writes
three texts; `TerminarCompleja` stores the result.  An element is a reference to
a lexeme, by position, or a fresh lexeme with the value of a variable: a write
through a reference changes `lexemas`, one to a fresh lexeme does not.

`RealizarOperacion` follows the order of the code's failures: a null text, types
that differ, texts that do not parse, a division by zero, the overflow of the
least int divided by -1.  Numerals are a mantissa and a scale; ints wrap at
`IntMax`, decimals keep the digits of their operands, and an inexact quotient is
cut at `EscalaMax` digits.

### `GeneradorCodigo`

`triplos` and `expresiones` are the lists of the code, `pila` the pending loops
over inner blocks with the locals `iniciaBucle` and the condition, `salida` the
lines printed.  `Sentencia` is `ProcesarBloque` on a block that is no structure,
`AbrirEstructura` and `CerrarEstructura` are the parts of `ProcesarWhile` and its
siblings before and after the inner blocks, and `Imprimir` is
`GenerarTextoResult`.  Of a line printed only its label and its target are kept.

Things the model has because the code does: a simple reassignment adds no line;
`%` is treated as a sum; parentheses are operands like any other; a third
operator is ignored; a `while` falls through into its body when its condition is
false; the body of a function is not generated.

### `Formulario`

Composes the three analysers by `INSTANCE` with one set of variables each: a
press is a sequence of their steps (`Leer`, `Analizar`, `Releer`, `Generar`)
between the steps of the handler.  The syntactic analyser sees a copy of the
list without numerals (`vista`), made when it is called; the lexemes the other
two see are the ones that the semantic analyser has written.  `numTokens`, the
tokens of the last text of the syntactic button, outlives a press.  `Fallar` is
an exception in any phase: nothing catches it, and the window keeps what it
showed.  `Escribir` is the user who changes the text, by typing or by "Abrir", and
`Borrar` is the button that clears it; "Guardar a C" changes nothing the window
shows and has no action.  The text in the box is given as its list of lexemes,
and the empty one, `Vacio`, is among those it may hold.

`Ventana` says what a user may rely on: a result that goes with a tree is shown
with the tree and the symbols of its own text; errors of the syntax leave no
tree; a press that raises leaves at most its tree behind.  "Borrar" takes text and
result away and leaves tree and symbols of a text that is gone.

### Definitions named `Mut...`

Some definitions are preceded by a wrong form of themselves: `IndiceBalance` by
`MutSinAnidar`, and so on.  Each is that definition with one plausible mistake
(a missing increment, a cursor not advanced, a search that ignores nesting).
They are used by no specification.  `PROJECT.json` pairs each property with one
of them: put in the place of the right definition, the property fails under the
run's own configuration.  This is how we know the properties say something
about the code.

## 3. What is checked

| Run | Configuration, module | Expected | What it shows |
|---|---|---|---|
| `lexico` | `Lexico.cfg`, `MCLexico` | pass | 68,635 states: no character is lost (`NadaSePierde`), the lexemes are the tokens that were written (`FichasLeidas`), the scan ends (`Termina`) |
| `tabla_simbolos` | `TablaSimbolos.cfg`, `MCTablaSimbolos` | pass | `CodigosDensos`, `NombresUnicos`, `TokenPrimeraAparicion`, and the refinement `EsUnMapa` |
| `sintactico` | `Sintactico.cfg`, `MCSintactico` | pass | `ArbolFiel`, `LexemaUnaVez`, `Anidados`, `AvanzaORegresa`, `Termina` on 5,354 texts, most of them wrong |
| `bien_formado` | `BienFormado.cfg`, `MCBienFormado` | pass | each well-formed program yields exactly the blocks it was printed from (`ArbolCorrecto`) and ends normally (`TerminaBien`) |
| `semantico` | `Semantico.cfg`, `MCExpresiones` | pass | 246,681 states: `ErrorReportado`, `EnteroSinPunto`, `UsosDeclarados`, `RecursionAcotada`, `EscrituraLocal`, `ValorCorrecto`, `Termina` on 17,844 lists |
| `generador` | `Generador.cfg`, `MCGenerador` | pass | 23,384 states: `CodigosDensos`, `SaltoAlCuerpo`, `ExpresionFiel`, `SinNulos` |
| `formulario` | `Formulario.cfg`, `MCFormulario` | pass | 20,023 states: two presses over 12 texts, the refinement `EsUnaVentana` and `PulsacionTermina` |
| `segunda_lectura` | `FormularioSegundaLectura.cfg`, `MCFormulario` | pass | 72,240 states: one press over 933 texts, `SegundaLecturaIgual` and `CodigoDelTexto` |
| `tokens` | `TablaSimbolosTokens.cfg` | violation | finding 1 |
| `errores_ocultos` | `SintacticoSinErroresOcultos.cfg` | violation | finding 2 |
| `finaliza` | `SintacticoFinalizaEsElFin.cfg` | violation | finding 3 |
| `operando_leido` | `GeneradorOperandoLeido.cfg` | violation | finding 4 |

Every module also has a type invariant `TypeOK`, checked with its run.

### Properties of the syntactic analyser

- `TypeOK`: with the types, that the cursor never leaves `0..n`, whatever the
  searches over the whole list find.
- `LexemaUnaVez`: no lexeme is lost or put in two blocks, across errors,
  unclosed functions and headers that swallow braces.
- `Anidados`: inner blocks start after their parent and end before it.
- `ArbolFiel`: `LlenarArbol` matches parents by start position; no two blocks
  with lexemes share one.
- `AvanzaORegresa`: each step moves forward, returns without moving, or stands
  on a lexeme that no handler takes.  The second case is real: a `do...while`
  whose body swallowed the closing brace of its parent fails past that parent's
  end and drains nothing.  `CruzaDos` in `MCSintactico` is the shortest text we
  know that does it.
- `Termina`: every call returns, raises, or stands on a lexeme that starts no
  construct.  `IniciaConstruccion` is stated from the language and not from
  `Manejador`, so that a branch missing from `ObtenerSiguienteBloque` violates
  it.
- `ArbolCorrecto`: compares the blocks with a recursive definition,
  `Esperados`, computed from the program and not from its text.

### Properties of the lexical analyser

- `NadaSePierde`: each character of the text without comments is in exactly one
  lexeme, unless it is a blank or a letter that is not ASCII: the regular
  expression has no alternative for those and `NextMatch` passes over them.
- `FichasLeidas`: a text is written from tokens and separators; when neighbours
  are set apart by a blank or a delimiter, the lexemes are the tokens, of their
  kinds, whatever the comments, the line ends and the strings that look like
  comments.  What it leaves out is what the code does not keep apart: words that
  begin with a reserved word (`done` becomes `do` and `ne`) and words that only
  a line end separates (line ends are removed and nothing is put in their
  place).

### Properties of the semantic analyser

- `ErrorReportado`: `"Error"` is both a text that is stored and a failure; it is
  never in the table, in a pending expression or over a numeral of the list
  without a report.
- `EnteroSinPunto`: an int gets a decimal only through a second declaration,
  which keeps the old type and takes the new value, and is reported.
- `UsosDeclarados`: without errors, every variable an assignment reads or
  replaces was declared further up.
- `EscrituraLocal`: a write through a shared reference stays within the
  expression of the identifier visited, within the three elements after an
  operator that a product follows (`TrasOperador`), changes no kind, an operator
  only to `+`, and a variable only when an error is reported.  "A product" is
  `*`, `/` or a variable two elements on: a `void` variable may hold the text
  `*`, and the code looks at the texts of fresh elements too.
- `RecursionAcotada`: the product that is computed first has three elements, so
  there is no third call.
- `ValorCorrecto`: the values in the table are those of a reference evaluation
  with precedence.  Chains of products are excluded by name
  (`ProductosSeguidos`): there the code is wrong, `a / b * c` is computed as
  `a / (b * c)`.  Quotients of ints are those cut short, since the code's test
  for an exact division is always passed.

### Properties of the generator

- `SaltoAlCuerpo`: `iniciaBucle` is computed before the body is, and is the label
  of the first line the body adds, for any structure but a `for` whose first
  part is not a simple declaration (`EsRegular`).
- `ExpresionFiel`: the line of `x = a op b` or `x = a op b op c` stands for that
  operation, with precedence and with the triplets of the declarations, when
  every variable has one.  Its exclusion `ProductoTrasVariable` is finding 4.
- `SinNulos`: when every variable has a triplet before it is used, nothing is
  returned outside a function and no block has an error, neither the walk nor
  the printing raises.  `DeclaraConTripleta` says which declarations give a
  triplet: a `char` with a value does not.

### Properties of the window

- `EsUnaVentana`: the refinement, through exceptions in every phase and tokens of
  an earlier text.
- `PulsacionTermina`: after every press the window answers again, unless the
  parser stands still.
- `SegundaLecturaIgual`: the second parse, of a list the semantic analysis has
  changed, raises nothing, does not stand still and gives the blocks of the
  first, provided that the analysis wrote over no text that the parser asks for
  (`TextosLeidos`: braces, semicolons, the words of the structures).  The proviso
  is needed: in an error three blocks deep, or in the header of a function, which
  no rule of the parser looks into, the analysis may write a number over a brace.
- `CodigoDelTexto`: the generator's list has the kinds and the variables of the
  text, and its texts but in a product that was reduced.

### Instances and bounds

- `MCSintactico` builds texts from fragments: whole sentences, opening and
  closing pieces of each structure, and one wrong piece for each way a handler
  fails.  All texts of up to two of the 24 fragments; of three and four nesting
  pieces; of four pieces with a header that swallows a brace; and of five where
  an error should end up three blocks deep.  Three blocks is where
  `ExtraerErroresBloques` stops looking, two is the smallest depth at which a
  header can cross its parent's end, and each handler only looks at its own
  text, its parent's end and searches over the whole list.
- `TokensPrevios = {0}` adds the table of an empty earlier text to the current
  one: the parser only compares the number of tokens with a position of the
  text, and 0 is below every position.
- `MaxVacios = 2`: one empty block shows the standstill, a second that it
  repeats.
- `MCBienFormado` prints programs of depth up to three: each of the seven
  composite constructs with each body of up to two sentences, in each of the
  seven, two nested next to a sentence, a chain of three.  Empty bodies, bodies
  of one construct and `else`/`do` without and with successors are the cases
  where the reading of a body to the position before its end matters.
- `MCTablaSimbolos`: three names, two types, two values and `"Error"`, five
  tokens: enough for a name repeated before and after another.
- `MCLexico`: texts of two of 25 tokens with one of six separators, of three of
  five tokens with comments, and pairs with tokens that the analyser does not
  read as one.  A match looks one token ahead at most; comments and strings need
  three tokens to open, hide and close one another.
- `MCSemantico` and `MCExpresiones`: two declarations and an assignment over
  three variables and all types; expressions of up to four operands and all five
  operators; functions with and without returns.  Three operators are the first
  chain in which a product stands before and after a sum.  Wrong sentences stand
  three blocks deep (`Hondo`), since only there the window would analyse them: a
  comma between operands, a `void` variable that holds `*`, an operand without an
  operator.  `IntMax = 31` makes
  sums and products of the small numerals wrap, and a numeral beyond it raises
  when it is parsed, as in C# at 2^31; `EscalaMax = 2` gives exact and inexact
  quotients.  Both only scale the case distinctions of `Aritmetica`.
- `MCGenerador`: sentences of up to three operators after two declarations; every
  structure in every structure, alone, before a sentence and after one, with
  empty bodies and bodies that add no line; an error three blocks deep, which the
  parser lets through.
- `MCFormulario`: 12 texts, the empty one and one for each way a press may end
  (`MCProgramas`), for `MaxPulsaciones = 2` presses of buttons that compile: what
  a press leaves behind is the table of tokens and the window, so two presses show
  it.  And 933 texts, the empty one and those whose assignments have up to five
  operands, in every structure, or are wrong, three blocks deep and outside every
  structure (`Asignaciones`), for one press.

### Fairness

Each analyser's `Spec` has `WF_vars(Next)`: it is one synchronous call on the
user-interface thread, which is not suspended and goes on until it returns or
raises.  `Formulario` has `WF_vars(Manejar)`, the steps of a handler, for the
same reason; the user may stop pressing buttons, so `Escribir`, `Borrar` and the
presses have no fairness and its runs do not check for deadlock.  No stronger assumption
is made.  The standstill at `SinManejador` is a real behaviour and `Termina` and
`PulsacionTermina` list it as an outcome.  `TablaSimbolos` has no fairness and no
liveness property: the table only answers calls.

### Findings

1. *The token of a repeated identifier points nowhere, or to another
   identifier* (`TablaSimbolos.cs:74`, run `tokens`).  `ProcesarListadoLexemas`
   gives every token the code the next *new* record would get.  `Token.cs:16`
   says that `IdTablaSimbolos` is the record of the identifier.
2. *Deep errors are not reported* (`AnalizadorSintactico.cs:1204`, run
   `errores_ocultos`).  `ExtraerErroresBloques` collects errors of outermost
   blocks and their immediate inner blocks; with an error one level deeper the
   window says that the analysis was correct, and the next phases run.
3. *`Finaliza` is not the end of a block with an error*
   (`AnalizadorSintactico.cs:1058`, run `finaliza`).  Handlers that drain the
   enclosing block leave it at 0, where `Bloque.cs:25` says that it is where the
   block ends.
4. *A product after a sum takes the place of the first operand*
   (`GeneradorCodigo.cs:192`, run `operando_leido`).  In `x = y + z * d` the
   branch asks for the kind of `y` and looks up `d`: the code adds `d`.  The
   comment at line 188 says that the second operand is still to be read there.

### Further configurations

These give a counterexample each, to something a comment or a test says:

| Configuration, module | Says | The code |
|---|---|---|
| `LexicoMenosIgualEntero.cfg`, `MCLexico` | `UnitTest/AnalizadorLexicoTest.cs:137`: `-=` is one lexeme | it is two: the arithmetic operators come first in the expression |
| `LexicoNumeroConLetrasEsError.cfg`, `MCLexico` | `UnitTest/AnalizadorLexicoTest.cs:153`: `44fs` is an error | a number and an identifier: the letters are looked for in the digits |
| `LexicoComentariosFuera.cfg`, `MCLexico` | `AnalizadorLexico.cs:146`: comments are removed | the quotation mark of a character literal opens a string, and a comment in it stays |
| `SemanticoLexemasIntactos.cfg`, `MCSemantico` | `AnalizadorSemantico.cs:220`: a copy of the lexemes | references, and the list changes |
| `SemanticoDivisionInexactaReportada.cfg`, `MCSemantico` | line 371: an inexact division is reported | the test takes an int modulo 1 |
| `SemanticoSinRetornoSeInforma.cfg`, `MCSemantico` | line 681: there is a return at this point | there may be none, and `First` raises after the report, which is lost |
| `GeneradorSaltoAEtiqueta.cfg`, `MCGenerador` | `GeneradorCodigo.cs:315`: the label where the block starts | when the body adds no line there may be no such label |
| `GeneradorDeclaracionConTripleta.cfg`, `MCGenerador` | line 50: a declaration with a simple value | characters are left out, and the variable never gets a triplet |

## 4. What is proved

The proof modules are checked by `tlapm` from nothing.  The theorems hold for
every value of the constants that satisfies the named assumptions.

The inputs.  `EntradasAssumption` says in each module what it is given: a list of
lexemes (`AnalizadorSintactico`), a text of characters (`AnalizadorLexico`), a
list of lexemes with texts and a list of blocks, which need not be its parse
(`GeneradorCodigo`).  In `AnalizadorSemantico` the list is moreover one that
`ExtraerLexemas` can give, `Extraida`: only an identifier can read `Error`, as a
string has its quotes; the semicolon is the only lexeme of its kind; and a text
that is an identifier somewhere is one everywhere and is not empty or `+`, as the
pattern of identifiers is tried after those of the words of the language.
`ProgramasAssumption` of `Formulario` says the same of the texts of the box.
`PalabrasAssumption` says what the reserved words are, `TokensPreviosAssumption`
that sizes are naturals.  The values: `NuloAssumption` (null is no text, type or
value), `NadieAssumption` (no text is no text), `LetrasAssumption`,
`IntMaxAssumption` and `EscalaMaxAssumption`.  The bounds: `MaxVaciosAssumption`,
`MaxTokensAssumption` and, for all the numbers of the window,
`LimitesAssumption`.

| Theorem | States |
|---|---|
| `AnalisisBienTipado` | `Spec => []TypeOK` of `AnalizadorSintactico` |
| `BloquesAnidados` | `Spec => []Anidados` |
| `ArbolDibujadoFiel` | `Spec => []ArbolFiel` |
| `NingunLexemaSePierde` | `Spec => []LexemaUnaVez` |
| `ElAnalisisAvanza` | `Spec => AvanzaORegresa` |
| `TablaCorrecta` | `Spec => [](TypeOK /\ CodigosDensos /\ NombresUnicos)` of `TablaSimbolos` |
| `TablaBienTipada`, `NombresNoSeRepiten` | its parts |
| `PrimerTokenCorrecto` | `Spec => []TokenPrimeraAparicion` |
| `TablaEsUnMapa` | `Spec => EsUnMapa` |
| `TodoErrorSeReporta` | `Spec => []ErrorReportado` of `AnalizadorSemantico` |
| `RecursionDeDosNiveles` | `Spec => []RecursionAcotada` |
| `TiposDelSemantico` | `Spec => []TypeOK` |
| `EnteroNoGuardaDecimales` | `Spec => []EnteroSinPunto` |
| `TodoUsoSeDeclara` | `Spec => []UsosDeclarados` |
| `SoloSeEscribeElProducto` | `Spec => EscrituraLocal` |
| `TiposDelGenerador` | `Spec => []TypeOK` of `GeneradorCodigo` |
| `CodigosSonPosiciones` | `Spec => []CodigosDensos` |
| `ElSaltoVaAlCuerpo` | `Spec => SaltoAlCuerpo` |
| `LecturaBienTipada` | `Spec => []TypeOK` of `AnalizadorLexico` |
| `LecturaCompleta` | `Spec => []NadaSePierde` |
| `LaVentanaCumple` | `Spec => EsUnaVentana` of `Formulario` |
| `TiposDelFormulario` | `Spec => []TypeOK` |
| `ElCodigoEsDelTexto` | `Spec => []CodigoDelTexto` |
| `SegundaLecturaEsLaPrimera` | `Spec => []SegundaLecturaIgual` |

*Syntactic analyser.*  The argument has two layers.

The first is a contract that every handler keeps, `Valido(p, r)`: started at
`p`, it raises, or it moves the cursor past `p` within the list and gives a
block that starts at `p`, belongs to the pending call, and holds every lexeme it
passed, unless it carries an error and covers them with its range.  A handler
that asks for a body has already passed the start of that body.  There is one
lemma per handler, resting on lemmas about the searches (`IndicePuntoComa`
and `IndiceBalance` return -1 or a position at which the text is the one looked
for, at or after the start).

The second is the inductive invariant `IInv`.  `Anidados`, `ArbolFiel` and
`LexemaUnaVez` are not inductive: they say nothing of the calls that are still
pending.  `IInv` adds

- `Marcos`: the pending calls are a chain of distinct open blocks, each the
  parent of the next, without an error and without an end yet;
- `BloquesBien`: a block's lexemes lie between its start and the cursor, and its
  parent is an earlier block that has lexemes;
- `Orden`: blocks with lexemes start in the order they are created;
- `Disjuntos` and `Cobertura`: the two halves of `LexemaUnaVez`, without
  cardinalities.

A block that is added (`AgregarPreserva`) lies wholly ahead of the old cursor,
so it is disjoint from all others and starts later; a block that is closed
(`CerrarPreserva`) only gets lexemes ahead of the cursor, so those of its inner
blocks stay before its end.  `ArbolFiel` follows from `Orden`, as starts are
distinct; `LexemaUnaVez` from `Disjuntos` and `Cobertura`.

`AvanzaORegresa` follows from the contract for the handlers, and from a case
split on the end of a `do...while`.  Without its middle case the statement is
false; the failed proof is what led to the text `CruzaDos`.

*Symbol table.*  `TypeOK`, `CodigosDensos` and `NombresUnicos` are inductive
together: density makes the maximum of the codes the length of the list, and
so the next code new.  `PrimerTokenCorrecto` needs in addition that the records
of the syntactic table are exactly the names of its tokens.  `TablaEsUnMapa`
maps the initial state to the empty map and each action to `Descartar`,
`Registrar`, `CambiarValor` or a stutter.

*Semantic analyser.*  `IInv` follows `"Error"` through all it may reach.  `Tabla`:
no record holds it without a report; `Listado`: nor does a lexeme that is not an
identifier; `Pila`: nor does an element, a side or a result of a pending call,
and the stack is empty, one call, or two of which the second has exactly three
elements.  The last part is needed for both theorems: a call of three elements
never finds an operator with two elements after it, so it makes no call, and
what a call writes can only be what its inner call returned.  Each element has
the kind of the lexeme it refers to, since a text written to a reference must
not land on an identifier of the list that the next step reads as another.  Each
operation that gives `"Error"` reports (one lemma per operation), and errors only
grow.

`JInv`, on top of it, follows declarations and positions.  `Procedencia`: each
record comes from a declaration that has been visited.  `Usos`: without errors,
the uses of the assignments visited, and of the one under way, are declared; the
one under way is needed because an expression is converted, and its variables
looked up, steps before the turn moves on.  `Asignando` says of the identifier
under way what its guards have found, so that what is stored at the end goes to
a record of that name, and `Enteros` that an int holds a decimal only after a
name was declared twice.  `Exterior` ties a pending call to the list: its j-th
element is the lexeme j places after the assignment, or a fresh one for it, and
all of them stand before the semicolon (`Sincronizada`); a call that waits for a
product has just read an operator that one follows (`Espera`).
`SoloSeEscribeElProducto` is then a fact about one step: only `RegresarProducto`
writes, and it writes the three elements after the one read.  The declarations
of `Procedencia` and `Usos` are read from a list that changes, so the proof needs
`Escritura` itself: identifiers and semicolons are still where they were.  A
semicolon is never written, as what is written is `+`, 0 or the result of a call,
which is a numeral, empty or `Error` (`Calculado`, `Terminadores`).

`KInv` carries the types.  A fresh element for a variable without a value has a
null text, and the list has none: `Referidos` says that an element that refers to
a lexeme has a text, and null raises or fails before it becomes a result.
Dense codes give the next code, as in the symbol table.  That a power of ten is
a positive natural is an induction that the provers cannot instantiate; it is
proved instead by the least counterexample, as is the existence of the function
`Potencia`, built from its finite prefixes (`Escalera`).  The provers do not know
that a literal is a string, so `NombreTexto` names those that the analysis
writes.

*Code generator.*  `Bien(g)` says that the lists of a partial result have dense
codes; density makes the maximum of the codes the length of the list.  One lemma
per operation says that it keeps `Bien` and how many lines it adds; those for the
first part of each structure give `AbrirLlegaAlCuerpo`, that `iniciaBucle` is the
length plus one after it.  `PilaBien` carries this to the moment the first inner block
is taken: only the innermost pending call may not have taken one, and no line has
been added since it was opened.

The types need more than it seems, since `for` copies its parts by the index of
one list into another: `Abiertas` says that every pending `for` has all its parts,
as opening it would have raised, so that closing it copies lexemes that are there.
The blocks may be any: nothing is assumed of how they relate to the list.  The
least element of a set of positions exists by well-founded induction on a given
relation, the greatest from the least of the differences (`MinimoEsta`,
`MaximoEsta`).  The recursive function of `Partes` is shown to exist by the least
position that none reaches (`HayTramo`), and to give sequences of elements of the
list likewise (`PartesLista`).

*Lexical analyser.*  Each alternative reads at least one character and stays in
the text (`GrupoLee`, from one lemma per kind of match), and where none matches
the character is a letter that is not ASCII; with `Detras`, that all lexemes end
before `pos`, the two halves of `NadaSePierde` are inductive.

*Window.*  The mapping to `Ventana` is the identity but for `ocupada`, which is
`fase # "espera"`.  What makes it work is `Dibujado`: from the acceptance of the
parse on, the tree is that of the text in the box, as the box cannot change
during a press.  The steps of the three analysers map to stutters, whatever they
do, so the proof needs no fact about them.

`ElCodigoEsDelTexto` does need one: it rests on the invariants of the semantic
analyser, `IInv`, `JInv` and `EscrituraLocal`, which are cited through the instance
`SemP` of its proof module.  `Parecida` says that the list is that of the box but in
products, and that a variable differs only after an error; `Lectura` says in which
phase of a press each of these holds, and that the list is parsed again, and code
generated, without errors only.  One subtlety makes it inductive: a position where
the texts differ no longer reads `*` or `/`, so that what follows it is told by the
text of the box and not by what an earlier product left there.

`SegundaLecturaEsLaPrimera` compares two executions, and is proved in two layers.
The first is in `AnalizadorSintacticoProofs`.  `Concuerdan(L)` says that the list
under analysis and another, `L`, have the same kinds, and the same texts wherever
the parser asks for one; each search, each rule of a statement and each handler
is shown to give the same result on both (`...Igual`, one lemma each, where
`De(L, k)` is the analysis of `L`).  So the step taken is a function of the state
that `L` determines (`PasoDetermina`: the state is `Ahora`, the function `Paso`).
A trace of an analysis of `L` is a finite sequence that starts with the state at
the call and goes on by `Paso`; `Leida` says that the analysis under way extends
one, and `Releida` that it passes through the states of one that ended normally.
What the trace never does, the second analysis does not do either
(`ReleidaBien`): it does not raise, it never has more blocks, it does not stand
still, as a standstill is never left (`EstancadoSigue`), and its end is the end
of the trace.

The second layer is the window's.  `VistasConcuerdan` shows that the list the
second parse sees agrees with the text of the box: a text is only written in the
place of one that is neither an identifier nor known to the parser, and what is
written, as nothing was reported, is a numeral, empty or `+` (`Escribible`).  That no
identifier reads as a text that was there before or is there now is needed for
the increment of a `for`, where the parser asks whether two variables are the
same.  `Lecturas` says which of `Leida` and `Releida` holds in which phase: the
first parse leaves a trace, the analysis keeps its blocks, and the second parse
starts at the first state of that trace.  The window runs its own instance of
the parser, without inputs; `MismosPasosDeLectura` shows that its steps are those
of the instance whose proofs are cited, `SintP`.

Only model-checked:

- liveness, which is out of the prover's reach: `Termina`, `TerminaBien`,
  `PulsacionTermina`;
- what is compared with a recursive reference definition: `ArbolCorrecto`,
  `ValorCorrecto`, `FichasLeidas`;
- `SinNulos` and `ExpresionFiel`: they hold only if the blocks are the parse of the
  list, which the invariants of the generator do not assume;
- the findings, which are counterexamples.

## 5. What is not modelled

- `Compilador/libreriaC`: third-party C code that the program does not run.  It is
  nearly all of the repository's lines, so a share of lines covered says nothing
  here; of the C# sources listed in section 1 every operation that the buttons
  reach is an action or part of one.
- Texts of errors, layout, fonts, line numbers, dialogs for files, and the file
  that "Guardar a C" writes: no property is about them.
- The backslash in literals; `BloquesPlanos`, whose order of nodes only the
  drawing of the tree sees.
- What nothing calls: `TablaSimbolos.TextoToTipo`, `IndiceBalance` of the
  semantic analyser, `BuscarTripletaPorBloque`, `GenerarAsm`, `LeerAsm`,
  `FormatearCuadroTexto` and the `GetPath...` methods of the window, the
  enumerations of operators and `TipoElemento.TipoVariable`.

## 6. Plan

All modules of the plan are written, and every safety property of the symbol
table, the lexical and the semantic analyser and the window is proved but the two
compared with a recursive reference.  In the order of what they would add:

1. `SinNulos` proved, from an invariant that relates the triplets to the
   declarations visited, and an assumption that the blocks are those of a parse,
   in the terms that `AnalizadorSintacticoProofs` proves of one.
2. `ExpresionFiel` proved, from the same invariant.
