---------------------------- MODULE TablaSimbolos ---------------------------
(***************************************************************************)
(* One instance of the class TablaSimbolos and the calls its two owners    *)
(* make.  The syntactic analyser replaces the table and registers every    *)
(* identifier lexeme, with a token each; the semantic analyser replaces it *)
(* and inserts declarations and assigns values.  Each analyser owns its    *)
(* own instance, so the owner is fixed when the instance is created.       *)
(***************************************************************************)
EXTENDS Simbolos

CONSTANTS Identificadores, \* names of variables
          Tipos,           \* declared types
          Valores,         \* values, as text; "Error" is a value like others
          MaxTokens        \* bound on the tokens of one instance

ASSUME NuloAssumption == Nulo \notin Tipos \cup Valores
ASSUME MaxTokensAssumption == MaxTokens \in Nat

VARIABLES duenno,     \* the analyser that owns the instance
          registros,  \* RegistrosTabla
          tokens      \* Tokens

vars == <<duenno, registros, tokens>>

Registro == [codigo : Nat, nombre : Identificadores,
             tipo : Tipos \cup {Nulo}, valor : Valores \cup {Nulo}]
Token == [nombre : Identificadores, idTablaSimbolos : Nat]

(* The type invariant: a value is never stored where a type belongs. *)
TypeOK ==
  /\ duenno \in {"sintactico", "semantico"}
  /\ registros \in Seq(Registro)
  /\ tokens \in Seq(Token)

-----------------------------------------------------------------------------
Init ==
  /\ duenno \in {"sintactico", "semantico"}
  /\ registros = << >>
  /\ tokens = << >>

(* A new analysis replaces the table: ConstruirTablaSimbolos in one owner, *)
(* the first statement of ProcesarLexemas in the other.                    *)
NuevaTabla ==
  /\ registros' = << >>
  /\ tokens' = << >>
  /\ UNCHANGED duenno

(* The next action with a plausible mistake: the code is read too late. *)
MutTokenDespues(nombre) ==
  /\ duenno = "sintactico"
  /\ Len(tokens) < MaxTokens
  /\ registros' = Insertar(registros, nombre, Nulo, Nulo)
  /\ tokens' = Append(tokens,
                      [nombre |-> nombre,
                       idTablaSimbolos |-> SiguienteCorrelativo(registros')])
  /\ UNCHANGED duenno

(* One turn of the loop of ProcesarListadoLexemas: the token takes the     *)
(* next code before the record is inserted.                                *)
ProcesarLexema(nombre) ==
  /\ duenno = "sintactico"
  /\ Len(tokens) < MaxTokens
  /\ tokens' = Append(tokens,
                      [nombre |-> nombre,
                       idTablaSimbolos |-> SiguienteCorrelativo(registros)])
  /\ registros' = Insertar(registros, nombre, Nulo, Nulo)
  /\ UNCHANGED duenno

(* A declaration.  A redeclaration is reported and inserted all the same.  *)
(* The value is null when the declaration has no initializer.              *)
InsertarRegistro(nombre, tipo, valor) ==
  /\ duenno = "semantico"
  /\ registros' = Insertar(registros, nombre, tipo, valor)
  /\ UNCHANGED <<duenno, tokens>>

(* A reassignment: only of a declared variable, and only of a value that   *)
(* is not "Error".  Copying a variable without a value writes null.        *)
ActualizarValorRegistro(nombre, valor) ==
  /\ duenno = "semantico"
  /\ VariableEstaDeclarada(registros, nombre)
  /\ valor # "Error"
  /\ registros' = ActualizarValor(registros, nombre, valor)
  /\ UNCHANGED <<duenno, tokens>>

Next ==
  \/ NuevaTabla
  \/ \E nombre \in Identificadores :
       \/ ProcesarLexema(nombre)
       \/ \E valor \in Valores \cup {Nulo} :
            \/ ActualizarValorRegistro(nombre, valor)
            \/ \E tipo \in Tipos : InsertarRegistro(nombre, tipo, valor)

Spec == Init /\ [][Next]_vars

-----------------------------------------------------------------------------
(* Codes are dense: the record at position i has code i, however many      *)
(* names were inserted again (the maximum is recomputed on every call).    *)
CodigosDensos == \A i \in DOMAIN registros : registros[i].codigo = i

(* No name has two records, so First never hides a record. *)
NombresUnicos ==
  \A i, j \in DOMAIN registros :
    registros[i].nombre = registros[j].nombre => i = j

(* The token of the first appearance of an identifier points to the record *)
(* of that identifier.                                                     *)
TokenPrimeraAparicion ==
  \A k \in DOMAIN tokens :
    (\A j \in 1..(k - 1) : tokens[j].nombre # tokens[k].nombre) =>
       \E i \in DOMAIN registros :
         /\ registros[i].codigo = tokens[k].idTablaSimbolos
         /\ registros[i].nombre = tokens[k].nombre

(* What Token.cs says of IdTablaSimbolos, "Registro en la tabla de         *)
(* simbolos, tendra valor si es un identificador": every token names the   *)
(* record of its identifier.                                               *)
TokenApuntaARegistro ==
  \A k \in DOMAIN tokens : \E i \in DOMAIN registros :
    /\ registros[i].codigo = tokens[k].idTablaSimbolos
    /\ registros[i].nombre = tokens[k].nombre

-----------------------------------------------------------------------------
(* The table as the partial map of MapaSimbolos. *)
MapaDeRegistros ==
  [nombre \in Nombres(registros) |->
     LET r == registros[PosicionDe(registros, nombre)]
     IN  [tipo |-> r.tipo, valor |-> r.valor]]

Abstracta == INSTANCE MapaSimbolos WITH mapa <- MapaDeRegistros

(* The list of records with linear searches behaves as a map from names to *)
(* a type that never changes once given and the last value stored.         *)
EsUnMapa == Abstracta!Spec
=============================================================================
