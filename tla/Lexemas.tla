------------------------------ MODULE Lexemas ------------------------------
(***************************************************************************)
(* The lexemes that the lexical analyser hands to the other components: a  *)
(* record with the text and the kind it was matched as (Lexema.cs).  The   *)
(* fields Error and MensajeError only decorate the list shown to the user  *)
(* and are left out.                                                       *)
(***************************************************************************)
EXTENDS Integers, Sequences

(* Enums.TipoElemento, without TipoVariable, which nothing produces. *)
TipoElemento ==
  { "Variable", "PalabraReservada", "TipoDato", "Numero",
    "OperadorAritmetico", "OperadorRelacional", "OperadorLogico",
    "OperadorAsignacion", "OperadorMisc", "PalabraDefinicion",
    "OperadorTerminador", "Parentesis", "Corchete", "Llave", "Error",
    "OperadorIncremental", "OperadorDecremental", "Cadena", "Caracter",
    "Coma" }

(* Any string; the provers do not know that a literal is one, so those that *)
(* the semantic analysis writes are named.                                 *)
NombreTexto == STRING \cup {"0", "", "+", "-", "Error"}

Lexema == [tipo : TipoElemento, texto : NombreTexto]

(* The names that each alternative of the regular expression stands for:   *)
(* TipoVariablePatron, TipoPalabraReservadaPatron and                      *)
(* TipoPalabraDefinicionPatron list an enumeration in lower case.          *)
TiposDato == {"char", "uchar", "schar", "int", "uint", "short", "ushort",
              "long", "ulong", "float", "double", "longdouble", "void",
              "charstring"}

PalabrasReservadas == {"if", "else", "switch", "case", "default", "break",
                       "for", "while", "do", "goto", "return", "continue",
                       "enum", "struct", "typedef", "union", "volatile"}

PalabrasDefinicion == {"auto", "signed", "const", "extern", "register",
                       "unsigned"}

(* The kind that ExtraerLexemas gives a fixed text.  Alternatives are tried *)
(* in order, so "+=" and "*=" are relational, and "-=", "/=" and "%=" never *)
(* come out whole: their first character is already an arithmetic operator. *)
TipoDeTexto(t) ==
  CASE t \in {"==", "!=", ">=", ">", "<=", "<", "+=", "*="} ->
         "OperadorRelacional"
    [] t \in {"&&", "!", "||"} -> "OperadorLogico"
    [] t = "++" -> "OperadorIncremental"
    [] t = "--" -> "OperadorDecremental"
    [] t \in {"+", "|", "-", "*", "%", "/"} -> "OperadorAritmetico"
    [] t \in TiposDato -> "TipoDato"
    [] t \in PalabrasReservadas -> "PalabraReservada"
    [] t \in PalabrasDefinicion -> "PalabraDefinicion"
    [] t = "=" -> "OperadorAsignacion"
    [] t \in {"(", ")"} -> "Parentesis"
    [] t \in {"{", "}"} -> "Llave"
    [] t \in {"[", "]"} -> "Corchete"
    [] t = ";" -> "OperadorTerminador"
    [] t = "," -> "Coma"
    [] OTHER -> "Error"

Fijo(t)     == [tipo |-> TipoDeTexto(t), texto |-> t]
Variable(t) == [tipo |-> "Variable", texto |-> t]
Numero(t)   == [tipo |-> "Numero", texto |-> t]
Cadena(t)   == [tipo |-> "Cadena", texto |-> t]
=============================================================================
