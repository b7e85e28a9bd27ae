-------------------------- MODULE AnalizadorLexico --------------------------
(***************************************************************************)
(* The lexical analyser, AnalizadorLexico.cs: RetirarComentarios, then     *)
(* RetirarSaltos, then ExtraerLexemas, as every button calls them.  The    *)
(* first and the last are a scan by a regular expression: at each position *)
(* its alternatives are tried in the order they are written, and where     *)
(* none matches the scan moves on by a character.                          *)
(*                                                                         *)
(* A text is a sequence of characters, with "nl" for a line end of two     *)
(* characters (Environment.NewLine) and "lf" for a line feed alone.  The   *)
(* backslash is left out, and with it escapes in literals.                 *)
(***************************************************************************)
EXTENDS Integers, Sequences, FiniteSetsExt

CONSTANTS Letras,   \* ASCII letters
          Ajenas,   \* other letters
          Palabras, \* the words of Enums.cs, in order: kind and letters
          Entradas  \* texts that may be analysed

ASSUME LetrasAssumption == Letras \cap Ajenas = {}
ASSUME PalabrasAssumption ==
  Palabras \in Seq([tipo : {"TipoDato", "PalabraReservada", "PalabraDefinicion"},
                    letras : Seq(Letras)])

ASSUME EntradasAssumption == Entradas \subseteq Seq(STRING)

VARIABLES fase,    \* "comentarios", "lexemas" or "listo"
          codigo,  \* the text scanned in this phase
          pos,     \* where the scan stands
          limpio,  \* what RetirarComentarios has kept
          lexemas  \* the lexemes found: kind and characters

vars == <<fase, codigo, pos, limpio, lexemas>>

Comilla == "\""
Digitos == {"0", "1", "2", "3", "4", "5", "6", "7", "8", "9"}
Blancos == {" ", "lf", "nl"}
FinDeLinea == {"lf", "nl"}

n == Len(codigo)

(* Groups of the regular expression, in order. *)
Alternativas ==
  << "OperadorRelacional", "OperadorLogico", "OperadorIncremental",
     "OperadorDecremental", "OperadorAritmetico", "TipoDato",
     "PalabraReservada", "PalabraDefinicion", "Numero", "Variable", "Cadena",
     "Caracter", "OperadorAsignacion", "Parentesis", "Llave", "Corchete",
     "OperadorTerminador", "Coma", "Error" >>
Tipos == {Alternativas[i] : i \in DOMAIN Alternativas}

(* A lexeme, with the positions of the text without comments and line ends *)
(* that it was found at.                                                   *)
Lexema == [tipo : Tipos, desde : Nat, hasta : Nat]

(* The type invariant. *)
TypeOK ==
  /\ fase \in {"comentarios", "lexemas", "listo"}
  /\ pos \in 1..(n + 1)
  /\ lexemas \in Seq(Lexema)
  /\ \A i \in DOMAIN lexemas : lexemas[i].desde <= lexemas[i].hasta

-----------------------------------------------------------------------------
(* Matching at position p *)

(* The k characters from p on. *)
Trozo(p, k) == SubSeq(codigo, p, p + k - 1)

Empieza(p, s) == p + Len(s) <= n + 1 /\ Trozo(p, Len(s)) = s
EmpiezaUno(p, S) == \E s \in S : Empieza(p, s)

(* How many characters from p on are in C. *)
Corrida(p, C) ==
  Min({k \in 0..n : p + k > n \/ codigo[p + k] \notin C})

EsUno(p, C) == p <= n /\ codigo[p] \in C

(* Up to and with the first s at q or after, from p: 0 if there is none.   *)
HastaCon(p, q, s) ==
  LET fines == {k \in 0..(n - p + 1) : p + k >= q + Len(s)
                                       /\ Empieza(p + k - Len(s), s)}
  IN  IF fines = {} THEN 0 ELSE Min(fines)

(* A string between quotes whose inside avoids the characters of C. *)
LargoCadena(p, C) ==
  LET k == HastaCon(p, p + 1, <<Comilla>>)
  IN  IF Empieza(p, <<Comilla>>) /\ \A i \in p..(p + k - 1) : codigo[i] \notin C
        THEN k ELSE 0

(* @ and any number of strings, one after the other. *)
LargoVerbatim(p) ==
  LET comillas == {i \in (p + 1)..n : codigo[i] = Comilla}
      pares(q) == Cardinality({i \in comillas : i < q}) % 2
      sigue(q) == q + 1 \in comillas /\ \E r \in comillas : r > q + 1
      fines == {q \in comillas : pares(q) = 1 /\ ~ sigue(q)}
  IN  IF Empieza(p, <<"@", Comilla>>) /\ fines # {} THEN Min(fines) - p + 1 ELSE 0

LargoNumero(p) ==
  LET k == Corrida(p, Digitos)
      f == IF k > 0 /\ EsUno(p + k, {"."}) THEN Corrida(p + k + 1, Digitos) ELSE 0
  IN  IF f > 0 THEN k + 1 + f ELSE k

LargoVariable(p) ==
  LET k == Corrida(p, Letras \cup {"_"})
  IN  IF k = 0 THEN 0 ELSE k + Corrida(p + k, Digitos)

(* The first word of that kind that the text goes on with, even if more    *)
(* letters follow.                                                         *)
LargoPalabra(p, tipo) ==
  LET si == {i \in DOMAIN Palabras : Palabras[i].tipo = tipo
                                     /\ Empieza(p, Palabras[i].letras)}
  IN  IF si = {} THEN 0 ELSE Len(Palabras[Min(si)].letras)

Dobles == {<<"=", "=">>, <<"!", "=">>, <<">", "=">>, <<"<", "=">>,
           <<"+", "=">>, <<"*", "=">>}

Si(condicion, k) == IF condicion THEN k ELSE 0

(* The length that a group matches at p, 0 if it does not. *)
Largo(tipo, p) ==
  CASE tipo = "OperadorRelacional" ->
         IF EmpiezaUno(p, Dobles) THEN 2 ELSE Si(EsUno(p, {"<", ">"}), 1)
    [] tipo = "OperadorLogico" ->
         IF EmpiezaUno(p, {<<"&", "&">>, <<"|", "|">>}) THEN 2
         ELSE Si(EsUno(p, {"!"}), 1)
    [] tipo = "OperadorIncremental" -> Si(Empieza(p, <<"+", "+">>), 2)
    [] tipo = "OperadorDecremental" -> Si(Empieza(p, <<"-", "-">>), 2)
    [] tipo = "OperadorAritmetico" -> Si(EsUno(p, {"+", "|", "-", "*", "%", "/"}), 1)
    [] tipo \in {"TipoDato", "PalabraReservada", "PalabraDefinicion"} ->
         LargoPalabra(p, tipo)
    [] tipo = "Numero" -> LargoNumero(p)
    [] tipo = "Variable" -> LargoVariable(p)
    [] tipo = "Cadena" ->
         IF Empieza(p, <<"@">>) THEN LargoVerbatim(p) ELSE LargoCadena(p, {})
    [] tipo = "Caracter" ->
         Si(/\ Empieza(p, <<"'">>) /\ Empieza(p + 2, <<"'">>)
            /\ codigo[p + 1] \notin {"'"} \cup FinDeLinea, 3)
    [] tipo = "OperadorAsignacion" ->
         IF EmpiezaUno(p, {<<"-", "=">>, <<"%", "=">>}) THEN 2 ELSE Si(EsUno(p, {"="}), 1)
    [] tipo = "Parentesis" -> Si(EsUno(p, {"(", "|", ")"}), 1)
    [] tipo = "Llave" -> Si(EsUno(p, {"{", "|", "}"}), 1)
    [] tipo = "Corchete" -> Si(EsUno(p, {"[", "|", "]"}), 1)
    [] tipo = "OperadorTerminador" -> Si(EsUno(p, {";"}), 1)
    [] tipo = "Coma" -> Si(EsUno(p, {","}), 1)
    [] tipo = "Error" -> Si(codigo[p] \notin Letras \cup Ajenas \cup Digitos, 1)

Que(p) == {i \in DOMAIN Alternativas : Largo(Alternativas[i], p) > 0}

(* The group that matches at p: "Nada" at a letter that is not ASCII. *)
Grupo(p) ==
  LET que == Que(p) IN IF que = {} THEN "Nada" ELSE Alternativas[Min(que)]

-----------------------------------------------------------------------------
(* RetirarComentarios: what matches at p. *)
LargoBloque(p) ==
  IF Empieza(p, <<"/", "*">>) THEN HastaCon(p, p + 2, <<"*", "/">>) ELSE 0

(* Up to and with the line end. *)
LargoLinea(p) ==
  LET fines == {i \in p..n : codigo[i] \in FinDeLinea}
  IN  IF Empieza(p, <<"/", "/">>) /\ fines # {} THEN Min(fines) - p + 1 ELSE 0

MutSinCadenas(p) == 0

LargoTexto(p) ==
  IF Empieza(p, <<"@">>) THEN LargoVerbatim(p) ELSE LargoCadena(p, FinDeLinea)

-----------------------------------------------------------------------------
(* The button handlers add a line end to the text of the box. *)
Init ==
  /\ \E e \in Entradas : codigo = Append(e, "nl")
  /\ fase = "comentarios"
  /\ pos = 1
  /\ limpio = << >>
  /\ lexemas = << >>

(* k characters are read and s is kept. *)
Guardar(k, s) ==
  /\ pos' = pos + k
  /\ limpio' = limpio \o s
  /\ UNCHANGED <<fase, codigo, lexemas>>

Leer(k, s) ==
  /\ pos' = pos + k
  /\ lexemas' = lexemas \o s
  /\ UNCHANGED <<fase, codigo, limpio>>

RetirarBloque ==
  /\ fase = "comentarios" /\ pos <= n /\ LargoBloque(pos) > 0
  /\ Guardar(LargoBloque(pos), << >>)

RetirarLinea ==
  /\ fase = "comentarios" /\ pos <= n /\ LargoLinea(pos) > 0
  /\ Guardar(LargoLinea(pos), <<"nl">>)

(* A string is kept whole, any other character as it is. *)
Copiar ==
  /\ fase = "comentarios" /\ pos <= n
  /\ LargoBloque(pos) = 0 /\ LargoLinea(pos) = 0
  /\ LET k == Max({1, LargoTexto(pos)}) IN Guardar(k, Trozo(pos, k))

(* Line ends of two characters are taken out, nothing put in their place:  *)
(* the j-th character is that of the j-th position kept.                   *)
SinSaltos(s) ==
  LET quedan == {i \in DOMAIN s : s[i] # "nl"}
      antes(i) == {q \in quedan : q < i}
  IN  [j \in 1..Cardinality(quedan) |->
         s[CHOOSE i \in quedan : Cardinality(antes(i)) = j - 1]]

MutSinVolver ==
  /\ fase = "comentarios" /\ pos > n
  /\ fase' = "lexemas"
  /\ codigo' = SinSaltos(limpio)
  /\ UNCHANGED <<pos, limpio, lexemas>>

RetirarSaltos ==
  /\ fase = "comentarios" /\ pos > n
  /\ fase' = "lexemas"
  /\ codigo' = SinSaltos(limpio)
  /\ pos' = 1
  /\ UNCHANGED <<limpio, lexemas>>

(* A blank matches as an error, and no lexeme is made of it. *)
Callado(grupo) == grupo = "Nada" \/ (grupo = "Error" /\ codigo[pos] \in Blancos)

MutSaltaErrores(grupo) == grupo \in {"Nada", "Error"} /\ Leer(1, << >>)

MutNoAvanza(grupo) == Callado(grupo) /\ Leer(0, << >>)

Extraer(grupo) ==
  LET k == Largo(grupo, pos)
  IN  ~ Callado(grupo)
      /\ Leer(k, <<[tipo |-> grupo, desde |-> pos, hasta |-> pos + k - 1]>>)

Saltar(grupo) == Callado(grupo) /\ Leer(1, << >>)

(* One turn of the loop over the matches, or one character that starts none. *)
ExtraerLexema ==
  /\ fase = "lexemas" /\ pos <= n
  /\ \E grupo \in {Grupo(pos)} : Extraer(grupo) \/ Saltar(grupo)

TerminarAnalisis ==
  /\ fase = "lexemas" /\ pos > n
  /\ fase' = "listo"
  /\ UNCHANGED <<codigo, pos, limpio, lexemas>>

Terminado == fase = "listo" /\ UNCHANGED vars

Next ==
  \/ RetirarBloque \/ RetirarLinea \/ Copiar \/ RetirarSaltos
  \/ ExtraerLexema \/ TerminarAnalisis \/ Terminado

(* A synchronous call on the user-interface thread: it runs on until it    *)
(* returns.                                                                *)
Spec == Init /\ [][Next]_vars /\ WF_vars(Next)

-----------------------------------------------------------------------------
CaracteresDe(i) == lexemas[i].desde..lexemas[i].hasta

(* Of the text without comments and line ends, each character before the   *)
(* scan is in exactly one lexeme, in their order, unless it is a blank or  *)
(* a letter that is not ASCII: nothing else vanishes without a lexeme of   *)
(* kind Error.                                                             *)
NadaSePierde ==
  fase # "comentarios" =>
    /\ \A i \in DOMAIN lexemas : \A j \in 1..(i - 1) :
         lexemas[j].hasta < lexemas[i].desde
    /\ \A c \in 1..(pos - 1) :
         \/ \E i \in DOMAIN lexemas : c \in CaracteresDe(i)
         \/ codigo[c] \in Blancos \cup Ajenas

(* Every analysis ends: each alternative that matches reads something. *)
Termina == <>(fase = "listo")

-----------------------------------------------------------------------------
(* src/UnitTest/AnalizadorLexicoTest.cs:137 expects "-=" to be one lexeme. *)
MenosIgualEntero ==
  fase = "listo" =>
    \A c \in 1..(n - 1) : codigo[c] = "-" /\ codigo[c + 1] = "=" =>
      \E i \in DOMAIN lexemas : {c, c + 1} \subseteq CaracteresDe(i)

(* src/UnitTest/AnalizadorLexicoTest.cs:153 expects a number with letters, *)
(* 44fs, to be a lexeme of kind Error.                                     *)
NumeroConLetrasEsError ==
  fase = "listo" =>
    \A i \in DOMAIN lexemas :
      lexemas[i].tipo = "Numero" /\ lexemas[i].hasta < n =>
        codigo[lexemas[i].hasta + 1] \notin Letras
=============================================================================
