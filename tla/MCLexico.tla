------------------------------ MODULE MCLexico ------------------------------
(***************************************************************************)
(* AnalizadorLexico on texts put together from tokens and what separates   *)
(* them: blanks, line ends and comments.                                   *)
(***************************************************************************)
EXTENDS AnalizadorLexico

VARIABLES fichas,      \* the tokens of the text: kind and characters
          separadores  \* what stands between them

MCLetras == {"a", "b", "d", "e", "f", "i", "l", "n", "o", "s", "t", "u", "x"}
MCAjenas ==   \* one letter with a tilde
  {"enne"}

Palabra(tipo, letras) == [tipo |-> tipo, letras |-> letras]
MCPalabras ==
  << Palabra("TipoDato", <<"i", "n", "t">>),
     Palabra("TipoDato", <<"u", "i", "n", "t">>),
     Palabra("TipoDato", <<"d", "o", "u", "b", "l", "e">>),
     Palabra("PalabraReservada", <<"i", "f">>),
     Palabra("PalabraReservada", <<"e", "l", "s", "e">>),
     Palabra("PalabraReservada", <<"d", "o">>),
     Palabra("PalabraDefinicion", <<"a", "u", "t", "o">>) >>

Ficha(tipo, letras) == [tipo |-> tipo, letras |-> letras]

(* Tokens that need a separator on one side at least, and delimiters. *)
Delimitadores ==
  { Ficha("OperadorTerminador", <<";">>), Ficha("Parentesis", <<"(">>),
    Ficha("Llave", <<"}">>), Ficha("Corchete", <<"[">>), Ficha("Coma", <<",">>) }
Sueltas ==
  { Ficha("TipoDato", <<"d", "o", "u", "b", "l", "e">>),
    Ficha("PalabraReservada", <<"e", "l", "s", "e">>),
    Ficha("PalabraDefinicion", <<"a", "u", "t", "o">>),
    Ficha("Variable", <<"x">>), Ficha("Variable", <<"_", "a", "x", "1">>),
    Ficha("Numero", <<"4", "4">>), Ficha("Numero", <<"1", ".", "5">>),
    Ficha("OperadorRelacional", <<"=", "=">>), Ficha("OperadorRelacional", <<"<">>),
    Ficha("OperadorLogico", <<"&", "&">>), Ficha("OperadorLogico", <<"!">>),
    Ficha("OperadorIncremental", <<"+", "+">>), Ficha("OperadorDecremental", <<"-", "-">>),
    Ficha("OperadorAritmetico", <<"-">>), Ficha("OperadorAritmetico", <<"/">>),
    Ficha("OperadorAsignacion", <<"=">>), Ficha("Error", <<"#">>),
    Ficha("Caracter", <<"'", "a", "'">>),
    Ficha("Cadena", <<"\"", "a", " ", "/", "/", "x", "\"">>),
    Ficha("Cadena", <<"\"", "/", "*", "\"">>),
    Ficha("Cadena", <<"@", "\"", "/", "*", "\"", "\"", "lf", "\"">>) }
Todas == Delimitadores \cup Sueltas

Algunas ==
  { Ficha("Variable", <<"x">>), Ficha("Numero", <<"1", ".", "5">>),
    Ficha("OperadorAritmetico", <<"*">>), Ficha("OperadorTerminador", <<";">>),
    Ficha("Cadena", <<"\"", "*", "/", "\"">>) }

Bloque == <<"/", "*", "x", "\"", "nl", "*", "/">>
Linea == <<"/", "/", "\"", "*", "/", "nl">>
Separadores == {<< >>, <<" ">>, <<"nl">>, <<"lf">>, Linea, Bloque \o <<" ">>}

Comentarios == {<<"nl">>, Bloque \o <<" ">>, Linea}

CaracterComilla == Ficha("Caracter", <<"'", "\"", "'">>)

(* What the analyser does not read as one token, or not at all. *)
Raras ==
  { Ficha("Variable", <<"d", "o", "n">>), Ficha("Numero", <<"4", "f", "s">>),
    Ficha("OperadorAsignacion", <<"-", "=">>), Ficha("Variable", <<"enne">>),
    CaracterComilla, Ficha("Cadena", <<"\"", "x">>),
    Ficha("Cadena", <<"@", "\"", "x", "\"", "\"">>) }

Textos == {[fichas |-> f, separadores |-> s] : f \in [1..2 -> Todas], s \in [1..1 -> Separadores]}
            \cup {[fichas |-> f, separadores |-> s] :
                    f \in [1..3 -> Algunas], s \in [1..2 -> Comentarios]}
            \cup {[fichas |-> <<f, g>>, separadores |-> <<s>>] :
                    f \in Raras, g \in Algunas \cup Raras, s \in Separadores}

TextoDe(f, s) ==
  LET parte[k \in DOMAIN f] ==
        IF k = 1 THEN f[1].letras ELSE parte[k - 1] \o s[k - 1] \o f[k].letras
  IN  parte[Len(f)]

(* The initial condition gives the text itself. *)
Ninguno == {}

MCInit ==
  /\ \E t \in Textos : fichas = t.fichas /\ separadores = t.separadores
  /\ codigo = Append(TextoDe(fichas, separadores), "nl")
  /\ fase = "comentarios" /\ pos = 1 /\ limpio = << >> /\ lexemas = << >>
MCNext == Next /\ UNCHANGED <<fichas, separadores>>
MCSpec == MCInit /\ [][MCNext]_<<vars, fichas, separadores>>
            /\ WF_<<vars, fichas, separadores>>(MCNext)

-----------------------------------------------------------------------------
EnBlancos(s) == s \notin {<< >>, <<"nl">>, Linea}

(* Two neighbours that stay apart: there is a blank between them, or one   *)
(* is a delimiter.  A slash before a comment makes another comment.        *)
Apartadas(k) ==
  /\ \/ EnBlancos(separadores[k])
     \/ {fichas[k], fichas[k + 1]} \cap Delimitadores # {}
  /\ fichas[k].letras = <<"/">> => separadores[k] \notin {Linea, Bloque \o <<" ">>}

UnoAUno ==
  /\ Len(lexemas) = Len(fichas)
  /\ \A k \in DOMAIN fichas :
       /\ lexemas[k].tipo = fichas[k].tipo
       /\ SubSeq(codigo, lexemas[k].desde, lexemas[k].hasta) = fichas[k].letras

Fichas == {fichas[k] : k \in DOMAIN fichas}

(* Comments, line ends and blanks change nothing but what they stand       *)
(* between: the lexemes are the tokens of the text, of their kinds, when   *)
(* neighbours are set apart by a blank or by a delimiter.                  *)
FichasLeidas ==
  fase = "listo" /\ Fichas \subseteq Todas \cup Algunas
      /\ (\A k \in DOMAIN separadores : Apartadas(k))
    => UnoAUno

(* "Quita los comentarios a un código", of RetirarComentarios: the same    *)
(* when a token is the character of a quotation mark.                      *)
ComentariosFuera ==
  fase = "listo" /\ Fichas \subseteq Algunas \cup {CaracterComilla}
      /\ (\A k \in DOMAIN separadores : Apartadas(k))
    => UnoAUno
=============================================================================
