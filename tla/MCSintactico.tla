---------------------------- MODULE MCSintactico ----------------------------
(***************************************************************************)
(* AnalizadorSintactico on texts put together from fragments, right and    *)
(* wrong: headers with and without their closing brace, stray closing      *)
(* braces, sentences that break each rule, and texts cut short.            *)
(***************************************************************************)
EXTENDS AnalizadorSintactico, SequencesExt

Identificador(t) == t \in {"x", "y", "f"}
Cifra(t) == t \in {"0", "1"}

Lex(t) == IF Identificador(t) THEN Variable(t)
          ELSE IF Cifra(t) THEN Numero(t) ELSE Fijo(t)
Lexemas(texto) == [i \in DOMAIN texto |-> Lex(texto[i])]

WhileAbre == <<"while", "(", "x", "<", "1", ")", "{">>
IfAbre    == <<"if", "(", "x", "<", "1", ")", "{">>
ForAbre   == <<"for", "(", "x", "=", "0", ";", "x", "<", "1", ";",
               "x", "++", ")", "{">>
DoCierra  == <<"}", "while", "(", "x", "<", "1", ")", ";">>

(* Pieces that nest: used in longer texts. *)
Nucleo == { WhileAbre, <<"do", "{">>, DoCierra, <<"}">>,
            <<"x", "=", "1", ";">>, <<"x", "y", ";">> }

(* Pieces that reach an error three blocks deep. *)
Profundos == {WhileAbre, <<"}">>, <<"x", "y", ";">>}

(* A header whose condition swallows the brace that ends the parent. *)
WhileCruza == <<"while", "(", "x", "<", "1", "}", ")", "{">>
Cruces == {WhileAbre, WhileCruza, <<"do", "{">>, <<"}">>,
           <<"x", "=", "1", ";">>}

(* A header that swallows two closing braces: the do...while it stands in  *)
(* fails past the end of its own parent, where there is nothing to drain.  *)
CruzaDos == FlattenSeq(
  << WhileAbre, <<"do", "{">>,
     <<"while", "(", "x", "<", "1", "}", "}", ")", "{", "}">>,
     <<"x", "=", "1", ";">> >>)

Fragmentos == Nucleo \cup
  { IfAbre, ForAbre, <<"else", "{">>, <<"int", "f", "(", ")", "{">>,
    <<"int", "f", "(", ")", ";">>,            \* a prototype
    <<"int", "x", ";">>, <<"return", "x", ";">>,
    <<"x", "=", "x", "+", ";">>,              \* rejected by a rule
    <<"x", "=", "(", "1", ";">>,              \* parentheses do not balance
    <<"return", "int", "[", "1", "]", ";">>,  \* reads Tokens by position
    <<"while", "(", "x", "<", "}", ")", "{">>, \* wrong condition
    WhileCruza,
    <<"for", "(", ")">>, <<"if", "(", "x">>, <<"do">>, <<"int">>,
    <<"x">>, <<";">> }

Textos(piezas, k) == {FlattenSeq(s) : s \in [1..k -> piezas]}

MCEntradas ==
  {Lexemas(t) : t \in UNION {Textos(Fragmentos, k) : k \in 0..2}
                      \cup Textos(Nucleo, 3) \cup Textos(Nucleo, 4)
                      \cup Textos(Profundos, 5) \cup Textos(Cruces, 4) \cup {CruzaDos}}
MCTokensPrevios == {0}
=============================================================================
