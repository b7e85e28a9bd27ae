--------------------------- MODULE MCBienFormado ----------------------------
(***************************************************************************)
(* AnalizadorSintactico on well-formed programs.  A program is a sequence  *)
(* of nodes; a node is a template, the texts before and after its body,    *)
(* and the body.  Printing a program gives the text to analyse, and        *)
(* numbering its nodes gives the blocks the analysis must find.            *)
(***************************************************************************)
EXTENDS AnalizadorSintactico

VARIABLE programa   \* the program whose text is analysed

Nodo(tipo, antes, cuerpo, despues) ==
  [tipo |-> tipo, antes |-> antes, cuerpo |-> cuerpo, despues |-> despues]

Hoja(texto) == Nodo("Sentencia", texto, << >>, << >>)

Declaracion == Hoja(<<"int", "x", "=", "1", ";">>)
Incremento == Hoja(<<"x", "++", ";">>)
Hojas == {Declaracion, Incremento}
ParDeHojas == <<Declaracion, Incremento>>
MasHojas == Hojas \cup
  {Hoja(<<"x", "=", "x", "+", "1", ";">>), Hoja(<<"return", "x", ";">>),
   Hoja(<<"x", "=", "f", "(", "y", ",", "1", ")", ";">>)}

Condicion == <<"(", "x", "<", "1", ")">>

Compuestos(cuerpo) ==
  { Nodo("Estructura", <<"while">> \o Condicion \o <<"{">>, cuerpo, <<"}">>),
    Nodo("Estructura", <<"if">> \o Condicion \o <<"{">>, cuerpo, <<"}">>),
    Nodo("Estructura", <<"else", "{">>, cuerpo, <<"}">>),
    Nodo("Estructura", <<"do", "{">>, cuerpo,
         <<"}", "while">> \o Condicion \o <<";">>),
    Nodo("Estructura", <<"for", "(", "x", "=", "0", ";", "x", "<", "1", ";",
                         "x", "++", ")", "{">>, cuerpo, <<"}">>),
    Nodo("Estructura", <<"for", "(", "int", "x", "=", "0", ";", "x", "<",
                         "1", ";", "x", "=", "x", "+", "1", ")", "{">>,
         cuerpo, <<"}">>),
    Nodo("Funcion", <<"int", "f", "(", "int", "y", ")", "{">>,
         cuerpo, <<"}">>) }

Cuerpos(nodos, k) == UNION {[1..j -> nodos] : j \in 0..k}

Nivel1 == UNION {Compuestos(c) : c \in Cuerpos(Hojas, 1) \cup {ParDeHojas}}
Nivel2 == UNION {Compuestos(c) :
                   c \in Cuerpos(Nivel1, 1)
                         \cup {<<a, Incremento>> : a \in Nivel1}
                         \cup {<<Declaracion, a>> : a \in Nivel1}}
Nivel3 == UNION {Compuestos(<<c>>) :
                   c \in UNION {Compuestos(<<d>>) :
                                  d \in Compuestos(<<Incremento>>)}}

Programas ==
  {<<a>> : a \in Nivel2 \cup Nivel3}
    \cup {<<a, b>> : a \in Nivel1, b \in MasHojas}
    \cup Cuerpos(MasHojas, 2)

-----------------------------------------------------------------------------
Identificador(t) == t \in {"x", "y", "f"}
Cifra(t) == t \in {"0", "1"}
Lex(t) == IF Identificador(t) THEN Variable(t)
          ELSE IF Cifra(t) THEN Numero(t) ELSE Fijo(t)

RECURSIVE Imprimir(_)
Imprimir(nodos) ==
  IF nodos = << >> THEN << >>
  ELSE LET a == Head(nodos)
       IN  a.antes \o Imprimir(a.cuerpo) \o a.despues
             \o Imprimir(Tail(nodos))

TextoDe(nodos) == LET t == Imprimir(nodos) IN [i \in DOMAIN t |-> Lex(t[i])]

(* The blocks of a sequence of nodes printed from position p on inside     *)
(* block padre, when k blocks come before them.                            *)
RECURSIVE Esperados(_, _, _, _)
Esperados(nodos, p, padre, k) ==
  IF nodos = << >> THEN << >>
  ELSE LET a == Head(nodos)
           p1 == p + Len(a.antes)
           p2 == p1 + Len(Imprimir(a.cuerpo))
           fin == p2 + Len(a.despues)
           dentro == Esperados(a.cuerpo, p1, k + 1, k + 1)
       IN  <<[tipo |-> a.tipo, error |-> FALSE, incia |-> p,
              finaliza |-> fin - 1, padre |-> padre,
              lex |-> (p..(p1 - 1)) \cup (p2..(fin - 1))]>>
             \o dentro
             \o Esperados(Tail(nodos), fin, padre, k + 1 + Len(dentro))

(* The initial condition gives the list itself. *)
Ninguna == {}

MCInit ==
  /\ programa \in Programas
  /\ lexemas = TextoDe(programa)
  /\ numTokens \in TokensPrevios \cup {CantidadTokens}
  /\ Comienzo
MCSpec == MCInit /\ [][Next /\ UNCHANGED programa]_<<vars, programa>>
            /\ WF_vars(Next /\ UNCHANGED programa)

-----------------------------------------------------------------------------
(* The blocks found at the end are those of the program: each construct    *)
(* is one block, of its kind, with its own lexemes, its first and last     *)
(* position and its parent, and without an error.                          *)
ArbolCorrecto == estado = "listo" => bloques = Esperados(programa, 0, 0, 0)

(* The analysis of a well-formed program ends normally. *)
TerminaBien == <>(estado = "listo")
=============================================================================
