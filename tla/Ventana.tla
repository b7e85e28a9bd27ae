------------------------------ MODULE Ventana -------------------------------
(***************************************************************************)
(* What the window of the compiler promises.  A press of a button works on *)
(* one text.  It may draw the tree of that text while it works, and then   *)
(* it either shows a result, with all that the window shows next to it, or *)
(* fails and shows nothing more.  The four parts of the window are the box *)
(* with the text, the box with the result, the tree and the grid with the  *)
(* symbols; each of the last three remembers the text it was made from.    *)
(***************************************************************************)
CONSTANTS Programas,  \* texts
          Vacio,      \* the empty one
          Nadie       \* what a part that shows nothing was made from

VARIABLES caja,     \* the text in the box
          ocupada,  \* whether a press is being worked on
          cuadro,   \* the result shown: its kind and its text
          arbol,    \* the text whose tree is shown
          tabla     \* the text whose symbols are shown

Botones == {"lexico", "sintactico", "semantico", "codigo"}

(* Results that go with the tree of the same text. *)
ConArbol == {"sintaxis correcta", "errores semanticos", "semantica correcta",
             "codigo"}

Init ==
  /\ caja \in Programas
  /\ ocupada = FALSE
  /\ cuadro = [que |-> "nada", de |-> Nadie]
  /\ arbol = Nadie
  /\ tabla = Nadie

Escribir ==
  /\ ~ ocupada
  /\ caja' \in Programas
  /\ UNCHANGED <<ocupada, cuadro, arbol, tabla>>

(* The text goes, and its result with it; the tree and the symbols stay. *)
Borrar ==
  /\ ~ ocupada
  /\ caja' = Vacio
  /\ cuadro' = [que |-> "nada", de |-> Nadie]
  /\ UNCHANGED <<ocupada, arbol, tabla>>

(* The list of lexemes changes nothing else. *)
MostrarLexemas ==
  /\ ~ ocupada
  /\ cuadro' = [que |-> "lexemas", de |-> caja]
  /\ UNCHANGED <<caja, ocupada, arbol, tabla>>

Pulsar ==
  /\ ~ ocupada
  /\ ocupada' = TRUE
  /\ UNCHANGED <<caja, cuadro, arbol, tabla>>

Dibujar ==
  /\ ocupada
  /\ arbol' = caja
  /\ UNCHANGED <<caja, ocupada, cuadro, tabla>>

(* Tree, symbols and result of one text. *)
Mostrar ==
  /\ ocupada /\ ocupada' = FALSE
  /\ \E que \in ConArbol : cuadro' = [que |-> que, de |-> caja]
  /\ arbol' = caja
  /\ tabla' = caja
  /\ UNCHANGED caja

(* Errors of the syntax leave no tree, and may leave the symbols shown.    *)
Rechazar ==
  /\ ocupada /\ ocupada' = FALSE
  /\ cuadro' = [que |-> "errores sintacticos", de |-> caja]
  /\ arbol' = Nadie
  /\ tabla' \in {caja, tabla}
  /\ UNCHANGED caja

Fallar ==
  /\ ocupada /\ ocupada' = FALSE
  /\ UNCHANGED <<caja, cuadro, arbol, tabla>>

Next ==
  \/ Escribir \/ Borrar \/ MostrarLexemas
  \/ Pulsar \/ Dibujar \/ Mostrar \/ Rechazar \/ Fallar

Spec == Init /\ [][Next]_<<caja, ocupada, cuadro, arbol, tabla>>
=============================================================================
