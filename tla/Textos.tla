------------------------------- MODULE Textos -------------------------------
(***************************************************************************)
(* Texts of lexemes where their content matters: they are compared, and    *)
(* numerals are read and written.  A text is a record whose field c names  *)
(* it; a numeral has c = "0", which no other lexeme is written as, and     *)
(* stands for m * 10^-e, printed with e digits after the point.            *)
(***************************************************************************)
EXTENDS Lexemas

Texto == [c : NombreTexto, m : Int, e : Nat]

Simbolo(s) == [c |-> s, m |-> 0, e |-> 0]
Numeral(m, e) == [c |-> "0", m |-> m, e |-> e]
TextoVacio == Simbolo("")
TextoError == Simbolo("Error")

EsNumeral(t) == t.c = "0"

(* t.Contains("."), for a numeral or a result. *)
ConPunto(t) == EsNumeral(t) /\ t.e > 0
=============================================================================
