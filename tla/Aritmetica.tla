----------------------------- MODULE Aritmetica -----------------------------
(***************************************************************************)
(* The arithmetic of the semantic analyser on numerals: that of int, which *)
(* is unchecked and wraps, and that of decimal, which keeps the digits of  *)
(* its operands.                                                           *)
(***************************************************************************)
EXTENDS Textos, FiniteSetsExt

CONSTANTS IntMax,    \* largest int: 2^31 - 1 in C#
          EscalaMax  \* digits after the point an inexact quotient keeps

ASSUME IntMaxAssumption == IntMax \in Nat
ASSUME EscalaMaxAssumption == EscalaMax \in Nat \ {0}

EnRango(m) == m \in (-IntMax - 1)..IntMax

(* What int.Parse accepts; decimal.Parse accepts any numeral. *)
EsEntero(t) == EsNumeral(t) /\ t.e = 0 /\ EnRango(t.m)

Envolver(m) == ((m + IntMax + 1) % (2 * (IntMax + 1))) - (IntMax + 1)

(* Division of C#: it truncates towards zero. *)
Cociente(a, b) ==
  LET Positivo(p, q) == IF q > 0 THEN p \div q ELSE (-p) \div (-q)
  IN  IF (a >= 0) = (b > 0) THEN Positivo(a, b) ELSE -Positivo(-a, b)

-----------------------------------------------------------------------------
Mayor(i, j) == IF i >= j THEN i ELSE j

(* Ten to the k. *)
Potencia[k \in Nat] == IF k = 0 THEN 1 ELSE 10 * Potencia[k - 1]

(* The mantissa of t printed with e digits after the point. *)
Alineada(t, e) == t.m * Potencia[e - t.e]

SumaDecimal(a, b) ==
  LET e == Mayor(a.e, b.e) IN Numeral(Alineada(a, e) + Alineada(b, e), e)

RestaDecimal(a, b) ==
  LET e == Mayor(a.e, b.e) IN Numeral(Alineada(a, e) - Alineada(b, e), e)

ProductoDecimal(a, b) == Numeral(a.m * b.m, a.e + b.e)

(* The shortest exact quotient, or one cut at EscalaMax digits. *)
CocienteDecimal(a, b) ==
  LET menor == Mayor(0, a.e - b.e)
      arriba(s) == a.m * Potencia[b.e + s]
      abajo == b.m * Potencia[a.e]
      exactas == {s \in menor..EscalaMax :
                    Cociente(arriba(s), abajo) * abajo = arriba(s)}
      s == IF exactas = {} THEN Mayor(menor, EscalaMax) ELSE Min(exactas)
  IN  Numeral(Cociente(arriba(s), abajo), s)
=============================================================================
