--------------------------- MODULE MCExpresiones ----------------------------
(***************************************************************************)
(* The values that AnalizadorSemantico computes for expressions of ints,   *)
(* against the usual meaning of an expression: products first, then from   *)
(* left to right.  A case is a program                                     *)
(*     int y = v; int x = e1; x = e2;                                      *)
(* where e1 reads y and e2 reads x.  The run goes over these cases and     *)
(* over the lists of MCSemantico.                                          *)
(***************************************************************************)
EXTENDS MCSemantico

VARIABLE caso   \* the program under analysis, or SinCaso for another list

Productos == {"*", "/"}
Expr(a, o) == [a |-> a, o |-> o]
Exprs(operandos, ops, k) ==
  {Expr(a, o) : a \in [1..k -> operandos], o \in [1..(k - 1) -> ops]}

CuatroOp == {"+", "-", "*", "/"}
UnaVariable == Exprs({Num(2, 0), Num(3, 0), y}, CuatroOp, 1)
                 \cup Exprs({Num(2, 0), Num(3, 0), y}, CuatroOp, 2)
                 \cup Exprs({Num(2, 0), Num(3, 0), y}, CuatroOp, 3)
Reasignaciones == Exprs({x, Num(5, 0)}, {"-", "/"}, 1) \cup Exprs({x, Num(5, 0)}, {"-", "/"}, 2)

Casos ==
  [v : {7}, e1 : UnaVariable, e2 : Reasignaciones]
    \cup [v : {4}, e1 : Exprs({Num(3, 0), y}, CuatroOp, 4), e2 : {Expr(<<x>>, << >>)}]

Sentencias(c) ==
  << Declarada1("int", y, <<Num(c.v, 0)>>),
     Declarada1("int", x, Alternar(c.e1.a, c.e1.o)),
     Asignada(x, Alternar(c.e2.a, c.e2.o)) >>

SinCaso == [v |-> 0, e1 |-> Expr(<< >>, << >>), e2 |-> Expr(<< >>, << >>)]

MCInit ==
  \/ /\ caso \in Casos
     /\ lexemas = FlattenSeq(Sentencias(caso))
     /\ bloques = << >>
     /\ Comienzo
  \/ caso = SinCaso /\ Init
MCNext == Next /\ UNCHANGED caso
MCSpec == MCInit /\ [][MCNext]_<<vars, caso>> /\ WF_<<vars, caso>>(MCNext)

-----------------------------------------------------------------------------
Combinar(a, b, op) ==
  CASE op = "+" -> Envolver(a + b)
    [] op = "-" -> Envolver(a - b)
    [] op = "*" -> Envolver(a * b)
    [] op = "/" -> Cociente(a, b)

(* Operands j and j + 1 replaced by their combination, until one is left.  *)
RECURSIVE Evaluar(_, _)
Evaluar(a, o) ==
  IF Len(a) = 1 THEN a[1]
  ELSE LET productos == {j \in DOMAIN o : o[j] \in Productos}
           j == IF productos = {} THEN 1 ELSE Min(productos)
       IN  Evaluar(SubSeq(a, 1, j - 1) \o <<Combinar(a[j], a[j + 1], o[j])>>
                     \o SubSeq(a, j + 2, Len(a)),
                   SubSeq(o, 1, j - 1) \o SubSeq(o, j + 1, Len(o)))

Sustituir(a, v) ==
  [j \in DOMAIN a |-> IF a[j].tipo = "Variable" THEN v ELSE a[j].texto.m]

ValorDe(e, v) == Evaluar(Sustituir(e.a, v), e.o)

ValorFinal(c) == ValorDe(c.e2, ValorDe(c.e1, c.v))

(* Two * or / in a row: the code does the second one first, so that        *)
(* a / b * c comes out as a / (b * c).                                     *)
ProductosSeguidos(e) ==
  \E j \in DOMAIN e.o : {j, j + 1} \subseteq DOMAIN e.o
                           /\ {e.o[j], e.o[j + 1]} \subseteq Productos

(* After an analysis without errors, the table holds the value of each     *)
(* expression, computed with precedence, from the values of the variables  *)
(* when it was assigned, and not from those of later assignments.  Chains  *)
(* of products are the exception.                                          *)
ValorCorrecto ==
  caso # SinCaso /\ estado = "listo" /\ errores = {}
      /\ ~ ProductosSeguidos(caso.e1) =>
    RegistroDe(TextoDe(6)).valor = Numeral(ValorFinal(caso), 0)
=============================================================================
