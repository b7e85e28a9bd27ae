---------------------------- MODULE MCSemantico -----------------------------
(***************************************************************************)
(* AnalizadorSemantico on lists of sentences and functions.  A sentence is *)
(* a sequence of lexemes; a program is a sequence of sentences followed by *)
(* at most one function, and its blocks are those the syntactic analyser   *)
(* gives such a program.                                                   *)
(***************************************************************************)
EXTENDS AnalizadorSemantico

Sig(t) == [tipo |-> TipoDeTexto(t), texto |-> Simbolo(t)]
Var(t) == [tipo |-> "Variable", texto |-> Simbolo(t)]
Num(m, e) == [tipo |-> "Numero", texto |-> Numeral(m, e)]
Lit(tipo, t) == [tipo |-> tipo, texto |-> Simbolo(t)]

x == Var("x")
y == Var("y")
z == Var("z")
Texto1 == Lit("Cadena", "s")
Letra == Lit("Caracter", "a")

Asignada(v, e) == <<v, Sig("=")>> \o e \o <<Sig(";")>>
Declarada1(t, v, e) == <<Sig(t)>> \o Asignada(v, e)
SinValor(t, v) == <<Sig(t), v, Sig(";")>>

(* Expressions with the operands and operators of the given sets.          *)
Alternar(a, ops) ==
  [j \in 1..(2 * Len(a) - 1) |->
     IF j % 2 = 1 THEN a[(j + 1) \div 2] ELSE Sig(ops[j \div 2])]
Expresiones(operandos, ops, k) ==
  {Alternar(a, o) : a \in [1..k -> operandos], o \in [1..(k - 1) -> ops]}

Operadores == {"+", "-", "*", "/", "%"}

-----------------------------------------------------------------------------
(* A program: its sentences, and functions as pairs of header and body.    *)
Funcion(cabeza, cuerpo) == [cabeza |-> cabeza, cuerpo |-> cuerpo]
Lista(p) ==
  FlattenSeq(p.sentencias) \o
    FlattenSeq([i \in DOMAIN p.funciones |->
                  p.funciones[i].cabeza \o FlattenSeq(p.funciones[i].cuerpo)
                    \o <<Sig("}")>>])

BloquesDe(sentencias, desde, padre) ==
  LET inicio(i) == desde + Len(FlattenSeq(SubSeq(sentencias, 1, i - 1)))
  IN  [i \in DOMAIN sentencias |->
         LET fin == inicio(i) + Len(sentencias[i]) - 1
         IN  [tipo |-> "Sentencia", error |-> FALSE, incia |-> inicio(i),
              finaliza |-> fin, padre |-> padre, lex |-> inicio(i)..fin]]

(* The blocks of function f, printed from position p as block number b. *)
BloquesFuncion(f, p, b) ==
  LET c == p + Len(f.cabeza)
      fin == c + Len(FlattenSeq(f.cuerpo))
  IN  <<[tipo |-> "Funcion", error |-> FALSE, incia |-> p, finaliza |-> fin,
         padre |-> 0, lex |-> (p..(c - 1)) \cup {fin}]>>
        \o BloquesDe(f.cuerpo, c, b)

RECURSIVE BloquesFunciones(_, _, _)
BloquesFunciones(fs, p, b) ==
  IF fs = << >> THEN << >>
  ELSE LET de == BloquesFuncion(Head(fs), p, b)
       IN  de \o BloquesFunciones(Tail(fs), de[1].finaliza + 1, b + Len(de))

Programa(sentencias, funciones) ==
  LET p == [sentencias |-> sentencias, funciones |-> funciones]
      k == Len(sentencias)
  IN  [lexemas |-> Lista(p),
       bloques |-> BloquesDe(sentencias, 0, 0)
                     \o BloquesFunciones(funciones,
                                         Len(FlattenSeq(sentencias)), k + 1)]

-----------------------------------------------------------------------------
(* Declarations that the later sentences read. *)
DeclaracionesX ==
  { SinValor("int", x), Declarada1("int", x, <<Num(7, 0)>>),
    Declarada1("float", x, <<Num(15, 1)>>),
    Declarada1("double", x, <<Num(2, 0)>>) }        \* not of type double
DeclaracionesY ==
  { SinValor("float", y), Declarada1("int", y, <<Num(7, 0)>>),
    Declarada1("int", y, <<Num(99, 0)>>),          \* beyond the largest int
    Declarada1("float", y, <<Num(30, 1)>>),
    Declarada1("char", y, <<Letra>>),
    Declarada1("int", y, <<x, Sig("/"), Num(2, 0)>>),
    Declarada1("int", y, <<Num(15, 1), Sig("*"), Num(2, 0)>>) }
Declaraciones == DeclaracionesX \cup DeclaracionesY

(* Expressions of one to four operands, and some of other forms. *)
Lados ==
  Expresiones({Num(2, 0), Num(30, 1), x, y, z, Texto1, Letra}, Operadores, 1)
    \cup Expresiones({Num(2, 0), Num(0, 0), Num(30, 1), y, z, Texto1},
                     Operadores, 2)
    \cup Expresiones({Num(30, 1), y, z}, {"+", "*", "/"}, 3)
    \cup Expresiones({Num(3, 0), y}, {"+", "*"}, 4)
    \cup {<<Sig("("), y, Sig("+"), Num(2, 0), Sig(")"), Sig("*"), y>>,
          <<Var("f"), Sig("("), y, Sig(")")>>,
          <<Num(2, 0), Sig("+"), y, Sig("*")>>}   \* ends too early

LadosCortos ==
  Expresiones({y}, {"+"}, 1)
    \cup Expresiones({x, y, z, Num(2, 0)}, {"+", "/"}, 2)

Fija(t) == <<Sig("int"), Var(t), Sig("("), Sig("int"), Var("p"), Sig(")"),
             Sig("{")>>
Decimal1 == <<Sig("float"), Var("f"), Sig("("), Sig(")"), Sig("{")>>
Retornos == {<<Sig("return"), v, Sig(";")>> :
               v \in {x, z, Num(2, 0), Num(15, 1), Var("p"), Texto1}}
             \cup {<<Sig("return"), Sig(";")>>}
CuerposFuncion ==
  {<< >>, <<Asignada(x, <<Num(2, 0)>>)>>}
    \cup {<<r>> : r \in Retornos}
    \cup {<<SinValor("int", z), r>> : r \in Retornos}

Funciones == {Funcion(Fija("f"), c) : c \in CuerposFuncion}
               \cup {Funcion(Decimal1, c) : c \in CuerposFuncion}

(* Three blocks deep, a wrong sentence is not rejected: the analysis gets   *)
(* to write over a comma, and to take a variable for the operator of a      *)
(* product, as one of type void may hold the text "*"; or an operation is   *)
(* done, and may raise, as soon as a product has been written.  Only the    *)
(* blocks of functions are looked at, and there are none.                   *)
Mientras(cuerpo) ==
  <<Sig("while"), Sig("("), x, Sig("<"), Num(2, 0), Sig(")"), Sig("{")>> \o cuerpo \o <<Sig("}")>>
Hondo(cuerpo) ==
  LET uno == Asignada(x, <<Num(1, 0)>>)
  IN  [lexemas |-> Declarada1("int", x, <<Num(2, 0)>>)
                     \o Mientras(Mientras(Mientras(cuerpo \o uno) \o uno) \o uno),
       bloques |-> << >>]
Malas ==
  { Asignada(x, <<x, Sig("+"), Sig(","), Sig("*"), Num(3, 0)>>),
    Declarada1("void", z, <<Sig("*")>>)
      \o Declarada1("int", y, <<Sig("+"), Sig(","), z, Sig(","), Num(3, 0)>>) }
    \cup {Asignada(x, <<x, Num(m, 0), Sig("+"), Num(3, 0), Sig("*"), Num(3, 0)>>) : m \in {3, 99}}

MCEntradas ==
  {Programa(<<d, Declarada1(t, x, e)>>, << >>) :
     d \in DeclaracionesY, t \in {"int", "float"}, e \in Lados}
    \cup {Programa(<<d, e, Asignada(x, l)>>, << >>) :
            d \in Declaraciones, e \in Declaraciones, l \in LadosCortos}
    \cup {Programa(<<Declarada1("int", x, <<Num(7, 0)>>)>>, <<f>>) : f \in Funciones}
    \cup {Programa(<< >>, <<f, Funcion(Decimal1, <<g>>)>>) : f \in Funciones, g \in Retornos}
    \cup {Hondo(m) : m \in Malas}
    \cup {[lexemas |-> <<Sig("int"), x>>, bloques |-> << >>],
          [lexemas |-> Asignada(x, <<Num(2, 0)>>), bloques |-> << >>],
          [lexemas |-> <<Sig("int"), x, Sig("=")>>, bloques |-> << >>]}
=============================================================================
