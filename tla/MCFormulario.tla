---------------------------- MODULE MCFormulario ----------------------------
(***************************************************************************)
(* Formulario on texts that end a press in each of the ways it may end,    *)
(* for two presses with the text changed in between (MCProgramas), and on  *)
(* many texts with assignments, for one press (Asignaciones).              *)
(***************************************************************************)
EXTENDS Formulario, Textos, SequencesExt

Sig(t) == [tipo |-> Sint!TipoDeTexto(t), texto |-> Simbolo(t)]
Var(t) == [tipo |-> "Variable", texto |-> Simbolo(t)]
Num(m, e) == [tipo |-> "Numero", texto |-> Numeral(m, e)]
Lit(tipo, t) == [tipo |-> tipo, texto |-> Simbolo(t)]

x == Var("x")
y == Var("y")

Asignada(v, e) == <<v, Sig("=")>> \o e \o <<Sig(";")>>
Declarada(t, v, e) == <<Sig(t)>> \o Asignada(v, e)
SinValor(t, v) == <<Sig(t), v, Sig(";")>>
Condicion == <<Sig("("), x, Sig("<"), Num(1, 0), Sig(")"), Sig("{")>>
Mientras(cuerpo) == <<Sig("while")>> \o Condicion \o cuerpo \o <<Sig("}")>>
SiNo(si, no) ==
  <<Sig("if")>> \o Condicion \o si \o <<Sig("}"), Sig("else"), Sig("{")>> \o no \o <<Sig("}")>>
Repetir(cuerpo) ==
  <<Sig("do"), Sig("{")>> \o cuerpo \o <<Sig("}"), Sig("while"), Sig("("), x, Sig("<"),
                                         Num(1, 0), Sig(")"), Sig(";")>>
Para(cuerpo) ==
  <<Sig("for"), Sig("("), Sig("int"), y, Sig("="), Num(0, 0), Sig(";"), y, Sig("<"), x,
    Sig(";"), y, Sig("++"), Sig(")"), Sig("{")>> \o cuerpo \o <<Sig("}")>>
Funcion(cuerpo) ==
  <<Sig("int"), Var("f"), Sig("("), Sig(")"), Sig("{")>> \o cuerpo \o <<Sig("}")>>

Uno == <<Num(1, 0)>>
Regresa == <<Sig("return"), x, Sig(";")>>
MalaSentencia == <<x, y, Sig(";")>>
ConX == Declarada("int", x, Uno)

MCProgramas ==
  { Vacio,
    (* code, with a product that the semantic analysis rewrites *)
    SinValor("int", x) \o Asignada(x, <<Num(1, 0), Sig("+"), Num(2, 0), Sig("*"), Num(3, 0)>>),
    (* code, with inner blocks *)
    ConX \o SiNo(Asignada(x, <<x, Sig("+"), Num(1, 0)>>), Asignada(x, Uno)),
    (* errors of the syntax, of the meaning *)
    MalaSentencia, Declarada("int", x, <<y>>),
    (* an error that is not reported, three blocks deep *)
    ConX \o Mientras(Mientras(Mientras(MalaSentencia \o Asignada(x, Uno)) \o Asignada(x, Uno))
                       \o Asignada(x, Uno)),
    (* exceptions: of the parse, by a text cut short or by an array and a   *)
    (* table with fewer tokens; of the analysis; of the generator           *)
    <<Sig("int")>>,
    ConX \o <<Sig("return"), Sig("int"), Sig("["), Num(1, 0), Sig("]"), Sig(";")>>,
    SinValor("int", x) \o Asignada(x, <<x, Sig("+"), Num(1, 0)>>),
    ConX \o Funcion(Asignada(x, Uno) \o Asignada(x, Uno)),
    Declarada("char", y, <<Lit("Caracter", "a")>>) \o <<y, Sig("++"), Sig(";")>>,
    (* a text that the parser stands still on, and many tokens *)
    ConX \o Asignada(x, <<x, Sig("+"), x, Sig("+"), x, Sig("+"), x>>) \o <<Sig("}")>> }

-----------------------------------------------------------------------------
Alternar(a, ops) ==
  [j \in 1..(2 * Len(a) - 1) |->
     IF j % 2 = 1 THEN a[(j + 1) \div 2] ELSE Sig(ops[j \div 2])]
Expresiones(operandos, ops, k) ==
  {Alternar(a, o) : a \in [1..k -> operandos], o \in [1..(k - 1) -> ops]}

Lados ==
  Expresiones({Num(2, 0), x}, {"+", "*", "/", "%"}, 3)
    \cup Expresiones({Num(3, 0)}, {"+", "*"}, 4)
    \cup Expresiones({Num(3, 0)}, {"+", "*"}, 5)
    \cup {<<Sig("("), x, Sig("+"), Num(2, 0), Sig(")"), Sig("*"), x>>,
          <<Lit("Cadena", "s"), Sig("+"), Lit("Cadena", "t"), Sig("*"), Lit("Cadena", "s")>>}

(* Wrong sentences, which are not rejected three blocks deep: the semantic  *)
(* analysis writes over a brace, over a comma, and around a variable that   *)
(* holds the text "*".  In the header of a function nothing is rejected.    *)
Malas ==
  { Declarada("int", y, <<x, Sig("+"), Sig("{"), Sig("*"), Num(2, 0)>>) \o <<Sig("}")>>,
    Asignada(x, <<x, Sig("+"), Sig(","), Sig("*"), Num(2, 0)>>),
    Declarada("void", Var("z"), <<Sig("*")>>)
      \o Declarada("int", y, <<Sig("+"), Sig(","), Var("z"), Sig(","), Num(2, 0)>>) }
Hondo(cuerpo) ==
  LET uno == Asignada(x, Uno)
  IN  ConX \o Mientras(Mientras(Mientras(cuerpo \o uno) \o uno) \o uno)

EnCabecera(l, fin) ==
  ConX \o <<Sig("while")>> \o Condicion
    \o <<Sig("int"), Var("f"), Sig("("), Sig("int"), y, Sig("="), Num(1, 0), Sig("+"), l,
         Sig("*"), Num(2, 0), Sig(";"), Sig(")"), Sig("{")>> \o Regresa \o <<Sig("}"), fin>>

Asignaciones ==
  {Vacio} \cup {EnCabecera(Sig("}"), Sig(";")), EnCabecera(Num(3, 0), Sig("}"))} \cup
  {Hondo(m) : m \in Malas} \cup {ConX \o m : m \in Malas} \cup
  UNION {LET s == Asignada(x, l)
         IN  {ConX \o p : p \in {s, Mientras(s \o s), SiNo(s, s \o Asignada(x, Uno)), Repetir(s \o s),
                                 Para(s \o s), Funcion(s \o Regresa)}}
         : l \in Lados}
=============================================================================
