---------------------------- MODULE MCGenerador -----------------------------
(***************************************************************************)
(* GeneradorCodigo on programs made of nodes.  A node is a sentence, a     *)
(* structure or a function with the texts before and after its inner       *)
(* nodes; printing and numbering the nodes of a program gives the list of  *)
(* lexemes and the blocks that the syntactic analyser finds in it.         *)
(***************************************************************************)
EXTENDS GeneradorCodigo

Sig(t) == [tipo |-> TipoDeTexto(t), texto |-> Simbolo(t)]
Var(t) == [tipo |-> "Variable", texto |-> Simbolo(t)]
Num(m) == [tipo |-> "Numero", texto |-> Numeral(m, 0)]
Lit(tipo, t) == [tipo |-> tipo, texto |-> Simbolo(t)]

x == Var("x")
y == Var("y")
z == Var("z")

Nodo(tipo, antes, cuerpo, despues) ==
  [tipo |-> tipo, error |-> FALSE, antes |-> antes, cuerpo |-> cuerpo,
   despues |-> despues]
Hoja(L) == Nodo("Sentencia", L, << >>, << >>)

Asignada(v, e) == Hoja(<<v, Sig("=")>> \o e \o <<Sig(";")>>)
Declarada(t, v, e) == Hoja(<<Sig(t), v, Sig("=")>> \o e \o <<Sig(";")>>)
SinValor(v) == Hoja(<<Sig("int"), v, Sig(";")>>)
Incremento(v, op) == Hoja(<<v, Sig(op), Sig(";")>>)

-----------------------------------------------------------------------------
(* Sentences with operations of the given operands and operators. *)
Alternar(a, ops) ==
  [j \in 1..(2 * Len(a) - 1) |->
     IF j % 2 = 1 THEN a[(j + 1) \div 2] ELSE Sig(ops[j \div 2])]
Operaciones(operandos, ops, k) ==
  {Alternar(a, o) : a \in [1..k -> operandos], o \in [1..(k - 1) -> ops]}

Lados == Operaciones({x, y, z, Num(2)}, {"+", "-", "*", "/", "%"}, 2)
           \cup Operaciones({x, y, Num(2)}, {"+", "*", "/"}, 3)
           \cup Operaciones({x, Num(2)}, {"+", "*"}, 4)
           \cup {<<Sig("("), x, Sig("+"), y, Sig(")"), Sig("*"), y>>}

(* x += a + b * c, which the semantic analyser passes over. *)
Suma(v, e) == Hoja(<<v, [tipo |-> "OperadorRelacional", texto |-> Simbolo("+=")]>>
                     \o e \o <<Sig(";")>>)

Prefijo == <<SinValor(x), Declarada("int", y, <<Num(1)>>)>>

ProgramasDeOperaciones ==
  {Prefijo \o <<s>> : s \in UNION {{Asignada(y, l), Declarada("float", z, l), Suma(x, l)}
                                   : l \in Lados}}
    \cup {Prefijo \o <<Declarada("float", z, <<x, Sig("*"), z, Sig("+"), y>>), Asignada(x, l)>>
          : l \in Lados}

-----------------------------------------------------------------------------
(* Structures over bodies. *)
Condicion1 == <<Sig("("), x, Sig("<"), Num(1), Sig(")")>>

Compuestos(cuerpo) ==
  { Nodo("Estructura", <<Sig("while")>> \o Condicion1 \o <<Sig("{")>>, cuerpo, <<Sig("}")>>),
    Nodo("Estructura", <<Sig("if")>> \o Condicion1 \o <<Sig("{")>>, cuerpo, <<Sig("}")>>),
    Nodo("Estructura", <<Sig("else"), Sig("{")>>, cuerpo, <<Sig("}")>>),
    Nodo("Estructura", <<Sig("do"), Sig("{")>>, cuerpo,
         <<Sig("}"), Sig("while")>> \o Condicion1 \o <<Sig(";")>>),
    Nodo("Estructura",
         <<Sig("for"), Sig("("), x, Sig("="), Num(0), Sig(";"), x, Sig("<"), Num(1), Sig(";"),
           x, Sig("++"), Sig(")"), Sig("{")>>, cuerpo, <<Sig("}")>>),
    Nodo("Estructura",
         <<Sig("for"), Sig("("), Sig("int"), z, Sig("="), Num(0), Sig(";"), z, Sig("<"),
           Num(1), Sig(";"), z, Sig("="), z, Sig("+"), Num(1), Sig(")"), Sig("{")>>,
         cuerpo, <<Sig("}")>>),
    Nodo("Estructura",
         <<Sig("for"), Sig("("), Sig("int"), z, Sig("="), x, Sig("*"), Num(2), Sig(";"), z,
           Sig("<"), Num(1), Sig(";"), z, Sig("++"), Sig(")"), Sig("{")>>,
         cuerpo, <<Sig("}")>>) }

Hojas == { Incremento(x, "--"), Asignada(x, <<Num(1)>>), SinValor(y),
           Asignada(x, <<y, Sig("+"), Num(1), Sig("*"), x>>),
           Declarada("char", y, <<Lit("Caracter", "a")>>) }

Nivel1 == UNION {Compuestos(c) : c \in {<< >>} \cup {<<h>> : h \in Hojas}}
Nivel2 == UNION {Compuestos(c) :
                   c \in {<<a>> : a \in Nivel1}
                         \cup {<<a, Incremento(x, "++")>> : a \in Nivel1}
                         \cup {<<SinValor(y), a>> : a \in Nivel1}}

Funcion(cuerpo) ==
  Nodo("Funcion", <<Sig("int"), Var("f"), Sig("("), Sig("int"), Var("p"), Sig(")"), Sig("{")>>,
       cuerpo, <<Sig("}")>>)

ProgramasDeEstructuras ==
  {<<SinValor(x), a>> : a \in Nivel2}
    \cup {<<a, SinValor(x)>> : a \in Nivel1}            \* x not declared yet
    \cup {<<SinValor(x), h, a>> : h \in Hojas, a \in Nivel1}
    \cup {<<SinValor(x), Funcion(<<h>>), a, Hoja(<<Sig("return"), x, Sig("+"), y, Sig(";")>>)>>
          : h \in Hojas, a \in Nivel1}

(* An error three blocks deep, that the syntactic analysis does not report:*)
(* a sentence cut short.                                                   *)
Cortada == [Hoja(<<Sig("int"), y>>) EXCEPT !.error = TRUE]
Mientras(cuerpo) ==
  Nodo("Estructura", <<Sig("while")>> \o Condicion1 \o <<Sig("{")>>, cuerpo, <<Sig("}")>>)
ConErrorOculto == <<SinValor(x), Mientras(<<Mientras(<<Mientras(<<Cortada>>)>>)>>)>>

Programas == ProgramasDeOperaciones \cup ProgramasDeEstructuras \cup {ConErrorOculto}

-----------------------------------------------------------------------------
RECURSIVE ListaDe(_)
ListaDe(nodos) ==
  IF nodos = << >> THEN << >>
  ELSE LET a == Head(nodos)
       IN  a.antes \o ListaDe(a.cuerpo) \o a.despues \o ListaDe(Tail(nodos))

(* The blocks of nodes printed from position p inside block padre, when k  *)
(* blocks come before them.                                                *)
RECURSIVE BloquesDe(_, _, _, _)
BloquesDe(nodos, p, padre, k) ==
  IF nodos = << >> THEN << >>
  ELSE LET a == Head(nodos)
           p1 == p + Len(a.antes)
           p2 == p1 + Len(ListaDe(a.cuerpo))
           fin == p2 + Len(a.despues)
           dentro == BloquesDe(a.cuerpo, p1, k + 1, k + 1)
       IN  <<[tipo |-> a.tipo, error |-> a.error, incia |-> p,
              finaliza |-> fin - 1, padre |-> padre,
              lex |-> (p..(p1 - 1)) \cup (p2..(fin - 1))]>>
             \o dentro
             \o BloquesDe(Tail(nodos), fin, padre, k + 1 + Len(dentro))

MCEntradas ==
  {[lexemas |-> ListaDe(p), bloques |-> BloquesDe(p, 0, 0, 0)] : p \in Programas}
=============================================================================
