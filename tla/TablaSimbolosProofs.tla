------------------------ MODULE TablaSimbolosProofs -------------------------
(***************************************************************************)
(* Proofs about TablaSimbolos, for every set of names, types and values    *)
(* and any number of tokens.                                               *)
(***************************************************************************)
EXTENDS TablaSimbolos, TLAPS

(* The three facts that are inductive only together: the next code is the  *)
(* length plus one because the codes are dense, and First finds the only   *)
(* record of a name because names are unique.                              *)
IInv == TypeOK /\ CodigosDensos /\ NombresUnicos

Densos(R) == \A i \in DOMAIN R : R[i].codigo = i
Unicos(R) == \A i, j \in DOMAIN R : R[i].nombre = R[j].nombre => i = j

-----------------------------------------------------------------------------
(* SiguienteCorrelativo, the maximum plus one, is the length plus one when *)
(* the codes are dense.                                                    *)
LEMMA CorrelativoDenso ==
  ASSUME NEW R \in Seq(Registro), Densos(R)
  PROVE  SiguienteCorrelativo(R) = Len(R) + 1
<1>1. CASE R = << >>
  BY <1>1 DEF SiguienteCorrelativo
<1>2. CASE R # << >>
  <2>1. Len(R) \in Nat \ {0} /\ DOMAIN R = 1..Len(R)
    BY <1>2
  <2>2. Codigos(R) = 1..Len(R)
    BY <2>1 DEF Densos, Codigos
  <2>3. Max(1..Len(R)) = Len(R)
    BY <2>1 DEF Max
  <2> QED
    BY <1>2, <2>2, <2>3 DEF SiguienteCorrelativo
<1> QED
  BY <1>1, <1>2

(* RegistrosTabla.First finds the record of a declared name. *)
LEMMA PosicionUnica ==
  ASSUME NEW R \in Seq(Registro), Unicos(R),
         NEW i \in DOMAIN R
  PROVE  PosicionDe(R, R[i].nombre) = i
<1>1. DOMAIN R = 1..Len(R) /\ i \in Int
  OBVIOUS
<1>2. {j \in DOMAIN R : R[j].nombre = R[i].nombre} = {i}
  BY DEF Unicos
<1>3. Min({i}) = i
  BY <1>1 DEF Min
<1> QED
  BY <1>2, <1>3 DEF PosicionDe

(* Replacing a value keeps the length and every code, name and type. *)
LEMMA ActualizarConserva ==
  ASSUME NEW R \in Seq(Registro), Unicos(R), Densos(R),
         NEW nombre \in Nombres(R), NEW valor \in Valores \cup {Nulo}
  PROVE  LET S == ActualizarValor(R, nombre, valor)
         IN  /\ S \in Seq(Registro) /\ DOMAIN S = DOMAIN R
             /\ \A i \in DOMAIN R : /\ S[i].codigo = R[i].codigo
                                    /\ S[i].nombre = R[i].nombre
                                    /\ S[i].tipo = R[i].tipo
             /\ Densos(S) /\ Unicos(S)
<1> DEFINE S == ActualizarValor(R, nombre, valor)
<1>1. PICK p \in DOMAIN R : R[p].nombre = nombre
  BY DEF Nombres
<1>2. PosicionDe(R, nombre) = p
  BY <1>1, PosicionUnica
<1>3. S = [R EXCEPT ![p] = [R[p] EXCEPT !.valor = valor]]
  BY <1>2 DEF ActualizarValor
<1>4. R[p] \in Registro /\ [R[p] EXCEPT !.valor = valor] \in Registro
  <2>1. R[p] \in Registro
    BY <1>1
  <2> QED
    BY <2>1 DEF Registro
<1>5. S \in Seq(Registro) /\ DOMAIN S = DOMAIN R
  BY <1>3, <1>4
<1>6. \A i \in DOMAIN R : /\ S[i].codigo = R[i].codigo
                          /\ S[i].nombre = R[i].nombre
                          /\ S[i].tipo = R[i].tipo
  BY <1>3, <1>4 DEF Registro
<1>7. Densos(S) /\ Unicos(S)
  BY <1>5, <1>6 DEF Densos, Unicos
<1> QED
  BY <1>5, <1>6, <1>7

(* InsertarRegistro keeps the table well formed whether the name is new or *)
(* not, and the records it had keep code, name and type.                   *)
LEMMA InsertarConserva ==
  ASSUME NEW R \in Seq(Registro), Unicos(R), Densos(R),
         NEW nombre \in Identificadores,
         NEW tipo \in Tipos \cup {Nulo}, NEW valor \in Valores \cup {Nulo}
  PROVE  LET S == Insertar(R, nombre, tipo, valor)
         IN  /\ S \in Seq(Registro) /\ Densos(S) /\ Unicos(S)
             /\ DOMAIN R \subseteq DOMAIN S
             /\ \A i \in DOMAIN R : /\ S[i].codigo = R[i].codigo
                                    /\ S[i].nombre = R[i].nombre
                                    /\ S[i].tipo = R[i].tipo
<1> DEFINE S == Insertar(R, nombre, tipo, valor)
<1>1. CASE nombre \in Nombres(R)
  BY <1>1, ActualizarConserva DEF Insertar, VariableEstaDeclarada
<1>2. CASE nombre \notin Nombres(R)
  <2> DEFINE r == [codigo |-> Len(R) + 1, nombre |-> nombre,
                   tipo |-> tipo, valor |-> valor]
  <2>1. S = Append(R, r) /\ r \in Registro
    <3>1. SiguienteCorrelativo(R) = Len(R) + 1
      BY CorrelativoDenso
    <3>2. Len(R) + 1 \in Nat
      OBVIOUS
    <3> QED
      BY <1>2, <3>1, <3>2 DEF Insertar, VariableEstaDeclarada, Registro
  <2>2. /\ S \in Seq(Registro) /\ Len(S) = Len(R) + 1
        /\ \A i \in DOMAIN R : S[i] = R[i]
        /\ S[Len(R) + 1] = r
        /\ DOMAIN R = 1..Len(R) /\ DOMAIN S = 1..(Len(R) + 1)
    BY <2>1
  <2>3. Densos(S)
    BY <2>2 DEF Densos
  <2>4. \A i \in DOMAIN R : S[i].nombre # nombre
    BY <1>2, <2>2 DEF Nombres
  <2>5. Unicos(S)
    BY <2>2, <2>4 DEF Unicos
  <2> QED
    BY <2>2, <2>3, <2>5
<1> QED
  BY <1>1, <1>2

-----------------------------------------------------------------------------
(* The invariant holds of a new table. *)
LEMMA InvInit == Init => IInv
  BY DEF Init, IInv, TypeOK, CodigosDensos, NombresUnicos

(* Every call keeps the invariant of the records. *)
LEMMA InvNext == IInv /\ [Next]_vars => IInv'
<1> SUFFICES ASSUME IInv, [Next]_vars
             PROVE  IInv'
  OBVIOUS
<1> USE DEF IInv, TypeOK
<1>0. Densos(registros) /\ Unicos(registros)
  BY DEF CodigosDensos, NombresUnicos, Densos, Unicos
<1>1. CASE NuevaTabla
  BY <1>1 DEF NuevaTabla, CodigosDensos, NombresUnicos
<1>2. ASSUME NEW nombre \in Identificadores, ProcesarLexema(nombre)
      PROVE  IInv'
  <2>1. /\ registros' \in Seq(Registro)
        /\ Densos(registros') /\ Unicos(registros')
    BY <1>0, <1>2, InsertarConserva DEF ProcesarLexema
  <2>2. SiguienteCorrelativo(registros) \in Nat
    BY <1>0, CorrelativoDenso
  <2>3. tokens' \in Seq(Token)
    BY <1>2, <2>2 DEF ProcesarLexema, Token
  <2> QED
    BY <1>2, <2>1, <2>3
       DEF ProcesarLexema, CodigosDensos, NombresUnicos, Densos, Unicos
<1>3. ASSUME NEW nombre \in Identificadores, NEW tipo \in Tipos,
             NEW valor \in Valores \cup {Nulo},
             InsertarRegistro(nombre, tipo, valor)
      PROVE  IInv'
  <2>1. /\ registros' \in Seq(Registro)
        /\ Densos(registros') /\ Unicos(registros')
    BY <1>0, <1>3, InsertarConserva DEF InsertarRegistro
  <2> QED
    BY <1>3, <2>1
       DEF InsertarRegistro, CodigosDensos, NombresUnicos, Densos, Unicos
<1>4. ASSUME NEW nombre \in Identificadores,
             NEW valor \in Valores \cup {Nulo},
             ActualizarValorRegistro(nombre, valor)
      PROVE  IInv'
  <2>1. /\ registros' \in Seq(Registro)
        /\ Densos(registros') /\ Unicos(registros')
    BY <1>0, <1>4, ActualizarConserva
       DEF ActualizarValorRegistro, VariableEstaDeclarada
  <2> QED
    BY <1>4, <2>1
       DEF ActualizarValorRegistro, CodigosDensos, NombresUnicos,
           Densos, Unicos
<1>5. CASE UNCHANGED vars
  BY <1>5 DEF vars, CodigosDensos, NombresUnicos
<1> QED
  BY <1>1, <1>2, <1>3, <1>4, <1>5 DEF Next

(* The table is always well typed, its codes dense and its names unique.   *)
THEOREM TablaCorrecta == Spec => [](TypeOK /\ CodigosDensos /\ NombresUnicos)
<1>1. Init => IInv
  BY InvInit
<1>2. IInv /\ [Next]_vars => IInv'
  BY InvNext
<1> QED
  BY <1>1, <1>2, PTL DEF Spec, IInv

(* Records and tokens keep their types, whoever owns the table. *)
THEOREM TablaBienTipada == Spec => []TypeOK
BY TablaCorrecta, PTL

(* No name is ever recorded twice, however insertions and updates of known *)
(* and of new names follow each other.                                     *)
THEOREM NombresNoSeRepiten == Spec => []NombresUnicos
BY TablaCorrecta, PTL
-----------------------------------------------------------------------------
(* The records of the syntactic analyser's table are exactly the           *)
(* identifiers that have a token; the semantic analyser makes no tokens.   *)
(* So a first appearance is a new name, and it gets the code just taken.   *)
NombresDeTokens ==
  /\ duenno = "sintactico" =>
       Nombres(registros) = {tokens[k].nombre : k \in DOMAIN tokens}
  /\ duenno = "semantico" => tokens = << >>

TInv == NombresDeTokens /\ TokenPrimeraAparicion

(* InsertarRegistro adds its name to the table, and no other. *)
LEMMA InsertarNombres ==
  ASSUME NEW R \in Seq(Registro), Unicos(R), Densos(R),
         NEW nombre \in Identificadores,
         NEW tipo \in Tipos \cup {Nulo}, NEW valor \in Valores \cup {Nulo}
  PROVE  LET S == Insertar(R, nombre, tipo, valor)
         IN  /\ Nombres(S) = Nombres(R) \cup {nombre}
             /\ nombre \notin Nombres(R) =>
                  S[Len(R) + 1].nombre = nombre /\ Len(R) + 1 \in DOMAIN S
<1> DEFINE S == Insertar(R, nombre, tipo, valor)
<1>1. CASE nombre \in Nombres(R)
  <2>1. S = ActualizarValor(R, nombre, valor)
    BY <1>1 DEF Insertar, VariableEstaDeclarada
  <2>2. /\ DOMAIN S = DOMAIN R
        /\ \A i \in DOMAIN R : S[i].nombre = R[i].nombre
    BY <1>1, <2>1, ActualizarConserva
  <2> QED
    BY <1>1, <2>2 DEF Nombres
<1>2. CASE nombre \notin Nombres(R)
  <2> DEFINE r == [codigo |-> SiguienteCorrelativo(R), nombre |-> nombre,
                   tipo |-> tipo, valor |-> valor]
  <2>1. S = Append(R, r)
    BY <1>2 DEF Insertar, VariableEstaDeclarada
  <2> HIDE DEF S
  <2>2. /\ DOMAIN R = 1..Len(R) /\ DOMAIN S = 1..(Len(R) + 1)
        /\ \A i \in DOMAIN R : S[i] = R[i]
        /\ S[Len(R) + 1] = r
    BY <2>1
  <2>3. DOMAIN S = DOMAIN R \cup {Len(R) + 1}
    BY <2>2
  <2>4. r.nombre = nombre
    OBVIOUS
  <2>5. Nombres(S) = Nombres(R) \cup {nombre}
    BY <2>2, <2>3, <2>4 DEF Nombres
  <2> QED
    BY <2>2, <2>3, <2>4, <2>5 DEF S
<1> QED
  BY <1>1, <1>2

(* The invariant of the tokens holds of a new table. *)
LEMMA TokensInit == Init => TInv
  BY DEF Init, TInv, NombresDeTokens, TokenPrimeraAparicion, Nombres

(* Every call keeps the invariant of the tokens. *)
LEMMA TokensNext == IInv /\ TInv /\ [Next]_vars => TInv'
<1> SUFFICES ASSUME IInv, TInv, [Next]_vars
             PROVE  TInv'
  OBVIOUS
<1> USE DEF IInv, TypeOK
<1>0. Densos(registros) /\ Unicos(registros)
  BY DEF CodigosDensos, NombresUnicos, Densos, Unicos
<1>1. CASE NuevaTabla
  BY <1>1 DEF NuevaTabla, TInv, NombresDeTokens, TokenPrimeraAparicion,
              Nombres
<1>2. ASSUME NEW nombre \in Identificadores, ProcesarLexema(nombre)
      PROVE  TInv'
  <2> DEFINE m == Len(tokens)
             t == [nombre |-> nombre,
                   idTablaSimbolos |-> SiguienteCorrelativo(registros)]
  <2>1. /\ tokens' = Append(tokens, t)
        /\ registros' = Insertar(registros, nombre, Nulo, Nulo)
        /\ duenno = "sintactico" /\ duenno' = duenno
    BY <1>2 DEF ProcesarLexema
  <2>2. /\ DOMAIN tokens = 1..m /\ DOMAIN tokens' = 1..(m + 1) /\ m \in Nat
        /\ \A k \in 1..m : tokens'[k] = tokens[k]
        /\ tokens'[m + 1] = t
    BY <2>1
  <2>3. t.nombre = nombre /\ t.idTablaSimbolos = Len(registros) + 1
    BY <1>0, CorrelativoDenso
  <2> HIDE DEF t
  <2> DEFINE S == Insertar(registros, nombre, Nulo, Nulo)
  <2>4. Nulo \in Tipos \cup {Nulo} /\ Nulo \in Valores \cup {Nulo}
    OBVIOUS
  <2>5. /\ Nombres(S) = Nombres(registros) \cup {nombre}
        /\ nombre \notin Nombres(registros) =>
             /\ S[Len(registros) + 1].nombre = nombre
             /\ Len(registros) + 1 \in DOMAIN S
    BY <1>0, <2>4, InsertarNombres
  <2>6. /\ Densos(S) /\ DOMAIN registros \subseteq DOMAIN S
        /\ \A i \in DOMAIN registros : /\ S[i].codigo = registros[i].codigo
                                       /\ S[i].nombre = registros[i].nombre
    BY <1>0, <2>4, InsertarConserva
  <2>7. registros' = S
    BY <2>1
  <2> HIDE DEF S
  <2>8. /\ Nombres(registros') = Nombres(registros) \cup {nombre}
        /\ nombre \notin Nombres(registros) =>
             /\ registros'[Len(registros) + 1].nombre = nombre
             /\ Len(registros) + 1 \in DOMAIN registros'
    BY <2>5, <2>7
  <2>9. NombresDeTokens'
    <3>1. {tokens'[k].nombre : k \in DOMAIN tokens'}
            = {tokens[k].nombre : k \in DOMAIN tokens} \cup {nombre}
      BY <2>2, <2>3
    <3> QED
      BY <2>1, <2>8, <3>1 DEF TInv, NombresDeTokens
  <2>10. ASSUME NEW k \in DOMAIN tokens',
               \A j \in 1..(k - 1) : tokens'[j].nombre # tokens'[k].nombre
        PROVE  \E i \in DOMAIN registros' :
                 /\ registros'[i].codigo = tokens'[k].idTablaSimbolos
                 /\ registros'[i].nombre = tokens'[k].nombre
    <3>1. CASE k \in 1..m
      <4>1. \A j \in 1..(k - 1) : tokens[j].nombre # tokens[k].nombre
        BY <2>2, <2>10, <3>1
      <4>2. PICK i \in DOMAIN registros :
                 /\ registros[i].codigo = tokens[k].idTablaSimbolos
                 /\ registros[i].nombre = tokens[k].nombre
        BY <2>2, <3>1, <4>1 DEF TInv, TokenPrimeraAparicion
      <4>3. /\ i \in DOMAIN registros'
            /\ registros'[i].codigo = registros[i].codigo
            /\ registros'[i].nombre = registros[i].nombre
        BY <2>6, <2>7
      <4> QED
        BY <2>2, <3>1, <4>2, <4>3
    <3>2. CASE k = m + 1
      <4>1. \A j \in 1..m : tokens[j].nombre # nombre
        BY <2>2, <2>3, <2>10, <3>2
      <4>2. nombre \notin Nombres(registros)
        BY <2>1, <2>2, <4>1 DEF TInv, NombresDeTokens
      <4>3. Densos(registros')
        BY <2>6, <2>7
      <4>4. registros'[Len(registros) + 1].codigo = Len(registros) + 1
        BY <2>8, <4>2, <4>3 DEF Densos
      <4> QED
        BY <2>2, <2>3, <2>8, <3>2, <4>2, <4>4
    <3> QED
      BY <2>2, <3>1, <3>2
  <2> QED
    BY <2>9, <2>10 DEF TInv, TokenPrimeraAparicion
<1>3. ASSUME duenno = "semantico", UNCHANGED <<duenno, tokens>>
      PROVE  TInv'
  BY <1>3 DEF TInv, NombresDeTokens, TokenPrimeraAparicion
<1>4. CASE UNCHANGED vars
  <2>1. registros' = registros /\ tokens' = tokens /\ duenno' = duenno
    BY <1>4 DEF vars
  <2>2. NombresDeTokens'
    BY <2>1 DEF TInv, NombresDeTokens, Nombres
  <2>3. TokenPrimeraAparicion'
    BY <2>1 DEF TInv, TokenPrimeraAparicion
  <2> QED
    BY <2>2, <2>3 DEF TInv
<1> QED
  BY <1>1, <1>2, <1>3, <1>4
     DEF Next, InsertarRegistro, ActualizarValorRegistro

(* The token of the first appearance of an identifier always points to the *)
(* record of that identifier.                                              *)
THEOREM PrimerTokenCorrecto == Spec => []TokenPrimeraAparicion
<1>1. Init => IInv /\ TInv
  BY InvInit, TokensInit
<1>2. IInv /\ TInv /\ [Next]_vars => IInv' /\ TInv'
  BY InvNext, TokensNext
<1> QED
  BY <1>1, <1>2, PTL DEF Spec, TInv
-----------------------------------------------------------------------------
(* The refinement: the list of records is the partial map of MapaSimbolos. *)
Mapa(R) ==
  [nombre \in Nombres(R) |->
     [tipo |-> R[PosicionDe(R, nombre)].tipo,
      valor |-> R[PosicionDe(R, nombre)].valor]]

(* A record is seen in the map at its name. *)
LEMMA MapaEn ==
  ASSUME NEW R \in Seq(Registro), Unicos(R), NEW i \in DOMAIN R
  PROVE  /\ R[i].nombre \in DOMAIN Mapa(R)
         /\ Mapa(R)[R[i].nombre] = [tipo |-> R[i].tipo, valor |-> R[i].valor]
<1>1. R[i].nombre \in Nombres(R)
  BY DEF Nombres
<1>2. PosicionDe(R, R[i].nombre) = i
  BY PosicionUnica
<1> QED
  BY <1>1, <1>2 DEF Mapa

(* Assigning a value changes the value of that name in the map, only. *)
LEMMA ActualizarEsCambiar ==
  ASSUME NEW R \in Seq(Registro), Unicos(R), Densos(R),
         NEW nombre \in Nombres(R), NEW valor \in Valores \cup {Nulo}
  PROVE  Mapa(ActualizarValor(R, nombre, valor))
           = [Mapa(R) EXCEPT ![nombre].valor = valor]
<1> DEFINE S == ActualizarValor(R, nombre, valor)
<1>1. PICK p \in DOMAIN R : R[p].nombre = nombre
  BY DEF Nombres
<1>2. S = [R EXCEPT ![p] = [R[p] EXCEPT !.valor = valor]]
  BY <1>1, PosicionUnica DEF ActualizarValor
<1>3. /\ S \in Seq(Registro) /\ DOMAIN S = DOMAIN R /\ Unicos(S)
      /\ \A i \in DOMAIN R : S[i].nombre = R[i].nombre /\ S[i].tipo = R[i].tipo
  BY ActualizarConserva
<1>4. Nombres(S) = Nombres(R)
  BY <1>3 DEF Nombres
<1>5. S[p].valor = valor /\ \A i \in DOMAIN R : i # p => S[i] = R[i]
  <2>1. R[p] \in Registro
    BY <1>1
  <2> QED
    BY <1>1, <1>2, <2>1 DEF Registro
<1> HIDE DEF S
<1>6. ASSUME NEW m \in Nombres(R)
      PROVE  Mapa(S)[m] = [Mapa(R) EXCEPT ![nombre].valor = valor][m]
  <2>1. PICK i \in DOMAIN R : R[i].nombre = m
    BY DEF Nombres
  <2>2. /\ Mapa(S)[m] = [tipo |-> S[i].tipo, valor |-> S[i].valor]
        /\ Mapa(R)[m] = [tipo |-> R[i].tipo, valor |-> R[i].valor]
        /\ m \in DOMAIN Mapa(R)
    BY <1>3, <2>1, MapaEn
  <2>3. i = p <=> m = nombre
    BY <1>1, <2>1 DEF Unicos
  <2> QED
    BY <1>3, <1>5, <2>2, <2>3
<1>7. DOMAIN Mapa(S) = Nombres(R) /\ DOMAIN Mapa(R) = Nombres(R)
  BY <1>4 DEF Mapa
<1>8. Mapa(S) = [m \in Nombres(S) |-> Mapa(S)[m]]
  BY DEF Mapa
<1> QED
  BY <1>4, <1>6, <1>7, <1>8 DEF S

(* Inserting a new name adds it to the map with its type and value. *)
LEMMA InsertarEsRegistrar ==
  ASSUME NEW R \in Seq(Registro), Unicos(R), Densos(R),
         NEW nombre \in Identificadores, nombre \notin Nombres(R),
         NEW tipo \in Tipos \cup {Nulo}, NEW valor \in Valores \cup {Nulo}
  PROVE  LET S == Insertar(R, nombre, tipo, valor)
         IN  /\ Nombres(S) = Nombres(R) \cup {nombre}
             /\ Mapa(S)[nombre] = [tipo |-> tipo, valor |-> valor]
             /\ \A m \in Nombres(R) : Mapa(S)[m] = Mapa(R)[m]
<1> DEFINE S == Insertar(R, nombre, tipo, valor)
           r == [codigo |-> SiguienteCorrelativo(R), nombre |-> nombre,
                 tipo |-> tipo, valor |-> valor]
<1>1. S = Append(R, r)
  BY DEF Insertar, VariableEstaDeclarada
<1>2. S \in Seq(Registro) /\ Unicos(S)
  BY InsertarConserva
<1>3. Nombres(S) = Nombres(R) \cup {nombre}
  BY InsertarNombres
<1> HIDE DEF S
<1>4. /\ DOMAIN R \subseteq DOMAIN S /\ Len(R) + 1 \in DOMAIN S
      /\ \A i \in DOMAIN R : S[i] = R[i]
      /\ S[Len(R) + 1] = r
  BY <1>1
<1>5. Mapa(S)[nombre] = [tipo |-> tipo, valor |-> valor]
  BY <1>2, <1>4, MapaEn
<1>6. ASSUME NEW m \in Nombres(R)
      PROVE  Mapa(S)[m] = Mapa(R)[m]
  <2>1. PICK i \in DOMAIN R : R[i].nombre = m
    BY DEF Nombres
  <2>2. /\ Mapa(S)[m] = [tipo |-> S[i].tipo, valor |-> S[i].valor]
        /\ Mapa(R)[m] = [tipo |-> R[i].tipo, valor |-> R[i].valor]
    BY <1>2, <1>4, <2>1, MapaEn
  <2> QED
    BY <1>4, <2>2
<1> QED
  BY <1>3, <1>5, <1>6 DEF S

(* A new table is the empty map. *)
LEMMA RefinaInit == Init => Abstracta!Init
<1> SUFFICES ASSUME Init PROVE Abstracta!Init
  OBVIOUS
<1>1. Nombres(registros) = {}
  BY DEF Init, Nombres
<1> QED
  BY <1>1 DEF Abstracta!Init, Abstracta!Vacio, MapaDeRegistros

(* Every insertion is a registration or a change of value of the map. *)
LEMMA RefinaInsertar ==
  ASSUME TypeOK, Densos(registros), Unicos(registros),
         NEW nombre \in Identificadores,
         NEW tipo \in Tipos \cup {Nulo}, NEW valor \in Valores \cup {Nulo},
         registros' = Insertar(registros, nombre, tipo, valor)
  PROVE  Abstracta!Next
<1> USE DEF TypeOK
<1>1. MapaDeRegistros = Mapa(registros) /\ MapaDeRegistros' = Mapa(registros')
  BY DEF MapaDeRegistros, Mapa
<1>2. DOMAIN Mapa(registros) = Nombres(registros)
  BY DEF Mapa
<1>3. CASE nombre \in Nombres(registros)
  <2>1. Mapa(registros') = [Mapa(registros) EXCEPT ![nombre].valor = valor]
    BY <1>3, ActualizarEsCambiar DEF Insertar, VariableEstaDeclarada
  <2>2. Abstracta!CambiarValor(nombre, valor)
    BY <1>1, <1>2, <1>3, <2>1 DEF Abstracta!CambiarValor
  <2> QED
    BY <2>2 DEF Abstracta!Next
<1>4. CASE nombre \notin Nombres(registros)
  <2> DEFINE e == [tipo |-> tipo, valor |-> valor]
  <2>1. Mapa(registros') = [m \in Nombres(registros) \cup {nombre} |->
                              IF m = nombre THEN e ELSE Mapa(registros)[m]]
    <3> DEFINE S == Insertar(registros, nombre, tipo, valor)
    <3>1. /\ Nombres(S) = Nombres(registros) \cup {nombre}
          /\ Mapa(S)[nombre] = e
          /\ \A m \in Nombres(registros) : Mapa(S)[m] = Mapa(registros)[m]
      BY <1>4, InsertarEsRegistrar
    <3>2. Mapa(S) = [m \in Nombres(S) |-> Mapa(S)[m]]
      BY DEF Mapa
    <3>3. registros' = S
      OBVIOUS
    <3> HIDE DEF S, e
    <3> QED
      BY <1>4, <3>1, <3>2, <3>3
  <2>2. e \in Abstracta!Entrada
    BY DEF Abstracta!Entrada
  <2>3. Abstracta!Registrar(nombre, e)
    BY <1>1, <1>2, <1>4, <2>1 DEF Abstracta!Registrar
  <2> QED
    BY <2>2, <2>3 DEF Abstracta!Next
<1> QED
  BY <1>3, <1>4

(* Every call is one operation of the map, or changes nothing of it. *)
LEMMA RefinaNext ==
  IInv /\ [Next]_vars => [Abstracta!Next]_MapaDeRegistros
<1> SUFFICES ASSUME IInv, [Next]_vars
             PROVE  [Abstracta!Next]_MapaDeRegistros
  OBVIOUS
<1>0. TypeOK /\ Densos(registros) /\ Unicos(registros)
  BY DEF IInv, CodigosDensos, NombresUnicos, Densos, Unicos
<1>1. CASE NuevaTabla
  <2>1. Nombres(registros') = {}
    BY <1>1 DEF NuevaTabla, Nombres
  <2>2. Abstracta!Descartar
    BY <2>1 DEF Abstracta!Descartar, Abstracta!Vacio, MapaDeRegistros,
                Nombres
  <2> QED
    BY <2>2 DEF Abstracta!Next
<1>2. ASSUME NEW nombre \in Identificadores, ProcesarLexema(nombre)
      PROVE  Abstracta!Next
  BY <1>0, <1>2, RefinaInsertar DEF ProcesarLexema
<1>3. ASSUME NEW nombre \in Identificadores, NEW tipo \in Tipos,
             NEW valor \in Valores \cup {Nulo},
             InsertarRegistro(nombre, tipo, valor)
      PROVE  Abstracta!Next
  BY <1>0, <1>3, RefinaInsertar DEF InsertarRegistro
<1>4. ASSUME NEW nombre \in Identificadores,
             NEW valor \in Valores \cup {Nulo},
             ActualizarValorRegistro(nombre, valor)
      PROVE  Abstracta!Next
  <2>1. /\ nombre \in Nombres(registros)
        /\ registros' = ActualizarValor(registros, nombre, valor)
    BY <1>4 DEF ActualizarValorRegistro, VariableEstaDeclarada
  <2>2. Mapa(registros') = [Mapa(registros) EXCEPT ![nombre].valor = valor]
    BY <1>0, <2>1, ActualizarEsCambiar DEF TypeOK
  <2>3. /\ MapaDeRegistros = Mapa(registros)
        /\ MapaDeRegistros' = Mapa(registros')
        /\ DOMAIN Mapa(registros) = Nombres(registros)
    BY DEF MapaDeRegistros, Mapa
  <2>4. Abstracta!CambiarValor(nombre, valor)
    BY <2>1, <2>2, <2>3 DEF Abstracta!CambiarValor
  <2> QED
    BY <2>4 DEF Abstracta!Next
<1>5. CASE UNCHANGED vars
  BY <1>5 DEF vars, MapaDeRegistros, Nombres, PosicionDe
<1> QED
  BY <1>1, <1>2, <1>3, <1>4, <1>5 DEF Next

(* The list of records with linear searches implements the partial map: a  *)
(* name gets its type once, and only its value changes afterwards.         *)
THEOREM TablaEsUnMapa == Spec => EsUnMapa
<1>1. Init => IInv /\ Abstracta!Init
  BY InvInit, RefinaInit
<1>2. IInv /\ [Next]_vars => IInv'
  BY InvNext
<1>3. IInv /\ [Next]_vars => [Abstracta!Next]_MapaDeRegistros
  BY RefinaNext
<1> QED
  BY <1>1, <1>2, <1>3, PTL DEF Spec, EsUnMapa, Abstracta!Spec
=============================================================================
