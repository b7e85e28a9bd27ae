-------------------------- MODULE FormularioProofs --------------------------
(***************************************************************************)
(* Proofs about the window.  It implements Ventana: whatever the analysers *)
(* do in between, the tree shown in the later phases of a press is that of *)
(* the text in the box, so that a result is always shown next to its tree. *)
(* And what the semantic analysis writes into the lexemes, whose proofs    *)
(* are instantiated here as SemP, is all that tells the code from the text.*)
(***************************************************************************)
EXTENDS Formulario, FiniteSetTheorems, TLAPS

SemP == INSTANCE AnalizadorSemanticoUsosProofs WITH estado <- estadoSem, Entradas <- {}

(* The tree is drawn when the parse is accepted, and the box cannot change *)
(* before the press ends.                                                  *)
Dibujado ==
  /\ caja \in Programas
  /\ fase \in {"analizando", "releyendo", "generando"} => arbol = caja

(* The window that the abstract specification talks about. *)
LEMMA InicioDeVentana == Init => Dibujado /\ V!Init
  BY DEF Init, Dibujado, V!Init

(* A handler that returns normally shows a result, its tree and its        *)
(* symbols, all of the text in the box.                                    *)
LEMMA MostrarEsMostrar ==
  ASSUME NEW que \in V!ConArbol, fase # "espera", Mostrar(que),
         arbol' = caja, tabla' = caja, Soltar
  PROVE  V!Mostrar
<1>1. caja' = caja /\ fase' = "espera"
  BY DEF Soltar
<1>2. cuadro' = [que |-> que, de |-> caja]
  BY DEF Mostrar
<1> QED
  BY <1>1, <1>2 DEF V!Mostrar

(* Every step keeps the tree, and is one of the window or none. *)
LEMMA PasoDeVentana ==
  ASSUME Dibujado, Next
  PROVE  Dibujado' /\ (V!Next \/ UNCHANGED <<caja, fase # "espera", cuadro, arbol, tabla>>)
<1>1. CASE Escribir
  BY <1>1 DEF Escribir, Quieta, Dibujado, V!Next, V!Escribir
<1>1b. CASE Borrar
  BY <1>1b, ProgramasAssumption DEF Borrar, Quieta, Dibujado, V!Next, V!Borrar
<1>2. CASE PulsarLexico
  BY <1>2 DEF PulsarLexico, Quieta, Dibujado, V!Next, V!MostrarLexemas
<1>3. ASSUME NEW b \in Botones, Pulsar(b)
      PROVE  Dibujado' /\ V!Next
  BY <1>3 DEF Pulsar, Quieta, Dibujado, V!Next, V!Pulsar
<1>4. CASE Leer
  BY <1>4 DEF Leer, ventana, Dibujado
<1>5. CASE MostrarErroresSintax
  <2>1. fase = "leyendo" /\ fase' = "espera" /\ caja' = caja
    BY <1>5 DEF MostrarErroresSintax, Rechazado, Leido, Soltar
  <2>2. /\ cuadro' = [que |-> "errores sintacticos", de |-> caja]
        /\ arbol' = Nadie /\ tabla' \in {caja, tabla}
    BY <1>5 DEF MostrarErroresSintax, Mostrar
  <2> QED
    BY <2>1, <2>2 DEF Dibujado, V!Next, V!Rechazar
<1>6. CASE MostrarSintaxis
  <2>1. fase = "leyendo" /\ fase' = "espera" /\ caja' = caja
    BY <1>6 DEF MostrarSintaxis, Aceptado, Leido, Soltar
  <2>2. V!Mostrar
    BY <1>6, <2>1, MostrarEsMostrar DEF MostrarSintaxis, V!ConArbol
  <2> QED
    BY <2>1, <2>2 DEF Dibujado, V!Next
<1>7. CASE ProcesarLexemas
  <2>1. fase = "leyendo" /\ fase' = "analizando"
    BY <1>7 DEF ProcesarLexemas, Aceptado, Leido
  <2>2. arbol' = caja /\ UNCHANGED <<caja, cuadro, tabla>>
    BY <1>7 DEF ProcesarLexemas
  <2> QED
    BY <2>1, <2>2 DEF Dibujado, V!Next, V!Dibujar
<1>8. CASE Analizar
  BY <1>8 DEF Analizar, ventana, Dibujado
<1>9. CASE MostrarSemantica
  <2>1. fase = "analizando" /\ fase' = "espera" /\ caja' = caja
    BY <1>9 DEF MostrarSemantica, Analizado, Soltar
  <2>2. arbol' = caja /\ tabla' = caja
    BY <1>9, <2>1 DEF MostrarSemantica, Dibujado
  <2>3. \E que \in {"errores semanticos", "semantica correcta"} : Mostrar(que)
    BY <1>9 DEF MostrarSemantica
  <2>4. Soltar
    BY <1>9 DEF MostrarSemantica
  <2>5. V!Mostrar
    BY <2>1, <2>2, <2>3, <2>4, MostrarEsMostrar DEF V!ConArbol
  <2> QED
    BY <2>1, <2>5 DEF Dibujado, V!Next
<1>10. CASE Releer
  <2>1. fase = "analizando" /\ fase' = "releyendo" /\ UNCHANGED ventana
    BY <1>10 DEF Releer, Analizado
  <2> QED
    BY <2>1 DEF Dibujado, ventana
<1>11. CASE GenerarCodigo
  <2>1. fase = "releyendo" /\ fase' = "generando" /\ UNCHANGED ventana
    BY <1>11 DEF GenerarCodigo
  <2> QED
    BY <2>1 DEF Dibujado, ventana
<1>12. CASE Generar
  BY <1>12 DEF Generar, ventana, Dibujado
<1>13. CASE MostrarCodigo
  <2>1. fase = "generando" /\ fase' = "espera" /\ caja' = caja
    BY <1>13 DEF MostrarCodigo, Soltar
  <2>2. arbol' = caja /\ tabla' = caja
    BY <1>13, <2>1 DEF MostrarCodigo, Dibujado
  <2>3. V!Mostrar
    BY <1>13, <2>1, <2>2, MostrarEsMostrar DEF MostrarCodigo, V!ConArbol
  <2> QED
    BY <2>1, <2>3 DEF Dibujado, V!Next
<1>14. CASE Fallar
  <2>1. fase' = "espera" /\ UNCHANGED <<caja, cuadro, arbol, tabla>>
    BY <1>14 DEF Fallar, Soltar
  <2> QED
    BY <2>1 DEF Dibujado, V!Next, V!Fallar
<1> QED
  BY <1>1, <1>1b, <1>2, <1>3, <1>4, <1>5, <1>6, <1>7, <1>8, <1>9, <1>10, <1>11,
     <1>12, <1>13, <1>14 DEF Next, Manejar

(* The window implements Ventana: a result is shown with the tree and the  *)
(* symbols of its own text, whatever texts, presses and exceptions came    *)
(* before.                                                                 *)
THEOREM LaVentanaCumple == Spec => EsUnaVentana
<1>1. Dibujado /\ [Next]_vars
        => Dibujado' /\ [V!Next]_<<caja, fase # "espera", cuadro, arbol, tabla>>
  <2>1. ASSUME Dibujado, UNCHANGED vars
        PROVE  Dibujado' /\ UNCHANGED <<caja, fase # "espera", cuadro, arbol, tabla>>
    BY <2>1 DEF vars, ventana, Dibujado
  <2> QED
    BY <2>1, PasoDeVentana
<1> QED
  BY <1>1, InicioDeVentana, PTL DEF Spec, EsUnaVentana, V!Spec

-----------------------------------------------------------------------------
(* Types *)

(* The parser leaves the size of the symbol table as it is. *)
LEMMA LecturaTokens == Sint!Next => numTokens' = numTokens
<1>1. \A r : Sint!Aplicar(r) => numTokens' = numTokens
  BY DEF Sint!Aplicar, Sint!Lanzar
<1>2. Sint!CerrarBloque \/ Sint!CerrarDoWhile => numTokens' = numTokens
  BY Zenon DEF Sint!CerrarBloque, Sint!CerrarDoWhile, Sint!Lanzar
<1>3. Sint!Terminado => numTokens' = numTokens
  BY DEF Sint!Terminado, Sint!vars
<1>4. Sint!SinManejador \/ Sint!TerminarAnalisis => numTokens' = numTokens
  BY Zenon DEF Sint!SinManejador, Sint!TerminarAnalisis
<1>5. Sint!TipoDato \/ Sint!ReAsignacion \/ Sint!Retorno \/ Sint!For => numTokens' = numTokens
  BY <1>1, Zenon DEF Sint!TipoDato, Sint!ReAsignacion, Sint!Retorno, Sint!For
<1>6. Sint!While \/ Sint!If \/ Sint!DoWhile \/ Sint!Else => numTokens' = numTokens
  BY <1>1, Zenon DEF Sint!While, Sint!If, Sint!DoWhile, Sint!Else
<1> QED
  BY <1>2, <1>3, <1>4, <1>5, <1>6, Zenon DEF Sint!Next

(* A text is a list of lexemes. *)
LEMMA ListaExtraida ==
  ASSUME NEW L, Sem!Extraida(L)
  PROVE  /\ L \in Seq(Sem!LexemaValor)
         /\ Len(L) \in Nat /\ DOMAIN L = 1..Len(L)
<1>1. L \in Seq(Sem!LexemaValor)
  BY Zenon DEF Sem!Extraida
<1> QED
  BY <1>1

(* The new symbol table has a natural number of tokens. *)
LEMMA TokensNat ==
  Sem!Extraida(lexemas) /\ vista = VistaDe(lexemas) => Sint!CantidadTokens \in Nat
<1> SUFFICES ASSUME Sem!Extraida(lexemas), vista = VistaDe(lexemas)
             PROVE  Sint!CantidadTokens \in Nat
  OBVIOUS
<1>1. Len(vista) \in Nat
  <2>1. Len(lexemas) \in Nat /\ DOMAIN lexemas = 1..Len(lexemas)
    BY ListaExtraida
  <2> QED
    BY <2>1 DEF VistaDe
<1> DEFINE I == 0..(Len(vista) - 1)
<1>2. IsFiniteSet(I)
  BY <1>1, FS_Interval
<1>3. Cardinality({i \in I : Sint!Tipo(i) = "Variable"}) \in Nat
  BY <1>2, FS_Subset, FS_CardinalityType
<1> QED
  BY <1>3 DEF Sint!CantidadTokens, Sint!n, Sint!Cardinality, Cardinality

LEMMA SoltarTipos ==
  ASSUME TypeOK, Soltar, cuadro' \in {cuadro} \cup [que : Resultados, de : {caja}],
         {arbol', tabla'} \subseteq {arbol, tabla, caja, Nadie}
  PROVE  TypeOK'
<1>1. /\ fase' = "espera" /\ UNCHANGED <<caja, pulsaciones, boton, numTokens>>
      /\ pila' = << >> /\ llamadas' = << >> /\ pilaGen' = << >>
  BY DEF Soltar
<1>2. cuadro' \in [que : Resultados, de : Programas \cup {Nadie}]
  BY DEF TypeOK
<1> QED
  BY <1>1, <1>2 DEF TypeOK, Quieta

LEMMA MostrarTipos ==
  ASSUME NEW que \in Resultados, Mostrar(que)
  PROVE  cuadro' \in [que : Resultados, de : {caja}]
  BY DEF Mostrar

(* A step within a press. *)
LEMMA SigueTipos ==
  ASSUME TypeOK, fase' \in {"leyendo", "analizando", "releyendo", "generando"},
         UNCHANGED <<caja, cuadro, tabla, pulsaciones, boton>>,
         arbol' \in {arbol, caja}, numTokens' \in Nat
  PROVE  TypeOK'
  BY DEF TypeOK, Quieta

LEMMA PasoTipos == TypeOK /\ [Next]_vars => TypeOK'
<1> SUFFICES ASSUME TypeOK, [Next]_vars PROVE TypeOK'
  OBVIOUS
<1>1. CASE UNCHANGED vars
  BY <1>1 DEF vars, ventana, sint, sem, gen, TypeOK, Quieta
<1>2. CASE Escribir
  BY <1>2 DEF Escribir, sint, sem, gen, TypeOK, Quieta
<1>2b. CASE Borrar
  <2>1. cuadro' \in [que : Resultados, de : Programas \cup {Nadie}]
    BY <1>2b DEF Borrar, Resultados
  <2> QED
    BY <1>2b, <2>1, ProgramasAssumption DEF Borrar, sint, sem, gen, TypeOK, Quieta
<1>3. CASE PulsarLexico
  <2>1. cuadro' \in [que : Resultados, de : Programas \cup {Nadie}]
    BY <1>3 DEF PulsarLexico, TypeOK, Resultados
  <2> QED
    BY <1>3, <2>1, LimitesAssumption DEF PulsarLexico, sint, sem, gen, TypeOK, Quieta, Botones
<1>4. ASSUME NEW b \in Botones \ {"lexico"}, Pulsar(b) PROVE TypeOK'
  <2>1. Sem!Extraida(lexemas')
    BY <1>4, ProgramasAssumption DEF Pulsar, TypeOK
  <2>2. vista' = VistaDe(lexemas')
    BY <1>4 DEF Pulsar, EmpezarLectura
  <2>3. (Sem!Extraida(lexemas) /\ vista = VistaDe(lexemas) => Sint!CantidadTokens \in Nat)'
    BY TokensNat, PTL
  <2>4. numTokens' \in Nat
    BY <1>4, <2>1, <2>2, <2>3 DEF Pulsar, TypeOK
  <2> QED
    BY <1>4, <2>4, LimitesAssumption DEF Pulsar, TypeOK, Quieta, Botones
<1>5. CASE Leer
  BY <1>5, LecturaTokens, SigueTipos DEF Leer, ventana, TypeOK
<1>6. CASE MostrarErroresSintax
  BY <1>6, MostrarTipos, SoltarTipos DEF MostrarErroresSintax, Resultados
<1>7. CASE MostrarSintaxis
  BY <1>7, MostrarTipos, SoltarTipos DEF MostrarSintaxis, Resultados
<1>8. CASE ProcesarLexemas
  BY <1>8, SigueTipos DEF ProcesarLexemas, sint, TypeOK
<1>9. CASE Analizar
  BY <1>9, SigueTipos DEF Analizar, ventana, TypeOK
<1>10. CASE MostrarSemantica
  BY <1>10, MostrarTipos, SoltarTipos DEF MostrarSemantica, Resultados
<1>11. CASE Releer
  BY <1>11, SigueTipos DEF Releer, ventana, TypeOK
<1>12. CASE GenerarCodigo
  BY <1>12, SigueTipos DEF GenerarCodigo, ventana, sint, TypeOK
<1>13. CASE Generar
  BY <1>13, SigueTipos DEF Generar, ventana, TypeOK
<1>14. CASE MostrarCodigo
  BY <1>14, MostrarTipos, SoltarTipos DEF MostrarCodigo, Resultados
<1>15. CASE Fallar
  BY <1>15, SoltarTipos DEF Fallar
<1> QED
  BY <1>1, <1>2, <1>2b, <1>3, <1>4, <1>5, <1>6, <1>7, <1>8, <1>9, <1>10, <1>11, <1>12,
     <1>13, <1>14, <1>15 DEF Next, Manejar

(* What the window shows is of texts that were in the box, and nothing of  *)
(* a press is pending once it is over.                                     *)
THEOREM TiposDelFormulario == Spec => []TypeOK
<1>1. Init => TypeOK
  BY LimitesAssumption DEF Init, Libre, TypeOK, Quieta, Resultados, Botones
<1> QED
  BY <1>1, PasoTipos, PTL DEF Spec

-----------------------------------------------------------------------------
(* The steps of the analysis that the window runs are those of the module  *)
(* that the proofs are about.                                              *)
LEMMA MismosPasos == Sem!Next <=> SemP!Next
<1> USE DEF Sem!Simbolo, SemP!Simbolo, Sem!Numeral, SemP!Numeral,
            Sem!TextoVacio, SemP!TextoVacio, Sem!TextoError, SemP!TextoError,
            Sem!EsNumeral, SemP!EsNumeral, Sem!ConPunto, SemP!ConPunto,
            Sem!EnRango, SemP!EnRango, Sem!EsEntero, SemP!EsEntero,
            Sem!Envolver, SemP!Envolver, Sem!Cociente, SemP!Cociente,
            Sem!Mayor, SemP!Mayor, Sem!Potencia, SemP!Potencia,
            Sem!Alineada, SemP!Alineada,
            Sem!SumaDecimal, SemP!SumaDecimal, Sem!RestaDecimal,
            SemP!RestaDecimal, Sem!ProductoDecimal, SemP!ProductoDecimal,
            Sem!CocienteDecimal, SemP!CocienteDecimal, Sem!Codigos,
            SemP!Codigos, Sem!Nombres, SemP!Nombres, Sem!SiguienteCorrelativo,
            SemP!SiguienteCorrelativo, Sem!VariableEstaDeclarada,
            SemP!VariableEstaDeclarada, Sem!PosicionDe, SemP!PosicionDe,
            Sem!ActualizarValor, SemP!ActualizarValor, Sem!vars, SemP!vars,
            Sem!n, SemP!n, Sem!TipoDe, SemP!TipoDe, Sem!TextoDe, SemP!TextoDe,
            Sem!PuntoComa, SemP!PuntoComa, Sem!Ninguno, SemP!Ninguno,
            Sem!EsTipoDeclaracion, SemP!EsTipoDeclaracion, Sem!TextoToTipo,
            SemP!TextoToTipo, Sem!Decimales, SemP!Decimales,
            Sem!TextoNumeroToTipo, SemP!TextoNumeroToTipo,
            Sem!TipoElementoToTipoVar, SemP!TipoElementoToTipoVar,
            Sem!TipoVarToTipoElemento, SemP!TipoVarToTipoElemento, Sem!Valor,
            SemP!Valor, Sem!Fallo, SemP!Fallo, Sem!Revienta, SemP!Revienta,
            Sem!OperarEnteros, SemP!OperarEnteros, Sem!OperarDecimales,
            SemP!OperarDecimales, Sem!RegistroDe, SemP!RegistroDe,
            Sem!Declarada, SemP!Declarada, Sem!VariableValor,
            SemP!VariableValor, Sem!SinDeclarar, SemP!SinDeclarar,
            Sem!QueConvertir, SemP!QueConvertir, Sem!EsOperando,
            SemP!EsOperando, Sem!Leer, SemP!Leer, Sem!Completa, SemP!Completa,
            Sem!Reducir, SemP!Reducir, Sem!PrecedeProducto,
            SemP!PrecedeProducto, Sem!Producto, SemP!Producto,
            Sem!TextosReducidos, SemP!TextosReducidos, Sem!ConTextos,
            SemP!ConTextos, Sem!ListaConTextos, SemP!ListaConTextos,
            Sem!SiguienteVariable, SemP!SiguienteVariable,
            Sem!SiguienteFuncion, SemP!SiguienteFuncion, Sem!IndicePuntoComa,
            SemP!IndicePuntoComa, Sem!PuntoComaCorrecto,
            SemP!PuntoComaCorrecto, Sem!EsDeclaracion, SemP!EsDeclaracion,
            Sem!Reportar, SemP!Reportar, Sem!Avanzar, SemP!Avanzar,
            Sem!EnTurno, SemP!EnTurno, Sem!llamada, SemP!llamada, Sem!Leyendo,
            SemP!Leyendo, Sem!Leida, SemP!Leida, Sem!ConRetorno,
            SemP!ConRetorno, Sem!Min, SemP!Min, Sem!Last, SemP!Last, Sem!Max,
            SemP!Max, Sem!Front, SemP!Front, Sem!Cardinality, SemP!Cardinality
<1>1. \A R, nombre, tipo, valor :
        Sem!Insertar(R, nombre, tipo, valor) = SemP!Insertar(R, nombre, tipo, valor)
  BY DEF Sem!Insertar, SemP!Insertar
<1>2. \A izq, der, op, tipoVariable :
        Sem!RealizarOperacion(izq, der, op, tipoVariable)
          = SemP!RealizarOperacion(izq, der, op, tipoVariable)
  BY DEF Sem!RealizarOperacion, SemP!RealizarOperacion
<1>3. \A copia : Sem!Convertir(copia) = SemP!Convertir(copia)
  BY DEF Sem!Convertir, SemP!Convertir
<1>4. \A copia : Sem!NuevaLlamada(copia) = SemP!NuevaLlamada(copia)
  BY <1>3 DEF Sem!NuevaLlamada, SemP!NuevaLlamada
<1>5. \A p : Sem!Asigna(p) = SemP!Asigna(p)
  BY DEF Sem!Asigna, SemP!Asigna
<1>6. \A p : Sem!TipoDestino(p) = SemP!TipoDestino(p)
  BY DEF Sem!TipoDestino, SemP!TipoDestino
<1>7. \A k, tipoVariable :
        Sem!AsignacionSimple(k, tipoVariable) = SemP!AsignacionSimple(k, tipoVariable)
  BY DEF Sem!AsignacionSimple, SemP!AsignacionSimple
<1>8. Sem!QueRedeclarar = SemP!QueRedeclarar
  BY DEF Sem!QueRedeclarar, SemP!QueRedeclarar
<1>9. \A t : Sem!Guardar(t) <=> SemP!Guardar(t)
  BY <1>1, <1>6 DEF Sem!Guardar, SemP!Guardar
<1>10. Sem!Desborda = SemP!Desborda
  BY <1>5 DEF Sem!Desborda, SemP!Desborda
<1>11. Sem!Recibe = SemP!Recibe
  BY <1>5, <1>10 DEF Sem!Recibe, SemP!Recibe
<1>12. \A k : Sem!Expresion(k) = SemP!Expresion(k)
  BY DEF Sem!Expresion, SemP!Expresion
<1>13. \A debajo, c : Sem!Continuar(debajo, c) <=> SemP!Continuar(debajo, c)
  BY <1>2, <1>6 DEF Sem!Continuar, SemP!Continuar
<1>14. \A i, esperado :
        Sem!TipoRetornado(i, esperado) = SemP!TipoRetornado(i, esperado)
  BY DEF Sem!TipoRetornado, SemP!TipoRetornado
<1>15. Sem!Desbordar <=> SemP!Desbordar
  BY <1>8, <1>10 DEF Sem!Desbordar, SemP!Desbordar
<1>16. Sem!DeclararSinAsignar <=> SemP!DeclararSinAsignar
  BY <1>1, <1>5, <1>6, <1>8, <1>10 DEF Sem!DeclararSinAsignar, SemP!DeclararSinAsignar
<1>17. Sem!Ignorar <=> SemP!Ignorar
  BY <1>5, <1>10 DEF Sem!Ignorar, SemP!Ignorar
<1>18. Sem!ReasignarNoDeclarada <=> SemP!ReasignarNoDeclarada
  BY <1>5, <1>10 DEF Sem!ReasignarNoDeclarada, SemP!ReasignarNoDeclarada
<1>19. Sem!AsignarSimple <=> SemP!AsignarSimple
  BY <1>6, <1>7, <1>8, <1>9, <1>11 DEF Sem!AsignarSimple, SemP!AsignarSimple
<1>20. Sem!AsignarCompleja <=> SemP!AsignarCompleja
  BY <1>4, <1>8, <1>11, <1>12 DEF Sem!AsignarCompleja, SemP!AsignarCompleja
<1>21. Sem!LeerElemento <=> SemP!LeerElemento
  BY <1>13 DEF Sem!LeerElemento, SemP!LeerElemento
<1>22. Sem!LlamarProducto <=> SemP!LlamarProducto
  BY <1>4 DEF Sem!LlamarProducto, SemP!LlamarProducto
<1>23. Sem!RegresarProducto <=> SemP!RegresarProducto
  BY <1>13 DEF Sem!RegresarProducto, SemP!RegresarProducto
<1>24. Sem!TerminarCompleja <=> SemP!TerminarCompleja
  BY <1>6, <1>9 DEF Sem!TerminarCompleja, SemP!TerminarCompleja
<1>25. Sem!EmpezarRetornos <=> SemP!EmpezarRetornos
  BY DEF Sem!EmpezarRetornos, SemP!EmpezarRetornos
<1>26. Sem!VerificarRetornoBloque <=> SemP!VerificarRetornoBloque
  BY <1>14 DEF Sem!VerificarRetornoBloque, SemP!VerificarRetornoBloque
<1>27. Sem!TerminarAnalisis <=> SemP!TerminarAnalisis
  BY DEF Sem!TerminarAnalisis, SemP!TerminarAnalisis
<1>28. Sem!Terminado <=> SemP!Terminado
  BY DEF Sem!Terminado, SemP!Terminado
<1> QED
  BY <1>15, <1>16, <1>17, <1>18, <1>19, <1>20, <1>21, <1>22, <1>23, <1>24,
     <1>25, <1>26, <1>27, <1>28 DEF Sem!Next, SemP!Next

-----------------------------------------------------------------------------
(* What the code is generated from *)

(* The list has the kinds of the text, and its texts except in products. *)
Parecida ==
  /\ Len(lexemas) = Len(caja) /\ DOMAIN lexemas = DOMAIN caja
  /\ \A i \in DOMAIN caja :
       /\ lexemas[i].tipo = caja[i].tipo
       /\ lexemas[i] # caja[i] =>
            /\ EnProducto(i) /\ ~ SemP!EsFactor(lexemas[i].texto)
            /\ caja[i].tipo = "Variable" => errores # {}
            /\ errores = {} => SemP!Escribible(lexemas[i].texto)

(* The list between the phases of a press. *)
Lectura ==
  /\ caja \in Programas
  /\ fase = "leyendo" => lexemas = caja
  /\ fase = "analizando" => SemP!IInv /\ SemP!JInv /\ Parecida
  /\ fase \in {"releyendo", "generando"} => Parecida /\ errores = {}

(* What those proofs assume of the constants. *)
LEMMA SupuestosDelAnalisis ==
  /\ Nulo \notin SemP!Texto \cup {SemP!TextoError}
  /\ IntMax \in Nat /\ EscalaMax \in Nat \ {0}
BY NuloAssumption, LimitesAssumption
DEF Sem!Texto, SemP!Texto, Sem!NombreTexto, SemP!NombreTexto,
    Sem!TextoError, SemP!TextoError,
   Sem!Simbolo, SemP!Simbolo

(* What they show of a step of the analysis. *)
LEMMA PasoDelAnalisis ==
  ASSUME SemP!IInv, SemP!JInv, [SemP!Next]_(SemP!vars)
  PROVE  SemP!IInv' /\ SemP!JInv' /\ SemP!Escritura /\ SemP!SinFactores
<1>1. SemP!IInv'
  BY SupuestosDelAnalisis, SemP!Paso
<1>2. SemP!JInv'
  BY SupuestosDelAnalisis, SemP!PasoUsos
<1>3. SemP!Escritura /\ SemP!SinFactores
  BY SupuestosDelAnalisis, SemP!PasoListado
<1> QED
  BY <1>1, <1>2, <1>3

(* A report is never taken back. *)
LEMMA ErroresCrecen == [SemP!Next]_(SemP!vars) => errores \subseteq errores'
<1>1. \A debajo, c : SemP!Continuar(debajo, c) => errores \subseteq errores'
  BY DEF SemP!Continuar
<1>2. SemP!LeerElemento \/ SemP!RegresarProducto => errores \subseteq errores'
  BY <1>1, Zenon DEF SemP!LeerElemento, SemP!RegresarProducto
<1>3. SemP!LlamarProducto => errores \subseteq errores'
  BY DEF SemP!LlamarProducto
<1>4. SemP!VerificarRetornoBloque => errores \subseteq errores'
  BY DEF SemP!VerificarRetornoBloque
<1>5. SemP!Desbordar \/ SemP!Terminado \/ UNCHANGED SemP!vars => errores \subseteq errores'
  BY DEF SemP!Desbordar, SemP!Terminado, SemP!vars
<1>6. SemP!DeclararSinAsignar \/ SemP!Ignorar \/ SemP!ReasignarNoDeclarada
        => errores \subseteq errores'
  BY DEF SemP!DeclararSinAsignar, SemP!Ignorar, SemP!ReasignarNoDeclarada
<1>7. SemP!AsignarSimple \/ SemP!AsignarCompleja \/ SemP!TerminarCompleja
        => errores \subseteq errores'
  BY DEF SemP!AsignarSimple, SemP!AsignarCompleja, SemP!TerminarCompleja
<1>8. SemP!EmpezarRetornos \/ SemP!TerminarAnalisis => errores \subseteq errores'
  BY DEF SemP!EmpezarRetornos, SemP!TerminarAnalisis
<1> QED
  BY <1>2, <1>3, <1>4, <1>5, <1>6, <1>7, <1>8, Zenon DEF SemP!Next

(* A text that is written stands where the text in the box has a product,  *)
(* because no text that was written before starts one.                     *)
LEMMA SoloEnProducto ==
  ASSUME Parecida, SemP!IInv, SemP!Escritura,
         NEW i \in DOMAIN lexemas, lexemas'[i] # lexemas[i]
  PROVE  EnProducto(i)
<1> DEFINE s == SemP!IndicePuntoComa(turno)
<1>1. /\ Len(lexemas) \in Nat /\ DOMAIN lexemas = 1..Len(lexemas)
      /\ SemP!n = Len(lexemas) /\ turno \in Nat
  BY DEF SemP!IInv, SemP!Listado, SemP!n
<1>2. turno + 1 < i - 1 /\ i - 1 < s /\ SemP!TrasOperador(i - 1)
  <2>1. i - 1 \in 0..(SemP!n - 1) /\ (i - 1) + 1 = i
    BY <1>1
  <2> QED
    BY <2>1 DEF SemP!Escritura
<1>3. s \in turno..(Len(lexemas) - 1)
  <2>1. s # -1
    BY <1>1, <1>2
  <2> QED
    BY <1>1, <2>1, SupuestosDelAnalisis, SemP!PuntoComaPrimero
<1> HIDE DEF s
<1>4. PICK k \in (i - 4)..(i - 2) \cap Nat :
        /\ lexemas[k + 1].tipo = "OperadorAritmetico"
        /\ \/ SemP!EsFactor(lexemas[k + 3].texto)
           \/ lexemas[k + 3].tipo = "Variable"
  <2>1. \E k \in ((i - 1) - 3)..((i - 1) - 1) \cap Nat :
          /\ SemP!TipoDe(k) = "OperadorAritmetico"
          /\ SemP!EsFactor(SemP!TextoDe(k + 2)) \/ SemP!TipoDe(k + 2) = "Variable"
    BY <1>2 DEF SemP!TrasOperador, SemP!EsFactor
  <2>2. \A k \in Nat : (k + 2) + 1 = k + 3
    OBVIOUS
  <2>3. (i - 1) - 3 = i - 4 /\ (i - 1) - 1 = i - 2
    BY <1>1
  <2> QED
    BY <2>1, <2>2, <2>3 DEF SemP!TipoDe, SemP!TextoDe
<1>5. k + 1 \in DOMAIN caja /\ k + 3 \in DOMAIN caja /\ k + 1 \in (i - 3)..(i - 1)
  BY <1>1, <1>2, <1>3, <1>4 DEF Parecida
<1>6. caja[k + 1].tipo = "OperadorAritmetico"
  BY <1>4, <1>5 DEF Parecida
<1>7. SemP!EsFactor(caja[k + 3].texto) \/ caja[k + 3].tipo = "Variable"
  BY <1>4, <1>5 DEF Parecida
<1>8. (k + 1) + 2 = k + 3
  BY <1>4
<1> QED
  BY <1>5, <1>6, <1>7, <1>8 DEF EnProducto, SemP!EsFactor, SemP!Simbolo, Sem!Simbolo

LEMMA PasoParecida ==
  ASSUME Parecida, SemP!IInv, SemP!JInv, SemP!Next, caja' = caja
  PROVE  Parecida'
<1>1. SemP!IInv' /\ SemP!Escritura /\ SemP!SinFactores
  BY PasoDelAnalisis
<1>2. errores \subseteq errores'
  BY ErroresCrecen
<1>3. /\ DOMAIN lexemas' = DOMAIN lexemas /\ DOMAIN lexemas = DOMAIN caja
      /\ Len(lexemas') = Len(lexemas)
  BY <1>1 DEF SemP!Escritura, SemP!IInv, SemP!Listado, SemP!n, Parecida
<1>4. ASSUME NEW i \in DOMAIN caja, lexemas'[i] = lexemas[i]
      PROVE  /\ lexemas'[i].tipo = caja[i].tipo
             /\ lexemas'[i] # caja[i] =>
                  /\ EnProducto(i) /\ ~ SemP!EsFactor(lexemas'[i].texto)
                  /\ caja[i].tipo = "Variable" => errores' # {}
                  /\ errores' = {} => SemP!Escribible(lexemas'[i].texto)
  BY <1>2, <1>4 DEF Parecida
<1>5. ASSUME NEW i \in DOMAIN caja, lexemas'[i] # lexemas[i]
      PROVE  /\ lexemas'[i].tipo = caja[i].tipo
             /\ EnProducto(i) /\ ~ SemP!EsFactor(lexemas'[i].texto)
             /\ caja[i].tipo = "Variable" => errores' # {}
             /\ errores' = {} => SemP!Escribible(lexemas'[i].texto)
  <2>1. lexemas'[i].tipo = lexemas[i].tipo /\ (lexemas[i].tipo = "Variable" => errores' # {})
    <3>1. i - 1 \in 0..(SemP!n - 1) /\ (i - 1) + 1 = i
      BY <1>3 DEF SemP!IInv, SemP!Listado, SemP!n
    <3> QED
      BY <1>1, <1>5, <3>1 DEF SemP!Escritura, SemP!TipoDe
  <2>2. EnProducto(i)
    BY <1>1, <1>3, <1>5, SoloEnProducto
  <2>3. /\ ~ SemP!EsFactor(lexemas'[i].texto)
        /\ errores = {} => SemP!Escribible(lexemas'[i].texto)
    BY <1>1, <1>3, <1>5 DEF SemP!SinFactores
  <2> QED
    BY <1>2, <2>1, <2>2, <2>3 DEF Parecida
<1>6. \A i : EnProducto(i)' <=> EnProducto(i)
  BY DEF EnProducto
<1> QED
  BY <1>3, <1>4, <1>5, <1>6, Zenon DEF Parecida

(* The semantic analysis starts on the lexemes of the text. *)
LEMMA EmpiezaBien ==
  (Sem!Extraida(lexemas) /\ lexemas = caja /\ SemP!Comienzo)
    => SemP!IInv /\ SemP!JInv /\ Parecida
<1>1. Sem!Extraida(lexemas) <=> SemP!Extraida(lexemas)
  BY DEF Sem!Extraida, SemP!Extraida, Sem!LexemaValor, SemP!LexemaValor,
         Sem!Texto, SemP!Texto, Sem!NombreTexto, SemP!NombreTexto,
     Sem!TextoError, SemP!TextoError, Sem!PuntoComa, SemP!PuntoComa, Sem!Simbolo, SemP!Simbolo,
     Sem!TipoElemento, SemP!TipoElemento, Sem!EsNumeral, SemP!EsNumeral
<1> QED
  BY <1>1, SupuestosDelAnalisis, SemP!ComienzoBien, SemP!ComienzoUsos DEF Parecida

(* The parser and the generator leave the list as it is. *)
LEMMA GenerarNoEscribe == Gen!Next => lexemas' = lexemas
<1>1. \A g, p : Gen!Aplicar(g, p) => lexemas' = lexemas
  BY DEF Gen!Aplicar
<1> QED
  BY <1>1, Zenon DEF Gen!Next, Gen!Sentencia, Gen!AbrirEstructura, Gen!CerrarEstructura,
     Gen!TerminarGeneracion, Gen!Imprimir, Gen!Terminado, Gen!vars

LEMMA PasoLectura == Lectura /\ [Next]_vars => Lectura'
<1> SUFFICES ASSUME Lectura, [Next]_vars PROVE Lectura'
  OBVIOUS
<1>1. ASSUME fase' = "espera", caja' \in Programas PROVE Lectura'
  BY <1>1 DEF Lectura
<1>2. ASSUME \/ fase \in {"leyendo", "releyendo", "generando"} /\ fase' = fase
             \/ fase = "releyendo" /\ fase' = "generando",
             UNCHANGED <<caja, lexemas, errores>>
      PROVE  Lectura'
  <2>1. Parecida => Parecida'
    BY <1>2 DEF Parecida, EnProducto
  <2> QED
    BY <1>2, <2>1 DEF Lectura
<1>3. CASE UNCHANGED vars
  <2>1. UNCHANGED SemP!vars /\ UNCHANGED <<caja, lexemas, errores, fase>>
    BY <1>3 DEF vars, ventana, sem, sint, SemP!vars
  <2>2. SemP!IInv /\ SemP!JInv => SemP!IInv' /\ SemP!JInv'
    BY <2>1, PasoDelAnalisis
  <2>3. Parecida => Parecida'
    BY <2>1 DEF Parecida, EnProducto
  <2> QED
    BY <2>1, <2>2, <2>3 DEF Lectura
<1>4. CASE Escribir \/ Borrar \/ PulsarLexico
  <2>1. fase' = "espera"
    BY <1>4 DEF Escribir, Borrar, PulsarLexico, Quieta
  <2>2. caja' \in Programas
    BY <1>4, ProgramasAssumption DEF Escribir, Borrar, PulsarLexico, Lectura
  <2> QED
    BY <1>1, <2>1, <2>2
<1>5. ASSUME NEW b \in Botones, Pulsar(b) PROVE Lectura'
  BY <1>5 DEF Pulsar, Lectura
<1>6. CASE Leer
  BY <1>2, <1>6 DEF Leer, ventana, sem
<1>7. CASE MostrarErroresSintax \/ MostrarSintaxis \/ MostrarSemantica \/ MostrarCodigo \/ Fallar
  <2>1. Soltar
    BY <1>7 DEF MostrarErroresSintax, MostrarSintaxis, MostrarSemantica, MostrarCodigo, Fallar
  <2> QED
    BY <1>1, <2>1 DEF Soltar, Lectura
<1>8. CASE ProcesarLexemas
  <2>1. /\ fase = "leyendo" /\ fase' = "analizando" /\ UNCHANGED <<caja, lexemas>>
        /\ EmpezarAnalisis
    BY <1>8 DEF ProcesarLexemas, Aceptado, Leido
  <2>2. lexemas = caja /\ Sem!Extraida(lexemas)
    BY <2>1, ProgramasAssumption DEF Lectura
  <2>3. Sem!SiguienteVariable(0)' = Sem!SiguienteVariable(0)
    BY <2>1 DEF Sem!SiguienteVariable, Sem!TipoDe, Sem!n
  <2>4. (SemP!SiguienteVariable(0) = Sem!SiguienteVariable(0))'
    BY DEF SemP!SiguienteVariable, SemP!TipoDe, SemP!n, SemP!Min,
           Sem!SiguienteVariable, Sem!TipoDe, Sem!n, Sem!Min
  <2>5. SemP!Comienzo'
    BY <2>1, <2>3, <2>4 DEF EmpezarAnalisis, SemP!Comienzo
  <2>6. ((Sem!Extraida(lexemas) /\ lexemas = caja /\ SemP!Comienzo)
           => SemP!IInv /\ SemP!JInv /\ Parecida)'
    BY EmpiezaBien, PTL
  <2> QED
    BY <2>1, <2>2, <2>5, <2>6 DEF Lectura
<1>9. CASE Analizar
  <2>1. /\ fase = "analizando" /\ fase' = fase /\ caja' = caja /\ SemP!Next
    BY <1>9, MismosPasos DEF Analizar, ventana
  <2>2. SemP!IInv /\ SemP!JInv /\ Parecida
    BY <2>1 DEF Lectura
  <2>3. SemP!IInv' /\ SemP!JInv'
    BY <2>1, <2>2, PasoDelAnalisis
  <2>4. Parecida'
    BY <2>1, <2>2, PasoParecida
  <2> QED
    BY <2>1, <2>3, <2>4 DEF Lectura
<1>10. CASE Releer
  <2>1. /\ fase = "analizando" /\ fase' = "releyendo" /\ errores = {}
        /\ UNCHANGED <<caja, lexemas, errores>>
    BY <1>10 DEF Releer, Analizado, ventana, sem
  <2> QED
    BY <2>1 DEF Lectura, Parecida, EnProducto
<1>11. CASE GenerarCodigo
  BY <1>2, <1>11 DEF GenerarCodigo, ventana, sem
<1>12. CASE Generar
  BY <1>2, <1>12, GenerarNoEscribe DEF Generar, ventana, sem
<1> QED
  BY <1>3, <1>4, <1>5, <1>6, <1>7, <1>8, <1>9, <1>10, <1>11, <1>12 DEF Next, Manejar

(* The code is that of the text in the box, but for its products: whatever *)
(* texts and presses came before, and however often the list is parsed.    *)
THEOREM ElCodigoEsDelTexto == Spec => []CodigoDelTexto
<1>1. Init => Lectura
  BY DEF Init, Lectura
<1>2. Lectura => CodigoDelTexto
  BY DEF Lectura, Parecida, CodigoDelTexto
<1> QED
  BY <1>1, <1>2, PasoLectura, PTL DEF Spec

-----------------------------------------------------------------------------
(* The second parse *)

(* The parser of the window, as its proofs know it. *)
SintP == INSTANCE AnalizadorSintacticoProofs
           WITH lexemas <- vista, estado <- estadoSint, Entradas <- {}, TokensPrevios <- {}

(* The parser that the window runs is the one that the proofs are about. *)
LEMMA MismasBusquedas ==
  /\ Sint!n = SintP!n
  /\ \A i : Sint!Tipo(i) = SintP!Tipo(i)
  /\ \A i : Sint!Texto(i) = SintP!Texto(i)
  /\ \A i : Sint!IndicePuntoComa(i) = SintP!IndicePuntoComa(i)
  /\ \A i, abre, cierra : Sint!IndiceBalance(i, abre, cierra) = SintP!IndiceBalance(i, abre, cierra)
  /\ Sint!HayParentesisCierre <=> SintP!HayParentesisCierre
  /\ \A i, j : Sint!DelimitadoresBalanceados(i, j) <=> SintP!DelimitadoresBalanceados(i, j)
  BY Zenon DEF Sint!n, SintP!n, Sint!Tipo, SintP!Tipo, Sint!Texto, SintP!Texto,
               Sint!Min, SintP!Min, Sint!MinimoO, SintP!MinimoO,
               Sint!Cardinality, SintP!Cardinality, Sint!Cuenta, SintP!Cuenta,
               Sint!IndicePuntoComa, SintP!IndicePuntoComa,
               Sint!IndiceBalance, SintP!IndiceBalance,
               Sint!HayParentesisCierre, SintP!HayParentesisCierre,
               Sint!DelimitadoresBalanceados, SintP!DelimitadoresBalanceados

(* It records the same blocks and the same failures. *)
LEMMA MismosBloques ==
  /\ Sint!Excepcion = SintP!Excepcion
  /\ \A b, c : Sint!Cerrado(b, c) = SintP!Cerrado(b, c)
  /\ \A tipo, error, p, q, lex :
       Sint!NuevoBloque(tipo, error, p, q, lex) = SintP!NuevoBloque(tipo, error, p, q, lex)
  /\ \A tipo, p, c, fin : Sint!Falla(tipo, p, c, fin) = SintP!Falla(tipo, p, c, fin)
  /\ \A p, fin : Sint!BloqueError(p, fin) = SintP!BloqueError(p, fin)
  /\ \A p, c, fin : Sint!Cuerpo(p, c, fin) = SintP!Cuerpo(p, c, fin)
<1> USE DEF Sint!Excepcion, SintP!Excepcion, Sint!NuevoBloque, SintP!NuevoBloque,
            Sint!Cerrado, SintP!Cerrado, Sint!Abierto, SintP!Abierto
<1>1. \A tipo, p, c, fin : Sint!Falla(tipo, p, c, fin) = SintP!Falla(tipo, p, c, fin)
  BY Zenon DEF Sint!n, SintP!n, Sint!Max, SintP!Max, Sint!FinEfectivo, SintP!FinEfectivo,
               Sint!Drenar, SintP!Drenar, Sint!Falla, SintP!Falla
<1>2. \A p, fin : Sint!BloqueError(p, fin) = SintP!BloqueError(p, fin)
  BY <1>1, Zenon DEF Sint!BloqueError, SintP!BloqueError
<1>3. \A p, c, fin : Sint!Cuerpo(p, c, fin) = SintP!Cuerpo(p, c, fin)
  BY <1>1, MismasBusquedas, Zenon DEF Sint!Cuerpo, SintP!Cuerpo
<1> QED
  BY <1>1, <1>2, <1>3, Zenon

(* It takes the same headers for correct. *)
LEMMA MismasCondiciones ==
  /\ \A i : Sint!CondicionEstructuraCorrecta(i) <=> SintP!CondicionEstructuraCorrecta(i)
  /\ \A i : Sint!CondicionDesborda(i) <=> SintP!CondicionDesborda(i)
  /\ \A i, j : Sint!InitForCorrecto(i, j) <=> SintP!InitForCorrecto(i, j)
  /\ \A i, j : Sint!IncrementoForCorrecto(i, j) <=> SintP!IncrementoForCorrecto(i, j)
  BY Zenon DEF Sint!n, SintP!n, Sint!Tipo, SintP!Tipo, Sint!Texto, SintP!Texto,
         Sint!Operando, SintP!Operando, Sint!Comparador, SintP!Comparador,
         Sint!CondicionEstructuraCorrecta, SintP!CondicionEstructuraCorrecta,
         Sint!CondicionDesborda, SintP!CondicionDesborda,
         Sint!InitForCorrecto, SintP!InitForCorrecto,
         Sint!IncrementoForCorrecto, SintP!IncrementoForCorrecto

(* It reads the same statements. *)
LEMMA MismaSentencia ==
  \A p, fin : Sint!AnalizarSentencia(p, fin) = SintP!AnalizarSentencia(p, fin)
  BY DEF Sint!n, SintP!n, Sint!Tipo, SintP!Tipo, Sint!Texto, SintP!Texto,
            Sint!Min, SintP!Min, Sint!Max, SintP!Max, Sint!Cardinality, SintP!Cardinality,
            Sint!MinimoO, SintP!MinimoO, Sint!IndicePuntoComa, SintP!IndicePuntoComa,
            Sint!Cuenta, SintP!Cuenta,
            Sint!DelimitadoresBalanceados, SintP!DelimitadoresBalanceados,
            Sint!PuntoComaCorrecto, SintP!PuntoComaCorrecto,
            Sint!RechazaVariable, SintP!RechazaVariable,
            Sint!RechazaTipoVar, SintP!RechazaTipoVar,
            Sint!TipoVarDesborda, SintP!TipoVarDesborda,
            Sint!RechazaAsignacion, SintP!RechazaAsignacion,
            Sint!RechazaOperadorAritmetico, SintP!RechazaOperadorAritmetico,
            Sint!BuscarError, SintP!BuscarError,
            Sint!NuevoBloque, SintP!NuevoBloque, Sint!Excepcion, SintP!Excepcion,
            Sint!Cerrado, SintP!Cerrado, Sint!Abierto, SintP!Abierto,
            Sint!FinEfectivo, SintP!FinEfectivo, Sint!Drenar, SintP!Drenar,
            Sint!Falla, SintP!Falla, Sint!BloqueError, SintP!BloqueError,
            Sint!AnalizarSentencia, SintP!AnalizarSentencia

(* It reads the same headers of functions. *)
LEMMA MismaFuncion ==
  \A p, c : Sint!AnalizarBloqueFuncion(p, c) = SintP!AnalizarBloqueFuncion(p, c)
  BY MismasBusquedas, Zenon DEF Sint!AnalizarBloqueFuncion, SintP!AnalizarBloqueFuncion,
               Sint!NuevoBloque, SintP!NuevoBloque,
               Sint!Cerrado, SintP!Cerrado, Sint!Abierto, SintP!Abierto

(* It reads the same declarations. *)
LEMMA MismaTipoVariable ==
  \A p, fin : Sint!ProcesarTipoVariable(p, fin) = SintP!ProcesarTipoVariable(p, fin)
  BY MismasBusquedas, MismosBloques, MismaSentencia, MismaFuncion, Zenon
     DEF Sint!ProcesarTipoVariable, SintP!ProcesarTipoVariable

(* It reads the same headers of for. *)
LEMMA MismoFor ==
  \A p, fin : Sint!AnalizarFor(p, fin) = SintP!AnalizarFor(p, fin)
<1> SUFFICES ASSUME NEW p, NEW fin PROVE Sint!AnalizarFor(p, fin) = SintP!AnalizarFor(p, fin)
  OBVIOUS
<1> DEFINE par == SintP!IndiceBalance(p + 2, "(", ")")
           pc1 == SintP!IndicePuntoComa(p + 1)
           pc2 == SintP!IndicePuntoComa(pc1 + 1)
<1>1. /\ Sint!IndiceBalance(p + 2, "(", ")") = par
      /\ Sint!IndicePuntoComa(p + 1) = pc1 /\ Sint!IndicePuntoComa(pc1 + 1) = pc2
  BY MismasBusquedas, Zenon
<1> HIDE DEF par, pc1, pc2
<1>2. /\ Sint!n = SintP!n /\ Sint!Texto(p + 1) = SintP!Texto(p + 1)
      /\ Sint!HayParentesisCierre <=> SintP!HayParentesisCierre
      /\ Sint!Texto(par + 1) = SintP!Texto(par + 1)
  BY MismasBusquedas, Zenon
<1>3. /\ Sint!InitForCorrecto(p + 1, pc1) <=> SintP!InitForCorrecto(p + 1, pc1)
      /\ Sint!CondicionEstructuraCorrecta(pc1 + 1) <=> SintP!CondicionEstructuraCorrecta(pc1 + 1)
      /\ Sint!IncrementoForCorrecto(pc2 + 1, par) <=> SintP!IncrementoForCorrecto(pc2 + 1, par)
  BY MismasCondiciones, Zenon
<1>4. /\ \A c : Sint!Falla("Estructura", p, c, fin) = SintP!Falla("Estructura", p, c, fin)
      /\ Sint!Cuerpo(p, (par + 1) + 1, fin) = SintP!Cuerpo(p, (par + 1) + 1, fin)
  BY MismosBloques, Zenon
<1>5. CASE SintP!IncrementoForCorrecto(pc2 + 1, par)
  BY <1>1, <1>2, <1>3, <1>4, <1>5, Zenon DEF Sint!AnalizarFor, SintP!AnalizarFor, par, pc1, pc2
<1>6. CASE ~ SintP!IncrementoForCorrecto(pc2 + 1, par)
  BY <1>1, <1>2, <1>3, <1>4, <1>6, Zenon DEF Sint!AnalizarFor, SintP!AnalizarFor, par, pc1, pc2
<1> QED
  BY <1>5, <1>6, Zenon

(* It reads the same conditions. *)
LEMMA MismaCondicion ==
  \A i : Sint!LeerCondicion(i) = SintP!LeerCondicion(i)
  BY MismasBusquedas, MismasCondiciones, Zenon
     DEF Sint!LeerCondicion, SintP!LeerCondicion

(* It reads the same headers of while and if. *)
LEMMA MismoCondicional ==
  \A p, fin : Sint!AnalizarCondicional(p, fin) = SintP!AnalizarCondicional(p, fin)
  BY MismasBusquedas, MismosBloques, MismaCondicion, Zenon
     DEF Sint!AnalizarCondicional, SintP!AnalizarCondicional

(* It ends the same loops of do. *)
LEMMA MismoDoWhile ==
  \A c, fin : Sint!TerminarDoWhile(c, fin) = SintP!TerminarDoWhile(c, fin)
<1> SUFFICES ASSUME NEW c, NEW fin
             PROVE  Sint!TerminarDoWhile(c, fin) = SintP!TerminarDoWhile(c, fin)
  OBVIOUS
<1> DEFINE cond == SintP!LeerCondicion(c + 2)
           nb == SintP!NuevoBloque("Estructura", FALSE, c, cond.cursor, c..cond.cursor)
<1>1. Sint!LeerCondicion(c + 2) = cond
  BY MismaCondicion, Zenon
<1> HIDE DEF cond
<1>2. /\ Sint!n = SintP!n
      /\ Sint!Texto(c) = SintP!Texto(c) /\ Sint!Texto(c + 1) = SintP!Texto(c + 1)
      /\ Sint!Tipo(cond.cursor) = SintP!Tipo(cond.cursor)
  BY MismasBusquedas, Zenon
<1>3. /\ \A i : Sint!Falla("Estructura", c, i, fin) = SintP!Falla("Estructura", c, i, fin)
      /\ Sint!Excepcion = SintP!Excepcion
  BY MismosBloques, Zenon
<1>4. Sint!Cerrado(Sint!NuevoBloque("Estructura", FALSE, c, cond.cursor, c..cond.cursor),
                   cond.cursor + 1)
        = SintP!Cerrado(nb, cond.cursor + 1)
  BY Zenon DEF Sint!Cerrado, SintP!Cerrado, Sint!NuevoBloque, SintP!NuevoBloque
<1> HIDE DEF nb
<1> USE DEF Sint!TerminarDoWhile, SintP!TerminarDoWhile
<1>5. CASE c >= SintP!n
  BY <1>2, <1>3, <1>5, Zenon
<1>6. CASE ~ (c >= SintP!n) /\ SintP!Texto(c) # "}"
  BY <1>2, <1>3, <1>6, Zenon
<1>7. CASE ~ (c >= SintP!n) /\ SintP!Texto(c) = "}" /\ c + 1 >= SintP!n
  BY <1>2, <1>3, <1>7, Zenon
<1>8. CASE /\ ~ (c >= SintP!n) /\ SintP!Texto(c) = "}"
           /\ ~ (c + 1 >= SintP!n) /\ SintP!Texto(c + 1) # "while"
  BY <1>2, <1>3, <1>8, Zenon
<1>9. CASE /\ ~ (c >= SintP!n) /\ SintP!Texto(c) = "}"
           /\ ~ (c + 1 >= SintP!n) /\ SintP!Texto(c + 1) = "while"
  <2> DEFINE Fin(r, falla, tipo, cerrado) ==
               CASE r.caso = "excepcion" -> SintP!Excepcion
                 [] r.caso = "falla" -> falla
                 [] r.caso = "leida" -> IF tipo # "OperadorTerminador" THEN falla ELSE cerrado
             f == SintP!Falla("Estructura", c, cond.cursor, fin)
             t == SintP!Tipo(cond.cursor)
             r == SintP!Cerrado(nb, cond.cursor + 1)
  <2>1. SintP!TerminarDoWhile(c, fin) = Fin(cond, f, t, r)
    BY <1>9, Zenon DEF cond, nb
  <2>2. Sint!TerminarDoWhile(c, fin)
          = Fin(cond, f, t, Sint!Cerrado(Sint!NuevoBloque("Estructura", FALSE, c, cond.cursor,
                                                         c..cond.cursor), cond.cursor + 1))
    BY <1>1, <1>2, <1>3, <1>9, Zenon
  <2> QED
    BY <1>4, <2>1, <2>2, Zenon
<1> QED
  BY <1>5, <1>6, <1>7, <1>8, <1>9, Zenon

(* It reads the same starts of do and else. *)
LEMMA MismoLlave ==
  \A p, fin : Sint!AnalizarConLlave(p, fin) = SintP!AnalizarConLlave(p, fin)
  BY MismasBusquedas, MismosBloques, Zenon
     DEF Sint!AnalizarConLlave, SintP!AnalizarConLlave

(* What those proofs assume of the constants. *)
LEMMA SupuestosDeLaLectura ==
  MaxVacios \in Nat /\ {} \subseteq Seq(SintP!Lexema) /\ {} \subseteq Nat
  BY LimitesAssumption

(* It gives each lexeme to the same handler, and its result to the same use. *)
LEMMA MismosManejadores ==
  /\ \A i, t : Sint!EsReservada(i, t) <=> SintP!EsReservada(i, t)
  /\ \A i : Sint!Manejador(i) = SintP!Manejador(i)
  /\ Sint!EnBucle <=> SintP!EnBucle
  /\ Sint!FinDeBucle <=> SintP!FinDeBucle
  /\ \A r : Sint!Aplicar(r) <=> SintP!Aplicar(r)
  /\ Sint!Lanzar <=> SintP!Lanzar
<1>1. \A i, t : Sint!EsReservada(i, t) <=> SintP!EsReservada(i, t)
  BY MismasBusquedas, Zenon DEF Sint!EsReservada, SintP!EsReservada
<1>2. \A i : Sint!Manejador(i) = SintP!Manejador(i)
  BY <1>1, MismasBusquedas DEF Sint!Manejador, SintP!Manejador
<1>3. /\ Sint!EnBucle <=> SintP!EnBucle
      /\ Sint!FinDeBucle <=> SintP!FinDeBucle
      /\ Sint!Lanzar <=> SintP!Lanzar
  BY DEF Sint!EnBucle, SintP!EnBucle, Sint!FinDeBucle, SintP!FinDeBucle,
         Sint!marco, SintP!marco, Sint!Lanzar, SintP!Lanzar
<1>4. \A r : Sint!Aplicar(r) <=> SintP!Aplicar(r)
  BY <1>3 DEF Sint!Aplicar, SintP!Aplicar, Sint!EnPadre, SintP!EnPadre,
              Sint!marco, SintP!marco
<1> QED
  BY <1>1, <1>2, <1>3, <1>4

(* So its steps are those that the proofs are about. *)
LEMMA MismosPasosDeLectura == Sint!Next <=> SintP!Next
<1>1. /\ Sint!TipoDato <=> SintP!TipoDato
      /\ Sint!ReAsignacion <=> SintP!ReAsignacion
  BY MismosManejadores, MismasBusquedas, MismosBloques, MismaSentencia, MismaTipoVariable
     DEF Sint!TipoDato, SintP!TipoDato, Sint!ReAsignacion, SintP!ReAsignacion,
         Sint!ProcesarTipoDato, SintP!ProcesarTipoDato,
         Sint!ProcesarVariable, SintP!ProcesarVariable, Sint!marco, SintP!marco
<1>2. /\ Sint!Retorno <=> SintP!Retorno
      /\ Sint!For <=> SintP!For
      /\ Sint!While <=> SintP!While
      /\ Sint!If <=> SintP!If
  BY MismosManejadores, MismaSentencia, MismoFor, MismoCondicional
     DEF Sint!Retorno, SintP!Retorno, Sint!For, SintP!For, Sint!While, SintP!While,
         Sint!If, SintP!If, Sint!marco, SintP!marco
<1>3. /\ Sint!DoWhile <=> SintP!DoWhile
      /\ Sint!Else <=> SintP!Else
  BY MismosManejadores, MismoLlave
     DEF Sint!DoWhile, SintP!DoWhile, Sint!Else, SintP!Else, Sint!marco, SintP!marco
<1>4. Sint!SinManejador <=> SintP!SinManejador
  BY MismosManejadores, MismosBloques, Zenon
     DEF Sint!SinManejador, SintP!SinManejador, Sint!EnPadre, SintP!EnPadre,
         Sint!marco, SintP!marco, Sint!Cardinality, SintP!Cardinality
<1>5. \A b : Sint!EsDoWhile(b) <=> SintP!EsDoWhile(b)
  BY MismosManejadores, Zenon DEF Sint!EsDoWhile, SintP!EsDoWhile
<1>6. Sint!CerrarBloque <=> SintP!CerrarBloque
  BY <1>5, MismosManejadores, MismasBusquedas
     DEF Sint!CerrarBloque, SintP!CerrarBloque, Sint!marco, SintP!marco,
         Sint!Debajo, SintP!Debajo
<1>7. Sint!CerrarDoWhile <=> SintP!CerrarDoWhile
  BY <1>5, MismosManejadores, MismoDoWhile
     DEF Sint!CerrarDoWhile, SintP!CerrarDoWhile, Sint!marco, SintP!marco,
         Sint!Debajo, SintP!Debajo
<1>8. Sint!TerminarAnalisis <=> SintP!TerminarAnalisis
  BY MismosManejadores DEF Sint!TerminarAnalisis, SintP!TerminarAnalisis
<1>9. Sint!Terminado <=> SintP!Terminado
  BY DEF Sint!Terminado, SintP!Terminado, Sint!vars, SintP!vars
<1> QED
  BY <1>1, <1>2, <1>3, <1>4, <1>6, <1>7, <1>8, <1>9 DEF Sint!Next, SintP!Next

(* It knows the same texts. *)
LEMMA MismosTextos == Sint!TextosLeidos = SintP!TextosLeidos
  BY Zenon DEF Sint!TextosLeidos, SintP!TextosLeidos

(* What the parser sees of the text in the box. *)
Original == VistaDe(caja)

(* The list is the text in the box but for lexemes that the analysis wrote. *)
Reescrita ==
  /\ DOMAIN lexemas = DOMAIN caja
  /\ \A i \in DOMAIN caja :
       /\ lexemas[i].tipo = caja[i].tipo
       /\ lexemas[i] # caja[i] =>
            caja[i].tipo # "Variable" /\ SemP!Escribible(lexemas[i].texto)

(* None of them is one that the parser knows by its text. *)
Ajena ==
  \A i \in DOMAIN lexemas :
    lexemas[i] # caja[i] => caja[i].texto.c \notin Sint!TextosLeidos

(* A text that the analysis writes is none that the parser knows. *)
LEMMA NadaEscritoSeLee ==
  ASSUME NEW t, SemP!Escribible(t)
  PROVE  t.c \notin SintP!TextosLeidos /\ t.c # ";"
  BY Zenon DEF SemP!Escribible, SintP!TextosLeidos

(* A lexeme of the box that reads ; has the kind of one. *)
LEMMA SimboloTermina ==
  ASSUME NEW x, Sem!EsNumeral(x.texto) \/ x.texto = Sem!Simbolo(x.texto.c), x.texto.c = ";",
         x.tipo = "OperadorTerminador" <=> x.texto = Sem!PuntoComa
  PROVE  x.tipo = "OperadorTerminador"
<1>1. ~ Sem!EsNumeral(x.texto)
  BY Zenon DEF Sem!EsNumeral
<1>2. x.texto = Sem!PuntoComa
  BY <1>1, Zenon DEF Sem!PuntoComa
<1> QED
  BY <1>2, Zenon

(* What the parser sees of a list, lexeme by lexeme. *)
LEMMA VistaMira ==
  ASSUME NEW L, Len(L) \in Nat, DOMAIN L = 1..Len(L)
  PROVE  /\ Len(VistaDe(L)) = Len(L) /\ DOMAIN VistaDe(L) = DOMAIN L
         /\ \A i \in DOMAIN L :
              VistaDe(L)[i].tipo = L[i].tipo /\ VistaDe(L)[i].texto = L[i].texto.c
<1> DEFINE f == [i \in 1..Len(L) |-> [tipo |-> L[i].tipo, texto |-> L[i].texto.c]]
           X == {f[i] : i \in 1..Len(L)}
           m == Len(L)
<1>1. VistaDe(L) = f
  BY DEF VistaDe
<1>2. \A i \in 1..Len(L) : f[i].tipo = L[i].tipo /\ f[i].texto = L[i].texto.c
  OBVIOUS
<1>3. DOMAIN f = 1..Len(L) /\ \A i \in 1..Len(L) : f[i] \in X
  OBVIOUS
<1> HIDE DEF X
<1>4. Len(f) = Len(L)
  <2>1. f \in [1..m -> X]
    BY <1>3
  <2> HIDE DEF f
  <2>2. f \in Seq(X) /\ m \in Nat
    BY <2>1
  <2> QED
    BY <1>3, <2>2
<1> QED
  BY <1>1, <1>2, <1>3, <1>4

(* Then the parser sees two lists that are read alike. *)
LEMMA VistasConcuerdan ==
  ASSUME Sem!Extraida(caja), vista = VistaDe(lexemas), Len(lexemas) = Len(caja), Reescrita, Ajena
  PROVE  SintP!Concuerdan(Original)
<1>1. Len(caja) \in Nat /\ DOMAIN caja = 1..Len(caja) /\ DOMAIN lexemas = 1..Len(caja)
  BY ListaExtraida DEF Reescrita
<1>2. /\ SintP!n = Len(caja) /\ Len(Original) = Len(caja)
      /\ \A i \in 1..Len(caja) :
           /\ Original[i].tipo = caja[i].tipo /\ Original[i].texto = caja[i].texto.c
           /\ vista[i].tipo = lexemas[i].tipo /\ vista[i].texto = lexemas[i].texto.c
  BY <1>1, VistaMira DEF Original, SintP!n
<1>3. \A i \in 1..Len(caja) :
        /\ lexemas[i].tipo = caja[i].tipo
        /\ lexemas[i] # caja[i] =>
             /\ caja[i].tipo # "Variable" /\ SemP!Escribible(lexemas[i].texto)
             /\ caja[i].texto.c \notin SintP!TextosLeidos
  BY <1>1, MismosTextos, Zenon DEF Reescrita, Ajena
<1>4. \A i \in 1..Len(caja) :
        /\ Sem!EsNumeral(caja[i].texto) \/ caja[i].texto = Sem!Simbolo(caja[i].texto.c)
        /\ caja[i].tipo = "OperadorTerminador" <=> caja[i].texto = Sem!PuntoComa
        /\ caja[i].tipo = "Variable" =>
             /\ ~ SemP!Escribible(caja[i].texto)
             /\ \A j \in 1..Len(caja) :
                  caja[j].texto.c = caja[i].texto.c => caja[j].tipo = "Variable"
  BY <1>1, Zenon DEF Sem!Extraida, SemP!Escribible
<1>5. ASSUME NEW i \in 1..Len(caja), vista[i].texto = ";"
      PROVE  vista[i].tipo = "OperadorTerminador"
  <2>1. lexemas[i].texto.c = ";" /\ vista[i].tipo = lexemas[i].tipo
    BY <1>2, <1>5, Zenon
  <2>2. lexemas[i] = caja[i]
    BY <1>3, <2>1, NadaEscritoSeLee, Zenon
  <2>3. /\ Sem!EsNumeral(caja[i].texto) \/ caja[i].texto = Sem!Simbolo(caja[i].texto.c)
        /\ caja[i].tipo = "OperadorTerminador" <=> caja[i].texto = Sem!PuntoComa
    BY <1>4, Zenon
  <2>4. caja[i].texto.c = ";"
    BY <2>1, <2>2, Zenon
  <2>5. caja[i].tipo = "OperadorTerminador"
    BY <2>3, <2>4, SimboloTermina, Zenon
  <2> QED
    BY <2>1, <2>2, <2>5, Zenon
<1>6. ASSUME NEW i \in 1..Len(caja), Original[i].texto # vista[i].texto
      PROVE  /\ Original[i].texto \notin SintP!TextosLeidos
             /\ vista[i].texto \notin SintP!TextosLeidos
             /\ \A j \in 1..Len(caja) : vista[j].tipo = "Variable" =>
                  vista[j].texto # Original[i].texto /\ vista[j].texto # vista[i].texto
  <2>1. lexemas[i] # caja[i]
    BY <1>2, <1>6, Zenon
  <2>2. /\ caja[i].tipo # "Variable" /\ SemP!Escribible(lexemas[i].texto)
        /\ caja[i].texto.c \notin SintP!TextosLeidos
    BY <1>3, <2>1, Zenon
  <2>3. lexemas[i].texto.c \notin SintP!TextosLeidos
    BY <2>2, NadaEscritoSeLee, Zenon
  <2>4. ASSUME NEW j \in 1..Len(caja), vista[j].tipo = "Variable"
        PROVE  vista[j].texto # Original[i].texto /\ vista[j].texto # vista[i].texto
    <3>1. caja[j].tipo = "Variable" /\ lexemas[j] = caja[j] /\ vista[j].texto = caja[j].texto.c
      BY <1>2, <1>3, <2>4, Zenon
    <3>2. caja[j].texto.c # lexemas[i].texto.c
      BY <1>4, <2>2, <3>1, Zenon DEF SemP!Escribible
    <3>3. caja[j].texto.c # caja[i].texto.c
      BY <1>4, <2>2, <3>1, Zenon
    <3> QED
      BY <1>2, <3>1, <3>2, <3>3, Zenon
  <2> QED
    BY <1>2, <2>2, <2>3, <2>4, Zenon
<1> QED
  BY <1>1, <1>2, <1>3, <1>5, <1>6, Zenon DEF SintP!Concuerdan

(* What is known of the two parses of a press.  The first one is the parse *)
(* of the text in the box, of which the second one passes through the same *)
(* states, whatever the analysis wrote meanwhile.                          *)
Lecturas ==
  /\ fase \in {"leyendo", "releyendo"} => vista = VistaDe(lexemas) /\ SintP!IInv
  /\ fase = "leyendo" => SintP!Leida(Original, numTokens, SintP!Ahora)
  /\ fase = "analizando" =>
       \E s : /\ SintP!Leida(Original, numTokens, s)
              /\ s.estado = "listo" /\ s.bloques = bloques
  /\ fase = "releyendo" /\ Ajena => SintP!Releida(Original, numTokens, primeros, SintP!Ahora)
  /\ fase = "generando" /\ Ajena => bloques = primeros

(* The list as the phases of a press have it. *)
LEMMA LexemasReescritos ==
  ASSUME Lectura, fase = "leyendo" \/ (fase \in {"analizando", "releyendo"} /\ errores = {})
  PROVE  /\ Sem!Extraida(caja) /\ Reescrita
         /\ Len(lexemas) = Len(caja) /\ Len(Original) = Len(caja)
         /\ Len(VistaDe(lexemas)) = Len(caja) /\ VistaDe(lexemas) \in Seq(SintP!Lexema)
<1>1. Sem!Extraida(caja)
  BY ProgramasAssumption DEF Lectura
<1>2. /\ caja \in Seq(Sem!LexemaValor)
      /\ Len(caja) \in Nat /\ DOMAIN caja = 1..Len(caja)
  BY <1>1, ListaExtraida
<1>3. Reescrita
  BY DEF Lectura, Parecida, Reescrita
<1>4. Len(lexemas) = Len(caja) /\ DOMAIN lexemas = 1..Len(caja)
  BY <1>2 DEF Lectura, Parecida
<1>5. Len(Original) = Len(caja) /\ Len(VistaDe(lexemas)) = Len(caja)
  BY <1>2, <1>4, VistaMira DEF Original
<1>6. VistaDe(lexemas) \in Seq(SintP!Lexema)
  <2> DEFINE m == Len(caja)
  <2>1. ASSUME NEW i \in 1..m
        PROVE  lexemas[i].tipo \in SintP!TipoElemento /\ lexemas[i].texto.c \in SintP!NombreTexto
    <3>1. /\ caja[i].tipo \in SintP!TipoElemento /\ caja[i].texto.c \in SintP!NombreTexto
      <4>1. caja[i] \in Sem!LexemaValor
        BY <1>2
      <4>2. caja[i].tipo \in Sem!TipoElemento /\ caja[i].texto.c \in Sem!NombreTexto
        BY <4>1 DEF Sem!LexemaValor, Sem!Texto
      <4> QED
        BY <4>2, Zenon DEF Sem!TipoElemento, SintP!TipoElemento, Sem!NombreTexto,
                           SintP!NombreTexto
    <3>2. \A t : SemP!Escribible(t) => t.c \in SintP!NombreTexto
      BY Zenon DEF SemP!Escribible, SintP!NombreTexto
    <3> QED
      BY <1>2, <1>3, <3>1, <3>2, Zenon DEF Reescrita
  <2>2. VistaDe(lexemas) \in [1..m -> SintP!Lexema]
    BY <1>4, <2>1 DEF VistaDe, SintP!Lexema
  <2> HIDE DEF m
  <2>3. m \in Nat => [1..m -> SintP!Lexema] \subseteq Seq(SintP!Lexema)
    OBVIOUS
  <2> QED
    BY <1>2, <2>2, <2>3 DEF m
<1> QED
  BY <1>1, <1>3, <1>4, <1>5, <1>6

(* A parse that starts is the start of the parse of the text in the box. *)
LEMMA LecturaComienza ==
  (/\ SintP!Comienzo /\ numTokens \in Nat /\ VistaDe(lexemas) \in Seq(SintP!Lexema)
   /\ vista = VistaDe(lexemas) /\ Len(VistaDe(lexemas)) = Len(Original))
    => SintP!IInv /\ SintP!Leida(Original, numTokens, SintP!Ahora)
<1> SUFFICES ASSUME SintP!Comienzo, numTokens \in Nat, VistaDe(lexemas) \in Seq(SintP!Lexema),
                    vista = VistaDe(lexemas), Len(VistaDe(lexemas)) = Len(Original)
             PROVE  SintP!IInv /\ SintP!Leida(Original, numTokens, SintP!Ahora)
  OBVIOUS
<1>1. SintP!IInv
  BY SupuestosDeLaLectura, SintP!ComienzoCumple
<1> DEFINE L == Original
<1>2. Len(L) = SintP!n
  BY Zenon DEF SintP!n
<1> HIDE DEF L
<1>3. SintP!Leida(L, numTokens, SintP!Ahora)
  BY <1>2, SupuestosDeLaLectura, SintP!ComienzaLeida
<1> QED
  BY <1>1, <1>3 DEF L

(* A parse that starts is also the start of one that came to its end before. *)
LEMMA RelecturaComienza ==
  (/\ SintP!Comienzo /\ vista = VistaDe(lexemas) /\ Len(VistaDe(lexemas)) = Len(Original)
   /\ \E s : /\ SintP!Leida(Original, numTokens, s)
             /\ s.estado = "listo" /\ s.bloques = primeros)
    => SintP!Releida(Original, numTokens, primeros, SintP!Ahora)
<1> SUFFICES ASSUME SintP!Comienzo, vista = VistaDe(lexemas),
                    Len(VistaDe(lexemas)) = Len(Original),
                    \E s : /\ SintP!Leida(Original, numTokens, s)
                           /\ s.estado = "listo" /\ s.bloques = primeros
             PROVE  SintP!Releida(Original, numTokens, primeros, SintP!Ahora)
  OBVIOUS
<1> PICK s : /\ SintP!Leida(Original, numTokens, s)
             /\ s.estado = "listo" /\ s.bloques = primeros
  OBVIOUS
<1> DEFINE L == Original
<1>1. Len(L) = SintP!n
  BY Zenon DEF SintP!n
<1> HIDE DEF L
<1>2. SintP!Releida(L, numTokens, s.bloques, SintP!Ahora)
  BY <1>1, SupuestosDeLaLectura, SintP!ComienzaReleida DEF L
<1> QED
  BY <1>2, Zenon DEF L

(* The analysis and the generator leave the blocks as they are. *)
LEMMA BloquesQuietos ==
  /\ SemP!Next => bloques' = bloques
  /\ Gen!Next => bloques' = bloques
<1>1. \A debajo, c : SemP!Continuar(debajo, c) => bloques' = bloques
  BY DEF SemP!Continuar
<1>2. SemP!LeerElemento \/ SemP!RegresarProducto => bloques' = bloques
  BY <1>1, Zenon DEF SemP!LeerElemento, SemP!RegresarProducto
<1>3. SemP!LlamarProducto \/ SemP!VerificarRetornoBloque => bloques' = bloques
  BY DEF SemP!LlamarProducto, SemP!VerificarRetornoBloque
<1>4. SemP!Desbordar \/ SemP!Terminado => bloques' = bloques
  BY DEF SemP!Desbordar, SemP!Terminado, SemP!vars
<1>5. SemP!DeclararSinAsignar \/ SemP!Ignorar \/ SemP!ReasignarNoDeclarada => bloques' = bloques
  BY DEF SemP!DeclararSinAsignar, SemP!Ignorar, SemP!ReasignarNoDeclarada, SemP!Avanzar
<1>6. SemP!AsignarSimple \/ SemP!AsignarCompleja \/ SemP!TerminarCompleja => bloques' = bloques
  BY DEF SemP!AsignarSimple, SemP!AsignarCompleja, SemP!TerminarCompleja, SemP!Avanzar
<1>7. SemP!EmpezarRetornos \/ SemP!TerminarAnalisis => bloques' = bloques
  BY DEF SemP!EmpezarRetornos, SemP!TerminarAnalisis
<1>8. SemP!Next => bloques' = bloques
  BY <1>2, <1>3, <1>4, <1>5, <1>6, <1>7, Zenon DEF SemP!Next
<1>9. \A g, p : Gen!Aplicar(g, p) => bloques' = bloques
  BY DEF Gen!Aplicar
<1>10. Gen!Next => bloques' = bloques
  BY <1>9, Zenon DEF Gen!Next, Gen!Sentencia, Gen!AbrirEstructura, Gen!CerrarEstructura,
     Gen!TerminarGeneracion, Gen!Imprimir, Gen!Terminado, Gen!vars
<1> QED
  BY <1>8, <1>10

(* The lengths that the list and what the parser sees of it have in common. *)
LEMMA ListaDePartida ==
  (Lectura /\ (fase = "leyendo" \/ (fase \in {"analizando", "releyendo"} /\ errores = {})))
    => /\ Len(lexemas) = Len(VistaDe(lexemas)) /\ Len(Original) = Len(VistaDe(lexemas))
       /\ VistaDe(lexemas) \in Seq(SintP!Lexema)
  BY LexemasReescritos

(* A parse that starts sees the list from its first lexeme on. *)
LEMMA EmpiezaLaLectura ==
  ASSUME Lectura', EmpezarLectura,
         (fase = "leyendo" \/ (fase \in {"analizando", "releyendo"} /\ errores = {}))'
  PROVE  /\ SintP!Comienzo' /\ vista' = VistaDe(lexemas)'
         /\ VistaDe(lexemas)' \in Seq(SintP!Lexema)
         /\ Len(VistaDe(lexemas)') = Len(Original')
<1>1. (/\ Len(lexemas) = Len(VistaDe(lexemas)) /\ Len(Original) = Len(VistaDe(lexemas))
       /\ VistaDe(lexemas) \in Seq(SintP!Lexema))'
  BY ListaDePartida, PTL
<1>2. vista' = VistaDe(lexemas)'
  BY DEF EmpezarLectura, VistaDe
<1>3. (SintP!n)' = Len(lexemas')
  BY <1>1, <1>2 DEF SintP!n
<1>4. SintP!Comienzo'
  BY <1>3 DEF EmpezarLectura, SintP!Comienzo
<1> QED
  BY <1>1, <1>2, <1>4

(* The first parse of a press starts. *)
LEMMA LecturaEmpezada ==
  ASSUME SintP!Comienzo', numTokens' \in Nat, vista' = VistaDe(lexemas)',
         VistaDe(lexemas)' \in Seq(SintP!Lexema), Len(VistaDe(lexemas)') = Len(Original')
  PROVE  SintP!IInv' /\ SintP!Leida(Original, numTokens, SintP!Ahora)'
<1>1. ((/\ SintP!Comienzo /\ numTokens \in Nat /\ VistaDe(lexemas) \in Seq(SintP!Lexema)
        /\ vista = VistaDe(lexemas) /\ Len(VistaDe(lexemas)) = Len(Original))
         => SintP!IInv /\ SintP!Leida(Original, numTokens, SintP!Ahora))'
  BY LecturaComienza, PTL
<1> QED
  BY <1>1

(* The second parse of a press starts. *)
LEMMA RelecturaEmpezada ==
  ASSUME SintP!Comienzo', vista' = VistaDe(lexemas)', Len(VistaDe(lexemas)') = Len(Original'),
         (\E s : /\ SintP!Leida(Original, numTokens, s)
                 /\ s.estado = "listo" /\ s.bloques = primeros)'
  PROVE  SintP!Releida(Original, numTokens, primeros, SintP!Ahora)'
<1>1. ((/\ SintP!Comienzo /\ vista = VistaDe(lexemas) /\ Len(VistaDe(lexemas)) = Len(Original)
        /\ \E s : /\ SintP!Leida(Original, numTokens, s)
                  /\ s.estado = "listo" /\ s.bloques = primeros)
         => SintP!Releida(Original, numTokens, primeros, SintP!Ahora))'
  BY RelecturaComienza, PTL
<1> QED
  BY <1>1, Zenon

(* A step of either parse is the step of the parse of the text in the box. *)
LEMMA SigueLeyendo ==
  ASSUME Lectura, Lecturas, Leer
  PROVE  Lecturas'
<1>1. /\ fase \in {"leyendo", "releyendo"} /\ fase' = fase /\ estadoSint = "analizando"
      /\ SintP!Next /\ UNCHANGED <<caja, lexemas, primeros>>
  BY MismosPasosDeLectura DEF Leer, ventana
<1>2. vista = VistaDe(lexemas) /\ SintP!IInv
  BY <1>1 DEF Lecturas
<1>3. SintP!IInv' /\ vista' = vista /\ numTokens' = numTokens
  BY <1>1, <1>2, SupuestosDeLaLectura, SintP!PasoPreserva, SintP!PasoConserva
<1>4. vista' = VistaDe(lexemas') /\ Original' = Original /\ (Ajena' <=> Ajena)
  BY <1>1, <1>2, <1>3 DEF VistaDe, Original, Ajena, Sint!TextosLeidos
<1>5. CASE fase = "leyendo"
  <2>1. lexemas = caja /\ Ajena
    BY <1>5 DEF Lectura, Ajena
  <2>2. SintP!Concuerdan(Original)
    BY <1>2, <1>5, <2>1, LexemasReescritos, VistasConcuerdan
  <2>3. SintP!Leida(Original, numTokens, SintP!Ahora)
    BY <1>5 DEF Lecturas
  <2> DEFINE L == Original
             k == numTokens
  <2>4. SintP!Leida(L, k, SintP!Ahora')
    <3> HIDE DEF L
    <3> QED
      BY <1>1, <1>2, <2>2, <2>3, SupuestosDeLaLectura, SintP!SigueLeida DEF L
  <2>5. SintP!Leida(Original, numTokens, SintP!Ahora)'
    BY <1>3, <1>4, <2>4
  <2> QED
    BY <1>1, <1>3, <1>4, <1>5, <2>5 DEF Lecturas
<1>6. CASE fase = "releyendo"
  <2>1. ASSUME Ajena PROVE SintP!Releida(Original, numTokens, primeros, SintP!Ahora)'
    <3>1. SintP!Concuerdan(Original)
      <4>1. errores = {}
        BY <1>6 DEF Lectura
      <4> QED
        BY <1>2, <1>6, <2>1, <4>1, LexemasReescritos, VistasConcuerdan
    <3>2. SintP!Releida(Original, numTokens, primeros, SintP!Ahora)
      BY <1>6, <2>1 DEF Lecturas
    <3>3. SintP!Releida(Original, numTokens, primeros, SintP!Ahora')
      BY <1>1, <1>2, <3>1, <3>2, SupuestosDeLaLectura, SintP!SigueReleida
    <3> QED
      BY <1>1, <1>3, <1>4, <3>3
  <2> QED
    BY <1>1, <1>3, <1>4, <1>6, <2>1 DEF Lecturas
<1> QED
  BY <1>1, <1>5, <1>6

(* The second parse, when no lexeme it knows by its text was written over. *)
LEMMA RelecturaIgual ==
  ASSUME Lectura, Lecturas, fase = "releyendo", Ajena
  PROVE  /\ estadoSint # "excepcion"
         /\ Len(bloques) <= Len(primeros)
         /\ SintP!EnBucle => SintP!Manejador(posCursor) # "ninguno"
         /\ estadoSint = "listo" => bloques = primeros
<1>1. SintP!IInv /\ vista = VistaDe(lexemas)
      /\ SintP!Releida(Original, numTokens, primeros, SintP!Ahora)
  BY DEF Lecturas
<1>2. SintP!Concuerdan(Original)
  <2>1. errores = {}
    BY DEF Lectura
  <2> QED
    BY <1>1, <2>1, LexemasReescritos, VistasConcuerdan
<1> DEFINE L == Original
<1>3. SintP!Concuerdan(L) /\ SintP!Releida(L, numTokens, primeros, SintP!Ahora)
  BY <1>1, <1>2
<1> HIDE DEF L
<1> QED
  BY <1>1, <1>3, SupuestosDeLaLectura, SintP!ReleidaBien

(* Every step of the window keeps what is known of its two parses. *)
LEMMA PasoLecturas ==
  ASSUME TypeOK, TypeOK', Lectura, Lectura', Lecturas, [Next]_vars
  PROVE  Lecturas'
<1>1. ASSUME fase' = "espera" PROVE Lecturas'
  BY <1>1 DEF Lecturas
<1>2. ASSUME UNCHANGED <<caja, lexemas>>
      PROVE  Original' = Original /\ (Ajena' <=> Ajena)
  BY <1>2 DEF VistaDe, Original, Ajena, Sint!TextosLeidos
<1>3. CASE UNCHANGED vars
  <2>1. UNCHANGED <<fase, caja, lexemas, primeros, vista, numTokens, posCursor, pila,
                    bloques, estadoSint>>
    BY <1>3 DEF vars, ventana, sint
  <2>2. SintP!Ahora' = SintP!Ahora
    BY <2>1 DEF SintP!Ahora
  <2>3. SintP!IInv => SintP!IInv'
    <3>1. UNCHANGED <<vista, numTokens, posCursor, pila, bloques, estadoSint>>
      BY <2>1
    <3>2. SintP!IInv => estadoSint' \in {"analizando", "listo", "excepcion"}
      BY <2>1 DEF SintP!IInv, SintP!TypeOK
    <3> QED
      BY <3>1, <3>2, SupuestosDeLaLectura, SintP!SoloEstadoPreserva
  <2>4. VistaDe(lexemas)' = VistaDe(lexemas)
    BY <2>1 DEF VistaDe
  <2> QED
    BY <1>2, <2>1, <2>2, <2>3, <2>4 DEF Lecturas
<1>4. CASE Escribir \/ Borrar \/ PulsarLexico
  BY <1>1, <1>4 DEF Escribir, Borrar, PulsarLexico, Quieta
<1>5. ASSUME NEW b \in Botones \ {"lexico"}, Pulsar(b) PROVE Lecturas'
  <2>1. fase' = "leyendo" /\ EmpezarLectura /\ numTokens' \in Nat
    BY <1>5 DEF Pulsar, TypeOK
  <2>2. /\ SintP!Comienzo' /\ vista' = VistaDe(lexemas)'
        /\ VistaDe(lexemas)' \in Seq(SintP!Lexema)
        /\ Len(VistaDe(lexemas)') = Len(Original')
    BY <2>1, EmpiezaLaLectura
  <2>3. SintP!IInv' /\ SintP!Leida(Original, numTokens, SintP!Ahora)'
    BY <2>1, <2>2, LecturaEmpezada
  <2> QED
    BY <2>1, <2>2, <2>3, Zenon DEF Lecturas
<1>6. CASE Leer
  BY <1>6, SigueLeyendo
<1>7. CASE MostrarErroresSintax \/ MostrarSintaxis \/ MostrarSemantica \/ MostrarCodigo \/ Fallar
  <2>1. Soltar
    BY <1>7 DEF MostrarErroresSintax, MostrarSintaxis, MostrarSemantica, MostrarCodigo, Fallar
  <2> QED
    BY <1>1, <2>1 DEF Soltar
<1>8. CASE ProcesarLexemas
  <2>1. /\ fase = "leyendo" /\ fase' = "analizando" /\ estadoSint = "listo"
        /\ UNCHANGED <<caja, lexemas, bloques, numTokens>>
    BY <1>8 DEF ProcesarLexemas, Aceptado, Leido, sint
  <2> PICK s : s = SintP!Ahora
    OBVIOUS
  <2>2. SintP!Leida(Original, numTokens, s)'
    BY <1>2, <2>1 DEF Lecturas
  <2>3. s.estado = "listo" /\ s.bloques = bloques'
    BY <2>1 DEF SintP!Ahora
  <2> QED
    BY <2>1, <2>2, <2>3, Zenon DEF Lecturas
<1>9. CASE Analizar
  <2>1. /\ fase = "analizando" /\ fase' = fase /\ SemP!Next
        /\ UNCHANGED <<caja, numTokens>>
    BY <1>9, MismosPasos DEF Analizar, ventana
  <2>2. bloques' = bloques /\ Original' = Original
    BY <2>1, BloquesQuietos DEF Original, VistaDe
  <2> QED
    BY <2>1, <2>2, Zenon DEF Lecturas
<1>10. CASE Releer
  <2>1. /\ fase = "analizando" /\ fase' = "releyendo" /\ EmpezarLectura /\ numTokens' \in Nat
        /\ errores' = {} /\ primeros' = bloques
        /\ UNCHANGED <<caja, lexemas, numTokens>>
    BY <1>10 DEF Releer, Analizado, ventana, sem, TypeOK
  <2>2. /\ SintP!Comienzo' /\ vista' = VistaDe(lexemas)'
        /\ VistaDe(lexemas)' \in Seq(SintP!Lexema)
        /\ Len(VistaDe(lexemas)') = Len(Original')
    BY <2>1, EmpiezaLaLectura
  <2>3. SintP!IInv'
    BY <2>1, <2>2, LecturaEmpezada
  <2>4. (\E s : /\ SintP!Leida(Original, numTokens, s)
                /\ s.estado = "listo" /\ s.bloques = primeros)'
    BY <1>2, <2>1 DEF Lecturas
  <2>5. SintP!Releida(Original, numTokens, primeros, SintP!Ahora)'
    BY <2>2, <2>4, RelecturaEmpezada
  <2> QED
    BY <2>1, <2>2, <2>3, <2>5, Zenon DEF Lecturas
<1>11. CASE GenerarCodigo
  <2>1. /\ fase = "releyendo" /\ fase' = "generando" /\ estadoSint = "listo"
        /\ UNCHANGED <<caja, lexemas, primeros, bloques>>
    BY <1>11 DEF GenerarCodigo, ventana, sint
  <2>2. ASSUME Ajena PROVE bloques = primeros
    BY <2>1, <2>2, RelecturaIgual
  <2> QED
    BY <1>2, <2>1, <2>2 DEF Lecturas
<1>12. CASE Generar
  <2>1. /\ fase = "generando" /\ fase' = fase
        /\ UNCHANGED <<caja, lexemas, primeros, bloques>>
    BY <1>12, GenerarNoEscribe, BloquesQuietos DEF Generar, ventana
  <2> QED
    BY <1>2, <2>1 DEF Lecturas
<1> QED
  BY <1>3, <1>4, <1>5, <1>6, <1>7, <1>8, <1>9, <1>10, <1>11, <1>12 DEF Next, Manejar

(* What is known of them is what the property says. *)
LEMMA LecturasIguales == Lectura /\ Lecturas => SegundaLecturaIgual
<1> SUFFICES ASSUME Lectura, Lecturas, Ajena
             PROVE  /\ fase = "releyendo" =>
                         /\ estadoSint # "excepcion"
                         /\ Len(bloques) <= Len(primeros)
                         /\ Sint!EnBucle => Sint!Manejador(posCursor) # "ninguno"
                    /\ fase = "generando" => bloques = primeros
  BY DEF SegundaLecturaIgual, Ajena
<1>1. (Sint!EnBucle <=> SintP!EnBucle) /\ Sint!Manejador(posCursor) = SintP!Manejador(posCursor)
  BY MismosManejadores
<1>2. fase = "generando" => bloques = primeros
  BY DEF Lecturas
<1> QED
  BY <1>1, <1>2, RelecturaIgual

(* The second parse gives the blocks of the first, raises nothing and does *)
(* not stand still: for every text in the box, whatever the analysis wrote *)
(* into its lexemes, unless it wrote over one the parser knows by its text.*)
THEOREM SegundaLecturaEsLaPrimera == Spec => []SegundaLecturaIgual
<1>1. Init => Lectura /\ Lecturas
  BY DEF Init, Lectura, Lecturas
<1>2. Spec => []TypeOK
  BY TiposDelFormulario
<1>3. Lectura /\ [Next]_vars => Lectura'
  BY PasoLectura
<1>4. TypeOK /\ TypeOK' /\ Lectura /\ Lectura' /\ Lecturas /\ [Next]_vars => Lecturas'
  BY PasoLecturas
<1>5. Lectura /\ Lecturas => SegundaLecturaIgual
  BY LecturasIguales
<1> QED
  BY <1>1, <1>2, <1>3, <1>4, <1>5, PTL DEF Spec
=============================================================================
