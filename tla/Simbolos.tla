------------------------------ MODULE Simbolos ------------------------------
(***************************************************************************)
(* The operations of TablaSimbolos.cs on the list of records RegistrosTabla *)
(* as operators on a sequence R.  A record carries its code, the name, the *)
(* declared type and the value; both of the last may be null.              *)
(***************************************************************************)
EXTENDS Integers, Sequences, FiniteSetsExt

CONSTANT Nulo   \* null: no type or no value yet

Codigos(R) == {R[i].codigo : i \in DOMAIN R}
Nombres(R) == {R[i].nombre : i \in DOMAIN R}

(* Here and below, a definition called Mut... is the next one with a        *)
(* plausible mistake; the properties must reject it.                       *)
MutSinIncremento(R) == IF R = << >> THEN 1 ELSE Max(Codigos(R))

SiguienteCorrelativo(R) == IF R = << >> THEN 1 ELSE Max(Codigos(R)) + 1

VariableEstaDeclarada(R, nombre) == nombre \in Nombres(R)

(* RegistrosTabla.First(x => x.Nombre == nombre), as a position of R. *)
PosicionDe(R, nombre) == Min({i \in DOMAIN R : R[i].nombre = nombre})

MutEscribeTipo(R, nombre, valor) ==
  [R EXCEPT ![PosicionDe(R, nombre)].tipo = valor]

ActualizarValor(R, nombre, valor) ==
  [R EXCEPT ![PosicionDe(R, nombre)].valor = valor]

MutSiempreAgrega(R, nombre, tipo, valor) ==
  Append(R, [codigo |-> SiguienteCorrelativo(R), nombre |-> nombre,
             tipo |-> tipo, valor |-> valor])

MutReemplazaTipo(R, nombre, tipo, valor) ==
  IF VariableEstaDeclarada(R, nombre)
    THEN [R EXCEPT ![PosicionDe(R, nombre)].tipo = tipo,
                   ![PosicionDe(R, nombre)].valor = valor]
    ELSE MutSiempreAgrega(R, nombre, tipo, valor)

(* A name already in the table only has its value replaced: the type and   *)
(* the code of the new record are dropped.                                 *)
Insertar(R, nombre, tipo, valor) ==
  IF VariableEstaDeclarada(R, nombre)
    THEN ActualizarValor(R, nombre, valor)
    ELSE Append(R, [codigo |-> SiguienteCorrelativo(R), nombre |-> nombre,
                    tipo |-> tipo, valor |-> valor])
=============================================================================
