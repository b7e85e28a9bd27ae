---------------------------- MODULE MapaSimbolos ----------------------------
(***************************************************************************)
(* What a symbol table promises, without codes, lists or searches: a       *)
(* partial map from identifiers to a type and a value.  The first          *)
(* registration of a name fixes its type; later ones and assignments only  *)
(* change the value; the whole table may be discarded.                     *)
(***************************************************************************)
EXTENDS Naturals

CONSTANTS Identificadores, Tipos, Valores, Nulo

VARIABLE mapa

Entrada == [tipo : Tipos \cup {Nulo}, valor : Valores \cup {Nulo}]

MapaTypeOK ==
  /\ DOMAIN mapa \subseteq Identificadores
  /\ \A n \in DOMAIN mapa : mapa[n] \in Entrada

Vacio == [n \in {} |-> Nulo]

Init == mapa = Vacio

Descartar == mapa' = Vacio

Registrar(n, e) ==
  /\ n \notin DOMAIN mapa
  /\ mapa' = [m \in DOMAIN mapa \cup {n} |-> IF m = n THEN e ELSE mapa[m]]

CambiarValor(n, v) ==
  /\ n \in DOMAIN mapa
  /\ mapa' = [mapa EXCEPT ![n].valor = v]

Next ==
  \/ Descartar
  \/ \E n \in Identificadores :
       \/ \E e \in Entrada : Registrar(n, e)
       \/ \E v \in Valores \cup {Nulo} : CambiarValor(n, v)

Spec == Init /\ [][Next]_mapa
=============================================================================
