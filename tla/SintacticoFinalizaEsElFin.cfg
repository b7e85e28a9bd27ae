SPECIFICATION Spec
CONSTANTS
  Entradas <- MCEntradas
  TokensPrevios <- MCTokensPrevios
  MaxVacios = 2
INVARIANT FinalizaEsElFin
