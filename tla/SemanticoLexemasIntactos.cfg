SPECIFICATION Spec
CONSTANTS
  Nulo = Nulo
  IntMax = 31
  EscalaMax = 2
  Entradas <- MCEntradas
PROPERTY LexemasIntactos
