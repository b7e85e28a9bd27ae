SPECIFICATION MCSpec
CONSTANTS
  Entradas <- Ninguna
  TokensPrevios <- Ninguna
  MaxVacios = 1
INVARIANT ArbolCorrecto
PROPERTY TerminaBien
