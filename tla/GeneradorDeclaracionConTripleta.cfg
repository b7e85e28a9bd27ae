SPECIFICATION Spec
CONSTANTS
  Nulo = Nulo
  Entradas <- MCEntradas
PROPERTY DeclaracionConTripleta
