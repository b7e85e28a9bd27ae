SPECIFICATION Spec
CONSTANTS
  Entradas <- MCEntradas
  TokensPrevios <- MCTokensPrevios
  MaxVacios = 2
INVARIANTS TypeOK ArbolFiel LexemaUnaVez Anidados
PROPERTIES AvanzaORegresa Termina
