SPECIFICATION MCSpec
CONSTANTS
  Nulo = Nulo
  IntMax = 31
  EscalaMax = 2
  Entradas <- MCEntradas
INVARIANTS TypeOK EnteroSinPunto ErrorReportado RecursionAcotada UsosDeclarados ValorCorrecto
PROPERTIES EscrituraLocal Termina
