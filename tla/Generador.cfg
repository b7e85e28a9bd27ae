SPECIFICATION Spec
CONSTANTS
  Nulo = Nulo
  Entradas <- MCEntradas
INVARIANTS TypeOK CodigosDensos SinNulos
PROPERTIES SaltoAlCuerpo ExpresionFiel
