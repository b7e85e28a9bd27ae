SPECIFICATION Spec
CONSTANTS
  x = x
  y = y
  z = z
  Nulo = Nulo
  Identificadores = {x, y, z}
  Tipos <- MCTipos
  Valores <- MCValores
  MaxTokens = 5
INVARIANT TokenApuntaARegistro
