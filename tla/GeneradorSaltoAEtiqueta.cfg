SPECIFICATION Spec
CONSTANTS
  Nulo = Nulo
  Entradas <- MCEntradas
INVARIANT SaltoAEtiqueta
