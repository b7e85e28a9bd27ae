SPECIFICATION Spec
CONSTANTS
  Nulo = Nulo
  Nadie = Nadie
  IntMax = 31
  EscalaMax = 2
  MaxVacios = 1
  MaxPulsaciones = 2
  Programas <- MCProgramas
INVARIANTS TypeOK
PROPERTIES EsUnaVentana PulsacionTermina
CHECK_DEADLOCK FALSE
