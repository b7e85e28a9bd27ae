SPECIFICATION Spec
CONSTANTS
  Nulo = Nulo
  Nadie = Nadie
  IntMax = 31
  EscalaMax = 2
  MaxVacios = 1
  MaxPulsaciones = 1
  Programas <- Asignaciones
INVARIANTS SegundaLecturaIgual CodigoDelTexto
CHECK_DEADLOCK FALSE
