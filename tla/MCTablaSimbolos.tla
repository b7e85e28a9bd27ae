--------------------------- MODULE MCTablaSimbolos --------------------------
(* TablaSimbolos for TLC: three names, two types, two values and "Error".  *)
EXTENDS TablaSimbolos

CONSTANTS x, y, z

MCTipos == {"Int", "Float"}
MCValores == {"1", "2", "Error"}
=============================================================================
