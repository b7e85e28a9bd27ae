SPECIFICATION MCSpec
CONSTANTS
  Letras <- MCLetras
  Ajenas <- MCAjenas
  Palabras <- MCPalabras
  Entradas <- Ninguno
INVARIANTS TypeOK NadaSePierde FichasLeidas
PROPERTY Termina
