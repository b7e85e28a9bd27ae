SPECIFICATION MCSpec
CONSTANTS
  Letras <- MCLetras
  Ajenas <- MCAjenas
  Palabras <- MCPalabras
  Entradas <- Ninguno
INVARIANT MenosIgualEntero
