SPECIFICATION FairSpec
CONSTANTS
  MaxRegiones = 3
  Ejecutores = 3
  Ancho = 2
  Alto = 3
  Trozos <- TrozosMC
  Periodo = 2
  MaxLotes = 1
INVARIANTS IntraConVecinos ExitoReconstruido
PROPERTIES LoteTermina
