SPECIFICATION Spec
CONSTANTS
  Bloque = 2
  CapCola = 8
  NumBdl = 3
  Ms200 = 1
  Ms500 = 3
  Ms1000 = 5
  Ms1500 = 8
  MaxHueco = 3
  MaxReloj = 12
  Placas <- MCPlacas
  NumBloques = 2
  TamBloque = 2
  CapV = 4
  CapA = 3
  BajoV = 2
  MetaV = 3
  BajoA = 2
  MetaA = 3
  NumFotos = 4
  MaxRefs = 3
  MaxDimension = 4
  MaxPps = 1
  MaxSps = 1
  MaxMarcas = 2
  BajoPcm = 2
  MetaPcm = 3
  PrePcm = 5
  MuestrasFuncionales = 2
  InicioMp3 = 4
  EntradaMp3 = 2
  MaxOrdenes = 2
  Escenarios <- MCEscenarios
INVARIANTS MuestrasFieles
PROPERTIES SonidoFiel PresentacionFiel
