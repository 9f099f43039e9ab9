SPECIFICATION FairSpec
CONSTANTS
  NCPU = 3
  LimiteCpu = 3
  MaxRegiones = 2
  Tamanos = {0, 2}
  MaxEpoca = 2
  TopeSiguiente = 2
  Desborda = FALSE
  EsperaReposo = TRUE
INVARIANTS UnaVez SinUsoTardio ParadaDefinitiva
PROPERTIES ImplementaLote LlamadaRetorna
