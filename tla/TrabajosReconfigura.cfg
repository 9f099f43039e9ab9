SPECIFICATION Spec
CONSTANTS
  NCPU = 2
  LimiteCpu = 2
  MaxRegiones = 2
  Tamanos = {0, 1, 2}
  MaxEpoca = 4
  TopeSiguiente = 2
  Desborda = FALSE
  EsperaReposo = FALSE
INVARIANTS SinUsoTardio
