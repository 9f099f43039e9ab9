SPECIFICATION Spec
CONSTANTS
  MaxTracked = 11
  MaxObjetos = 8
  GgttBase = 1
  GgttLimite = 11
  NumSuperficies = 2
  TamRing = 4
  Regiones = {"ioremap", "prueba", "gpu", "red", "iommu", "acpi", "apic"}
  PorTabla = 2
  MaxIoremap = 2
  Grande = 4
  PaginasRed = 1
  MaxPaginasRed = 2
  PaginasRx = 2
  PaginasTx = 2
  Trabajos = {"prueba", "uno", "otro"}
  MaxWork = 2
  Temporizadores = {"prueba", "uno"}
  MaxTimers = 1
  MaxIrqs = 2
  MaxPciLinux = 4
  PaginasBar = 2
  PaginasWpr = 16
  PaginasWprMin = 12
  MaxColaGsp = 4
  MaxPci = 4
  PaginasGpu = 2
  MaxDrhd = 1
  MaxRmrr = 1
  Maquinas <- LasMaquinas
  Guiones = {"mando", "video", "diferido", "sonda", "gsp"}
  Fallas <- Fallos
  MaxMandos = 3
INVARIANTS RecursosDevueltos DmaSoloEnLoPropio
CHECK_DEADLOCK FALSE
