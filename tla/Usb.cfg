SPECIFICATION UsbSpec
CONSTANTS
  Puertos = {1, 2}
  Ranuras = {1, 2}
  Tipos = {"disco"}
  TamAnillo = 3
  Rafaga = 2
  MaxBulk = 2
  MaxTeclas = 2
  MaxUnidades = 2
  MaxFallos = 1
  MaxSucesos = 2
  MaxReportes = 2
  PuestosAlArrancar <- Arranque
  IntentosTur = 2
  MaxComandos = 2
INVARIANTS
  LecturaUsbFiel
  CabezaLibre
  TablasCoherentes
  RespuestaPropia
