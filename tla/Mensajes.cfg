SPECIFICATION Spec
CONSTANTS
  Pc = Pc
  Puerta = Puerta
  Fuera = Fuera
  ServidoresDhcp = {s1, s2}
  Nadie = Nadie
  MaxArp = 1
  Modulo = 16
  Isn = 14
  IsnPar = 15
  Reintentos = 2
  MaxConexiones = 4
  MaxIds = 2
  Guiones <- GuionesMC
  MaxTextos = 2
  Intentos = 2
  s1 = s1
  s2 = s2
  PuertaDe <- PuertaMC
  DnsDe <- DnsMC
INVARIANTS EnviosAnidados FlujoFiel MensajesExactos ConcesionConfirmada
CHECK_DEADLOCK FALSE
