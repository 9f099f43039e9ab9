SPECIFICATION Spec
CONSTANTS
  NumTx = 2
  NumRx = 3
  Contenidos = {a, b}
  Cero = a
  MaxEnvios = 4
  MaxLlegadas = 4
INVARIANTS EnviosFieles EntregasFieles
PROPERTIES VacioFiel
