SPECIFICATION FairSpec
CONSTANTS
  MaxTareas = 3
  Trabajos = {w1, w2}
  MaxOps = 6
  NULL = NULL
INVARIANTS ExclusionMutex NadieOlvidado CuentasExactas DestruccionLimpia CancelacionFirme
PROPERTIES LlamadaVuelve
