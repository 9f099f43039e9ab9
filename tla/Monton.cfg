SPECIFICATION FairSpec
CONSTANTS
  TamPagina = 6
  Cabecera = 1
  Resto = 1
  ArenaInicial <- ArenaMC
  Usables <- UsablesMC
  MinPaginas = 2
  MaxIntentos = 2
  Pedidos = {1, 3, 7}
  MaxVivos = 3
INVARIANTS SinSolape CuentasExactas FracasoJusto
PROPERTIES LlamadaTermina
