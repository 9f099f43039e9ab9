SPECIFICATION Spec
CONSTANTS
  MaxTracked = 2
  Hilos = {a, b}
  Tamanos = {1, 2}
  MaxLista = 2
  MaxBloques = 5
SYMMETRY HilosIguales
INVARIANTS CuentasDePagina NadaPerdido DmaVivo
CHECK_DEADLOCK FALSE
