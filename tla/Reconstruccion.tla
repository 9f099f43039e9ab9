--------------------------- MODULE Reconstruccion ---------------------------
(***************************************************************************)
(* Parallel reconstruction of an H.264 slice by rows of macroblocks:       *)
(* nucleo/controladores/multimedia/h264/reconstruccion.c, called with the  *)
(* pool of module Trabajos (here its promise, module Lote) by the player,  *)
(* reproductor/reproductor.c.                                              *)
(*                                                                         *)
(* A region of the batch is one row.  Executor 0 is the BSP, which also    *)
(* runs the coordinator's service.  The pixels of a macroblock are left    *)
(* out: a macroblock is reconstructed or not.  Its type (intra or inter),  *)
(* fixed by the parser before the batch, is chosen when it is visited.     *)
(***************************************************************************)
EXTENDS Lote

CONSTANTS
  Ancho,       \* ancho_mb: macroblocks per row
  Alto,        \* alto_mb: rows of the picture
  Trozos,      \* slices <<primero, fin>> the parser delivers
  Periodo,     \* the service is called at columns that are multiples of it (8)
  MaxLotes     \* bound: batches in a behaviour

ASSUME AnchoAssumption == Ancho \in Nat \ {0}
ASSUME AltoAssumption == Alto \in Nat \ {0} /\ Alto <= MaxRegiones /\ MaxRegiones \in Nat
ASSUME TrozosAssumption ==
  \A t \in Trozos : t[1] \in Nat /\ t[2] \in Nat /\ t[1] < t[2] /\ t[2] <= Ancho * Alto
ASSUME PeriodoAssumption == Periodo \in Nat \ {0}
ASSUME EjecutoresAssumption == Ejecutores \in Nat \ {0}
ASSUME MaxLotesAssumption == MaxLotes \in Nat

Ejecutor == 0..(Ejecutores - 1)
Filas == 0..(Alto - 1)
Columnas == 0..(Ancho - 1)

VARIABLES
  primero, fin,  \* the slice being reconstructed
  fallo,         \* r->fallo, 0 or 1
  avance,        \* r->avance: columns finished in each row
  paso,          \* where each executor is
  mia,           \* region held by each executor
  x,             \* column each executor is at
  servicio,      \* progress of servir_coordinador on executor 0
  abortar,       \* p->cancelado || p->error of the player
  bsp_calcula,   \* executor 0 takes rows too
  resultado,     \* of the last h264_reconstruccion_ejecutar
  lotes,         \* batches so far
  listos         \* history: macroblocks <<column, row>> reconstructed in this batch

trozo == <<primero, fin, bsp_calcula, lotes>>
filas == <<mia, x>>
vars == <<loteVars, trozo, fallo, avance, paso, filas, servicio, abortar, resultado, listos>>

PasosIntra == {"comprobarIntra", "intra"}
PasosFila == PasosIntra \cup {"columna", "pedir", "fallar", "visitar", "esperar",
                "comprobar", "inter", "residuo", "malo", "avanzar", "rematar", "salir"}
Pasos == PasosFila \cup {"libre", "tomada"}

PrimeraFila == primero \div Ancho
UltimaFila == (fin - 1) \div Ancho

\* Row of the picture that executor c reconstructs.
Y(c) == PrimeraFila + mia[c]

\* Columns of row y that belong to the slice: Desde(y) <= column < Hasta(y).
Desde(y) == IF y = PrimeraFila THEN primero % Ancho ELSE 0
Hasta(y) == IF y = UltimaFila THEN ((fin - 1) % Ancho) + 1 ELSE Ancho
DelTrozo(y) == {col \in Columnas : Desde(y) <= col /\ col < Hasta(y)}

\* Macroblocks that the prediction of the intra one at column col of row y may
\* read: at its left, and above it with both corners, those of its slice.
Vecinos(col, y) ==
  {<<a, y>> : a \in DelTrozo(y) \cap {col - 1}} \cup
  IF y > PrimeraFila THEN {<<a, y - 1>> : a \in DelTrozo(y - 1) \cap (col - 1)..(col + 1)} ELSE {}

Init ==
  /\ LoteInit
  /\ primero = 0 /\ fin = 1 /\ bsp_calcula = 1 /\ lotes = 0
  /\ fallo = 0 /\ avance = [y \in Filas |-> 0]
  /\ paso = [c \in Ejecutor |-> "libre"]
  /\ mia = [c \in Ejecutor |-> 0] /\ x = [c \in Ejecutor |-> 0]
  /\ servicio = "no" /\ abortar = 0
  /\ resultado = "nada" /\ listos = {}

Ir(c, destino) == paso' = [paso EXCEPT ![c] = destino]

-----------------------------------------------------------------------------
(* h264_reconstruccion_ejecutar, around the call of the batch.              *)

\* The fields are reset and one region per row of the slice is published.
\* The player only decodes while it has not been told to abort.
Ejecutar(t, bsp) ==
  /\ lotes < MaxLotes
  /\ primero' = t[1] /\ fin' = t[2] /\ bsp_calcula' = bsp /\ lotes' = lotes + 1
  /\ fallo' = 0 /\ avance' = [y \in Filas |-> 0]
  /\ Abrir((t[2] - 1) \div Ancho - t[1] \div Ancho + 1)
  /\ abortar' = 0 /\ listos' = {} /\ resultado' = "nada"
  /\ UNCHANGED <<paso, filas, servicio>>

\* Mutation: the flag of the rows is not looked at.
VolverSinFallo ==
  /\ paso[0] = "libre" /\ servicio = "no"
  /\ Devolver
  /\ resultado' = (IF cancelado = 0 /\ abortar = 0 THEN "ok" ELSE "no")
  /\ UNCHANGED <<trozo, fallo, avance, paso, filas, servicio, abortar, listos>>

\* The batch returns to executor 0: ejecutar_lote, then !ok || r->fallo.
Volver ==
  /\ paso[0] = "libre" /\ servicio = "no"
  /\ Devolver
  /\ resultado' = (IF cancelado = 0 /\ abortar = 0 /\ fallo = 0 THEN "ok" ELSE "no")
  /\ UNCHANGED <<trozo, fallo, avance, paso, filas, servicio, abortar, listos>>

-----------------------------------------------------------------------------
(* servir_coordinador, on executor 0: between rows, where its result is     *)
(* discarded (servir_lote), and inside a row.                               *)

\* Between rows: atender finds a key of cancellation or a lost source.
ServirEntreFilas ==
  /\ abierto = 1 /\ paso[0] = "libre" /\ servicio = "no" /\ abortar = 0
  /\ abortar' = 1 /\ servicio' = "fallo"
  /\ UNCHANGED <<loteVars, trozo, fallo, avance, paso, filas, resultado, listos>>

\* Inside a row, at a column that is a multiple of Periodo.
ServirEnFila ==
  /\ paso[0] = "pedir" /\ servicio = "no"
  /\ \/ abortar = 0 /\ Ir(0, "visitar") /\ UNCHANGED <<abortar, servicio>>
     \/ abortar' = 1 /\ servicio' = "fallo" /\ UNCHANGED paso
  /\ UNCHANGED <<loteVars, trozo, fallo, avance, filas, resultado, listos>>

\* Mutation: the rows are not told, only the pool is.
CancelarSoloPool ==
  /\ servicio = "fallo"
  /\ servicio' = "lote"
  /\ UNCHANGED <<loteVars, trozo, fallo, avance, paso, filas, abortar, resultado, listos>>

\* h264_cancelar_trabajadores.
CancelarFilas ==
  /\ servicio = "fallo"
  /\ fallo' = 1 /\ servicio' = "lote"
  /\ UNCHANGED <<loteVars, trozo, avance, paso, filas, abortar, resultado, listos>>

\* trabajos_cancelar_actual; a row then stores fallo itself as well.
CancelarPool ==
  /\ servicio = "lote"
  /\ CancelarLote
  /\ servicio' = "no"
  /\ IF paso[0] = "pedir" THEN Ir(0, "fallar") ELSE UNCHANGED paso
  /\ UNCHANGED <<trozo, fallo, avance, filas, abortar, resultado, listos>>

Servicio == ServirEnFila \/ CancelarFilas \/ CancelarPool

-----------------------------------------------------------------------------
(* fila: the reconstruction of one row by executor c.                       *)

\* trabajos_tomar hands region r to executor c ...
Tomar(c, r) ==
  /\ paso[c] = "libre"
  /\ c = 0 => bsp_calcula = 1 /\ servicio = "no"
  /\ TomarRegion(r)
  /\ mia' = [mia EXCEPT ![c] = r]
  /\ Ir(c, "tomada")
  /\ UNCHANGED <<trozo, fallo, avance, x, servicio, abortar, resultado, listos>>

\* ... which enters fila unless the batch has been cancelled.
Entrar(c) ==
  /\ paso[c] = "tomada"
  /\ Empezar(mia[c])
  /\ x' = [x EXCEPT ![c] = Desde(Y(c))]
  /\ Ir(c, "columna")
  /\ UNCHANGED <<trozo, fallo, avance, mia, servicio, abortar, resultado, listos>>

Omitir(c) ==
  /\ paso[c] = "tomada"
  /\ Saltar(mia[c])
  /\ Ir(c, "libre")
  /\ UNCHANGED <<trozo, fallo, avance, filas, servicio, abortar, resultado, listos>>

\* Head of the loop over the columns of the row.
Columna(c) ==
  /\ paso[c] = "columna"
  /\ Ir(c, IF x[c] >= Hasta(Y(c)) THEN "rematar"
           ELSE IF c = 0 /\ x[c] % Periodo = 0 THEN "pedir" ELSE "visitar")
  /\ UNCHANGED <<loteVars, trozo, fallo, avance, filas, servicio, abortar, resultado, listos>>

\* The service said stop: executor 0 stores fallo.
Fallar(c) ==
  /\ paso[c] = "fallar"
  /\ fallo' = 1
  /\ Ir(c, "visitar")
  /\ UNCHANGED <<loteVars, trozo, avance, filas, servicio, abortar, resultado, listos>>

\* The type of the macroblock: only an intra one below the first row of the
\* slice waits for the row above.
Visitar(c) ==
  /\ paso[c] = "visitar"
  /\ \/ Ir(c, "comprobar")
     \/ Ir(c, IF mia[c] > 0 THEN "esperar" ELSE "comprobarIntra")
  /\ UNCHANGED <<loteVars, trozo, fallo, avance, filas, servicio, abortar, resultado, listos>>

\* Mutation: the macroblock above and to the right is forgotten.
RequeridoSinDerecha(col) == col + 1

\* Columns of the row above that an intra macroblock depends on.
Requerido(col) == IF col + 2 > Ancho THEN Ancho ELSE col + 2

\* The spin loop ends when the row above is far enough, or something failed.
Esperar(c) ==
  /\ paso[c] = "esperar"
  /\ avance[Y(c) - 1] >= Requerido(x[c]) \/ fallo = 1
  /\ Ir(c, "comprobarIntra")
  /\ UNCHANGED <<loteVars, trozo, fallo, avance, filas, servicio, abortar, resultado, listos>>

\* if (fallo) break.
Comprobar(c) ==
  /\ paso[c] \in {"comprobar", "comprobarIntra"}
  /\ Ir(c, IF fallo = 1 THEN "rematar"
           ELSE IF paso[c] = "comprobarIntra" THEN "intra" ELSE "inter")
  /\ UNCHANGED <<loteVars, trozo, fallo, avance, filas, servicio, abortar, resultado, listos>>

\* h264_compensar: an inter macroblock is predicted from the reference
\* pictures; one of its blocks may have no reference.
Compensar(c) ==
  /\ paso[c] = "inter"
  /\ Ir(c, "residuo") \/ Ir(c, "malo")
  /\ UNCHANGED <<loteVars, trozo, fallo, avance, filas, servicio, abortar, resultado, listos>>

\* h264_aplicar_residuo: an intra macroblock is predicted from its neighbours,
\* which its mode may need and not have, and the residue is added.
AplicarResiduo(c) ==
  /\ paso[c] \in {"intra", "residuo"}
  /\ \/ listos' = listos \cup {<<x[c], Y(c)>>} /\ Ir(c, "avanzar")
     \/ paso[c] = "intra" /\ Ir(c, "malo") /\ UNCHANGED listos
  /\ UNCHANGED <<loteVars, trozo, fallo, avance, filas, servicio, abortar, resultado>>

Malo(c) ==
  /\ paso[c] = "malo"
  /\ fallo' = 1
  /\ Ir(c, "avanzar")
  /\ UNCHANGED <<loteVars, trozo, avance, filas, servicio, abortar, resultado, listos>>

\* avance[y] = x + 1, after a failed macroblock too.
Avanzar(c) ==
  /\ paso[c] = "avanzar"
  /\ avance' = [avance EXCEPT ![Y(c)] = x[c] + 1]
  /\ x' = [x EXCEPT ![c] = @ + 1]
  /\ Ir(c, "columna")
  /\ UNCHANGED <<loteVars, trozo, fallo, mia, servicio, abortar, resultado, listos>>

\* avance[y] = ancho.
Rematar(c) ==
  /\ paso[c] = "rematar"
  /\ avance' = [avance EXCEPT ![Y(c)] = Ancho]
  /\ Ir(c, "salir")
  /\ UNCHANGED <<loteVars, trozo, fallo, filas, servicio, abortar, resultado, listos>>

\* fila returns and the pool counts the region.
Salir(c) ==
  /\ paso[c] = "salir"
  /\ Acabar(mia[c])
  /\ Ir(c, "libre")
  /\ UNCHANGED <<trozo, fallo, avance, filas, servicio, abortar, resultado, listos>>

Fila(c) ==
  \/ Entrar(c) \/ Omitir(c) \/ Columna(c) \/ Fallar(c) \/ Visitar(c) \/ Esperar(c)
  \/ Comprobar(c) \/ Compensar(c) \/ AplicarResiduo(c) \/ Malo(c) \/ Avanzar(c)
  \/ Rematar(c) \/ Salir(c)

-----------------------------------------------------------------------------
\* The bound on batches is reached.
Fin == abierto = 0 /\ lotes = MaxLotes /\ UNCHANGED vars

Next ==
  \/ \E t \in Trozos, bsp \in {0, 1} : (Ejecutores = 1 => bsp = 1) /\ Ejecutar(t, bsp)
  \/ Volver
  \/ ServirEntreFilas \/ Servicio
  \/ \E c \in Ejecutor : Fila(c) \/ \E r \in Indices : Tomar(c, r)
  \/ Fin

Spec == Init /\ [][Next]_vars

\* Each executor keeps running: a row goes on, a free executor asks the pool
\* for a row, and the coordinator notices that all rows are done.
Fairness ==
  /\ \A c \in Ejecutor : WF_vars(Fila(c) \/ \E r \in Indices : Tomar(c, r))
  /\ WF_vars(Servicio) /\ WF_vars(Volver)

FairSpec == Spec /\ Fairness

-----------------------------------------------------------------------------
\* Every executor is at a point of fila with a row and a column of the slice.
TypeOK ==
  /\ abierto \in {0, 1} /\ cancelado \in {0, 1} /\ n \in 0..Alto /\ PrimeraFila + n <= Alto
  /\ estado \in [Indices -> Estados]
  /\ fallo \in {0, 1} /\ abortar \in {0, 1} /\ bsp_calcula \in {0, 1}
  /\ avance \in [Filas -> 0..Ancho]
  /\ paso \in [Ejecutor -> Pasos]
  /\ mia \in [Ejecutor -> Indices] /\ x \in [Ejecutor -> 0..Ancho]
  /\ servicio \in {"no", "fallo", "lote"} /\ resultado \in {"nada", "ok", "no"}
  /\ lotes \in 0..MaxLotes
  /\ listos \subseteq Columnas \X Filas

\* An intra macroblock is predicted only when every macroblock it may read has
\* been reconstructed, those of the row above by other executors, also when
\* rows fail or are cancelled around it: the comment at the end of fila,
\* "ninguno sigue reconstruyendo".
IntraConVecinos ==
  \A c \in Ejecutor : paso[c] = "intra" => Vecinos(x[c], Y(c)) \subseteq listos

\* h264_reconstruccion_ejecutar returns 1, which marks every macroblock of the
\* slice as reconstructed, only if every one of them was.
ExitoReconstruido ==
  resultado = "ok" =>
    \A y \in PrimeraFila..UltimaFila : \A col \in DelTrozo(y) : <<col, y>> \in listos

\* Every batch returns, also when it is cancelled while a row waits for one
\* that the pool then skips, or when a macroblock fails: nobody spins forever
\* on avance.
LoteTermina == abierto = 1 ~> abierto = 0
=============================================================================
