-------------------------------- MODULE Lote --------------------------------
(***************************************************************************)
(* What trabajos_ejecutar promises to its caller, as declared in           *)
(* nucleo/base/trabajos.h: one batch at a time; regions are handed out in  *)
(* increasing order to at most Ejecutores executors; each region runs at   *)
(* most once; after a cancellation the regions not yet begun are skipped;  *)
(* the call returns when no region is in the hands of an executor.         *)
(* Trabajos implements this module and Reconstruccion is built on it.      *)
(***************************************************************************)
EXTENDS Integers, FiniteSets

CONSTANTS MaxRegiones, Ejecutores

VARIABLES
  abierto,    \* 1 while a batch is published
  n,          \* number of regions of the last batch
  cancelado,  \* 1 once it has been cancelled
  estado      \* what became of each region of the last batch

loteVars == <<abierto, n, cancelado, estado>>

Indices == 0..MaxRegiones
Estados == {"pendiente", "tomada", "corriendo", "hecha", "saltada"}

EnManos == {r \in Indices : estado[r] \in {"tomada", "corriendo"}}

LoteInit ==
  /\ abierto = 0 /\ n = 0 /\ cancelado = 0
  /\ estado = [r \in Indices |-> "pendiente"]

\* trabajos_preparar
Abrir(m) ==
  /\ abierto = 0
  /\ abierto' = 1 /\ n' = m /\ cancelado' = 0
  /\ estado' = [r \in Indices |-> "pendiente"]

\* An executor takes the lowest index that nobody has taken.
TomarRegion(r) ==
  /\ abierto = 1 /\ r < n
  /\ estado[r] = "pendiente"
  /\ \A s \in Indices : s < r => estado[s] # "pendiente"
  /\ Cardinality(EnManos) < Ejecutores
  /\ estado' = [estado EXCEPT ![r] = "tomada"]
  /\ UNCHANGED <<abierto, n, cancelado>>

Empezar(r) ==
  /\ estado[r] = "tomada" /\ cancelado = 0
  /\ estado' = [estado EXCEPT ![r] = "corriendo"]
  /\ UNCHANGED <<abierto, n, cancelado>>

Saltar(r) ==
  /\ estado[r] = "tomada" /\ cancelado = 1
  /\ estado' = [estado EXCEPT ![r] = "saltada"]
  /\ UNCHANGED <<abierto, n, cancelado>>

Acabar(r) ==
  /\ estado[r] = "corriendo"
  /\ estado' = [estado EXCEPT ![r] = "hecha"]
  /\ UNCHANGED <<abierto, n, cancelado>>

CancelarLote ==
  /\ abierto = 1
  /\ cancelado' = 1
  /\ UNCHANGED <<abierto, n, estado>>

\* trabajos_ejecutar returns !cancelado.
Devolver ==
  /\ abierto = 1
  /\ \A r \in 0..(n - 1) : estado[r] \in {"hecha", "saltada"}
  /\ abierto' = 0
  /\ UNCHANGED <<n, cancelado, estado>>

LoteNext ==
  \/ \E m \in 0..MaxRegiones : Abrir(m)
  \/ \E r \in Indices : TomarRegion(r) \/ Empezar(r) \/ Saltar(r) \/ Acabar(r)
  \/ CancelarLote \/ Devolver

LoteSpec == LoteInit /\ [][LoteNext]_loteVars
=============================================================================
