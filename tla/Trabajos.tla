------------------------------ MODULE Trabajos ------------------------------
(***************************************************************************)
(* The synchronous work pool of the kernel: the batch of                   *)
(* nucleo/base/trabajos.c and its SMP backend                              *)
(* nucleo/arquitectura/x86_64/smp.c.                                       *)
(*                                                                         *)
(* CPU 0 is the BSP, the only coordinator; CPUs 1..NCPU-1 are the          *)
(* application processors (AP) that sleep in `sti; hlt' and are woken by   *)
(* IPI 81.  Every load, store and read-modify-write that another CPU can   *)
(* observe is a step of its own.  Plain counters that nobody reads         *)
(* (ejecutados, ciclos) and the serial messages are left out.              *)
(***************************************************************************)
EXTENDS Integers, FiniteSets

CONSTANTS
  NCPU,            \* TRABAJOS_MAX_CPU of the modelled machine
  LimiteCpu,       \* limite_cpu, set from the command line by trabajos_limitar_cpu
  MaxRegiones,     \* TRABAJOS_MAX_REGIONES
  Tamanos,         \* batch sizes the callers ask for
  MaxEpoca,        \* bound: batches published in a behaviour
  TopeSiguiente,   \* largest value of the unsigned cursor lote.siguiente
  Desborda,        \* TRUE: the cursor wraps to 0 after it; FALSE: it stays there
  EsperaReposo     \* TRUE: `cpu n' is typed only once every AP has gone to sleep

ASSUME NCPUAssumption == NCPU \in Nat \ {0}
ASSUME LimiteAssumption == LimiteCpu \in 0..NCPU
ASSUME MaxRegionesAssumption == MaxRegiones \in Nat
ASSUME TamanosAssumption == Tamanos \subseteq 0..MaxRegiones
ASSUME MaxEpocaAssumption == MaxEpoca \in Nat
ASSUME TopeAssumption == TopeSiguiente \in Nat /\ TopeSiguiente >= MaxRegiones
ASSUME BanderasAssumption == Desborda \in BOOLEAN /\ EsperaReposo \in BOOLEAN

CPU == 0..(NCPU - 1)
AP == 1..(NCPU - 1)
Regiones == 0..MaxRegiones   \* one past the last index, so that an overrun is visible

VARIABLES
  pc,          \* where each CPU is
  i,           \* index obtained by each CPU from fetch_add(siguiente)
  e,           \* epoch held in a local variable by each CPU
  k,           \* loop index of the BSP over cpus[1..]
  participantes, \* local of trabajos_ejecutar
  total, siguiente, completados, cancelado, activo,     \* trabajos_lote
  epoca, parar, ocupado, cantidad, seleccion_cpu, bsp_calcula,
  vista,       \* cpus[].epoca_vista
  listo,       \* cpus[].listo
  detenido,    \* cpus[].detenido
  ipi,         \* IPI 81 latched in the local APIC of each AP
  fase,        \* progress of principal.c: what the BSP may call next
  veces,       \* history: executions of each region in the current batch
  hechas       \* history: regions counted in completados in the current batch

locales == <<pc, i, e, k, participantes>>
lote    == <<total, siguiente, completados, cancelado, activo>>
pool    == <<epoca, ocupado, vista>>
reparto == <<seleccion_cpu, bsp_calcula>>
arranque == <<cantidad, parar, listo, detenido, fase>>
historia == <<veces, hechas>>
vars == <<locales, lote, pool, reparto, arranque, ipi, historia>>

PCComun == {"tomar", "sumar", "decidir", "region", "completar"}
PCBsp == PCComun \cup
  {"libre", "campos", "publicar", "epoca", "avisar", "esperar", "servicio",
   "acuses", "cerrar", "retornar",
   "arrancar", "esperarListo", "parar", "avisarParada", "esperarDetenidos"}
PCAp == PCComun \cup
  {"apagada", "arrancando", "cli", "mirarParar", "dormida", "evaluar",
   "acusar", "parada"}
Fases == {"inicio", "autoprueba", "probado", "marcha"}

Init ==
  /\ pc = [c \in CPU |-> IF c = 0 THEN "libre" ELSE "apagada"]
  /\ i = [c \in CPU |-> 0]
  /\ e = [c \in CPU |-> 0]
  /\ k = 1 /\ participantes = 1
  /\ total = 0 /\ siguiente = 0 /\ completados = 0
  /\ cancelado = 0 /\ activo = 0
  /\ epoca = 0 /\ parar = 0 /\ ocupado = 0
  /\ cantidad = 1
  /\ seleccion_cpu = NCPU /\ bsp_calcula = 1
  /\ vista = [c \in AP |-> 0]
  /\ listo = [c \in AP |-> 0]
  /\ detenido = [c \in AP |-> 0]
  /\ ipi = [c \in AP |-> 0]
  /\ fase = "inicio"
  /\ veces = [r \in Regiones |-> 0]
  /\ hechas = {}

Ir(c, destino) == pc' = [pc EXCEPT ![c] = destino]

\* trabajos_cpu_activas
Activas == IF cantidad < seleccion_cpu THEN cantidad ELSE seleccion_cpu

-----------------------------------------------------------------------------
(* trabajos_tomar, executed by the BSP and by every participating AP.       *)

\* The AP calls it in a loop until it returns 0; the BSP calls it once.
TrasTomar(c, devuelto) ==
  IF c = 0 THEN "servicio" ELSE IF devuelto = 1 THEN "tomar" ELSE "acusar"

\* The acquire load of lote.activo.
LeerActivo(c) ==
  /\ pc[c] = "tomar"
  /\ Ir(c, IF activo = 1 THEN "sumar" ELSE TrasTomar(c, 0))
  /\ UNCHANGED <<i, e, k, participantes, lote, pool, reparto, arranque, ipi, historia>>

\* The unsigned increment of the shared cursor.
Incrementado(s) ==
  IF s < TopeSiguiente THEN s + 1 ELSE IF Desborda THEN 0 ELSE s

\* i = fetch_add(&siguiente, 1).
Sumar(c) ==
  /\ pc[c] = "sumar"
  /\ i' = [i EXCEPT ![c] = siguiente]
  /\ siguiente' = Incrementado(siguiente)
  /\ Ir(c, "decidir")
  /\ UNCHANGED <<e, k, participantes, total, completados, cancelado, activo,
                 pool, reparto, arranque, ipi, historia>>

\* Mutation: the cancellation flag is not consulted.
DecidirSinCancelar(c) ==
  /\ pc[c] = "decidir"
  /\ Ir(c, IF i[c] >= total THEN TrasTomar(c, 0) ELSE "region")
  /\ UNCHANGED <<i, e, k, participantes, lote, pool, reparto, arranque, ipi, historia>>

\* Mutation: the bound test lets one index too many through.
DecidirConUnoDeMas(c) ==
  /\ pc[c] = "decidir"
  /\ Ir(c, IF i[c] > total THEN TrasTomar(c, 0)
           ELSE IF cancelado = 1 THEN "completar" ELSE "region")
  /\ UNCHANGED <<i, e, k, participantes, lote, pool, reparto, arranque, ipi, historia>>

\* The comparison with total and the acquire load of cancelado.
Decidir(c) ==
  /\ pc[c] = "decidir"
  /\ Ir(c, IF i[c] >= total THEN TrasTomar(c, 0)
           ELSE IF cancelado = 1 THEN "completar" ELSE "region")
  /\ UNCHANGED <<i, e, k, participantes, lote, pool, reparto, arranque, ipi, historia>>

\* funcion(contexto, i, cpu); verificar, the region of the self-test, also
\* sends IPI 81 to its own CPU.
Region(c) ==
  /\ pc[c] = "region"
  /\ veces' = [veces EXCEPT ![i[c]] = @ + 1]
  /\ ipi' = IF c # 0 /\ fase = "autoprueba" THEN [ipi EXCEPT ![c] = 1] ELSE ipi
  /\ Ir(c, "completar")
  /\ UNCHANGED <<i, e, k, participantes, lote, pool, reparto, arranque, hechas>>

\* fetch_add(&completados, 1), done for a skipped region too.
Completar(c) ==
  /\ pc[c] = "completar"
  /\ completados' = completados + 1
  /\ hechas' = hechas \cup {i[c]}
  /\ Ir(c, TrasTomar(c, 1))
  /\ UNCHANGED <<i, e, k, participantes, total, siguiente, cancelado, activo,
                 pool, reparto, arranque, ipi, veces>>

Tomar(c) == LeerActivo(c) \/ Sumar(c) \/ Decidir(c) \/ Region(c) \/ Completar(c)

-----------------------------------------------------------------------------
(* smp_trabajador: the life of an AP.                                       *)

\* Initialisation of the AP up to the release store of listo.
Arranca(c) ==
  /\ pc[c] = "arrancando"
  /\ listo' = [listo EXCEPT ![c] = 1]
  /\ Ir(c, "cli")
  /\ UNCHANGED <<i, e, k, participantes, lote, pool, reparto, cantidad, parar,
                 detenido, fase, ipi, historia>>

\* cli; e = epoca.
LeerEpoca(c) ==
  /\ pc[c] = "cli"
  /\ e' = [e EXCEPT ![c] = epoca]
  /\ Ir(c, "mirarParar")
  /\ UNCHANGED <<i, k, participantes, lote, pool, reparto, arranque, ipi, historia>>

\* Mutation: the stop flag is looked at only when there is nothing to do.
MirarPararTarde(c) ==
  /\ pc[c] = "mirarParar"
  /\ Ir(c, IF e[c] # vista[c] THEN "evaluar" ELSE IF parar = 1 THEN "parada" ELSE "dormida")
  /\ detenido' = [detenido EXCEPT ![c] = IF e[c] = vista[c] THEN parar ELSE 0]
  /\ UNCHANGED <<i, e, k, participantes, lote, pool, reparto, cantidad, parar,
                 listo, fase, ipi, historia>>

\* Interrupts are still disabled: leave for good, sleep, or join the batch.
MirarParar(c) ==
  /\ pc[c] = "mirarParar"
  /\ Ir(c, IF parar = 1 THEN "parada" ELSE IF e[c] = vista[c] THEN "dormida" ELSE "evaluar")
  /\ detenido' = [detenido EXCEPT ![c] = parar]
  /\ UNCHANGED <<i, e, k, participantes, lote, pool, reparto, cantidad, parar,
                 listo, fase, ipi, historia>>

\* sti; hlt: an IPI latched while interrupts were off ends the hlt at once.
Despierta(c) ==
  /\ pc[c] = "dormida" /\ ipi[c] = 1
  /\ ipi' = [ipi EXCEPT ![c] = 0]
  /\ Ir(c, "cli")
  /\ UNCHANGED <<i, e, k, participantes, lote, pool, reparto, arranque, historia>>

\* The empty handler of IPI 81, on an AP that is running with interrupts on.
AtenderIpi(c) ==
  /\ pc[c] \in PCComun \cup {"evaluar", "acusar"} /\ ipi[c] = 1
  /\ ipi' = [ipi EXCEPT ![c] = 0]
  /\ UNCHANGED <<locales, lote, pool, reparto, arranque, historia>>

\* Reload of the TLB, then if (indice < trabajos_cpu_activas()) take regions.
Evaluar(c) ==
  /\ pc[c] = "evaluar"
  /\ Ir(c, IF c < Activas THEN "tomar" ELSE "acusar")
  /\ UNCHANGED <<i, e, k, participantes, lote, pool, reparto, arranque, ipi, historia>>

\* epoca_vista = e, a release store.
Acusar(c) ==
  /\ pc[c] = "acusar"
  /\ vista' = [vista EXCEPT ![c] = e[c]]
  /\ Ir(c, "cli")
  /\ UNCHANGED <<i, e, k, participantes, lote, epoca, ocupado, reparto, arranque,
                 ipi, historia>>

PasoAp(c) ==
  LeerEpoca(c) \/ MirarParar(c) \/ Despierta(c) \/ Evaluar(c) \/ Acusar(c) \/ Tomar(c)

-----------------------------------------------------------------------------
(* trabajos_iniciar and trabajos_parar, called by principal.c at boot.      *)

\* Entry of trabajos_iniciar: with LimiteCpu < 2, or without an SMP
\* response, an active APIC or a known topology, nothing is started.
Iniciar ==
  /\ pc[0] = "libre" /\ fase = "inicio"
  /\ \/ LimiteCpu >= 2 /\ Ir(0, "arrancar")
     \/ UNCHANGED pc
  /\ fase' = "autoprueba"
  /\ UNCHANGED <<i, e, k, participantes, lote, pool, reparto, cantidad, parar,
                 listo, detenido, ipi, historia>>

\* Publish goto_address for the next AP, or find no further physical core.
ArrancarAp ==
  /\ pc[0] = "arrancar"
  /\ \/ /\ cantidad < LimiteCpu
        /\ pc' = [pc EXCEPT ![0] = "esperarListo", ![cantidad] = "arrancando"]
     \/ Ir(0, "libre")
  /\ UNCHANGED <<i, e, k, participantes, lote, pool, reparto, arranque, ipi, historia>>

\* The wait for listo, which the 2000 ms limit may end first.
EsperarListo ==
  /\ pc[0] = "esperarListo"
  /\ \/ /\ listo[cantidad] = 1
        /\ cantidad' = cantidad + 1
        /\ Ir(0, "arrancar")
     \/ /\ listo[cantidad] = 0
        /\ Ir(0, "parar")
        /\ UNCHANGED cantidad
  /\ UNCHANGED <<i, e, k, participantes, lote, pool, reparto, parar, listo,
                 detenido, fase, ipi, historia>>

\* principal.c: after a failed self-test, or with smp=prueba.
LlamarParar ==
  /\ pc[0] = "libre" /\ fase = "probado"
  /\ Ir(0, "parar")
  /\ UNCHANGED <<i, e, k, participantes, lote, pool, reparto, arranque, ipi, historia>>

PublicarParada ==
  /\ pc[0] = "parar"
  /\ parar' = 1 /\ k' = 1
  /\ Ir(0, "avisarParada")
  /\ UNCHANGED <<i, e, participantes, lote, pool, reparto, cantidad, listo,
                 detenido, fase, ipi, historia>>

\* despertar for each started AP.
AvisarParada ==
  /\ pc[0] = "avisarParada"
  /\ IF k < cantidad
     THEN k' = k + 1 /\ ipi' = [ipi EXCEPT ![k] = 1] /\ UNCHANGED pc
     ELSE k' = 1 /\ Ir(0, "esperarDetenidos") /\ UNCHANGED ipi
  /\ UNCHANGED <<i, e, participantes, lote, pool, reparto, arranque, historia>>

EsperarDetenidos ==
  /\ pc[0] = "esperarDetenidos"
  /\ \/ /\ k < cantidad /\ detenido[k] = 1
        /\ k' = k + 1
        /\ UNCHANGED <<pc, cantidad>>
     \/ /\ k >= cantidad
        /\ cantidad' = 1
        /\ Ir(0, "libre")
        /\ UNCHANGED k
  /\ UNCHANGED <<i, e, participantes, lote, pool, reparto, parar, listo, detenido,
                 fase, ipi, historia>>

\* principal.c goes on to the terminal; the self-test is skipped without APIC.
Marchar ==
  /\ pc[0] = "libre"
  /\ fase = "probado" \/ (fase = "autoprueba" /\ cantidad = 1)
  /\ fase' = "marcha"
  /\ UNCHANGED <<locales, lote, pool, reparto, cantidad, parar, listo, detenido,
                 ipi, historia>>

-----------------------------------------------------------------------------
(* trabajos_configurar_distribucion and trabajos_ejecutar.                  *)

\* Every AP is asleep, stopped or was never heard of.
Reposo == \A c \in AP : pc[c] \in {"apagada", "arrancando", "dormida", "parada"}

\* The commands `cpu n' and `bsp coordinador|calcula' of the terminal.
Configurar(n, bsp) ==
  /\ pc[0] = "libre" /\ fase = "marcha"
  /\ EsperaReposo => Reposo
  /\ ocupado = 0 /\ n \in 1..cantidad
  /\ seleccion_cpu' = n
  /\ bsp_calcula' = (IF n = 1 THEN 1 ELSE bsp)
  /\ UNCHANGED <<locales, lote, pool, arranque, ipi, historia>>

\* Entry of trabajos_ejecutar: by trabajos_autoprueba at boot, later by the
\* player.  A call while a batch runs returns 0 and changes nothing.
Ejecutar ==
  /\ pc[0] = "libre" /\ fase \in {"autoprueba", "marcha"}
  /\ epoca < MaxEpoca
  /\ ocupado = 0
  /\ ocupado' = 1
  /\ Ir(0, "campos")
  /\ UNCHANGED <<i, e, k, participantes, lote, epoca, vista, reparto, arranque,
                 ipi, historia>>

\* The plain stores of trabajos_preparar.
PrepararCampos(n) ==
  /\ pc[0] = "campos"
  /\ total' = n /\ siguiente' = 0 /\ completados' = 0
  /\ cancelado' = 0 /\ activo' = 0
  /\ veces' = [r \in Regiones |-> 0] /\ hechas' = {}
  /\ Ir(0, "publicar")
  /\ UNCHANGED <<i, e, k, participantes, pool, reparto, arranque, ipi>>

\* Its last store: activo = 1, release.
PublicarActivo ==
  /\ pc[0] = "publicar"
  /\ activo' = 1
  /\ Ir(0, "epoca")
  /\ UNCHANGED <<i, e, k, participantes, total, siguiente, completados, cancelado,
                 pool, reparto, arranque, ipi, historia>>

\* e = ++epoca; participantes = trabajos_cpu_activas().
AvanzarEpoca ==
  /\ pc[0] = "epoca"
  /\ epoca' = epoca + 1
  /\ e' = [e EXCEPT ![0] = epoca + 1]
  /\ participantes' = Activas /\ k' = 1
  /\ Ir(0, "avisar")
  /\ UNCHANGED <<i, lote, ocupado, vista, reparto, arranque, ipi, historia>>

\* Mutation: the last participant gets no IPI.
AvisarMenosUno ==
  /\ pc[0] = "avisar"
  /\ IF k < participantes - 1
     THEN k' = k + 1 /\ ipi' = [ipi EXCEPT ![k] = 1] /\ UNCHANGED pc
     ELSE k' = k /\ Ir(0, "esperar") /\ UNCHANGED ipi
  /\ UNCHANGED <<i, e, participantes, lote, pool, reparto, arranque, historia>>

\* despertar(cpus[k].lapic) for every participant.
Avisar ==
  /\ pc[0] = "avisar"
  /\ IF k < participantes
     THEN k' = k + 1 /\ ipi' = [ipi EXCEPT ![k] = 1] /\ UNCHANGED pc
     ELSE k' = k /\ Ir(0, "esperar") /\ UNCHANGED ipi
  /\ UNCHANGED <<i, e, participantes, lote, pool, reparto, arranque, historia>>

\* while (!trabajos_terminados()): the BSP takes a region itself if it computes.
Esperar ==
  /\ pc[0] = "esperar"
  /\ IF completados = total
     THEN k' = 1 /\ Ir(0, "acuses")
     ELSE k' = k /\ Ir(0, IF bsp_calcula = 1 THEN "tomar" ELSE "servicio")
  /\ UNCHANGED <<i, e, participantes, lote, pool, reparto, arranque, ipi, historia>>

\* The coordinator's callback; what it may do to the batch is Cancelar.
Servicio ==
  /\ pc[0] = "servicio"
  /\ Ir(0, "esperar")
  /\ UNCHANGED <<i, e, k, participantes, lote, pool, reparto, arranque, ipi, historia>>

\* trabajos_cancelar_actual, from servir_coordinador: called between regions,
\* while waiting for acknowledgements, and from inside a region of executor 0.
Cancelar ==
  /\ pc[0] \in {"servicio", "region", "acuses"} /\ fase = "marcha"
  /\ ocupado = 1
  /\ cancelado' = 1
  /\ UNCHANGED <<locales, total, siguiente, completados, activo, pool, reparto,
                 arranque, ipi, historia>>

\* Mutation: the batch is closed as soon as all regions are counted.
AcusesSinEsperar ==
  /\ pc[0] = "acuses"
  /\ k' = k /\ Ir(0, "cerrar")
  /\ UNCHANGED <<i, e, participantes, lote, pool, reparto, arranque, ipi, historia>>

\* Wait until participant k has stored this epoch in epoca_vista.
Acuses ==
  /\ pc[0] = "acuses"
  /\ \/ k < participantes /\ vista[k] = e[0] /\ k' = k + 1 /\ UNCHANGED pc
     \/ k >= participantes /\ k' = k /\ Ir(0, "cerrar")
  /\ UNCHANGED <<i, e, participantes, lote, pool, reparto, arranque, ipi, historia>>

\* lote.activo = 0.
Cerrar ==
  /\ pc[0] = "cerrar"
  /\ activo' = 0
  /\ Ir(0, "retornar")
  /\ UNCHANGED <<i, e, k, participantes, total, siguiente, completados, cancelado,
                 pool, reparto, arranque, ipi, historia>>

\* ocupado = 0; return !lote.cancelado.
Retornar ==
  /\ pc[0] = "retornar"
  /\ ocupado' = 0
  /\ fase' = IF fase = "autoprueba" THEN "probado" ELSE fase
  /\ Ir(0, "libre")
  /\ UNCHANGED <<i, e, k, participantes, lote, epoca, vista, reparto, cantidad,
                 parar, listo, detenido, ipi, historia>>

PasoBsp ==
  \/ ArrancarAp \/ EsperarListo
  \/ PublicarParada \/ AvisarParada \/ EsperarDetenidos
  \/ \E n \in Tamanos : PrepararCampos(n)
  \/ PublicarActivo \/ AvanzarEpoca \/ Avisar \/ Esperar \/ Servicio \/ Acuses
  \/ Cerrar \/ Retornar \/ Tomar(0)

Llamadas ==
  \/ Iniciar \/ LlamarParar \/ Marchar \/ Ejecutar \/ Cancelar
  \/ \E n \in 0..(NCPU + 1), bsp \in {0, 1} : Configurar(n, bsp)

Next ==
  \/ PasoBsp \/ Llamadas
  \/ \E c \in AP : PasoAp(c) \/ Arranca(c) \/ AtenderIpi(c)

Spec == Init /\ [][Next]_vars

\* Every CPU keeps executing, the local APIC delivers a latched IPI to a
\* sleeping AP, and a region function returns.  Nothing makes an AP that was
\* sent to its entry point come up: Arranca is not fair.
Fairness == WF_vars(PasoBsp) /\ \A c \in AP : WF_vars(PasoAp(c))

FairSpec == Spec /\ Fairness

-----------------------------------------------------------------------------
TipoPc ==
  /\ pc \in [CPU -> PCBsp \cup PCAp] /\ pc[0] \in PCBsp
  /\ \A c \in AP : pc[c] \in PCAp

TipoDatos ==
  /\ i \in [CPU -> Nat] /\ e \in [CPU -> Nat] /\ k \in Nat /\ participantes \in 1..NCPU
  /\ total \in 0..MaxRegiones /\ siguiente \in 0..TopeSiguiente /\ completados \in Nat
  /\ cancelado \in {0, 1} /\ activo \in {0, 1}
  /\ epoca \in Nat /\ parar \in {0, 1} /\ ocupado \in {0, 1}
  /\ cantidad \in 1..NCPU /\ seleccion_cpu \in 1..NCPU
  /\ bsp_calcula \in {0, 1}
  /\ vista \in [AP -> Nat] /\ ipi \in [AP -> {0, 1}]
  /\ listo \in [AP -> {0, 1}] /\ detenido \in [AP -> {0, 1}]
  /\ fase \in Fases
  /\ veces \in [Regiones -> Nat] /\ hechas \subseteq Regiones

\* Every CPU is at a point of its own program and every variable of the pool
\* is in its range; the selection is never empty nor larger than the machine.
TypeOK == TipoPc /\ TipoDatos

\* Each region of a batch is executed at most once, by whichever CPU took its
\* index, and no index outside the batch is executed (trabajos_tomar).
UnaVez ==
  \A r \in Regiones : veces[r] <= (IF r < total THEN 1 ELSE 0)

\* CPU c is using the published batch: between the load of activo and the
\* increment of completados.
EnLote(c) == pc[c] \in {"sumar", "decidir", "region", "completar"}

\* No CPU uses the batch, and so the caller's context, once trabajos_ejecutar
\* has withdrawn it or before it is published.
SinUsoTardio ==
  pc[0] \in {"libre", "campos", "publicar", "retornar", "parar"} =>
    \A c \in CPU : ~EnLote(c)

\* trabajos_ejecutar returns 1 only if every region was executed exactly once.
ExitoCompleto ==
  pc[0] = "retornar" /\ cancelado = 0 =>
    \A r \in 0..(total - 1) : veces[r] = 1

\* Once parar is published, by a coordinated stop or because an AP missed the
\* boot deadline, no AP gets past its check again, not even one that comes up
\* after later batches have moved the epoch on.
ParadaDefinitiva ==
  \A c \in AP : pc[c] \in PCComun \cup {"evaluar", "acusar"} => parar = 0

\* Every call into the pool returns: a batch, also one that is cancelled, the
\* start of the APs, also one that times out, and the coordinated stop.
LlamadaRetorna == pc[0] # "libre" ~> pc[0] = "libre"

-----------------------------------------------------------------------------
(* The pool implements the promise of module Lote.                          *)

Lleva(r, donde) == \E c \in CPU : i[c] = r /\ pc[c] = donde

EstadoRegion(r) ==
  IF veces[r] > 1 THEN "repetida"
  ELSE IF veces[r] = 1 THEN "hecha"
  ELSE IF r >= siguiente \/ r >= total THEN "pendiente"
  ELSE IF Lleva(r, "decidir") THEN "tomada"
  ELSE IF Lleva(r, "region") THEN "corriendo"
  ELSE "saltada"

\* A batch is open from the stores of trabajos_preparar until activo is cleared.
Abierto ==
  IF pc[0] \in {"libre", "campos", "retornar", "arrancar", "esperarListo",
                "parar", "avisarParada", "esperarDetenidos"} THEN 0 ELSE 1

Estado == [r \in Regiones |-> EstadoRegion(r)]

Promesa == INSTANCE Lote WITH
  Ejecutores <- NCPU, n <- total, abierto <- Abierto, estado <- Estado

\* Every behaviour of the pool is one of the abstract batch: indices are handed
\* out in order, nothing runs twice or outside an open batch, a region is
\* skipped only after a cancellation, and the call closes the batch only when
\* no CPU holds a region.
ImplementaLote == Promesa!LoteSpec
=============================================================================
