-------------------------------- MODULE Shim --------------------------------
(***************************************************************************)
(* The Linux driver interface (compatibilidad/linux.c): locks, wait        *)
(* queues, timers, deferred work, interrupt lines, the copy of the PCI     *)
(* table and the self-test that goes through all of it. The tables are     *)
(*   s.trab    g_work_queue, emptied from its end by the flush             *)
(*   s.pend    work->pending of each work                                  *)
(*   s.timers  g_timers_activos; s.activo timer->active of each timer      *)
(*   s.irqs    g_tabla_irq_linux, [irq, activo] in the order requested     *)
(*   s.devs    g_tabla_linux_pci; s.msi the devices with MSI enabled       *)
(* Nothing calls a timer's function: the table is only kept.               *)
(* Locks and semaphores are values: a call returns the value after it.     *)
(***************************************************************************)
EXTENDS Recursos

CONSTANTS Trabajos,          \* the works a driver may schedule; one is the self-test's own, "prueba"
          MaxWork,           \* MAX_LINUX_WORK, 64
          Temporizadores,    \* the timers; "prueba" is the self-test's own
          MaxTimers,         \* MAX_LINUX_TIMERS, 32
          MaxIrqs,           \* MAX_LINUX_IRQS, 16
          MaxPciLinux        \* MAX_LINUX_PCI_DEVS, 32

ASSUME ShimAssumption ==
    /\ {MaxWork, MaxTimers, MaxIrqs, MaxPciLinux} \subseteq Nat \ {0}
    /\ "prueba" \in Trabajos /\ "prueba" \in Temporizadores

SinShim == [trab |-> <<>>, pend |-> [w \in Trabajos |-> 0], timers |-> <<>>,
            activo |-> [t \in Temporizadores |-> FALSE], irqs |-> <<>>, devs |-> <<>>, msi |-> {},
            listo |-> FALSE]

RS(ok, s, k) == [ok |-> ok, s |-> s, k |-> k]

(* linux_shim_iniciar and sincronizar_dispositivos_pci: the first devices  *)
(* of the table, with the ranges of their valid BARs.                      *)
Recurso(b) == IF b.valida THEN [ini |-> b.base, fin |-> b.base + b.tam - 1, io |-> b.io]
              ELSE [ini |-> 0, fin |-> 0, io |-> FALSE]

SincronizarPci(devs) ==
    [i \in 1 .. (IF Len(devs) < MaxPciLinux THEN Len(devs) ELSE MaxPciLinux) |->
        [ven |-> devs[i].ven, id |-> devs[i].id, clase |-> devs[i].clase,
         cmd |-> {}, rec |-> [b \in DOMAIN devs[i].barras |-> Recurso(devs[i].barras[b])]]]

ShimIniciar(s, k, devs) ==
    IF s.listo THEN RS(TRUE, s, k)
    ELSE RS(TRUE, [s EXCEPT !.devs = SincronizarPci(devs), !.listo = TRUE],
            [k EXCEPT !.ventanas = [i \in 1 .. MaxIoremap |-> SinVentana]])

(* pci_get_device and pci_get_class: the first match after `desde`. *)
SiguienteDe(s, desde, Cumple(_)) ==
    LET c == {i \in (desde + 1) .. Len(s.devs) : Cumple(s.devs[i])}
    IN  IF c = {} THEN 0 ELSE CHOOSE i \in c : \A j \in c : i <= j

GetDevice(s, ven, id, desde) == SiguienteDe(s, desde, LAMBDA d : d.ven = ven /\ d.id = id)

GetClass(s, clase, desde) == SiguienteDe(s, desde, LAMBDA d : d.clase = clase)

(* pci_resource_len: an end below the start counts as nothing. *)
ResourceLen(s, i, b) ==
    IF i = 0 \/ b \notin DOMAIN s.devs[i].rec \/ s.devs[i].rec[b].fin < s.devs[i].rec[b].ini THEN 0
    ELSE s.devs[i].rec[b].fin - s.devs[i].rec[b].ini + 1

(* pci_enable_device and pci_set_master set bits of the command register   *)
(* (cmd, the bits set through this interface).                             *)
EnableDevice(s, i) == [s EXCEPT !.devs[i].cmd = @ \cup {"io", "mem"}]

SetMaster(s, i) == [s EXCEPT !.devs[i].cmd = @ \cup {"maestro"}]

(***************************************************************************)
(* Locks, semaphores and wait queues.                                      *)
(***************************************************************************)
MutexInit == 1

MutexTrylock(m) == [ok |-> m = 1, v |-> 0]

MutexUnlock(m) == 1

SemaInit(n) == IF n >= 0 THEN n ELSE 0

DownTrylock(s) == [ok |-> s > 0, v |-> IF s > 0 THEN s - 1 ELSE s]

Up(s) == s + 1

WakeUp(q) == 1

(***************************************************************************)
(* Deferred work.                                                          *)
(***************************************************************************)
(* schedule_work: a work is marked before the queue is looked at, and the  *)
(* mark stays when the queue is full.                                      *)
ScheduleWork(s, w) ==
    CASE s.pend[w] /= 0 -> [ok |-> FALSE, s |-> s]
      [] s.pend[w] = 0 /\ Len(s.trab) < MaxWork ->
             [ok |-> TRUE, s |-> [s EXCEPT !.pend[w] = 1, !.trab = Append(@, w)]]
      [] OTHER -> [ok |-> FALSE, s |-> [s EXCEPT !.pend[w] = 1]]

(* The function of the self-test's work leaves a mark of its own. *)
Ejecutar(s, w) == IF w = "prueba" THEN [s EXCEPT !.pend[w] = 2] ELSE s

(* One turn of flush_scheduled_work: the last in is taken, its mark goes   *)
(* and its function runs with the lock released.                           *)
UnTrabajo(s) ==
    LET w == Last(s.trab) IN Ejecutar([s EXCEPT !.trab = Front(@), !.pend[w] = 0], w)

(* flush_scheduled_work when no function schedules another work. *)
FlushWork(s) == FoldLeft(LAMBDA a, w : UnTrabajo(a), s, s.trab)

(* The last element takes the place of the one removed. *)
QuitarDe(q, x) ==
    LET i == CHOOSE j \in DOMAIN q : q[j] = x
    IN  IF x \notin Range(q) THEN q ELSE SubSeq([q EXCEPT ![i] = Last(q)], 1, Len(q) - 1)

CancelWork(s, w) ==
    IF w \notin Range(s.trab) THEN s
    ELSE [s EXCEPT !.trab = QuitarDe(@, w), !.pend[w] = 0]

(***************************************************************************)
(* Timers, interrupt lines and MSI.                                        *)
(***************************************************************************)
ModTimer(s, t) ==
    [s EXCEPT !.activo[t] = TRUE,
              !.timers = IF t \in Range(@) \/ Len(@) >= MaxTimers THEN @ ELSE Append(@, t)]

DelTimer(s, t) == [s EXCEPT !.activo[t] = FALSE, !.timers = QuitarDe(@, t)]

(* request_irq and free_irq: an entry is never used again. *)
RequestIrq(s, irq) ==
    IF Len(s.irqs) >= MaxIrqs THEN [ok |-> FALSE, s |-> s]
    ELSE [ok |-> TRUE, s |-> [s EXCEPT !.irqs = Append(@, [irq |-> irq, activo |-> TRUE])]]

FreeIrq(s, irq) ==
    LET c == {i \in DOMAIN s.irqs : s.irqs[i].activo /\ s.irqs[i].irq = irq}
        i == CHOOSE x \in c : \A y \in c : x <= y
    IN  IF c = {} THEN s ELSE [s EXCEPT !.irqs[i].activo = FALSE]

(* despachador_irq_linux_bridge: every active line is called, in order. *)
Despachados(s) == LET v == SelectSeq(s.irqs, LAMBDA r : r.activo) IN [i \in DOMAIN v |-> v[i].irq]

EnableMsi(s, d) == [s EXCEPT !.msi = @ \cup {d}]

DisableMsi(s, d) == [s EXCEPT !.msi = @ \ {d}]

(***************************************************************************)
(* linux_shim_ejecutar_autodiagnostico: the exits in their order, each     *)
(* with what it has already given back.                                    *)
(***************************************************************************)
PruebasDeCerrojos ==
    LET tomado == MutexTrylock(MutexInit)
        s1 == DownTrylock(SemaInit(2))
        s2 == DownTrylock(s1.v)
    IN  /\ tomado.ok /\ ~MutexTrylock(tomado.v).ok /\ MutexTrylock(MutexUnlock(tomado.v)).ok
        /\ s1.ok /\ s2.ok /\ ~DownTrylock(s2.v).ok /\ Up(Up(s2.v)) = 2
        /\ WakeUp(0) = 1

ShimAutodiag(s, k, devs) ==
    LET msi(s1) == DisableMsi(EnableMsi(s1, "prueba"), "prueba")
        ventana(s1, r) == IF r.ok THEN RS(TRUE, msi(s1), Iounmap(r.k, r.v)) ELSE RS(FALSE, s1, r.k)
        coherente(s1, c) == IF c.ok THEN ventana(s1, Ioremap(FreeCoherent(c.k, c.v, 2).k, 0, 1)) ELSE RS(FALSE, s1, c.k)
        trabajo(s1, k1) == IF s1.pend["prueba"] /= 2 THEN RS(FALSE, s1, k1)
                           ELSE coherente(DelTimer(ModTimer(s1, "prueba"), "prueba"), AllocCoherent(k1, 2))
        listo(i) == IF ~PruebasDeCerrojos THEN i
                    ELSE trabajo(FlushWork(ScheduleWork([i.s EXCEPT !.pend["prueba"] = 0], "prueba").s), i.k)
    IN  listo(ShimIniciar(s, k, devs))
=============================================================================
