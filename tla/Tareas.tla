------------------------------- MODULE Tareas -------------------------------
(***************************************************************************)
(* The task runtime of the i915 port: cooperative scheduler, blocking      *)
(* mutex, wait queue and single-threaded workqueue of                      *)
(* nucleo/compatibilidad/linux_i915/tareas.c.                              *)
(*                                                                         *)
(* One CPU runs the tasks: a logical CPU without a first task (any but 0)  *)
(* cannot make its first switch.  A task is preempted by nobody, but       *)
(* interrupt handlers call queue_work and wake_up between any two steps;   *)
(* a section under a spinlock, taken with interrupts off, is one step.     *)
(*                                                                         *)
(* Task 0 is the context that starts the runtime.  It owns the workqueue   *)
(* and the other tasks.  What the tasks do between two calls is left to    *)
(* their authors: any legal sequence of at most MaxOps calls.              *)
(***************************************************************************)
EXTENDS Integers, SequencesExt

CONSTANTS
  MaxTareas,   \* MAX_TAREAS_I915
  Trabajos,    \* the work_structs
  MaxOps,      \* bound: calls in a behaviour
  NULL

ASSUME MaxTareasAssumption == MaxTareas \in Nat \ {0}
ASSUME MaxOpsAssumption == MaxOps \in Nat
ASSUME NullAssumption == NULL \notin Trabajos /\ NULL \notin Nat

Tarea == 0..(MaxTareas - 1)

VARIABLES
  state,       \* task_struct.state
  fn,          \* task_struct.fn, "nada" if NULL
  pila,        \* 1 if stack_base # NULL
  pc,          \* where each task is; it is the saved context of the others
  runq,        \* runqueue of the CPU
  actual,      \* g_cpu[0].actual
  count, owner, wait_list,        \* struct mutex
  head,        \* wait queue: tasks with an entry in it
  condicion,   \* the condition the waiters of that queue wait for
  wq,          \* 1 while the workqueue_struct is allocated
  running, work_list, active_jobs, pending, worker_task,   \* its fields
  data,        \* work_struct.data: the bits that are set
  work,        \* local of worker_thread_fn
  objetivo,    \* argument of the cancel_work_sync in progress
  ops,         \* calls made so far
  dentro,      \* history: tasks that have acquired the mutex and not released it
  firmes       \* history: works given to cancel_work_sync and not queued since

planif  == <<state, runq>>
tabla   == <<fn, pila>>
mutex   == <<count, owner, wait_list, dentro>>
espera  == <<head, condicion>>
cola    == <<work_list, active_jobs, pending, data, firmes>>
cicloWq == <<wq, running, worker_task>>
vars == <<planif, tabla, pc, actual, mutex, espera, cola, cicloWq, work, objetivo, ops>>

Estados == {"RUNNING", "UNINTERRUPTIBLE", "DEAD"}
Funciones == {"nada", "principal", "cliente", "worker_thread_fn"}

\* Points inside i915_schedule, and where the task goes on when it returns.
EnSchedule == {"nueva", "ceder", "lockSched", "esperaSched", "workerSched", "flushSched",
               "cancelSched", "drenarSched", "muerteSched", "terminarSched"}
PC == EnSchedule \cup
  {"nada", "libre", "func", "lock", "lockQuita", "preparar", "mirar", "finalizar",
   "workerMira", "workerAcaba", "workerAvisa", "flush", "cancel", "avisarWorker",
   "drenar", "muerte", "soltar", "perdida"}

\* Where a task is between two calls.
Base(t) == IF fn[t] = "worker_thread_fn" THEN "func" ELSE "libre"

Continua(t) ==
  CASE pc[t] = "nueva" -> IF fn[t] = "worker_thread_fn" THEN "workerMira" ELSE "libre"
    [] pc[t] = "ceder" -> Base(t)
    [] pc[t] = "lockSched" -> "lockQuita"
    [] pc[t] = "esperaSched" -> "preparar"
    [] pc[t] = "workerSched" -> "workerMira"
    [] pc[t] = "flushSched" -> "flush"
    [] pc[t] = "cancelSched" -> "cancel"
    [] pc[t] = "drenarSched" -> "drenar"
    [] pc[t] = "muerteSched" -> "muerte"
    [] OTHER -> "perdida"   \* a dead task that was resumed

\* i915_tareas_iniciar
Init ==
  /\ state = [t \in Tarea |-> IF t = 0 THEN "RUNNING" ELSE "DEAD"]
  /\ fn = [t \in Tarea |-> IF t = 0 THEN "principal" ELSE "nada"]
  /\ pila = [t \in Tarea |-> 0]
  /\ pc = [t \in Tarea |-> IF t = 0 THEN "libre" ELSE "nada"]
  /\ runq = <<>> /\ actual = 0
  /\ count = 1 /\ owner = NULL /\ wait_list = <<>>
  /\ head = <<>> /\ condicion = 0
  /\ wq = 0 /\ running = 0 /\ work_list = <<>> /\ active_jobs = 0 /\ pending = 0
  /\ worker_task = NULL
  /\ data = [w \in Trabajos |-> {}]
  /\ work = NULL /\ objetivo = NULL
  /\ ops = 0 /\ dentro = {} /\ firmes = {}

Ir(t, destino) == pc' = [pc EXCEPT ![t] = destino]

\* list_del_init of the node of t, if it is in the list.
Sin(s, t) ==
  IF Contains(s, t) THEN RemoveAt(s, CHOOSE j \in 1..Len(s) : s[j] = t) ELSE s

\* Task t makes a call from its own code.
Llama(t) == t = actual /\ pc[t] \in {"libre", "func"} /\ ops < MaxOps /\ ops' = ops + 1

-----------------------------------------------------------------------------
(* Scheduler.                                                               *)

\* i915_schedule: take the first task of the queue, or go on with this one.
\* A task that may not go on waits here (idle loop) until there is one.
Schedule(t) ==
  /\ t = actual /\ pc[t] \in EnSchedule
  /\ IF runq # <<>> /\ Head(runq) # t
     THEN /\ actual' = Head(runq)
          /\ runq' = IF state[t] = "RUNNING" /\ ~Contains(Tail(runq), t)
                     THEN Append(Tail(runq), t) ELSE Tail(runq)
          /\ pc' = [pc EXCEPT ![Head(runq)] = Continua(Head(runq))]
     ELSE /\ state[t] = "RUNNING"
          /\ runq' = Sin(runq, t)
          /\ pc' = [pc EXCEPT ![t] = Continua(t)]
          /\ UNCHANGED actual
  /\ UNCHANGED <<state, tabla, mutex, espera, cola, cicloWq, work, objetivo, ops>>

\* Mutation: the wakeup is dropped (I915_PRUEBA_SIN_WAKEUP).
DespertarNada(t) == UNCHANGED planif

\* i915_tarea_despertar
Despertar(t) ==
  IF state[t] = "UNINTERRUPTIBLE"
  THEN /\ state' = [state EXCEPT ![t] = "RUNNING"]
       /\ runq' = IF t # actual /\ ~Contains(runq, t) THEN Append(runq, t) ELSE runq
  ELSE UNCHANGED planif

\* tomar_libre: the lowest slot that is dead and has no stack.
Libres == {t \in Tarea \ {0} : state[t] = "DEAD" /\ pila[t] = 0}
Libre == CHOOSE t \in Libres : \A u \in Libres : t <= u

\* i915_tarea_crear, when there is a slot and memory for the stack.
Crear(f) ==
  /\ Libres # {}
  /\ state' = [state EXCEPT ![Libre] = "RUNNING"]
  /\ fn' = [fn EXCEPT ![Libre] = f]
  /\ pila' = [pila EXCEPT ![Libre] = 1]
  /\ pc' = [pc EXCEPT ![Libre] = "nueva"]
  /\ runq' = Append(runq, Libre)

CrearCliente ==
  /\ Llama(0)
  /\ Crear("cliente")
  /\ UNCHANGED <<actual, mutex, espera, cola, cicloWq, work, objetivo>>

\* i915_tarea_destruir, which refuses the running task.
Destruir(t) ==
  /\ ~(state[t] = "RUNNING" /\ actual = t)
  /\ runq' = Sin(runq, t)
  /\ wait_list' = Sin(wait_list, t)
  /\ pila' = [pila EXCEPT ![t] = 0]
  /\ state' = [state EXCEPT ![t] = "DEAD"]
  /\ fn' = [fn EXCEPT ![t] = "nada"]

\* Its author destroys a task that is dead, or suspended between two calls
\* as the self-test of the scheduler does: it holds no mutex, waits for none
\* and has no entry in a wait queue.
DestruirCliente(t) ==
  /\ Llama(0) /\ t # 0
  /\ fn[t] = "cliente" /\ t \notin dentro
  /\ pc[t] \in {"nueva", "ceder", "terminarSched"}
  /\ Destruir(t)
  /\ pc' = [pc EXCEPT ![t] = "nada"]
  /\ UNCHANGED <<actual, count, owner, dentro, espera, cola, cicloWq, work, objetivo>>

\* i915_tarea_ceder
Ceder(t) ==
  /\ t = actual /\ pc[t] \in {"libre", "func"}
  /\ Ir(t, "ceder")
  /\ UNCHANGED <<planif, tabla, actual, mutex, espera, cola, cicloWq, work, objetivo, ops>>

\* i915_tarea_dormir, of a task nobody else depends on meanwhile ...
Dormir(t) ==
  /\ Llama(t) /\ fn[t] # "worker_thread_fn" /\ t \notin dentro
  /\ state' = [state EXCEPT ![t] = "UNINTERRUPTIBLE"]
  /\ Ir(t, "ceder")
  /\ UNCHANGED <<runq, tabla, actual, mutex, espera, cola, cicloWq, work, objetivo>>

\* ... and i915_tarea_despertar of any task, whatever it sleeps for.
DespertarTarea(t, u) ==
  /\ Llama(t) /\ u # t
  /\ Despertar(u)
  /\ UNCHANGED <<tabla, pc, actual, mutex, espera, cola, cicloWq, work, objetivo>>

\* The function of a task returns: i915_tarea_terminar.
Terminar(t) ==
  /\ t = actual /\ fn[t] = "cliente" /\ pc[t] = "libre" /\ t \notin dentro
  /\ state' = [state EXCEPT ![t] = "DEAD"]
  /\ Ir(t, "terminarSched")
  /\ UNCHANGED <<runq, tabla, actual, mutex, espera, cola, cicloWq, work, objetivo, ops>>

-----------------------------------------------------------------------------
(* Blocking mutex.                                                          *)

PedirMutex(t) ==
  /\ Llama(t) /\ t \notin dentro
  /\ Ir(t, "lock")
  /\ UNCHANGED <<planif, tabla, actual, mutex, espera, cola, cicloWq, work, objetivo>>

\* i915_mutex_trylock
TryLock(t) ==
  /\ Llama(t) /\ t \notin dentro
  /\ IF count = 1
     THEN count' = 0 /\ owner' = t /\ dentro' = dentro \cup {t}
     ELSE UNCHANGED <<count, owner, dentro>>
  /\ UNCHANGED <<planif, tabla, pc, actual, wait_list, espera, cola, cicloWq, work, objetivo>>

\* i915_mutex_lock, the section under wait_lock: take it or get in the queue.
Lock(t) ==
  /\ t = actual /\ pc[t] = "lock"
  /\ IF count = 1
     THEN /\ count' = 0 /\ owner' = t /\ dentro' = dentro \cup {t}
          /\ Ir(t, Base(t))
          /\ UNCHANGED <<state, wait_list>>
     ELSE /\ state' = [state EXCEPT ![t] = "UNINTERRUPTIBLE"]
          /\ wait_list' = IF Contains(wait_list, t) THEN wait_list ELSE Append(wait_list, t)
          /\ Ir(t, "lockSched")
          /\ UNCHANGED <<count, owner, dentro>>
  /\ UNCHANGED <<runq, tabla, actual, espera, cola, cicloWq, work, objetivo, ops>>

\* Mutation: a task that was woken takes the mutex for granted.
LockQuitaConfiado(t) ==
  /\ t = actual /\ pc[t] = "lockQuita"
  /\ wait_list' = Sin(wait_list, t)
  /\ count' = 0 /\ owner' = t /\ dentro' = dentro \cup {t}
  /\ Ir(t, Base(t))
  /\ UNCHANGED <<planif, tabla, actual, espera, cola, cicloWq, work, objetivo, ops>>

\* After the sleep: leave the queue and try again.
LockQuita(t) ==
  /\ t = actual /\ pc[t] = "lockQuita"
  /\ wait_list' = Sin(wait_list, t)
  /\ Ir(t, "lock")
  /\ UNCHANGED <<planif, tabla, actual, count, owner, dentro, espera, cola, cicloWq, work,
                 objetivo, ops>>

\* i915_mutex_unlock
Unlock(t) ==
  /\ t = actual /\ pc[t] \in {"libre", "func"} /\ t \in dentro
  /\ count' = 1 /\ owner' = NULL /\ dentro' = dentro \ {t}
  /\ IF wait_list # <<>>
     THEN wait_list' = Tail(wait_list) /\ Despertar(Head(wait_list))
     ELSE UNCHANGED <<wait_list, planif>>
  /\ UNCHANGED <<tabla, pc, actual, espera, cola, cicloWq, work, objetivo, ops>>

-----------------------------------------------------------------------------
(* Wait queue: the tests' usage, which tareas.h calls `registro previo':    *)
(* enter the queue, look at the condition, sleep, and finish_wait once it   *)
(* holds.  Here the waiter then takes the event.                            *)

Esperar(t) ==
  /\ Llama(t) /\ fn[t] # "worker_thread_fn" /\ t \notin dentro
  /\ Ir(t, "preparar")
  /\ UNCHANGED <<planif, tabla, actual, mutex, espera, cola, cicloWq, work, objetivo>>

\* i915_prepare_to_wait
Preparar(t) ==
  /\ t = actual /\ pc[t] = "preparar"
  /\ head' = IF Contains(head, t) THEN head ELSE Append(head, t)
  /\ state' = [state EXCEPT ![t] = "UNINTERRUPTIBLE"]
  /\ Ir(t, "mirar")
  /\ UNCHANGED <<runq, tabla, actual, mutex, condicion, cola, cicloWq, work, objetivo, ops>>

\* The condition is looked at after entering the queue.
Mirar(t) ==
  /\ t = actual /\ pc[t] = "mirar"
  /\ Ir(t, IF condicion = 1 THEN "finalizar" ELSE "esperaSched")
  /\ UNCHANGED <<planif, tabla, actual, mutex, espera, cola, cicloWq, work, objetivo, ops>>

\* i915_finish_wait
Finalizar(t) ==
  /\ t = actual /\ pc[t] = "finalizar"
  /\ head' = Sin(head, t)
  /\ state' = [state EXCEPT ![t] = "RUNNING"]
  /\ condicion' = 0
  /\ Ir(t, Base(t))
  /\ UNCHANGED <<runq, tabla, actual, mutex, cola, cicloWq, work, objetivo, ops>>

\* i915_wake_up, after making the condition true.
WakeUp ==
  /\ condicion' = 1
  /\ IF head # <<>>
     THEN head' = Tail(head) /\ Despertar(Head(head))
     ELSE UNCHANGED <<head, planif>>

\* i915_wake_up_all: every entry leaves the list and its task is woken; those
\* that must be queued go to the end of runq in the order of the list.
WakeUpAll ==
  LET duermen == {j \in 1..Len(head) : state[head[j]] = "UNINTERRUPTIBLE"}
      entran  == {j \in duermen : head[j] # actual /\ ~Contains(runq, head[j])}
  IN  /\ condicion' = 1 /\ head' = <<>>
      /\ state' = [t \in Tarea |-> IF \E j \in duermen : head[j] = t THEN "RUNNING" ELSE state[t]]
      /\ \E orden \in [1..Cardinality(entran) -> entran] :
           /\ \A a, b \in DOMAIN orden : a < b => orden[a] < orden[b]
           /\ \A j \in entran : \E a \in DOMAIN orden : orden[a] = j
           /\ runq' = runq \o [a \in DOMAIN orden |-> head[orden[a]]]

WakeUpTarea(t) ==
  /\ Llama(t)
  /\ WakeUp \/ WakeUpAll
  /\ UNCHANGED <<tabla, pc, actual, mutex, cola, cicloWq, work, objetivo>>

-----------------------------------------------------------------------------
(* Workqueue.                                                               *)

\* i915_queue_work: refused while the queue is being destroyed and for a work
\* that is already queued.
QueueWork(w) ==
  /\ wq = 1
  /\ IF running = 0 \/ "PENDING" \in data[w]
     THEN UNCHANGED <<planif, cola>>
     ELSE /\ data' = [data EXCEPT ![w] = @ \cup {"PENDING"}]
          /\ work_list' = Append(work_list, w)
          /\ pending' = pending + 1 /\ active_jobs' = active_jobs + 1
          /\ firmes' = firmes \ {w}
          /\ Despertar(worker_task)

QueueWorkTarea(t, w) ==
  /\ Llama(t)
  /\ QueueWork(w)
  /\ UNCHANGED <<tabla, pc, actual, mutex, espera, cicloWq, work, objetivo>>

\* worker_thread_fn under wq->lock: take a work, end, or go to sleep.  The
\* state is set and the queue looked at again under the same lock.
WorkerMira(t) ==
  /\ t = actual /\ pc[t] = "workerMira"
  /\ IF work_list # <<>>
     THEN /\ work' = Head(work_list) /\ work_list' = Tail(work_list)
          /\ data' = [data EXCEPT ![Head(work_list)] = {"RUNNING"}]
          /\ pending' = pending - 1
          /\ Ir(t, "func")
          /\ UNCHANGED state
     ELSE /\ state' = [state EXCEPT ![t] = IF running = 0 THEN "DEAD" ELSE "UNINTERRUPTIBLE"]
          /\ Ir(t, IF running = 0 THEN "terminarSched" ELSE "workerSched")
          /\ UNCHANGED <<work, work_list, data, pending>>
  /\ UNCHANGED <<runq, tabla, actual, mutex, espera, active_jobs, firmes, cicloWq,
                 objetivo, ops>>

\* work->func(work) returns; in between the worker makes any of the calls.
FuncVuelve(t) ==
  /\ t = actual /\ pc[t] = "func" /\ t \notin dentro
  /\ Ir(t, "workerAcaba")
  /\ UNCHANGED <<planif, tabla, actual, mutex, espera, cola, cicloWq, work, objetivo, ops>>

\* Mutation: both bits are cleared, as before the correction of tareas.c:472.
WorkerAcabaBorrando(t) ==
  /\ t = actual /\ pc[t] = "workerAcaba"
  /\ data' = [data EXCEPT ![work] = {}]
  /\ active_jobs' = active_jobs - 1
  /\ work' = NULL
  /\ Ir(t, "workerAvisa")
  /\ UNCHANGED <<planif, tabla, actual, mutex, espera, work_list, pending, firmes,
                 cicloWq, objetivo, ops>>

\* Only RUNNING is cleared: the work may have been queued again meanwhile.
WorkerAcaba(t) ==
  /\ t = actual /\ pc[t] = "workerAcaba"
  /\ data' = [data EXCEPT ![work] = @ \ {"RUNNING"}]
  /\ active_jobs' = active_jobs - 1
  /\ work' = NULL
  /\ Ir(t, "workerAvisa")
  /\ UNCHANGED <<planif, tabla, actual, mutex, espera, work_list, pending, firmes,
                 cicloWq, objetivo, ops>>

\* i915_wake_up_all(&wq->wait_idle), on which nobody waits.
WorkerAvisa(t) ==
  /\ t = actual /\ pc[t] = "workerAvisa"
  /\ Ir(t, "workerMira")
  /\ UNCHANGED <<planif, tabla, actual, mutex, espera, cola, cicloWq, work, objetivo, ops>>

\* i915_create_singlethread_workqueue
CreateWorkqueue ==
  /\ Llama(0) /\ wq = 0
  /\ Crear("worker_thread_fn")
  /\ wq' = 1 /\ running' = 1 /\ worker_task' = Libre
  /\ work_list' = <<>> /\ active_jobs' = 0 /\ pending' = 0
  /\ UNCHANGED <<actual, mutex, espera, data, firmes, work, objetivo>>

\* i915_flush_workqueue
Flush ==
  /\ Llama(0) /\ wq = 1 /\ 0 \notin dentro
  /\ Ir(0, "flush")
  /\ UNCHANGED <<planif, tabla, actual, mutex, espera, cola, cicloWq, work, objetivo>>

EsperarTrabajos(desde, cede, sigue) ==
  /\ actual = 0 /\ pc[0] = desde
  /\ Ir(0, IF active_jobs > 0 THEN cede ELSE sigue)
  /\ UNCHANGED <<planif, tabla, actual, mutex, espera, cola, cicloWq, work, objetivo, ops>>

FlushEspera == EsperarTrabajos("flush", "flushSched", "libre")

\* i915_cancel_work_sync: take the work out of the queue, keeping RUNNING ...
CancelWorkSync(w) ==
  /\ Llama(0) /\ wq = 1 /\ 0 \notin dentro
  /\ IF "PENDING" \in data[w]
     THEN /\ work_list' = Sin(work_list, w)
          /\ data' = [data EXCEPT ![w] = @ \ {"PENDING"}]
          /\ pending' = pending - 1 /\ active_jobs' = active_jobs - 1
     ELSE UNCHANGED <<work_list, data, pending, active_jobs>>
  /\ objetivo' = w /\ firmes' = firmes \cup {w}
  /\ Ir(0, "cancel")
  /\ UNCHANGED <<planif, tabla, actual, mutex, espera, cicloWq, work>>

\* Mutation: the execution in progress is not waited for.
CancelEsperaNada ==
  /\ actual = 0 /\ pc[0] = "cancel"
  /\ Ir(0, "libre") /\ objetivo' = NULL
  /\ UNCHANGED <<planif, tabla, actual, mutex, espera, cola, cicloWq, work, ops>>

\* ... and wait for the execution in progress.
CancelEspera ==
  /\ actual = 0 /\ pc[0] = "cancel"
  /\ IF "RUNNING" \in data[objetivo]
     THEN Ir(0, "cancelSched") /\ UNCHANGED objetivo
     ELSE Ir(0, "libre") /\ objetivo' = NULL
  /\ UNCHANGED <<planif, tabla, actual, mutex, espera, cola, cicloWq, work, ops>>

\* i915_destroy_workqueue: refuse new works ...
DestroyWorkqueue ==
  /\ Llama(0) /\ wq = 1 /\ 0 \notin dentro
  /\ running' = 0
  /\ Ir(0, "avisarWorker")
  /\ UNCHANGED <<planif, tabla, actual, mutex, espera, cola, wq, worker_task, work, objetivo>>

\* Mutation: the worker is not woken.
AvisarWorkerNunca ==
  /\ actual = 0 /\ pc[0] = "avisarWorker"
  /\ Ir(0, "drenar")
  /\ UNCHANGED <<planif, tabla, actual, mutex, espera, cola, cicloWq, work, objetivo, ops>>

\* Mutation: the queue is freed at once.
AvisarWorkerSinEsperar ==
  /\ actual = 0 /\ pc[0] = "avisarWorker"
  /\ Despertar(worker_task)
  /\ Ir(0, "soltar")
  /\ UNCHANGED <<tabla, actual, mutex, espera, cola, cicloWq, work, objetivo, ops>>

\* ... wake the worker, wait for the works ...
AvisarWorker ==
  /\ actual = 0 /\ pc[0] = "avisarWorker"
  /\ Despertar(worker_task)
  /\ Ir(0, "drenar")
  /\ UNCHANGED <<tabla, actual, mutex, espera, cola, cicloWq, work, objetivo, ops>>

Drenar == EsperarTrabajos("drenar", "drenarSched", "muerte")

\* ... and for the death of the worker ...
EsperarMuerte ==
  /\ actual = 0 /\ pc[0] = "muerte"
  /\ Ir(0, IF state[worker_task] = "DEAD" THEN "soltar" ELSE "muerteSched")
  /\ UNCHANGED <<planif, tabla, actual, mutex, espera, cola, cicloWq, work, objetivo, ops>>

\* ... free its stack and the queue.
Soltar ==
  /\ actual = 0 /\ pc[0] = "soltar"
  /\ Destruir(worker_task)
  /\ wq' = 0 /\ worker_task' = NULL
  /\ Ir(0, "libre")
  /\ UNCHANGED <<actual, count, owner, dentro, espera, cola, running, work, objetivo, ops>>

-----------------------------------------------------------------------------
(* Interrupt handlers of a driver that uses the runtime.                    *)

IrqQueueWork(w) ==
  /\ ops < MaxOps /\ ops' = ops + 1
  /\ QueueWork(w)
  /\ UNCHANGED <<tabla, pc, actual, mutex, espera, cicloWq, work, objetivo>>

IrqWakeUp ==
  /\ WakeUp \/ WakeUpAll
  /\ UNCHANGED <<tabla, pc, actual, mutex, cola, cicloWq, work, objetivo, ops>>

-----------------------------------------------------------------------------
\* What the CPU goes on to do by itself.
Paso ==
  \/ \E t \in Tarea :
       \/ Schedule(t) \/ Lock(t) \/ LockQuita(t) \/ Preparar(t) \/ Mirar(t) \/ Finalizar(t)
       \/ WorkerMira(t) \/ FuncVuelve(t) \/ WorkerAcaba(t) \/ WorkerAvisa(t)
  \/ FlushEspera \/ CancelEspera \/ AvisarWorker \/ Drenar \/ EsperarMuerte \/ Soltar

\* What the authors of the tasks decide.
Llamadas ==
  \/ CrearCliente \/ CreateWorkqueue \/ Flush \/ DestroyWorkqueue
  \/ \E w \in Trabajos : CancelWorkSync(w)
  \/ \E t \in Tarea :
       \/ DestruirCliente(t) \/ Ceder(t) \/ Terminar(t)
       \/ Dormir(t) \/ \E u \in Tarea : DespertarTarea(t, u)
       \/ PedirMutex(t) \/ TryLock(t) \/ Unlock(t)
       \/ Esperar(t) \/ WakeUpTarea(t)
       \/ \E w \in Trabajos : QueueWorkTarea(t, w)

Irq == IrqWakeUp \/ \E w \in Trabajos : IrqQueueWork(w)

Next == Paso \/ Llamadas \/ Irq

Spec == Init /\ [][Next]_vars

\* The CPU keeps executing.  Of the functions the tasks run it is assumed
\* that they yield, release the mutex and return, even if they are suspended
\* in between; of the first task and of the interrupts, nothing.
Fairness ==
  /\ WF_vars(Paso)
  /\ \A t \in Tarea \ {0} : WF_vars(Ceder(t)) /\ SF_vars(Unlock(t)) /\ SF_vars(FuncVuelve(t))

FairSpec == Spec /\ Fairness

-----------------------------------------------------------------------------
\* Every field is in its range; the counters of the workqueue are not negative.
TypeOK ==
  /\ state \in [Tarea -> Estados] /\ fn \in [Tarea -> Funciones] /\ pila \in [Tarea -> {0, 1}]
  /\ pc \in [Tarea -> PC] /\ runq \in Seq(Tarea) /\ actual \in Tarea
  /\ count \in {0, 1} /\ owner \in Tarea \cup {NULL} /\ wait_list \in Seq(Tarea)
  /\ head \in Seq(Tarea) /\ condicion \in {0, 1}
  /\ wq \in {0, 1} /\ running \in {0, 1} /\ work_list \in Seq(Trabajos)
  /\ active_jobs \in Nat /\ pending \in Nat
  /\ worker_task \in Tarea \cup {NULL}
  /\ data \in [Trabajos -> SUBSET {"PENDING", "RUNNING"}]
  /\ work \in Trabajos \cup {NULL} /\ objetivo \in Trabajos \cup {NULL}
  /\ ops \in 0..MaxOps /\ dentro \subseteq Tarea /\ firmes \subseteq Trabajos

\* The run queue holds exactly the tasks that may run and are not running,
\* each once, and a dead task never gets the CPU back (i915_schedule,
\* i915_tarea_despertar, i915_tarea_terminar: "nunca deberia volver").
ColaExacta ==
  /\ IsInjective(runq)
  /\ \A t \in Tarea : Contains(runq, t) <=> t # actual /\ state[t] = "RUNNING"
  /\ \A t \in Tarea : pc[t] # "perdida"

\* At most one task is inside the mutex and it is the owner, whoever is woken,
\* woken for another reason, or comes first after an unlock.
ExclusionMutex ==
  /\ \A t \in dentro : owner = t
  /\ (count = 0) <=> (owner # NULL)

Durmiendo(t, donde) == pc[t] = donde /\ state[t] = "UNINTERRUPTIBLE"

MutexAtendido ==
  (\E t \in Tarea : Durmiendo(t, "lockSched")) /\ count = 1 =>
    \E u \in Tarea : pc[u] \in {"lock", "lockSched", "lockQuita"} /\ state[u] = "RUNNING"

EsperaAtendida ==
  (\E t \in Tarea : Durmiendo(t, "esperaSched")) /\ condicion = 1 =>
    \E u \in Tarea : \/ pc[u] \in {"preparar", "mirar", "finalizar"}
                     \/ pc[u] = "esperaSched" /\ state[u] = "RUNNING"

WorkerAtendido ==
  wq = 1 /\ Durmiendo(worker_task, "workerSched") =>
    work_list = <<>> /\ (running = 1 \/ pc[0] = "avisarWorker")

\* No wakeup is lost: nobody sleeps for a mutex that is free, for a condition
\* that holds or for a queue that has works (or must end) unless another task
\* that is awake is about to take it.
NadieOlvidado == MutexAtendido /\ EsperaAtendida /\ WorkerAtendido

\* The counters and bits of the workqueue agree with what is queued and
\* running, also when a work queues itself again or is cancelled while running.
CuentasExactas ==
  wq = 1 =>
    /\ pending = Len(work_list)
    /\ active_jobs = pending + (IF work = NULL THEN 0 ELSE 1)
    /\ IsInjective(work_list)
    /\ \A w \in Trabajos : /\ "PENDING" \in data[w] <=> Contains(work_list, w)
                           /\ "RUNNING" \in data[w] <=> work = w

\* destroy_workqueue drains the queue: once it is freed no work is queued or
\* half run and no live task is in the worker's loop; and a stack that has
\* been freed belongs to a task that no queue can bring back.
DestruccionLimpia ==
  /\ wq = 0 => /\ work = NULL
               /\ \A w \in Trabajos : data[w] = {}
               /\ \A t \in Tarea : fn[t] = "worker_thread_fn" => state[t] = "DEAD"
  /\ \A t \in Tarea \ {0} : pila[t] = 0 =>
       t # actual /\ ~Contains(runq, t) /\ ~Contains(wait_list, t) /\ ~Contains(head, t)

\* flush_workqueue, cancel_work_sync and destroy_workqueue return.
LlamadaVuelve == pc[0] \in {"flush", "cancel", "avisarWorker"} ~> pc[0] = "libre"

\* cancel_work_sync: once it has returned, the work is neither queued nor
\* running, unless somebody has queued it since the call began; its own
\* function may, during the wait (tareas.c:546).
CancelacionFirme == \A w \in firmes : objetivo # w => data[w] = {}
=============================================================================
