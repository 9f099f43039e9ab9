---------------------------- MODULE TareasProof -----------------------------
(***************************************************************************)
(* Proofs about the task runtime of module Tareas, for any number of tasks *)
(* and works: the queues hold exactly what they should, the mutex excludes,*)
(* no wakeup is lost, the counters of the workqueue are exact and its      *)
(* destruction leaves nothing behind.                                      *)
(***************************************************************************)
EXTENDS Tareas, SequenceTheorems, FiniteSetTheorems, WellFoundedInduction, TLAPS

USE MaxTareasAssumption, MaxOpsAssumption, NullAssumption

-----------------------------------------------------------------------------
(* Lists without repetitions: what the list operations do to the set of     *)
(* their elements.                                                          *)

LEMMA ListaVacia ==
  ASSUME NEW S
  PROVE  <<>> \in Seq(S) /\ IsInjective(<<>>) /\ (\A u : ~Contains(<<>>, u))
BY DEF Contains, IsInjective

LEMMA ListaAlFinal ==
  ASSUME NEW S, NEW s \in Seq(S), NEW x \in S
  PROVE  /\ Append(s, x) \in Seq(S) /\ Len(Append(s, x)) = Len(s) + 1
         /\ \A u : Contains(Append(s, x), u) <=> Contains(s, u) \/ u = x
         /\ IsInjective(s) /\ ~Contains(s, x) => IsInjective(Append(s, x))
<1> DEFINE a == Append(s, x)
<1>1. /\ Len(s) \in Nat /\ a \in Seq(S) /\ Len(a) = Len(s) + 1
      /\ \A j \in 1..Len(s) : a[j] = s[j]
      /\ a[Len(s) + 1] = x /\ DOMAIN a = 1..(Len(s) + 1) /\ DOMAIN s = 1..Len(s)
  OBVIOUS
<1> HIDE DEF a
<1>2. \A u : Contains(a, u) <=> Contains(s, u) \/ u = x BY <1>1 DEF Contains
<1>3. ASSUME IsInjective(s), ~Contains(s, x) PROVE IsInjective(a)
  BY <1>1, <1>3 DEF Contains, IsInjective
<1> QED BY <1>1, <1>2, <1>3 DEF a

LEMMA ListaPrimero ==
  ASSUME NEW S, NEW s \in Seq(S), s # <<>>
  PROVE  /\ Head(s) \in S /\ Tail(s) \in Seq(S) /\ Len(Tail(s)) = Len(s) - 1
         /\ \A u : Contains(s, u) <=> Contains(Tail(s), u) \/ u = Head(s)
         /\ IsInjective(s) => IsInjective(Tail(s)) /\ ~Contains(Tail(s), Head(s))
<1> DEFINE a == Tail(s)
<1>1. /\ Len(s) \in Nat \ {0} /\ a \in Seq(S) /\ Len(a) = Len(s) - 1 /\ Head(s) \in S
      /\ \A j \in 1..(Len(s) - 1) : a[j] = s[j + 1]
      /\ Head(s) = s[1] /\ DOMAIN a = 1..(Len(s) - 1) /\ DOMAIN s = 1..Len(s)
  OBVIOUS
<1> HIDE DEF a
<1>2. ASSUME NEW u PROVE Contains(s, u) <=> Contains(a, u) \/ u = Head(s)
  <2>1. ASSUME Contains(s, u) PROVE Contains(a, u) \/ u = Head(s)
    <3>1. PICK j \in 1..Len(s) : s[j] = u BY <2>1 DEF Contains
    <3>2. CASE j = 1 BY <1>1, <3>1, <3>2
    <3>3. CASE j # 1
      <4>1. j - 1 \in 1..Len(a) /\ a[j - 1] = s[j - 1 + 1] /\ j - 1 + 1 = j BY <1>1, <3>3
      <4> QED BY <3>1, <4>1 DEF Contains
    <3> QED BY <3>2, <3>3
  <2>2. ASSUME Contains(a, u) PROVE Contains(s, u) BY <1>1, <2>2 DEF Contains
  <2>3. ASSUME u = Head(s) PROVE Contains(s, u) BY <1>1, <2>3 DEF Contains
  <2> QED BY <2>1, <2>2, <2>3
<1>3. ASSUME IsInjective(s) PROVE IsInjective(a) /\ ~Contains(a, Head(s))
  <2>1. \A m, n \in 1..Len(s) : s[m] = s[n] => m = n BY <1>1, <1>3 DEF IsInjective
  <2>2. ASSUME NEW m \in 1..(Len(s) - 1), NEW n \in 1..(Len(s) - 1), a[m] = a[n] PROVE m = n
    <3>1. m + 1 \in 1..Len(s) /\ n + 1 \in 1..Len(s) /\ s[m + 1] = s[n + 1] BY <1>1, <2>2
    <3>2. m + 1 = n + 1 BY <2>1, <3>1
    <3> QED BY <3>2
  <2>3. ASSUME NEW m \in 1..(Len(s) - 1), a[m] = Head(s) PROVE FALSE
    <3>1. m + 1 \in 1..Len(s) /\ 1 \in 1..Len(s) /\ s[m + 1] = s[1] BY <1>1, <2>3
    <3>2. m + 1 = 1 BY <2>1, <3>1
    <3> QED BY <3>2
  <2> QED BY <1>1, <2>2, <2>3 DEF Contains, IsInjective
<1> QED BY <1>1, <1>2, <1>3 DEF a

LEMMA ListaSin ==
  ASSUME NEW S, NEW s \in Seq(S), NEW x, IsInjective(s)
  PROVE  /\ Sin(s, x) \in Seq(S) /\ IsInjective(Sin(s, x))
         /\ \A u : Contains(Sin(s, x), u) <=> Contains(s, u) /\ u # x
         /\ Contains(s, x) => Len(Sin(s, x)) = Len(s) - 1
         /\ ~Contains(s, x) => Sin(s, x) = s
<1>1. CASE ~Contains(s, x) BY <1>1 DEF Sin
<1>2. CASE Contains(s, x)
  <2> DEFINE j == CHOOSE n \in 1..Len(s) : s[n] = x
             a == Sin(s, x)
  <2>1. j \in 1..Len(s) /\ s[j] = x BY <1>2 DEF Contains
  <2>2. a = SubSeq(s, 1, j - 1) \o SubSeq(s, j + 1, Len(s)) BY <1>2 DEF Sin, RemoveAt
  <2> HIDE DEF j, a
  <2>3. Len(s) \in Nat /\ DOMAIN s = 1..Len(s) /\ \A n \in 1..Len(s) : s[n] \in S OBVIOUS
  <2> DEFINE p == SubSeq(s, 1, j - 1)
             q == SubSeq(s, j + 1, Len(s))
  <2>4. p \in Seq(S) /\ Len(p) = j - 1 /\ \A n \in 1..(j - 1) : p[n] = s[n]
    BY <2>1, <2>3, SubSeqProperties
  <2>5. q \in Seq(S) /\ Len(q) = Len(s) - j /\ \A n \in 1..(Len(s) - j) : q[n] = s[j + n]
    <3>1. q \in Seq(S) /\ Len(q) = (IF j + 1 <= Len(s) THEN Len(s) - (j + 1) + 1 ELSE 0)
          /\ \A n \in 1..(Len(s) - (j + 1) + 1) : q[n] = s[j + 1 + n - 1]
      BY <2>1, <2>3, SubSeqProperties
    <3>2. ASSUME NEW n \in 1..(Len(s) - j) PROVE q[n] = s[j + n]
      <4>1. n \in 1..(Len(s) - (j + 1) + 1) /\ j + 1 + n - 1 = j + n BY <2>1, <2>3
      <4> QED BY <3>1, <4>1
    <3> QED BY <2>1, <2>3, <3>1, <3>2
  <2> HIDE DEF p, q
  <2>6. /\ a \in Seq(S) /\ Len(a) = Len(s) - 1 /\ DOMAIN a = 1..(Len(s) - 1)
        /\ \A n \in 1..(Len(s) - 1) : a[n] = IF n < j THEN s[n] ELSE s[n + 1]
    <3>1. a = p \o q BY <2>2 DEF p, q
    <3>2. a \in Seq(S) /\ Len(a) = Len(p) + Len(q)
          /\ \A n \in 1..(Len(p) + Len(q)) : a[n] = IF n <= Len(p) THEN p[n] ELSE q[n - Len(p)]
      BY <2>4, <2>5, <3>1, ConcatProperties
    <3>3. Len(p) + Len(q) = Len(s) - 1 BY <2>1, <2>3, <2>4, <2>5
    <3>4. ASSUME NEW n \in 1..(Len(s) - 1), n < j PROVE a[n] = s[n]
      <4>1. n \in 1..(Len(p) + Len(q)) /\ n <= Len(p) /\ n \in 1..(j - 1)
        BY <2>1, <2>3, <2>4, <3>3, <3>4
      <4> QED BY <2>4, <3>2, <4>1
    <3>5. ASSUME NEW n \in 1..(Len(s) - 1), n >= j PROVE a[n] = s[n + 1]
      <4>1. a[n] = q[n - (j - 1)] BY <2>1, <2>3, <2>4, <3>2, <3>3, <3>5
      <4>2. n - (j - 1) \in 1..(Len(s) - j) /\ j + (n - (j - 1)) = n + 1 BY <2>1, <2>3, <3>5
      <4> QED BY <2>5, <4>1, <4>2
    <3>6. Len(a) = Len(s) - 1 /\ DOMAIN a = 1..(Len(s) - 1) BY <3>2, <3>3
    <3>7. ASSUME NEW n \in 1..(Len(s) - 1) PROVE a[n] = IF n < j THEN s[n] ELSE s[n + 1]
      BY <2>1, <2>3, <3>4, <3>5
    <3> QED BY <3>2, <3>6, <3>7
  <2>7. IsInjective(a)
    <3>1. SUFFICES ASSUME NEW m \in 1..(Len(s) - 1), NEW n \in 1..(Len(s) - 1), a[m] = a[n]
                   PROVE  m = n
      BY <2>6 DEF IsInjective
    <3> DEFINE f(z) == IF z < j THEN z ELSE z + 1
    <3>2. f(m) \in 1..Len(s) /\ f(n) \in 1..Len(s) /\ s[f(m)] = s[f(n)]
      BY <2>1, <2>3, <2>6, <3>1
    <3>3. f(m) = f(n) BY <2>3, <3>2 DEF IsInjective
    <3> QED BY <2>1, <2>3, <3>3
  <2>8. ASSUME NEW u, Contains(a, u) PROVE Contains(s, u) /\ u # x
    <3>1. PICK n \in 1..(Len(s) - 1) : a[n] = u BY <2>6, <2>8 DEF Contains
    <3>2. PICK m \in 1..Len(s) : m # j /\ s[m] = u BY <2>1, <2>3, <2>6, <3>1
    <3> QED BY <2>1, <2>3, <3>2 DEF Contains, IsInjective
  <2>9. ASSUME NEW u, Contains(s, u), u # x PROVE Contains(a, u)
    <3>1. PICK n \in 1..Len(s) : s[n] = u BY <2>9 DEF Contains
    <3>2. CASE n < j BY <2>1, <2>3, <2>6, <3>1, <3>2 DEF Contains
    <3>3. CASE n > j
      <4>1. n - 1 \in 1..(Len(s) - 1) /\ ~(n - 1 < j) /\ n - 1 + 1 = n BY <2>1, <2>3, <3>3
      <4>2. a[n - 1] = u BY <2>6, <3>1, <4>1
      <4> QED BY <2>6, <4>1, <4>2 DEF Contains
    <3> QED BY <2>1, <2>3, <2>9, <3>1, <3>2, <3>3
  <2> QED BY <1>2, <2>6, <2>7, <2>8, <2>9 DEF a
<1> QED BY <1>1, <1>2

LEMMA ListaUnida ==
  ASSUME NEW S, NEW s \in Seq(S), NEW q \in Seq(S), IsInjective(s), IsInjective(q),
         \A u : Contains(q, u) => ~Contains(s, u)
  PROVE  /\ s \o q \in Seq(S) /\ IsInjective(s \o q)
         /\ \A u : Contains(s \o q, u) <=> Contains(s, u) \/ Contains(q, u)
<1> DEFINE r == s \o q
           m == Len(s)
           n == Len(q)
<1>1. m \in Nat /\ n \in Nat /\ DOMAIN s = 1..m /\ DOMAIN q = 1..n OBVIOUS
<1>2. /\ r \in Seq(S) /\ Len(r) = m + n /\ DOMAIN r = 1..(m + n)
      /\ \A a \in 1..(m + n) : r[a] = IF a <= m THEN s[a] ELSE q[a - m]
  BY ConcatProperties
<1>3. \A u : Contains(s, u) <=> \E a \in 1..m : s[a] = u BY DEF Contains
<1>4. \A u : Contains(q, u) <=> \E a \in 1..n : q[a] = u BY DEF Contains
<1>5. \A u : Contains(r, u) <=> \E a \in 1..(m + n) : r[a] = u BY <1>2 DEF Contains
<1>6. \A a, b \in 1..m : s[a] = s[b] => a = b BY <1>1 DEF IsInjective
<1>7. \A a, b \in 1..n : q[a] = q[b] => a = b BY <1>1 DEF IsInjective
<1> HIDE DEF r, m, n
<1>8. ASSUME NEW a \in 1..(m + n), NEW b \in 1..(m + n), r[a] = r[b] PROVE a = b
  <2>1. CASE a <= m /\ b <= m BY <1>1, <1>2, <1>6, <1>8, <2>1
  <2>2. CASE a > m /\ b > m
    <3>1. a - m \in 1..n /\ b - m \in 1..n /\ q[a - m] = q[b - m] BY <1>1, <1>2, <1>8, <2>2
    <3>2. a - m = b - m BY <1>7, <3>1
    <3> QED BY <1>1, <3>2
  <2>3. CASE a <= m /\ b > m
    <3>1. a \in 1..m /\ b - m \in 1..n /\ s[a] = q[b - m] BY <1>1, <1>2, <1>8, <2>3
    <3> QED BY <1>3, <1>4, <3>1
  <2>4. CASE a > m /\ b <= m
    <3>1. b \in 1..m /\ a - m \in 1..n /\ s[b] = q[a - m] BY <1>1, <1>2, <1>8, <2>4
    <3> QED BY <1>3, <1>4, <3>1
  <2> QED BY <1>1, <2>1, <2>2, <2>3, <2>4
<1>9. ASSUME NEW u PROVE Contains(r, u) <=> Contains(s, u) \/ Contains(q, u)
  <2>1. ASSUME Contains(r, u) PROVE Contains(s, u) \/ Contains(q, u)
    <3>1. PICK a \in 1..(m + n) : r[a] = u BY <1>5, <2>1
    <3>2. CASE a <= m BY <1>1, <1>2, <1>3, <3>1, <3>2
    <3>3. CASE a > m
      <4>1. a - m \in 1..n /\ q[a - m] = u BY <1>1, <1>2, <3>1, <3>3
      <4> QED BY <1>4, <4>1
    <3> QED BY <1>1, <3>2, <3>3
  <2>2. ASSUME Contains(s, u) PROVE Contains(r, u)
    <3>1. PICK a \in 1..m : s[a] = u BY <1>3, <2>2
    <3>2. a \in 1..(m + n) /\ r[a] = u BY <1>1, <1>2, <3>1
    <3> QED BY <1>5, <3>2
  <2>3. ASSUME Contains(q, u) PROVE Contains(r, u)
    <3>1. PICK a \in 1..n : q[a] = u BY <1>4, <2>3
    <3>2. a + m \in 1..(m + n) /\ ~(a + m <= m) /\ (a + m) - m = a BY <1>1
    <3>3. r[a + m] = u BY <1>2, <3>1, <3>2
    <3> QED BY <1>5, <3>2, <3>3
  <2> QED BY <2>1, <2>2, <2>3
<1>10. IsInjective(r) BY <1>2, <1>8 DEF IsInjective
<1> QED BY <1>2, <1>9, <1>10 DEF r

\* The tail that i915_wake_up_all adds: the elements of c at the indices of E,
\* in the order of c.
Elegida(S, c, E, n, o, q) ==
  /\ c \in Seq(S) /\ IsInjective(c) /\ E \in SUBSET (1..Len(c))
  /\ n \in Nat /\ o \in [1..n -> E]
  /\ \A a, b \in 1..n : a < b => o[a] < o[b]
  /\ \A j \in E : \E a \in 1..n : o[a] = j
  /\ q \in Seq(S) /\ Len(q) = n /\ \A a \in 1..n : q[a] = c[o[a]]

LEMMA ListaElegida ==
  ASSUME NEW S, NEW c, NEW E, NEW n, NEW o, NEW q, Elegida(S, c, E, n, o, q)
  PROVE  IsInjective(q) /\ \A u : Contains(q, u) <=> \E j \in E : c[j] = u
<1> USE DEF Elegida
<1>1. Len(c) \in Nat /\ DOMAIN c = 1..Len(c) /\ \A j \in 1..Len(c) : c[j] \in S OBVIOUS
<1>2. ASSUME NEW a \in 1..n PROVE o[a] \in E /\ o[a] \in 1..Len(c) /\ o[a] \in Int
  <2>1. o[a] \in E OBVIOUS
  <2>2. o[a] \in 1..Len(c) BY <2>1, Zenon
  <2> QED BY <1>1, <2>1, <2>2
<1>3. Len(q) = n /\ DOMAIN q = 1..n /\ \A a \in 1..n : q[a] = c[o[a]] OBVIOUS
<1>4. ASSUME NEW x \in 1..n, NEW y \in 1..n, q[x] = q[y] PROVE x = y
  <2>1. o[x] = o[y] BY <1>1, <1>2, <1>3, <1>4 DEF IsInjective
  <2>2. o[x] \in Int BY <1>2
  <2>3. ASSUME x < y PROVE FALSE
    <3>1. o[x] < o[y] BY <2>3
    <3> QED BY <2>1, <2>2, <3>1
  <2>4. ASSUME y < x PROVE FALSE
    <3>1. o[y] < o[x] BY <2>4
    <3> QED BY <2>1, <2>2, <3>1
  <2> QED BY <2>3, <2>4
<1>5. ASSUME NEW u PROVE Contains(q, u) <=> \E j \in E : c[j] = u
  BY <1>2, <1>3 DEF Contains
<1> QED BY <1>3, <1>4, <1>5 DEF IsInjective

-----------------------------------------------------------------------------
(* The inductive invariant: where a task may be, given its state and its    *)
(* function, and what each queue holds.                                     *)

\* Points at which the task is running and awake.
Activos ==
  {"libre", "func", "lock", "lockQuita", "preparar", "workerMira", "workerAcaba",
   "workerAvisa", "flush", "cancel", "avisarWorker", "drenar", "muerte", "soltar"}
Fuera == {"nada", "terminarSched"}
PuntosWorker == {"func", "workerMira", "workerSched", "workerAcaba", "workerAvisa"}
PuntosCliente == {"libre", "preparar", "mirar", "finalizar", "esperaSched"}
PuntosEspera == {"flush", "flushSched", "cancel", "cancelSched"}
PuntosDestruir == {"avisarWorker", "drenar", "drenarSched", "muerte", "muerteSched", "soltar"}
SinObra == {"nueva", "workerMira", "workerSched", "workerAvisa", "terminarSched"}
ConObra == {"func", "ceder", "lock", "lockSched", "lockQuita", "workerAcaba"}

Obra == "worker_thread_fn"
EnMutex == {"lock", "lockSched", "lockQuita"}
EnCola == {"preparar", "mirar", "finalizar", "esperaSched"}

TipoPlan ==
  /\ state \in [Tarea -> Estados] /\ fn \in [Tarea -> Funciones] /\ pila \in [Tarea -> {0, 1}]
  /\ pc \in [Tarea -> PC] /\ runq \in Seq(Tarea) /\ actual \in Tarea

TipoMutex ==
  /\ count \in {0, 1} /\ owner \in Tarea \cup {NULL} /\ wait_list \in Seq(Tarea)
  /\ dentro \subseteq Tarea

TipoCola ==
  /\ wq \in {0, 1} /\ running \in {0, 1} /\ work_list \in Seq(Trabajos)
  /\ active_jobs \in Nat /\ pending \in Nat
  /\ worker_task \in Tarea \cup {NULL} /\ work \in Trabajos \cup {NULL}
  /\ data \in [Trabajos -> SUBSET {"PENDING", "RUNNING"}]

TipoResto ==
  ops \in 0..MaxOps /\ firmes \subseteq Trabajos /\ objetivo \in Trabajos \cup {NULL}

\* A task that is awake is the running one; the dead ones are those that ended
\* or were never created.
EstadoTarea(t) ==
  /\ pc[t] \in Activos => t = actual /\ state[t] = "RUNNING"
  /\ pc[t] \in {"mirar", "finalizar"} => t = actual
  /\ state[t] = "DEAD" <=> pc[t] \in Fuera

PlanInv == TipoPlan /\ ColaExacta /\ \A t \in Tarea : EstadoTarea(t)

\* What a task runs and where it can be; the worker of the queue holds a work
\* exactly while it is inside the function of that work.
TablaTarea(t) ==
  /\ fn[t] = "principal" <=> t = 0
  /\ fn[t] = Obra <=> wq = 1 /\ worker_task = t
  /\ pc[t] = "nada" => fn[t] = "nada"
  /\ pc[t] = "terminarSched" => t # 0
  /\ pc[t] \in PuntosWorker => fn[t] = Obra
  /\ pc[t] \in PuntosCliente => fn[t] # Obra
  /\ pc[t] \in PuntosEspera \cup PuntosDestruir => t = 0
  /\ t # 0 /\ pila[t] = 0 => state[t] = "DEAD" /\ t # actual
  /\ fn[t] = Obra => pila[t] = 1
  /\ fn[t] = Obra => /\ pc[t] \in SinObra => work = NULL
                     /\ pc[t] \in ConObra => work # NULL

TablaInv == \A t \in Tarea : TablaTarea(t)

\* Who is in wait_list is inside i915_mutex_lock, and who sleeps there is in it.
MutexTarea(t) ==
  /\ Contains(wait_list, t) => pc[t] \in {"lockSched", "lockQuita"}
  /\ Durmiendo(t, "lockSched") => Contains(wait_list, t)

MutexInv ==
  /\ TipoMutex /\ ExclusionMutex /\ MutexAtendido
  /\ IsInjective(wait_list) /\ \A t \in Tarea : MutexTarea(t)

\* The same for the wait queue, from the entry in it on.
EsperaTarea(t) ==
  /\ Contains(head, t) => pc[t] \in EnCola
  /\ Durmiendo(t, "mirar") \/ Durmiendo(t, "esperaSched") => Contains(head, t)

EsperaInv ==
  /\ head \in Seq(Tarea) /\ condicion \in {0, 1} /\ EsperaAtendida
  /\ IsInjective(head) /\ \A t \in Tarea : EsperaTarea(t)

WqInv ==
  /\ TipoCola /\ CuentasExactas /\ WorkerAtendido
  /\ wq = 1 => worker_task \in Tarea \ {0}
  /\ wq = 0 => work = NULL /\ \A w \in Trabajos : data[w] = {}
  /\ wq = 1 /\ state[worker_task] = "DEAD" => running = 0 /\ work_list = <<>>
  /\ pc[0] \in PuntosEspera => wq = 1
  /\ pc[0] \in PuntosDestruir => wq = 1 /\ running = 0
  /\ pc[0] = "soltar" => state[worker_task] = "DEAD"

Inv == PlanInv /\ TablaInv /\ MutexInv /\ EsperaInv /\ WqInv /\ TipoResto

LEMMA Propiedades ==
  ASSUME Inv
  PROVE  TypeOK /\ ColaExacta /\ ExclusionMutex /\ NadieOlvidado /\ CuentasExactas
         /\ DestruccionLimpia
<1>1. TypeOK
  BY DEF Inv, TypeOK, PlanInv, MutexInv, EsperaInv, WqInv, TipoPlan, TipoMutex, TipoCola, TipoResto
<1>2. ColaExacta /\ ExclusionMutex /\ NadieOlvidado /\ CuentasExactas
  BY DEF Inv, PlanInv, MutexInv, EsperaInv, WqInv, NadieOlvidado
<1>3. DestruccionLimpia
  <2>1. ASSUME wq = 0, NEW t \in Tarea, fn[t] = Obra PROVE state[t] = "DEAD"
    BY <2>1 DEF Inv, TablaInv, TablaTarea
  <2>2. ASSUME NEW t \in Tarea \ {0}, pila[t] = 0
        PROVE  t # actual /\ ~Contains(runq, t) /\ ~Contains(wait_list, t) /\ ~Contains(head, t)
    <3>1. state[t] = "DEAD" /\ t # actual BY <2>2 DEF Inv, TablaInv, TablaTarea
    <3>2. pc[t] \in Fuera BY <3>1 DEF Inv, PlanInv, EstadoTarea
    <3>3. ~Contains(runq, t) BY <3>1 DEF Inv, PlanInv, ColaExacta
    <3>4. ~Contains(wait_list, t) BY <3>2 DEF Inv, MutexInv, MutexTarea, Fuera
    <3>5. ~Contains(head, t) BY <3>2 DEF Inv, EsperaInv, EsperaTarea, Fuera, EnCola
    <3> QED BY <3>1, <3>3, <3>4, <3>5
  <2>3. wq = 0 => work = NULL /\ \A w \in Trabajos : data[w] = {} BY DEF Inv, WqInv
  <2> QED BY <2>1, <2>2, <2>3 DEF DestruccionLimpia, Obra
<1> QED BY <1>1, <1>2, <1>3

LEMMA InvInicial == Init => Inv
<1> SUFFICES ASSUME Init PROVE Inv OBVIOUS
<1>1. 0 \in Tarea BY DEF Tarea
<1>2. \A S : <<>> \in Seq(S) /\ IsInjective(<<>>) /\ (\A u : ~Contains(<<>>, u)) BY ListaVacia
<1>3. TipoPlan BY <1>1, <1>2 DEF Init, TipoPlan, Estados, Funciones, PC
<1>4. PlanInv
  BY <1>1, <1>2, <1>3 DEF Init, PlanInv, ColaExacta, EstadoTarea, Activos, Fuera
<1>5. TablaInv
  BY <1>1 DEF Init, TablaInv, TablaTarea, Obra, PuntosWorker, PuntosCliente, PuntosEspera,
              PuntosDestruir, SinObra, ConObra
<1>6. MutexInv
  BY <1>1, <1>2 DEF Init, MutexInv, TipoMutex, ExclusionMutex, MutexAtendido, MutexTarea, Durmiendo
<1>7. EsperaInv
  BY <1>1, <1>2 DEF Init, EsperaInv, EsperaAtendida, EsperaTarea, Durmiendo
<1>8. WqInv
  BY <1>1, <1>2 DEF Init, WqInv, TipoCola, CuentasExactas, WorkerAtendido, PuntosEspera, PuntosDestruir
<1>9. TipoResto BY DEF Init, TipoResto
<1> QED BY <1>4, <1>5, <1>6, <1>7, <1>8, <1>9 DEF Inv

-----------------------------------------------------------------------------
(* Frames: steps that a part of the invariant does not notice.              *)

LEMMA MutexMarco ==
  ASSUME MutexInv, UNCHANGED mutex,
         \A t \in Tarea :
            \/ pc'[t] = pc[t]
            \/ pc[t] \notin EnMutex /\ pc'[t] \notin {"lockSched", "lockQuita"}
            \/ pc[t] = "lockSched" /\ pc'[t] = "lockQuita" /\ state'[t] = "RUNNING",
         \A t \in Tarea : pc[t] \in EnMutex => state'[t] \in {state[t], "RUNNING"}
  PROVE  MutexInv'
<1>1. TipoMutex' /\ ExclusionMutex' /\ IsInjective(wait_list')
  BY DEF MutexInv, TipoMutex, ExclusionMutex, mutex
<1>2. ASSUME NEW t \in Tarea PROVE Durmiendo(t, "lockSched")' => Durmiendo(t, "lockSched")
  BY DEF Durmiendo, EnMutex
<1>3. ASSUME NEW t \in Tarea PROVE MutexTarea(t)'
  <2>1. Contains(wait_list', t) <=> Contains(wait_list, t) BY DEF mutex
  <2>2. MutexTarea(t) BY DEF MutexInv
  <2> QED BY <1>2, <2>1, <2>2 DEF MutexTarea, EnMutex
<1>4. ASSUME NEW u \in Tarea, pc[u] \in EnMutex, state[u] = "RUNNING"
      PROVE  pc'[u] \in EnMutex /\ state'[u] = "RUNNING"
  BY <1>4 DEF EnMutex
<1>5. MutexAtendido'
  BY <1>2, <1>4 DEF MutexInv, MutexAtendido, EnMutex, mutex
<1> QED BY <1>1, <1>3, <1>5 DEF MutexInv

\* Task u is about to look at the condition, or to take it.
Atento(u) ==
  \/ pc[u] \in {"preparar", "mirar", "finalizar"}
  \/ pc[u] = "esperaSched" /\ state[u] = "RUNNING"

LEMMA EsperaMarco ==
  ASSUME EsperaInv, UNCHANGED espera,
         \A t \in Tarea :
            \/ pc'[t] = pc[t]
            \/ pc[t] \notin EnCola /\ pc'[t] \notin {"mirar", "finalizar", "esperaSched"}
            \/ pc[t] = "esperaSched" /\ pc'[t] = "preparar",
         \A t \in Tarea : pc[t] \in EnCola => state'[t] \in {state[t], "RUNNING"}
  PROVE  EsperaInv'
<1>2. ASSUME NEW t \in Tarea, NEW p \in {"mirar", "esperaSched"}, Durmiendo(t, p)'
      PROVE  Durmiendo(t, p)
  BY <1>2 DEF Durmiendo, EnCola
<1>3. ASSUME NEW t \in Tarea PROVE EsperaTarea(t)'
  <2>1. Contains(head', t) <=> Contains(head, t) BY DEF espera
  <2>2. EsperaTarea(t) BY DEF EsperaInv
  <2> QED BY <1>2, <2>1, <2>2 DEF EsperaTarea, EnCola
<1>4. ASSUME NEW u \in Tarea, Atento(u) PROVE Atento(u)' BY <1>4 DEF Atento, EnCola
<1>5. EsperaAtendida'
  <2> SUFFICES ASSUME NEW t \in Tarea, Durmiendo(t, "esperaSched")', condicion = 1
               PROVE  \E u \in Tarea : Atento(u)'
    BY DEF EsperaAtendida, Atento, espera
  <2>1. Durmiendo(t, "esperaSched") BY <1>2
  <2>2. PICK u \in Tarea : Atento(u) BY <2>1 DEF EsperaInv, EsperaAtendida, Atento
  <2> QED BY <1>4, <2>2
<1> QED BY <1>3, <1>5 DEF EsperaInv, espera

LEMMA WqMarco ==
  ASSUME WqInv,
         UNCHANGED <<wq, running, work_list, active_jobs, pending, worker_task, data, work>>,
         pc'[0] \in PuntosEspera => pc[0] \in PuntosEspera \/ wq = 1,
         pc'[0] \in PuntosDestruir => pc[0] \in PuntosDestruir,
         pc'[0] = "soltar" => pc[0] = "soltar" \/ state[worker_task] = "DEAD",
         pc[0] = "avisarWorker" => pc'[0] = "avisarWorker",
         wq = 1 => (state'[worker_task] = "DEAD" <=> state[worker_task] = "DEAD"),
         wq = 1 /\ Durmiendo(worker_task, "workerSched")' => Durmiendo(worker_task, "workerSched")
  PROVE  WqInv'
<1>1. TipoCola' /\ CuentasExactas' BY DEF WqInv, TipoCola, CuentasExactas
<1>2. WorkerAtendido' BY DEF WqInv, WorkerAtendido
<1>3. pc'[0] \in PuntosDestruir => wq = 1 /\ running = 0 BY DEF WqInv
<1>4. pc'[0] = "soltar" => state'[worker_task] = "DEAD" BY <1>3 DEF WqInv, PuntosDestruir
<1> QED BY <1>1, <1>2, <1>3, <1>4 DEF WqInv

-----------------------------------------------------------------------------
(* The ways in which a step moves the tasks.                                *)

\* Some tasks are woken: their state, and the run queue, follow.
Despiertan(D) ==
  /\ state' \in [Tarea -> Estados] /\ runq' \in Seq(Tarea) /\ IsInjective(runq')
  /\ \A t \in Tarea :
       state'[t] = IF t \in D /\ state[t] = "UNINTERRUPTIBLE" THEN "RUNNING" ELSE state[t]
  /\ \A t \in Tarea : Contains(runq', t) <=> t # actual /\ state'[t] = "RUNNING"

LEMMA DespiertaNadie == ASSUME PlanInv, UNCHANGED planif PROVE Despiertan({})
BY DEF PlanInv, TipoPlan, ColaExacta, planif, Despiertan

LEMMA DespiertaUna == ASSUME PlanInv, NEW u \in Tarea, Despertar(u) PROVE Despiertan({u})
<1>a. TipoPlan /\ IsInjective(runq)
      /\ \A t \in Tarea : Contains(runq, t) <=> t # actual /\ state[t] = "RUNNING"
  BY DEF PlanInv, ColaExacta
<1>1. CASE state[u] # "UNINTERRUPTIBLE"
  <2>1. UNCHANGED <<state, runq>> BY <1>1 DEF Despertar, planif
  <2> QED BY <1>a, <1>1, <2>1 DEF TipoPlan, Despiertan
<1>2. CASE state[u] = "UNINTERRUPTIBLE"
  <2>1. state' = [state EXCEPT ![u] = "RUNNING"]
        /\ runq' = IF u # actual /\ ~Contains(runq, u) THEN Append(runq, u) ELSE runq
    BY <1>2 DEF Despertar
  <2>2. state' \in [Tarea -> Estados] /\ state'[u] = "RUNNING"
        /\ \A t \in Tarea \ {u} : state'[t] = state[t]
    BY <1>a, <2>1 DEF TipoPlan, Estados
  <2>3. CASE u = actual BY <1>a, <1>2, <2>1, <2>2, <2>3 DEF TipoPlan, Despiertan
  <2>4. CASE u # actual
    <3>1. ~Contains(runq, u) /\ runq' = Append(runq, u) BY <1>a, <1>2, <2>1, <2>4
    <3>2. /\ runq' \in Seq(Tarea) /\ IsInjective(runq')
          /\ \A t : Contains(runq', t) <=> Contains(runq, t) \/ t = u
      BY <1>a, <3>1, ListaAlFinal DEF TipoPlan
    <3> QED BY <1>a, <1>2, <2>2, <2>4, <3>2 DEF Despiertan
  <2> QED BY <2>3, <2>4
<1> QED BY <1>1, <1>2

LEMMA DespiertanTodas ==
  ASSUME PlanInv, EsperaInv, WakeUpAll PROVE Despiertan({t \in Tarea : Contains(head, t)})
<1> DEFINE D == {t \in Tarea : Contains(head, t)}
           N == {j \in 1..Len(head) : state[head[j]] = "UNINTERRUPTIBLE"}
           E == {j \in N : head[j] # actual /\ ~Contains(runq, head[j])}
<1>a. TipoPlan /\ IsInjective(runq)
      /\ \A t \in Tarea : Contains(runq, t) <=> t # actual /\ state[t] = "RUNNING"
  BY DEF PlanInv, ColaExacta
<1>b. head \in Seq(Tarea) /\ IsInjective(head) /\ Len(head) \in Nat
      /\ \A j \in 1..Len(head) : head[j] \in Tarea
  BY DEF EsperaInv
<1>1. state' = [t \in Tarea |-> IF \E j \in N : head[j] = t THEN "RUNNING" ELSE state[t]]
  BY DEF WakeUpAll
<1>2. ASSUME NEW t \in Tarea
      PROVE  (\E j \in N : head[j] = t) <=> t \in D /\ state[t] = "UNINTERRUPTIBLE"
  BY <1>b DEF Contains
<1>3. \A t \in Tarea :
        state'[t] = IF t \in D /\ state[t] = "UNINTERRUPTIBLE" THEN "RUNNING" ELSE state[t]
  BY <1>1, <1>2
<1>4. state' \in [Tarea -> Estados] BY <1>a, <1>1 DEF TipoPlan, Estados
<1>5. Cardinality(E) \in Nat
  <2>1. IsFiniteSet(1..Len(head)) BY <1>b, FS_Interval
  <2>2. E \in SUBSET (1..Len(head)) OBVIOUS
  <2> HIDE DEF E
  <2>3. IsFiniteSet(E) BY <2>1, <2>2, FS_Subset
  <2> QED BY <2>3, FS_CardinalityType
<1>6. PICK o \in [1..Cardinality(E) -> E] :
        /\ \A a, b \in DOMAIN o : a < b => o[a] < o[b]
        /\ \A j \in E : \E a \in DOMAIN o : o[a] = j
        /\ runq' = runq \o [a \in DOMAIN o |-> head[o[a]]]
  BY DEF WakeUpAll
<1>7. ASSUME NEW t \in Tarea
      PROVE  (\E j \in E : head[j] = t) <=>
               Contains(head, t) /\ state[t] = "UNINTERRUPTIBLE" /\ t # actual
  BY <1>a, <1>b DEF Contains
<1>8. E \in SUBSET (1..Len(head)) /\ \A j \in E : ~Contains(runq, head[j]) OBVIOUS
<1> DEFINE n == Cardinality(E)
<1>9. n \in Nat /\ o \in [1..n -> E] /\ DOMAIN o = 1..n BY <1>5, <1>6
<1> HIDE DEF E, n
<1>10. /\ runq' \in Seq(Tarea) /\ IsInjective(runq')
       /\ \A t : Contains(runq', t) <=> Contains(runq, t) \/ \E j \in E : head[j] = t
  <2>1. /\ \A a, b \in 1..n : a < b => o[a] < o[b]
        /\ \A j \in E : \E a \in 1..n : o[a] = j
        /\ runq' = runq \o [a \in 1..n |-> head[o[a]]]
    BY <1>6, <1>9
  <2>2. runq \in Seq(Tarea) BY <1>a DEF TipoPlan
  <2> DEFINE q == [a \in 1..n |-> head[o[a]]]
  <2>3. q \in Seq(Tarea) /\ IsInjective(q) /\ \A u : Contains(q, u) <=> \E j \in E : head[j] = u
    <3>1. ASSUME NEW a \in 1..n PROVE head[o[a]] \in Tarea
      <4>1. o[a] \in E BY <1>9
      <4> QED BY <1>b, <1>8, <4>1
    <3>2. q \in Seq(Tarea) /\ Len(q) = n /\ \A a \in 1..n : q[a] = head[o[a]] BY <1>9, <3>1
    <3> HIDE DEF q
    <3>3. n \in Nat /\ o \in [1..n -> E] /\ E \in SUBSET (1..Len(head)) BY <1>8, <1>9
    <3>4. IsInjective(q) /\ \A u : Contains(q, u) <=> \E j \in E : head[j] = u

      <4>1. Elegida(Tarea, head, E, n, o, q) BY <1>b, <2>1, <3>2, <3>3 DEF Elegida
      <4> QED BY <4>1, ListaElegida
    <3> QED BY <3>2, <3>4
  <2>4. runq' = runq \o q BY <2>1
  <2> HIDE DEF q
  <2>5. \A u : Contains(q, u) => ~Contains(runq, u) BY <1>8, <2>3
  <2> QED BY <1>a, <2>2, <2>3, <2>4, <2>5, ListaUnida
<1>11. \A t \in Tarea : Contains(runq', t) <=> t # actual /\ state'[t] = "RUNNING"
  BY <1>a, <1>3, <1>7, <1>10
<1> QED BY <1>3, <1>4, <1>10, <1>11 DEF Despiertan

\* Waking changes nothing but that for the rest of the invariant.
LEMMA Despertadas ==
  ASSUME Inv, NEW D, Despiertan(D), UNCHANGED <<pc, actual, tabla, wq, worker_task, work>>
  PROVE  /\ PlanInv' /\ TablaInv'
         /\ \A t \in Tarea : pc'[t] = pc[t] /\ state'[t] \in {state[t], "RUNNING"}
         /\ \A t \in Tarea : state'[t] = "DEAD" <=> state[t] = "DEAD"
<1>1. \A t \in Tarea : state'[t] \in {state[t], "RUNNING"} /\ (state'[t] = "DEAD" <=> state[t] = "DEAD")
      /\ (state[t] = "RUNNING" => state'[t] = "RUNNING")
  BY DEF Despiertan
<1>2. PlanInv'
  <2>1. TipoPlan' BY DEF Inv, PlanInv, TipoPlan, tabla, Despiertan
  <2>2. ColaExacta' BY DEF Inv, PlanInv, ColaExacta, Despiertan
  <2>3. ASSUME NEW t \in Tarea PROVE EstadoTarea(t)' BY <1>1 DEF Inv, PlanInv, EstadoTarea
  <2> QED BY <2>1, <2>2, <2>3 DEF PlanInv
<1>3. TablaInv'
  <2>1. ASSUME NEW t \in Tarea PROVE TablaTarea(t)'
    <3>1. TablaTarea(t) BY DEF Inv, TablaInv
    <3> QED BY <1>1, <3>1 DEF TablaTarea, tabla
  <2> QED BY <2>1 DEF TablaInv
<1> QED BY <1>1, <1>2, <1>3

\* The running task t goes to point d with state x, and no other task moves.
Mueve(t, x, d) ==
  /\ x \in Estados /\ d \in PC /\ state' \in [Tarea -> Estados] /\ pc' \in [Tarea -> PC]
  /\ state'[t] = x /\ pc'[t] = d
  /\ \A u \in Tarea \ {t} : state'[u] = state[u] /\ pc'[u] = pc[u]

\* The point and the state suit each other and the function of the task.
Admite(t, x, d) ==
  /\ d \notin {"perdida", "nada"} /\ (x = "DEAD" <=> d = "terminarSched")
  /\ d \in Activos => x = "RUNNING"
  /\ d = "terminarSched" => t # 0
  /\ d \in PuntosWorker => fn[t] = Obra
  /\ d \in PuntosCliente => fn[t] # Obra
  /\ d \in PuntosEspera \cup PuntosDestruir => t = 0
  /\ work' = work \/ fn[t] = Obra
  /\ fn[t] = Obra => (d \in SinObra => work' = NULL) /\ (d \in ConObra => work' # NULL)

LEMMA MueveIr ==
  ASSUME TipoPlan, NEW t \in Tarea, NEW x \in Estados, NEW d \in PC,
         state' = [state EXCEPT ![t] = x], Ir(t, d)
  PROVE  Mueve(t, x, d)
<1>1. state' \in [Tarea -> Estados] BY DEF TipoPlan
<1>2. pc' \in [Tarea -> PC] BY DEF TipoPlan, Ir
<1> QED BY <1>1, <1>2 DEF TipoPlan, Mueve, Ir

LEMMA MueveSolo ==
  ASSUME TipoPlan, NEW t \in Tarea, NEW d \in PC, UNCHANGED state, Ir(t, d)
  PROVE  Mueve(t, state[t], d)
<1>1. state' \in [Tarea -> Estados] BY DEF TipoPlan
<1>2. pc' \in [Tarea -> PC] BY DEF TipoPlan, Ir
<1> QED BY <1>1, <1>2 DEF TipoPlan, Mueve, Ir

LEMMA Propio ==
  ASSUME PlanInv, TablaInv, NEW t \in Tarea, t = actual, NEW x, NEW d,
         Mueve(t, x, d), Admite(t, x, d), UNCHANGED <<runq, actual, tabla, wq, worker_task>>
  PROVE  PlanInv' /\ TablaInv'
<1>a. TipoPlan BY DEF PlanInv
<1>1. /\ state'[t] = x /\ pc'[t] = d
      /\ \A u \in Tarea \ {t} : state'[u] = state[u] /\ pc'[u] = pc[u]
  BY DEF Mueve
<1>2. PlanInv'
  <2>1. TipoPlan' BY <1>a DEF TipoPlan, tabla, Mueve
  <2>2. ASSUME NEW u \in Tarea
        PROVE  /\ Contains(runq', u) <=> u # actual' /\ state'[u] = "RUNNING"
               /\ pc'[u] # "perdida" /\ EstadoTarea(u)'
    <3>1. CASE u = t BY <1>1, <3>1 DEF PlanInv, ColaExacta, EstadoTarea, Fuera, Admite
    <3>2. CASE u # t BY <1>1, <3>2 DEF PlanInv, ColaExacta, EstadoTarea, Fuera
    <3> QED BY <3>1, <3>2
  <2>3. ColaExacta' BY <2>2 DEF PlanInv, ColaExacta
  <2> QED BY <2>1, <2>2, <2>3 DEF PlanInv
<1>3. TablaInv'
  <2>1. TablaTarea(t)'
    <3>1. TablaTarea(t) BY DEF TablaInv
    <3> QED BY <1>1, <3>1 DEF TablaTarea, tabla, Admite
  <2>2. ASSUME NEW u \in Tarea \ {t} PROVE TablaTarea(u)'
    <3>1. TablaTarea(u) /\ TablaTarea(t) BY DEF TablaInv
    <3>2. fn[u] = Obra => work' = work BY <3>1 DEF TablaTarea, Admite
    <3> QED BY <1>1, <3>1, <3>2 DEF TablaTarea, tabla
  <2> QED BY <2>1, <2>2 DEF TablaInv
<1> QED BY <1>2, <1>3

LEMMA MueveMutex ==
  ASSUME Inv, NEW t \in Tarea, NEW x, NEW d, Mueve(t, x, d), UNCHANGED mutex,
         pc[t] \notin EnMutex, d \notin {"lockSched", "lockQuita"}
  PROVE  MutexInv'
<1>1. \A u \in Tarea :
         \/ pc'[u] = pc[u]
         \/ pc[u] \notin EnMutex /\ pc'[u] \notin {"lockSched", "lockQuita"}
         \/ pc[u] = "lockSched" /\ pc'[u] = "lockQuita" /\ state'[u] = "RUNNING"
  BY DEF Mueve
<1>2. \A u \in Tarea : pc[u] \in EnMutex => state'[u] \in {state[u], "RUNNING"} BY DEF Mueve
<1> QED BY <1>1, <1>2, MutexMarco DEF Inv

LEMMA MueveEspera ==
  ASSUME Inv, NEW t \in Tarea, NEW x, NEW d, Mueve(t, x, d), UNCHANGED espera,
         pc[t] \notin EnCola, d \notin {"mirar", "finalizar", "esperaSched"}
  PROVE  EsperaInv'
<1>1. \A u \in Tarea :
         \/ pc'[u] = pc[u]
         \/ pc[u] \notin EnCola /\ pc'[u] \notin {"mirar", "finalizar", "esperaSched"}
         \/ pc[u] = "esperaSched" /\ pc'[u] = "preparar"
  BY DEF Mueve
<1>2. \A u \in Tarea : pc[u] \in EnCola => state'[u] \in {state[u], "RUNNING"} BY DEF Mueve
<1> QED BY <1>1, <1>2, EsperaMarco DEF Inv

\* The variables of the workqueue that its invariant is about.
obras == <<wq, running, work_list, active_jobs, pending, worker_task, data, work>>

LEMMA MueveWq ==
  ASSUME Inv, NEW t \in Tarea, NEW x, NEW d, Mueve(t, x, d), UNCHANGED obras,
         d \in PuntosEspera => wq = 1,
         d \in PuntosDestruir => pc[t] \in PuntosDestruir,
         d = "soltar" => state[worker_task] = "DEAD",
         pc[t] \notin Fuera \cup {"avisarWorker"}, d # "workerSched",
         fn[t] = Obra => x # "DEAD"
  PROVE  WqInv'
<1>a. 0 \in Tarea BY DEF Tarea
<1>b. WqInv BY DEF Inv
<1>1. (t # 0 => pc'[0] = pc[0]) /\ (t = 0 => pc'[0] = d) BY <1>a DEF Mueve
<1>2. state[t] # "DEAD" BY DEF Inv, PlanInv, EstadoTarea
<1>3. ASSUME wq = 1
      PROVE  /\ state'[worker_task] = "DEAD" <=> state[worker_task] = "DEAD"
             /\ Durmiendo(worker_task, "workerSched")' => Durmiendo(worker_task, "workerSched")
  <2>1. worker_task \in Tarea /\ fn[worker_task] = Obra
    BY <1>3 DEF Inv, WqInv, TablaInv, TablaTarea
  <2>2. UNCHANGED worker_task BY DEF obras
  <2>3. CASE worker_task = t BY <1>2, <2>1, <2>2, <2>3 DEF Mueve, Durmiendo
  <2>4. CASE worker_task # t BY <2>1, <2>2, <2>4 DEF Mueve, Durmiendo
  <2> QED BY <2>3, <2>4
<1>4. pc'[0] \in PuntosEspera => pc[0] \in PuntosEspera \/ wq = 1 BY <1>1
<1>5. pc'[0] \in PuntosDestruir => pc[0] \in PuntosDestruir BY <1>1
<1>6. pc'[0] = "soltar" => pc[0] = "soltar" \/ state[worker_task] = "DEAD" BY <1>1
<1>7. pc[0] = "avisarWorker" => pc'[0] = "avisarWorker" BY <1>1
<1> QED BY <1>b, <1>3, <1>4, <1>5, <1>6, <1>7, WqMarco DEF obras

\* An ordinary step of the running task: outside the mutex, the wait queue and
\* the workqueue, or into their first point.
Ordinario(t, x, d) ==
  /\ Mueve(t, x, d) /\ Admite(t, x, d)
  /\ pc[t] \notin EnMutex \cup EnCola \cup Fuera \cup {"avisarWorker"}
  /\ d \notin {"lockSched", "lockQuita", "mirar", "finalizar", "esperaSched", "workerSched"}
  /\ d \in PuntosEspera => wq = 1
  /\ d \in PuntosDestruir => pc[t] \in PuntosDestruir
  /\ d = "soltar" => state[worker_task] = "DEAD"
  /\ fn[t] = Obra => x # "DEAD"

LEMMA PasoOrdinario ==
  ASSUME Inv, NEW t \in Tarea, t = actual, NEW x, NEW d, Ordinario(t, x, d),
         UNCHANGED <<runq, actual, tabla, mutex, espera, obras>>, TipoResto'
  PROVE  Inv'
<1>1. PlanInv /\ TablaInv BY DEF Inv
<1>2. UNCHANGED <<runq, actual, tabla, wq, worker_task>> BY DEF obras
<1>3. PlanInv' /\ TablaInv' BY <1>1, <1>2, Propio DEF Ordinario
<1>4. MutexInv' BY MueveMutex DEF Ordinario
<1>5. EsperaInv' BY MueveEspera DEF Ordinario
<1>6. WqInv' BY MueveWq DEF Ordinario
<1> QED BY <1>3, <1>4, <1>5, <1>6 DEF Inv

LEMMA TiposDe == ASSUME Inv PROVE TipoPlan /\ TipoMutex /\ TipoCola /\ TipoResto /\ 0 \in Tarea
BY DEF Inv, PlanInv, MutexInv, WqInv, Tarea

\* Where the running task is, and what that says of it.
LEMMA EnMarcha ==
  ASSUME Inv, NEW t \in Tarea, pc[t] \in Activos PROVE state[t] = "RUNNING" /\ t = actual
BY DEF Inv, PlanInv, EstadoTarea

Puntos(t, d) ==
  /\ d \notin Fuera \cup {"perdida", "lockSched", "lockQuita", "mirar", "finalizar",
                       "esperaSched", "workerSched"}
  /\ d \in PuntosWorker => fn[t] = Obra
  /\ d \in PuntosCliente => fn[t] # Obra
  /\ d \in PuntosEspera => t = 0 /\ wq = 1
  /\ d \in PuntosDestruir => t = 0 /\ pc[t] \in PuntosDestruir
  /\ d = "soltar" => state[worker_task] = "DEAD"
  /\ fn[t] = Obra => (d \in SinObra => work = NULL) /\ (d \in ConObra => work # NULL)

LEMMA PasoLlano ==
  ASSUME Inv, NEW t \in Tarea, NEW d \in PC, Ir(t, d), Puntos(t, d),
         pc[t] \in Activos \ {"lock", "lockQuita", "preparar", "avisarWorker"},
         UNCHANGED <<state, runq, actual, tabla, mutex, espera, obras>>, TipoResto'
  PROVE  Inv'
<1>1. Mueve(t, state[t], d) BY TiposDe, MueveSolo
<1>2. state[t] = "RUNNING" /\ t = actual BY EnMarcha
<1>3. Admite(t, state[t], d) BY <1>2 DEF Admite, Puntos, Fuera, obras
<1>4. Ordinario(t, state[t], d)
  BY <1>1, <1>2, <1>3 DEF Ordinario, Puntos, Fuera, EnMutex, EnCola, Activos
<1> QED BY <1>2, <1>4, PasoOrdinario

LEMMA PasoLlamadas ==
  ASSUME Inv, NEW t \in Tarea,
         \/ Ceder(t) \/ PedirMutex(t) \/ Esperar(t) \/ FuncVuelve(t) \/ WorkerAvisa(t)
  PROVE  Inv'
<1> USE DEF planif, cola, cicloWq, obras
<1>a. TablaTarea(t) /\ TipoResto BY TiposDe DEF Inv, TablaInv
<1> USE DEF Puntos, Fuera, PuntosWorker, PuntosCliente, PuntosEspera, PuntosDestruir, SinObra,
            ConObra, Activos, PC, EnSchedule
<1>1. CASE Ceder(t)
  <2>1. Puntos(t, "ceder") BY <1>a, <1>1 DEF Ceder, TablaTarea
  <2>2. TipoResto' BY <1>a, <1>1 DEF Ceder, TipoResto
  <2> QED BY <1>1, <2>1, <2>2, PasoLlano DEF Ceder
<1>2. CASE PedirMutex(t)
  <2>1. Puntos(t, "lock") BY <1>a, <1>2 DEF PedirMutex, Llama, TablaTarea
  <2>2. TipoResto' BY <1>a, <1>2 DEF PedirMutex, Llama, TipoResto
  <2> QED BY <1>2, <2>1, <2>2, PasoLlano DEF PedirMutex, Llama
<1>3. CASE Esperar(t)
  <2>1. Puntos(t, "preparar") BY <1>3 DEF Esperar, Obra
  <2>2. TipoResto' BY <1>a, <1>3 DEF Esperar, Llama, TipoResto
  <2> QED BY <1>3, <2>1, <2>2, PasoLlano DEF Esperar, Llama
<1>4. CASE FuncVuelve(t)
  <2>1. Puntos(t, "workerAcaba") BY <1>a, <1>4 DEF FuncVuelve, TablaTarea
  <2>2. TipoResto' BY <1>a, <1>4 DEF FuncVuelve, TipoResto
  <2> QED BY <1>4, <2>1, <2>2, PasoLlano DEF FuncVuelve
<1>5. CASE WorkerAvisa(t)
  <2>1. Puntos(t, "workerMira") BY <1>a, <1>5 DEF WorkerAvisa, TablaTarea
  <2>2. TipoResto' BY <1>a, <1>5 DEF WorkerAvisa, TipoResto
  <2> QED BY <1>5, <2>1, <2>2, PasoLlano DEF WorkerAvisa
<1> QED BY <1>1, <1>2, <1>3, <1>4, <1>5

\* Task 0 waiting for the workqueue.
LEMMA PasoEsperas ==
  ASSUME Inv, Flush \/ FlushEspera \/ CancelEspera \/ Drenar \/ EsperarMuerte PROVE Inv'
<1> USE DEF planif, cola, cicloWq, obras
<1>a. TablaTarea(0) /\ TipoResto /\ WqInv /\ 0 \in Tarea BY TiposDe DEF Inv, TablaInv
<1>b. fn[0] # Obra BY <1>a DEF TablaTarea, Obra
<1> USE DEF Puntos, Fuera, PuntosWorker, PuntosCliente, PuntosEspera, PuntosDestruir, SinObra,
            ConObra, Activos, PC, EnSchedule
<1>1. CASE Flush
  <2>1. Puntos(0, "flush") BY <1>b, <1>1 DEF Flush
  <2>2. TipoResto' BY <1>a, <1>1 DEF Flush, Llama, TipoResto
  <2> QED BY <1>a, <1>1, <2>1, <2>2, PasoLlano DEF Flush, Llama
<1>2. CASE FlushEspera
  <2> DEFINE d == IF active_jobs > 0 THEN "flushSched" ELSE "libre"
  <2>1. d \in {"flushSched", "libre"} /\ d \in PC OBVIOUS
  <2>2. pc[0] = "flush" /\ Ir(0, d) BY <1>2 DEF FlushEspera, EsperarTrabajos
  <2> HIDE DEF d
  <2>3. Puntos(0, d) BY <1>a, <1>b, <2>1, <2>2 DEF WqInv
  <2>4. TipoResto' BY <1>a, <1>2 DEF FlushEspera, EsperarTrabajos, TipoResto
  <2> QED BY <1>a, <1>2, <2>1, <2>2, <2>3, <2>4, PasoLlano DEF FlushEspera, EsperarTrabajos
<1>3. CASE CancelEspera
  <2> DEFINE d == IF "RUNNING" \in data[objetivo] THEN "cancelSched" ELSE "libre"
  <2>1. d \in {"cancelSched", "libre"} /\ d \in PC OBVIOUS
  <2>2. pc[0] = "cancel" /\ Ir(0, d) BY <1>3 DEF CancelEspera
  <2> HIDE DEF d
  <2>3. Puntos(0, d) BY <1>a, <1>b, <2>1, <2>2 DEF WqInv
  <2>4. TipoResto' BY <1>a, <1>3 DEF CancelEspera, TipoResto
  <2> QED BY <1>a, <1>3, <2>1, <2>2, <2>3, <2>4, PasoLlano DEF CancelEspera
<1>4. CASE Drenar
  <2> DEFINE d == IF active_jobs > 0 THEN "drenarSched" ELSE "muerte"
  <2>1. d \in {"drenarSched", "muerte"} /\ d \in PC OBVIOUS
  <2>2. pc[0] = "drenar" /\ Ir(0, d) BY <1>4 DEF Drenar, EsperarTrabajos
  <2> HIDE DEF d
  <2>3. Puntos(0, d) BY <1>a, <1>b, <2>1, <2>2 DEF WqInv
  <2>4. TipoResto' BY <1>a, <1>4 DEF Drenar, EsperarTrabajos, TipoResto
  <2> QED BY <1>a, <1>4, <2>1, <2>2, <2>3, <2>4, PasoLlano DEF Drenar, EsperarTrabajos
<1>5. CASE EsperarMuerte
  <2> DEFINE d == IF state[worker_task] = "DEAD" THEN "soltar" ELSE "muerteSched"
  <2>1. d \in {"soltar", "muerteSched"} /\ d \in PC /\ (d = "soltar" => state[worker_task] = "DEAD")
    OBVIOUS
  <2>2. pc[0] = "muerte" /\ Ir(0, d) BY <1>5 DEF EsperarMuerte
  <2> HIDE DEF d
  <2>3. Puntos(0, d) BY <1>a, <1>b, <2>1, <2>2 DEF WqInv
  <2>4. TipoResto' BY <1>a, <1>5 DEF EsperarMuerte, TipoResto
  <2> QED BY <1>a, <1>5, <2>1, <2>2, <2>3, <2>4, PasoLlano DEF EsperarMuerte
<1> QED BY <1>1, <1>2, <1>3, <1>4, <1>5

\* i915_tarea_dormir and i915_tarea_terminar.
LEMMA PasoDormir ==
  ASSUME Inv, NEW t \in Tarea, Dormir(t) \/ Terminar(t) PROVE Inv'
<1> USE DEF planif, cola, cicloWq, obras
<1>a. TablaTarea(t) /\ TipoResto /\ TipoPlan BY TiposDe DEF Inv, TablaInv
<1> USE DEF Ordinario, Admite, EnMutex, EnCola, Fuera, PuntosWorker, PuntosCliente, PuntosEspera,
            PuntosDestruir, SinObra, ConObra, Activos, PC, EnSchedule, Estados
<1>1. CASE Dormir(t)
  <2>1. Mueve(t, "UNINTERRUPTIBLE", "ceder") BY <1>a, <1>1, MueveIr DEF Dormir
  <2>2. Ordinario(t, "UNINTERRUPTIBLE", "ceder")
    BY <1>a, <1>1, <2>1 DEF Dormir, Llama, Obra
  <2>3. TipoResto' BY <1>a, <1>1 DEF Dormir, Llama, TipoResto
  <2> QED BY <1>1, <2>2, <2>3, PasoOrdinario DEF Dormir, Llama
<1>2. CASE Terminar(t)
  <2>1. Mueve(t, "DEAD", "terminarSched") BY <1>a, <1>2, MueveIr DEF Terminar
  <2>2. t # 0 BY <1>a, <1>2 DEF Terminar, TablaTarea
  <2>3. Ordinario(t, "DEAD", "terminarSched")
    BY <1>a, <1>2, <2>1, <2>2 DEF Terminar, Obra
  <2>4. TipoResto' BY <1>a, <1>2 DEF Terminar, TipoResto
  <2> QED BY <1>2, <2>3, <2>4, PasoOrdinario DEF Terminar
<1> QED BY <1>1, <1>2

-----------------------------------------------------------------------------
(* The scheduler.                                                           *)

\* Where a task that gets the CPU back goes on.
LEMMA Reanuda ==
  ASSUME Inv, NEW t \in Tarea, pc[t] \in EnSchedule \ {"terminarSched"}, UNCHANGED work,
         state[t] = "RUNNING"
  PROVE  /\ Continua(t) \in Activos /\ Continua(t) \in PC /\ Admite(t, "RUNNING", Continua(t))
         /\ \/ pc[t] \notin EnMutex /\ Continua(t) \notin {"lockSched", "lockQuita"}
            \/ pc[t] = "lockSched" /\ Continua(t) = "lockQuita"
         /\ \/ pc[t] \notin EnCola /\ Continua(t) \notin EnCola
            \/ pc[t] = "esperaSched" /\ Continua(t) = "preparar"
         /\ Continua(t) \in PuntosEspera => pc[t] \in PuntosEspera
         /\ Continua(t) \in PuntosDestruir => pc[t] \in PuntosDestruir
         /\ Continua(t) # "soltar" /\ pc[t] # "avisarWorker"
<1>1. TablaTarea(t) BY DEF Inv, TablaInv
<1> USE DEF Continua, Base, Obra, Admite, TablaTarea, EnMutex, EnCola, Activos, PC, EnSchedule,
            PuntosWorker, PuntosCliente, PuntosEspera, PuntosDestruir, SinObra, ConObra
<1>2. CASE pc[t] = "nueva" BY <1>1, <1>2
<1>3. CASE pc[t] = "ceder" BY <1>1, <1>3
<1>4. CASE pc[t] = "lockSched" BY <1>1, <1>4
<1>5. CASE pc[t] = "esperaSched" BY <1>1, <1>5
<1>6. CASE pc[t] = "workerSched" BY <1>1, <1>6
<1>7. CASE pc[t] = "flushSched" BY <1>1, <1>7
<1>8. CASE pc[t] = "cancelSched" BY <1>1, <1>8
<1>9. CASE pc[t] = "drenarSched" BY <1>1, <1>9
<1>10. CASE pc[t] = "muerteSched" BY <1>1, <1>10
<1> QED BY <1>2, <1>3, <1>4, <1>5, <1>6, <1>7, <1>8, <1>9, <1>10

\* i915_schedule.
LEMMA PasoSchedule ==
  ASSUME Inv, NEW t \in Tarea, Schedule(t) PROVE Inv'
<1> USE DEF obras, cola, cicloWq
<1>a. TipoPlan /\ TipoResto BY TiposDe
<1>b. t = actual /\ pc[t] \in EnSchedule /\ UNCHANGED state /\ UNCHANGED <<tabla, mutex, espera, obras>>
  BY DEF Schedule
<1>c. IsInjective(runq) /\ \A u \in Tarea : Contains(runq, u) <=> u # actual /\ state[u] = "RUNNING"
  BY DEF Inv, PlanInv, ColaExacta
<1>d. TipoResto' BY <1>a DEF Schedule, TipoResto
\* What follows for every part of the invariant when h is resumed.
<1>e. ASSUME NEW h \in Tarea, pc[h] \in EnSchedule \ {"terminarSched"}, state[h] = "RUNNING",
             Ir(h, Continua(h))
      PROVE  /\ MutexInv' /\ EsperaInv' /\ WqInv' /\ Admite(h, "RUNNING", Continua(h))
             /\ Mueve(h, "RUNNING", Continua(h)) /\ Continua(h) \in Activos
  <2> DEFINE d == Continua(h)
  <2>1. /\ d \in Activos /\ d \in PC /\ Admite(h, "RUNNING", d)
        /\ \/ pc[h] \notin EnMutex /\ d \notin {"lockSched", "lockQuita"}
           \/ pc[h] = "lockSched" /\ d = "lockQuita"
        /\ \/ pc[h] \notin EnCola /\ d \notin EnCola
           \/ pc[h] = "esperaSched" /\ d = "preparar"
        /\ d \in PuntosEspera => pc[h] \in PuntosEspera
        /\ d \in PuntosDestruir => pc[h] \in PuntosDestruir
        /\ d # "soltar" /\ pc[h] # "avisarWorker"
    BY <1>b, <1>e, Reanuda
  <2> HIDE DEF d
  <2>2. Mueve(h, state[h], d) BY <1>a, <1>b, <1>e, <2>1, MueveSolo DEF d
  <2>3. pc'[h] = d /\ state'[h] = "RUNNING" /\ \A u \in Tarea \ {h} : pc'[u] = pc[u]
    BY <1>e, <2>2 DEF Mueve
  <2>4. MutexInv'
    <3>1. \A u \in Tarea :
            \/ pc'[u] = pc[u]
            \/ pc[u] \notin EnMutex /\ pc'[u] \notin {"lockSched", "lockQuita"}
            \/ pc[u] = "lockSched" /\ pc'[u] = "lockQuita" /\ state'[u] = "RUNNING"
      BY <2>1, <2>3
    <3>2. \A u \in Tarea : pc[u] \in EnMutex => state'[u] \in {state[u], "RUNNING"} BY <1>b
    <3> QED BY <1>b, <3>1, <3>2, MutexMarco DEF Inv
  <2>5. EsperaInv'
    <3>1. \A u \in Tarea :
            \/ pc'[u] = pc[u]
            \/ pc[u] \notin EnCola /\ pc'[u] \notin {"mirar", "finalizar", "esperaSched"}
            \/ pc[u] = "esperaSched" /\ pc'[u] = "preparar"
      BY <2>1, <2>3 DEF EnCola
    <3>2. \A u \in Tarea : pc[u] \in EnCola => state'[u] \in {state[u], "RUNNING"} BY <1>b
    <3> QED BY <1>b, <3>1, <3>2, EsperaMarco DEF Inv
  <2>6. WqInv'
    <3>1. d \in PuntosEspera => wq = 1
      <4>1. TablaTarea(h) BY DEF Inv, TablaInv
      <4> QED BY <2>1, <4>1 DEF Inv, WqInv, TablaTarea
    <3>2. pc[h] \notin Fuera \cup {"avisarWorker"} /\ d # "workerSched" /\ state[h] # "DEAD"
      BY <1>e, <2>1 DEF Fuera, EnSchedule, Activos
    <3> QED BY <1>b, <2>1, <2>2, <3>1, <3>2, MueveWq
  <2> QED BY <1>e, <2>1, <2>2, <2>4, <2>5, <2>6 DEF d
<1>1. CASE runq # <<>> /\ Head(runq) # t
  <2> DEFINE h == Head(runq)
             r == Tail(runq)
  <2>1. /\ h \in Tarea /\ r \in Seq(Tarea) /\ IsInjective(r) /\ ~Contains(r, h)
        /\ \A u : Contains(runq, u) <=> Contains(r, u) \/ u = h
    BY <1>a, <1>c, <1>1, ListaPrimero DEF TipoPlan
  <2>2. h # t /\ state[h] = "RUNNING" BY <1>b, <1>c, <1>1, <2>1
  <2>3. /\ actual' = h /\ Ir(h, Continua(h))
        /\ runq' = IF state[t] = "RUNNING" /\ ~Contains(r, t) THEN Append(r, t) ELSE r
    BY <1>1 DEF Schedule, Ir
  <2> HIDE DEF h, r
  <2>4. EstadoTarea(h) /\ pc[h] \in PC /\ pc[h] # "perdida"
    BY <1>a, <2>1 DEF Inv, PlanInv, ColaExacta, TipoPlan
  <2>5. pc[h] \in EnSchedule \ {"terminarSched"}
    BY <1>b, <2>2, <2>4 DEF EstadoTarea, Fuera, Activos, PC, EnSchedule
  <2>6. /\ MutexInv' /\ EsperaInv' /\ WqInv' /\ Admite(h, "RUNNING", Continua(h))
        /\ Mueve(h, "RUNNING", Continua(h)) /\ Continua(h) \in Activos
    BY <1>e, <2>1, <2>2, <2>3, <2>5
  <2>7. ~Contains(r, t) BY <1>b, <1>c, <2>1
  <2>8. /\ runq' \in Seq(Tarea) /\ IsInjective(runq')
        /\ \A u \in Tarea : Contains(runq', u) <=> Contains(r, u) \/ (u = t /\ state[t] = "RUNNING")
    <3>1. CASE state[t] = "RUNNING"
      <4>1. runq' = Append(r, t) BY <2>3, <2>7, <3>1
      <4>2. /\ runq' \in Seq(Tarea) /\ IsInjective(runq')
            /\ \A u : Contains(runq', u) <=> Contains(r, u) \/ u = t
        BY <2>1, <2>7, <4>1, ListaAlFinal
      <4> QED BY <3>1, <4>2
    <3>2. CASE state[t] # "RUNNING" BY <2>1, <2>3, <3>2
    <3> QED BY <3>1, <3>2
  <2>9. pc'[h] = Continua(h) /\ \A u \in Tarea \ {h} : pc'[u] = pc[u] BY <2>6 DEF Mueve
  <2>10. PlanInv'
    <3>1. TipoPlan' BY <1>a, <1>b, <2>1, <2>3, <2>6, <2>8 DEF TipoPlan, tabla, Mueve
    <3>2. \A u \in Tarea : Contains(runq', u) <=> u # actual' /\ state'[u] = "RUNNING"
      BY <1>b, <1>c, <2>1, <2>2, <2>3, <2>8
    <3>3. ASSUME NEW u \in Tarea PROVE pc'[u] # "perdida" /\ EstadoTarea(u)'
      <4>1. EstadoTarea(u) /\ pc[u] # "perdida" BY DEF Inv, PlanInv, ColaExacta
      <4>2. CASE u = h
        BY <1>b, <2>2, <2>3, <2>6, <2>9, <4>2 DEF EstadoTarea, Activos, Fuera
      <4>3. CASE u = t
        BY <1>b, <2>2, <2>3, <2>9, <4>1, <4>3 DEF EstadoTarea, Activos, EnSchedule
      <4>4. CASE u # h /\ u # t
        BY <1>b, <2>3, <2>9, <4>1, <4>4 DEF EstadoTarea
      <4> QED BY <4>2, <4>3, <4>4
    <3>4. ColaExacta' BY <2>8, <3>2, <3>3 DEF ColaExacta
    <3> QED BY <3>1, <3>3, <3>4 DEF PlanInv
  <2>11. TablaInv'
    <3>1. ASSUME NEW u \in Tarea PROVE TablaTarea(u)'
      <4>1. TablaTarea(u) BY DEF Inv, TablaInv
      <4>2. CASE u = h
        BY <1>b, <2>2, <2>6, <2>9, <4>1, <4>2 DEF TablaTarea, Admite, tabla
      <4>3. CASE u # h
        BY <1>b, <2>3, <2>9, <4>1, <4>3 DEF TablaTarea, tabla
      <4> QED BY <4>2, <4>3
    <3> QED BY <3>1 DEF TablaInv
  <2> QED BY <1>d, <2>6, <2>10, <2>11 DEF Inv
<1>2. CASE ~(runq # <<>> /\ Head(runq) # t)
  <2>1. state[t] = "RUNNING" /\ runq' = Sin(runq, t) /\ Ir(t, Continua(t)) /\ UNCHANGED actual
    BY <1>2 DEF Schedule, Ir
  <2>2. runq' = runq
    <3>1. ~Contains(runq, t) BY <1>b, <1>c
    <3> QED BY <2>1, <3>1 DEF Sin
  <2>3. pc[t] # "terminarSched" BY <2>1 DEF Inv, PlanInv, EstadoTarea, Fuera
  <2>4. /\ MutexInv' /\ EsperaInv' /\ WqInv' /\ Admite(t, "RUNNING", Continua(t))
        /\ Mueve(t, "RUNNING", Continua(t))
    BY <1>b, <1>e, <2>1, <2>3
  <2>5. PlanInv' /\ TablaInv' BY <1>b, <2>1, <2>2, <2>4, Propio DEF Inv
  <2> QED BY <1>d, <2>4, <2>5 DEF Inv
<1> QED BY <1>1, <1>2

-----------------------------------------------------------------------------
(* Wakeups seen from each part of the invariant.                            *)

LEMMA DespertadasMutex ==
  ASSUME Inv, NEW D, Despiertan(D), UNCHANGED <<pc, mutex>> PROVE MutexInv'
<1>1. \A u \in Tarea : pc[u] \in EnMutex => state'[u] \in {state[u], "RUNNING"} BY DEF Despiertan
<1> QED BY <1>1, MutexMarco DEF Inv

LEMMA DespertadasEspera ==
  ASSUME Inv, NEW D, Despiertan(D), UNCHANGED <<pc, espera>> PROVE EsperaInv'
<1>1. \A u \in Tarea : pc[u] \in EnCola => state'[u] \in {state[u], "RUNNING"} BY DEF Despiertan
<1> QED BY <1>1, EsperaMarco DEF Inv

LEMMA DespertadasWq ==
  ASSUME Inv, NEW D, Despiertan(D), UNCHANGED <<pc, obras>> PROVE WqInv'
<1>1. WqInv /\ (wq = 1 => worker_task \in Tarea) BY DEF Inv, WqInv
<1>2. UNCHANGED worker_task BY DEF obras
<1>3. wq = 1 => /\ state'[worker_task] = "DEAD" <=> state[worker_task] = "DEAD"
                /\ Durmiendo(worker_task, "workerSched")' => Durmiendo(worker_task, "workerSched")
  BY <1>1, <1>2 DEF Despiertan, Durmiendo
<1> QED BY <1>1, <1>3, WqMarco DEF obras

LEMMA PasoDespertar ==
  ASSUME Inv, NEW t \in Tarea, NEW u \in Tarea, DespertarTarea(t, u) PROVE Inv'
<1> USE DEF obras, cola, cicloWq
<1>1. Despiertan({u}) BY DespiertaUna DEF DespertarTarea, Inv
<1>2. PlanInv' /\ TablaInv' BY <1>1, Despertadas DEF DespertarTarea
<1>3. MutexInv' BY <1>1, DespertadasMutex DEF DespertarTarea
<1>4. EsperaInv' BY <1>1, DespertadasEspera DEF DespertarTarea
<1>5. WqInv' BY <1>1, DespertadasWq DEF DespertarTarea
<1>6. TipoResto' BY TiposDe DEF DespertarTarea, Llama, TipoResto
<1> QED BY <1>2, <1>3, <1>4, <1>5, <1>6 DEF Inv

-----------------------------------------------------------------------------
(* The mutex.                                                               *)

LEMMA PasoTryLock == ASSUME Inv, NEW t \in Tarea, TryLock(t) PROVE Inv'
<1> USE DEF obras, cola, cicloWq
<1>a. UNCHANGED <<planif, pc, actual, tabla, wait_list, espera, obras>> BY DEF TryLock
<1>1. Despiertan({}) BY <1>a, DespiertaNadie DEF Inv
<1>2. PlanInv' /\ TablaInv' BY <1>1, <1>a, Despertadas
<1>3. EsperaInv' BY <1>1, <1>a, DespertadasEspera
<1>4. WqInv' BY <1>1, <1>a, DespertadasWq
<1>5. TipoResto' BY TiposDe DEF TryLock, Llama, TipoResto
<1>6. MutexInv'
  <2>1. CASE count = 1
    <3>1. count' = 0 /\ owner' = t /\ dentro' = dentro \cup {t} BY <2>1 DEF TryLock
    <3>2. dentro = {}
      <4>1. NULL \notin Tarea BY DEF Tarea
      <4> QED BY <2>1, <4>1 DEF Inv, MutexInv, ExclusionMutex, TipoMutex
    <3>3. t # NULL BY DEF Tarea
    <3>4. TipoMutex' /\ ExclusionMutex' /\ MutexAtendido'
      BY <1>a, <3>1, <3>2, <3>3, TiposDe DEF TipoMutex, ExclusionMutex, MutexAtendido
    <3>5. ASSUME NEW u \in Tarea PROVE MutexTarea(u)'
      <4>1. MutexTarea(u) BY DEF Inv, MutexInv
      <4> QED BY <1>a, <4>1 DEF MutexTarea, Durmiendo, planif
    <3> QED BY <1>a, <3>4, <3>5 DEF Inv, MutexInv
  <2>2. CASE count # 1
    <3>1. UNCHANGED mutex BY <2>2 DEF TryLock, mutex
    <3> QED BY <1>1, <1>a, <3>1, DespertadasMutex
  <2> QED BY <2>1, <2>2
<1> QED BY <1>2, <1>3, <1>4, <1>5, <1>6 DEF Inv

\* i915_mutex_lock: take the mutex, or enter the queue and sleep.
LEMMA PasoLock == ASSUME Inv, NEW t \in Tarea, Lock(t) PROVE Inv'
<1> USE DEF obras, cola, cicloWq
<1>a. TipoPlan /\ TipoMutex /\ TipoResto /\ TablaTarea(t) /\ MutexTarea(t)
  BY TiposDe DEF Inv, TablaInv, MutexInv
<1>b. t = actual /\ pc[t] = "lock" /\ UNCHANGED <<runq, actual, tabla, espera, obras>> BY DEF Lock
<1>c. state[t] = "RUNNING" BY <1>b, EnMarcha DEF Activos
<1>d. TipoResto' BY <1>a DEF Lock, TipoResto
<1>e. ~Contains(wait_list, t) BY <1>a, <1>b DEF MutexTarea
<1>f. ASSUME NEW u \in Tarea PROVE MutexTarea(u) BY DEF Inv, MutexInv
<1>1. CASE count = 1
  <2> DEFINE d == Base(t)
  <2>1. /\ count' = 0 /\ owner' = t /\ dentro' = dentro \cup {t} /\ Ir(t, d)
        /\ UNCHANGED <<state, wait_list>>
    BY <1>1 DEF Lock
  <2>2. d = (IF fn[t] = Obra THEN "func" ELSE "libre") BY DEF Base, Obra
  <2> HIDE DEF d
  <2>3. d \in {"func", "libre"} /\ d \in PC BY <2>2 DEF PC
  <2>4. Mueve(t, state[t], d) BY <1>a, <2>1, <2>3, MueveSolo
  <2>5. Admite(t, state[t], d)
    BY <1>a, <1>b, <1>c, <2>2, <2>3
       DEF Admite, TablaTarea, PuntosWorker, PuntosCliente, PuntosEspera, PuntosDestruir, SinObra, ConObra
  <2>6. PlanInv' /\ TablaInv' BY <1>b, <2>4, <2>5, Propio DEF Inv
  <2>7. EsperaInv' BY <1>b, <2>3, <2>4, MueveEspera DEF EnCola
  <2>8. WqInv'
    BY <1>b, <1>c, <2>3, <2>4, MueveWq DEF PuntosEspera, PuntosDestruir, Fuera
  <2>9. MutexInv'
    <3>1. dentro = {} /\ t # NULL
      <4>1. NULL \notin Tarea BY DEF Tarea
      <4> QED BY <1>1, <4>1 DEF Inv, MutexInv, ExclusionMutex, TipoMutex
    <3>2. TipoMutex' /\ ExclusionMutex' /\ MutexAtendido'
      BY <1>a, <2>1, <3>1 DEF TipoMutex, ExclusionMutex, MutexAtendido
    <3>3. ASSUME NEW u \in Tarea PROVE MutexTarea(u)'
      BY <1>e, <1>f, <2>1, <2>3, <2>4 DEF MutexTarea, Durmiendo, Mueve
    <3> QED BY <2>1, <3>2, <3>3 DEF Inv, MutexInv
  <2> QED BY <1>d, <2>6, <2>7, <2>8, <2>9 DEF Inv
<1>2. CASE count # 1
  <2> DEFINE x == "UNINTERRUPTIBLE"
             d == "lockSched"
  <2>1. /\ state' = [state EXCEPT ![t] = x] /\ wait_list' = Append(wait_list, t) /\ Ir(t, d)
        /\ UNCHANGED <<count, owner, dentro>>
    BY <1>2, <1>e DEF Lock
  <2>2. Mueve(t, x, d) BY <1>a, <2>1, MueveIr DEF PC, EnSchedule, Estados
  <2>3. Admite(t, x, d)
    BY <1>a, <1>b
       DEF Admite, TablaTarea, Activos, PuntosWorker, PuntosCliente, PuntosEspera, PuntosDestruir, SinObra, ConObra
  <2>4. PlanInv' /\ TablaInv' BY <1>b, <2>2, <2>3, Propio DEF Inv
  <2>5. EsperaInv' BY <1>b, <2>2, MueveEspera DEF EnCola
  <2>6. WqInv' BY <1>b, <2>2, MueveWq DEF PuntosEspera, PuntosDestruir, Fuera
  <2>7. MutexInv'
    <3>1. /\ wait_list' \in Seq(Tarea) /\ IsInjective(wait_list')
          /\ \A u : Contains(wait_list', u) <=> Contains(wait_list, u) \/ u = t
      BY <1>a, <1>e, <2>1, ListaAlFinal DEF Inv, MutexInv, TipoMutex
    <3>2. TipoMutex' /\ ExclusionMutex'
      BY <1>a, <2>1, <3>1 DEF Inv, MutexInv, TipoMutex, ExclusionMutex
    <3>3. MutexAtendido' BY <1>2, <2>1 DEF MutexAtendido
    <3>4. ASSUME NEW u \in Tarea PROVE MutexTarea(u)'
      <4>1. CASE u = t BY <2>2, <3>1, <4>1 DEF MutexTarea, Mueve
      <4>2. CASE u # t BY <1>f, <2>2, <3>1, <4>2 DEF MutexTarea, Durmiendo, Mueve
      <4> QED BY <4>1, <4>2
    <3> QED BY <3>1, <3>2, <3>3, <3>4 DEF MutexInv
  <2> QED BY <1>d, <2>4, <2>5, <2>6, <2>7 DEF Inv
<1> QED BY <1>1, <1>2

\* After the sleep: out of the queue, and to the test again.
LEMMA PasoLockQuita == ASSUME Inv, NEW t \in Tarea, LockQuita(t) PROVE Inv'
<1> USE DEF obras, cola, cicloWq
<1>a. TipoPlan /\ TipoMutex /\ TipoResto /\ TablaTarea(t)
  BY TiposDe DEF Inv, TablaInv
<1>b. /\ t = actual /\ pc[t] = "lockQuita" /\ Ir(t, "lock") /\ wait_list' = Sin(wait_list, t)
      /\ UNCHANGED <<state, runq, actual, tabla, count, owner, dentro, espera, obras>>
  BY DEF LockQuita, planif
<1>c. state[t] = "RUNNING" BY <1>b, EnMarcha DEF Activos
<1>d. TipoResto' BY <1>a DEF LockQuita, TipoResto
<1>1. Mueve(t, state[t], "lock") BY <1>a, <1>b, MueveSolo DEF PC
<1>2. Admite(t, state[t], "lock")
  BY <1>a, <1>b, <1>c
     DEF Admite, TablaTarea, Activos, PuntosWorker, PuntosCliente, PuntosEspera, PuntosDestruir, SinObra, ConObra
<1>3. PlanInv' /\ TablaInv' BY <1>b, <1>1, <1>2, Propio DEF Inv
<1>4. EsperaInv' BY <1>b, <1>1, MueveEspera DEF EnCola
<1>5. WqInv' BY <1>b, <1>c, <1>1, MueveWq DEF PuntosEspera, PuntosDestruir, Fuera
<1>6. MutexInv'
  <2>1. /\ wait_list' \in Seq(Tarea) /\ IsInjective(wait_list')
        /\ \A u : Contains(wait_list', u) <=> Contains(wait_list, u) /\ u # t
    BY <1>a, <1>b, ListaSin DEF Inv, MutexInv, TipoMutex
  <2>2. TipoMutex' /\ ExclusionMutex'
    BY <1>a, <1>b, <2>1 DEF Inv, MutexInv, TipoMutex, ExclusionMutex
  <2>3. ASSUME NEW u \in Tarea PROVE MutexTarea(u)'
    <3>1. MutexTarea(u) BY DEF Inv, MutexInv
    <3>2. CASE u = t BY <1>1, <2>1, <3>2 DEF MutexTarea, Mueve, Durmiendo
    <3>3. CASE u # t BY <1>1, <2>1, <3>1, <3>3 DEF MutexTarea, Mueve, Durmiendo
    <3> QED BY <3>2, <3>3
  <2>4. MutexAtendido'
    <3>1. pc'[t] = "lock" /\ state'[t] = "RUNNING" BY <1>1, <1>c DEF Mueve
    <3> QED BY <3>1 DEF MutexAtendido
  <2> QED BY <2>1, <2>2, <2>3, <2>4 DEF MutexInv
<1> QED BY <1>d, <1>3, <1>4, <1>5, <1>6 DEF Inv

LEMMA PasoUnlock == ASSUME Inv, NEW t \in Tarea, Unlock(t) PROVE Inv'
<1> USE DEF obras, cola, cicloWq
<1>a. TipoPlan /\ TipoMutex /\ TipoResto BY TiposDe
<1>b. /\ t \in dentro /\ count' = 1 /\ owner' = NULL /\ dentro' = dentro \ {t}
      /\ UNCHANGED <<pc, actual, tabla, espera, obras>>
  BY DEF Unlock
<1>c. TipoResto' BY <1>a DEF Unlock, TipoResto
<1>d. dentro' = {} BY <1>b DEF Inv, MutexInv, ExclusionMutex
<1>e. ASSUME NEW u \in Tarea PROVE MutexTarea(u) BY DEF Inv, MutexInv
<1>f. ExclusionMutex' BY <1>b, <1>d DEF ExclusionMutex
<1>1. CASE wait_list = <<>>
  <2>1. UNCHANGED <<wait_list, planif>> BY <1>1 DEF Unlock
  <2>2. Despiertan({}) BY <2>1, DespiertaNadie DEF Inv
  <2>3. PlanInv' /\ TablaInv' /\ EsperaInv' /\ WqInv'
    BY <1>b, <2>2, Despertadas, DespertadasEspera, DespertadasWq
  <2>4. TipoMutex' BY <1>a, <1>b, <1>d, <2>1 DEF TipoMutex
  <2>5. ASSUME NEW u \in Tarea PROVE MutexTarea(u)' /\ ~Durmiendo(u, "lockSched")'
    <3>1. ~Contains(wait_list, u) BY <1>1, ListaVacia
    <3> QED BY <1>b, <1>e, <2>1, <3>1 DEF MutexTarea, Durmiendo, planif
  <2>6. MutexInv' BY <1>f, <2>1, <2>4, <2>5 DEF Inv, MutexInv, MutexAtendido
  <2> QED BY <1>c, <2>3, <2>6 DEF Inv
<1>2. CASE wait_list # <<>>
  <2> DEFINE h == Head(wait_list)
  <2>1. wait_list' = Tail(wait_list) /\ Despertar(h) BY <1>2 DEF Unlock
  <2>2. /\ h \in Tarea /\ wait_list' \in Seq(Tarea) /\ IsInjective(wait_list')
        /\ \A u : Contains(wait_list, u) <=> Contains(wait_list', u) \/ u = h
    BY <1>2, <1>a, <2>1, ListaPrimero DEF Inv, MutexInv, TipoMutex
  <2> HIDE DEF h
  <2>3. Despiertan({h}) BY <2>1, <2>2, DespiertaUna DEF Inv
  <2>4. PlanInv' /\ TablaInv' /\ EsperaInv' /\ WqInv'
    BY <1>b, <2>3, Despertadas, DespertadasEspera, DespertadasWq
  <2>5. TipoMutex' BY <1>a, <1>b, <1>d, <2>2 DEF TipoMutex
  <2>6. ASSUME NEW u \in Tarea PROVE MutexTarea(u)'
    BY <1>b, <1>e, <2>2, <2>3 DEF MutexTarea, Durmiendo, Despiertan
  <2>7. pc'[h] \in {"lockSched", "lockQuita"} /\ state'[h] = "RUNNING"
    <3>1. pc[h] \in {"lockSched", "lockQuita"} BY <1>e, <2>2 DEF MutexTarea
    <3>2. state[h] \in Estados /\ state[h] # "DEAD"
      BY <1>a, <2>2, <3>1 DEF TipoPlan, Inv, PlanInv, EstadoTarea, Fuera
    <3> QED BY <1>b, <2>2, <2>3, <3>1, <3>2 DEF Despiertan, Estados
  <2>8. MutexAtendido' BY <2>2, <2>7 DEF MutexAtendido
  <2>9. MutexInv' BY <1>f, <2>2, <2>5, <2>6, <2>8 DEF MutexInv
  <2> QED BY <1>c, <2>4, <2>9 DEF Inv
<1> QED BY <1>1, <1>2

-----------------------------------------------------------------------------
(* The wait queue.                                                          *)

\* i915_prepare_to_wait.
LEMMA PasoPreparar == ASSUME Inv, NEW t \in Tarea, Preparar(t) PROVE Inv'
<1> USE DEF obras, cola, cicloWq
<1>a. TipoPlan /\ TipoResto /\ TablaTarea(t) /\ EsperaInv BY TiposDe DEF Inv, TablaInv
<1>b. /\ t = actual /\ pc[t] = "preparar" /\ Ir(t, "mirar")
      /\ head' = IF Contains(head, t) THEN head ELSE Append(head, t)
      /\ state' = [state EXCEPT ![t] = "UNINTERRUPTIBLE"]
      /\ UNCHANGED <<runq, actual, tabla, mutex, condicion, obras>>
  BY DEF Preparar
<1>c. TipoResto' BY <1>a DEF Preparar, TipoResto
<1>1. Mueve(t, "UNINTERRUPTIBLE", "mirar") BY <1>a, <1>b, MueveIr DEF PC, Estados
<1>2. Admite(t, "UNINTERRUPTIBLE", "mirar")
  BY <1>a, <1>b
     DEF Admite, TablaTarea, Activos, PuntosWorker, PuntosCliente, PuntosEspera, PuntosDestruir, SinObra, ConObra
<1>3. PlanInv' /\ TablaInv' BY <1>b, <1>1, <1>2, Propio DEF Inv
<1>4. MutexInv' BY <1>b, <1>1, MueveMutex DEF EnMutex
<1>5. WqInv' BY <1>b, <1>1, MueveWq DEF PuntosEspera, PuntosDestruir, Fuera
<1>6. EsperaInv'
  <2>1. /\ head' \in Seq(Tarea) /\ IsInjective(head')
        /\ \A u : Contains(head', u) <=> Contains(head, u) \/ u = t
    <3>1. CASE Contains(head, t) BY <1>a, <1>b, <3>1 DEF EsperaInv
    <3>2. CASE ~Contains(head, t)
      <4>1. head' = Append(head, t) BY <1>b, <3>2
      <4> QED BY <1>a, <3>2, <4>1, ListaAlFinal DEF EsperaInv
    <3> QED BY <3>1, <3>2
  <2>2. ASSUME NEW u \in Tarea PROVE EsperaTarea(u)'
    <3>1. EsperaTarea(u) BY <1>a DEF EsperaInv
    <3>2. CASE u = t BY <1>1, <2>1, <3>2 DEF EsperaTarea, Mueve, EnCola
    <3>3. CASE u # t BY <1>1, <2>1, <3>1, <3>3 DEF EsperaTarea, Mueve, Durmiendo
    <3> QED BY <3>2, <3>3
  <2>3. EsperaAtendida'
    <3>1. pc'[t] = "mirar" BY <1>1 DEF Mueve
    <3> QED BY <3>1 DEF EsperaAtendida
  <2> QED BY <1>a, <1>b, <2>1, <2>2, <2>3 DEF EsperaInv
<1> QED BY <1>c, <1>3, <1>4, <1>5, <1>6 DEF Inv

\* The waiter looks at the condition: it is in the queue already.
LEMMA PasoMirar == ASSUME Inv, NEW t \in Tarea, Mirar(t) PROVE Inv'
<1> USE DEF obras, cola, cicloWq
<1> DEFINE d == IF condicion = 1 THEN "finalizar" ELSE "esperaSched"
<1>a. TipoPlan /\ TipoResto /\ TablaTarea(t) /\ EsperaInv BY TiposDe DEF Inv, TablaInv
<1>b. /\ t = actual /\ pc[t] = "mirar" /\ Ir(t, d)
      /\ UNCHANGED <<state, runq, actual, tabla, mutex, espera, obras>>
  BY DEF Mirar, planif
<1>c. TipoResto' BY <1>a DEF Mirar, TipoResto
<1>d. d \in {"finalizar", "esperaSched"} /\ (condicion = 1 => d = "finalizar") OBVIOUS
<1>e. state[t] # "DEAD" BY <1>b DEF Inv, PlanInv, EstadoTarea, Fuera
<1> HIDE DEF d
<1>1. Mueve(t, state[t], d)
  <2>1. d \in PC BY <1>d DEF PC, EnSchedule
  <2> QED BY <1>a, <1>b, <2>1, MueveSolo
<1>2. Admite(t, state[t], d)
  BY <1>a, <1>b, <1>d, <1>e
     DEF Admite, TablaTarea, Activos, PuntosWorker, PuntosCliente, PuntosEspera, PuntosDestruir, SinObra, ConObra
<1>3. PlanInv' /\ TablaInv' BY <1>b, <1>1, <1>2, Propio DEF Inv
<1>4. MutexInv' BY <1>b, <1>d, <1>1, MueveMutex DEF EnMutex
<1>5. WqInv' BY <1>b, <1>d, <1>e, <1>1, MueveWq DEF PuntosEspera, PuntosDestruir, Fuera
<1>6. EsperaInv'
  <2>1. ASSUME NEW u \in Tarea PROVE EsperaTarea(u)'
    <3>1. EsperaTarea(u) BY <1>a DEF EsperaInv
    <3>2. CASE u = t
      BY <1>b, <1>d, <1>1, <3>1, <3>2 DEF EsperaTarea, Mueve, EnCola, Durmiendo, espera
    <3>3. CASE u # t BY <1>b, <1>1, <3>1, <3>3 DEF EsperaTarea, Mueve, Durmiendo, espera
    <3> QED BY <3>2, <3>3
  <2>2. EsperaAtendida'
    <3>1. condicion' = 1 => pc'[t] = "finalizar" BY <1>b, <1>d, <1>1 DEF Mueve, espera
    <3> QED BY <3>1 DEF EsperaAtendida
  <2> QED BY <1>a, <1>b, <2>1, <2>2 DEF EsperaInv, espera
<1> QED BY <1>c, <1>3, <1>4, <1>5, <1>6 DEF Inv

\* i915_finish_wait.
LEMMA PasoFinalizar == ASSUME Inv, NEW t \in Tarea, Finalizar(t) PROVE Inv'
<1> USE DEF obras, cola, cicloWq
<1>a. TipoPlan /\ TipoResto /\ TablaTarea(t) /\ EsperaInv BY TiposDe DEF Inv, TablaInv
<1>b. /\ t = actual /\ pc[t] = "finalizar" /\ Ir(t, Base(t)) /\ head' = Sin(head, t)
      /\ state' = [state EXCEPT ![t] = "RUNNING"] /\ condicion' = 0
      /\ UNCHANGED <<runq, actual, tabla, mutex, obras>>
  BY DEF Finalizar
<1>c. TipoResto' BY <1>a DEF Finalizar, TipoResto
<1>d. fn[t] # Obra BY <1>a, <1>b DEF TablaTarea, PuntosCliente
<1>e. Ir(t, "libre") BY <1>b, <1>d DEF Base, Obra
<1>1. Mueve(t, "RUNNING", "libre") BY <1>a, <1>b, <1>e, MueveIr DEF PC, Estados
<1>2. Admite(t, "RUNNING", "libre")
  BY <1>b, <1>d DEF Admite, PuntosWorker, PuntosEspera, PuntosDestruir
<1>3. PlanInv' /\ TablaInv' BY <1>b, <1>1, <1>2, Propio DEF Inv
<1>4. MutexInv' BY <1>b, <1>1, MueveMutex DEF EnMutex
<1>5. WqInv' BY <1>b, <1>1, MueveWq DEF PuntosEspera, PuntosDestruir, Fuera
<1>6. EsperaInv'
  <2>1. /\ head' \in Seq(Tarea) /\ IsInjective(head')
        /\ \A u : Contains(head', u) <=> Contains(head, u) /\ u # t
    BY <1>a, <1>b, ListaSin DEF EsperaInv
  <2>2. ASSUME NEW u \in Tarea PROVE EsperaTarea(u)'
    <3>1. EsperaTarea(u) BY <1>a DEF EsperaInv
    <3>2. CASE u = t BY <1>1, <2>1, <3>2 DEF EsperaTarea, Mueve, Durmiendo
    <3>3. CASE u # t BY <1>1, <2>1, <3>1, <3>3 DEF EsperaTarea, Mueve, Durmiendo
    <3> QED BY <3>2, <3>3
  <2>3. EsperaAtendida' BY <1>b DEF EsperaAtendida
  <2> QED BY <1>b, <2>1, <2>2, <2>3 DEF EsperaInv
<1> QED BY <1>c, <1>3, <1>4, <1>5, <1>6 DEF Inv

\* Somebody woken from the queue looks at the condition again.
LEMMA AvisoEspera ==
  ASSUME Inv, NEW D, Despiertan(D), UNCHANGED pc, condicion' = 1,
         head' \in Seq(Tarea), IsInjective(head'),
         \A u \in Tarea : Contains(head', u) <=> Contains(head, u) /\ u \notin D,
         D = {} => head = <<>>, \A u \in D : u \in Tarea /\ Contains(head, u)
  PROVE  EsperaInv'
<1>a. ASSUME NEW u \in Tarea PROVE EsperaTarea(u) /\ EstadoTarea(u) /\ state[u] \in Estados
  BY DEF Inv, EsperaInv, PlanInv, TipoPlan
<1>1. ASSUME NEW u \in Tarea PROVE EsperaTarea(u)'
  <2>1. EsperaTarea(u) BY <1>a
  <2> QED BY <2>1 DEF EsperaTarea, Durmiendo, Despiertan
<1>2. EsperaAtendida'
  <2>1. CASE D = {}
    <3>1. \A u \in Tarea : ~Contains(head', u) BY <2>1, ListaVacia
    <3>2. \A u \in Tarea : ~Durmiendo(u, "esperaSched")' BY <1>1, <3>1 DEF EsperaTarea
    <3> QED BY <3>2 DEF EsperaAtendida
  <2>2. CASE D # {}
    <3>1. PICK h \in D : h \in Tarea /\ Contains(head, h) BY <2>2
    <3>2. pc[h] \in EnCola /\ state[h] # "DEAD" BY <1>a, <3>1 DEF EsperaTarea, EstadoTarea, EnCola, Fuera
    <3>3. state'[h] = "RUNNING" BY <1>a, <3>1, <3>2 DEF Despiertan, Estados
    <3> QED BY <3>1, <3>2, <3>3 DEF EsperaAtendida, EnCola
  <2> QED BY <2>1, <2>2
<1> QED BY <1>1, <1>2 DEF EsperaInv

\* i915_wake_up and i915_wake_up_all, from a task or from an interrupt.
LEMMA PasoAviso ==
  ASSUME Inv, WakeUp \/ WakeUpAll, UNCHANGED <<tabla, pc, actual, mutex, obras>>, TipoResto'
  PROVE  Inv'
<1>a. PlanInv /\ EsperaInv /\ head \in Seq(Tarea) /\ IsInjective(head) BY DEF Inv, EsperaInv
<1>1. ASSUME NEW D, Despiertan(D), EsperaInv' PROVE Inv'
  <2>1. UNCHANGED <<pc, actual, tabla, wq, worker_task, work>> BY DEF obras
  <2>2. PlanInv' /\ TablaInv' BY <1>1, <2>1, Despertadas
  <2>3. MutexInv' BY <1>1, DespertadasMutex
  <2>4. WqInv' BY <1>1, DespertadasWq
  <2> QED BY <1>1, <2>2, <2>3, <2>4 DEF Inv
<1>2. CASE WakeUpAll
  <2> DEFINE D == {t \in Tarea : Contains(head, t)}
  <2>1. Despiertan(D) BY <1>2, <1>a, DespiertanTodas
  <2>2. condicion' = 1 /\ head' = <<>> BY <1>2 DEF WakeUpAll
  <2>3. D = {} => head = <<>>
    <3>1. ASSUME head # <<>> PROVE Head(head) \in Tarea /\ Contains(head, Head(head))
      BY <1>a, <3>1, ListaPrimero
    <3> QED BY <3>1
  <2>4. head' \in Seq(Tarea) /\ IsInjective(head') /\ \A u : ~Contains(head', u)
    BY <2>2, ListaVacia
  <2>5. \A u \in Tarea : Contains(head', u) <=> Contains(head, u) /\ u \notin D BY <2>4
  <2>6. \A u \in D : u \in Tarea /\ Contains(head, u) OBVIOUS
  <2> HIDE DEF D
  <2>7. EsperaInv' BY <2>1, <2>2, <2>3, <2>4, <2>5, <2>6, AvisoEspera
  <2> QED BY <1>1, <2>1, <2>7
<1>3. CASE WakeUp /\ head = <<>>
  <2>1. condicion' = 1 /\ UNCHANGED <<head, planif>> BY <1>3 DEF WakeUp
  <2>2. Despiertan({}) BY <1>a, <2>1, DespiertaNadie
  <2>3. EsperaInv' BY <1>3, <1>a, <2>1, <2>2, AvisoEspera
  <2> QED BY <1>1, <2>2, <2>3
<1>4. CASE WakeUp /\ head # <<>>
  <2> DEFINE h == Head(head)
  <2>1. condicion' = 1 /\ head' = Tail(head) /\ Despertar(h) BY <1>4 DEF WakeUp
  <2>2. /\ h \in Tarea /\ head' \in Seq(Tarea) /\ IsInjective(head') /\ ~Contains(head', h)
        /\ \A u : Contains(head, u) <=> Contains(head', u) \/ u = h
    BY <1>4, <1>a, <2>1, ListaPrimero
  <2> HIDE DEF h
  <2>3. Despiertan({h}) BY <1>a, <2>1, <2>2, DespiertaUna
  <2>4. EsperaInv' BY <2>1, <2>2, <2>3, AvisoEspera
  <2> QED BY <1>1, <2>3, <2>4
<1> QED BY <1>2, <1>3, <1>4

LEMMA PasoWakeUp ==
  ASSUME Inv, IrqWakeUp \/ \E t \in Tarea : WakeUpTarea(t) PROVE Inv'
<1> USE DEF obras, cola, cicloWq
<1>1. TipoResto' BY TiposDe DEF IrqWakeUp, WakeUpTarea, Llama, TipoResto
<1>2. WakeUp \/ WakeUpAll BY DEF IrqWakeUp, WakeUpTarea
<1>3. UNCHANGED <<tabla, pc, actual, mutex, obras>> BY DEF IrqWakeUp, WakeUpTarea
<1> QED BY <1>1, <1>2, <1>3, PasoAviso

-----------------------------------------------------------------------------
(* The workqueue: queueing, running, cancelling.                            *)

\* The counters of the queue when w enters it, leaves it by its head, or is
\* taken out; the bits of the other works do not change.
LEMMA CuentaEntra ==
  ASSUME WqInv, wq = 1, UNCHANGED <<wq, running, worker_task, work>>, NEW w \in Trabajos,
         "PENDING" \notin data[w], data' = [data EXCEPT ![w] = @ \cup {"PENDING"}],
         work_list' = Append(work_list, w), pending' = pending + 1, active_jobs' = active_jobs + 1
  PROVE  TipoCola' /\ CuentasExactas'
<1>a. TipoCola /\ CuentasExactas BY DEF WqInv
<1>b. ~Contains(work_list, w) /\ IsInjective(work_list) BY <1>a DEF CuentasExactas
<1>1. /\ work_list' \in Seq(Trabajos) /\ Len(work_list') = Len(work_list) + 1
      /\ \A u : Contains(work_list', u) <=> Contains(work_list, u) \/ u = w
      /\ IsInjective(work_list')
  BY <1>a, <1>b, ListaAlFinal DEF TipoCola
<1>2. /\ data' \in [Trabajos -> SUBSET {"PENDING", "RUNNING"}]
      /\ data'[w] = data[w] \cup {"PENDING"} /\ \A v \in Trabajos \ {w} : data'[v] = data[v]
  BY <1>a DEF TipoCola
<1>3. TipoCola' BY <1>a, <1>1, <1>2 DEF TipoCola
<1>4. ASSUME NEW v \in Trabajos
      PROVE  /\ "PENDING" \in data'[v] <=> Contains(work_list', v)
             /\ "RUNNING" \in data'[v] <=> work' = v
  BY <1>a, <1>1, <1>2 DEF CuentasExactas
<1>5. pending' = Len(work_list') BY <1>a, <1>1 DEF CuentasExactas
<1>6. active_jobs' = pending' + (IF work' = NULL THEN 0 ELSE 1)
  BY <1>a DEF CuentasExactas, TipoCola
<1> QED BY <1>1, <1>3, <1>4, <1>5, <1>6 DEF CuentasExactas

LEMMA CuentaSale ==
  ASSUME WqInv, wq = 1, UNCHANGED <<wq, running, worker_task, active_jobs>>, work = NULL,
         work_list # <<>>, work' = Head(work_list), work_list' = Tail(work_list),
         data' = [data EXCEPT ![Head(work_list)] = {"RUNNING"}], pending' = pending - 1
  PROVE  TipoCola' /\ CuentasExactas' /\ work' \in Trabajos
<1> DEFINE w == Head(work_list)
<1>a. TipoCola /\ CuentasExactas BY DEF WqInv
<1>b. IsInjective(work_list) /\ pending = Len(work_list) BY <1>a DEF CuentasExactas
<1>1. /\ w \in Trabajos /\ work_list' \in Seq(Trabajos) /\ Len(work_list') = Len(work_list) - 1
      /\ \A u : Contains(work_list, u) <=> Contains(work_list', u) \/ u = w
      /\ IsInjective(work_list') /\ ~Contains(work_list', w)
  BY <1>a, <1>b, ListaPrimero DEF TipoCola
<1>2. Len(work_list') \in Nat BY <1>1
<1> HIDE DEF w
<1>3. /\ data' \in [Trabajos -> SUBSET {"PENDING", "RUNNING"}]
      /\ data'[w] = {"RUNNING"} /\ \A v \in Trabajos \ {w} : data'[v] = data[v]
  BY <1>a, <1>1 DEF TipoCola, w
<1>4. pending' = Len(work_list') /\ pending' \in Nat BY <1>b, <1>1, <1>2
<1>5. TipoCola' BY <1>a, <1>1, <1>3, <1>4 DEF TipoCola, w
<1>6. ASSUME NEW v \in Trabajos
      PROVE  /\ "PENDING" \in data'[v] <=> Contains(work_list', v)
             /\ "RUNNING" \in data'[v] <=> work' = v
  <2>1. CASE v = w BY <1>1, <1>3, <2>1 DEF w
  <2>2. CASE v # w BY <1>a, <1>1, <1>3, <2>2 DEF CuentasExactas, w
  <2> QED BY <2>1, <2>2
<1>7. work' # NULL BY <1>1 DEF w
<1>8. active_jobs' = pending' + (IF work' = NULL THEN 0 ELSE 1)
  BY <1>a, <1>7 DEF CuentasExactas, TipoCola
<1> QED BY <1>1, <1>4, <1>5, <1>6, <1>8 DEF CuentasExactas, w

LEMMA CuentaTermina ==
  ASSUME WqInv, wq = 1, UNCHANGED <<wq, running, worker_task, work_list, pending>>,
         work \in Trabajos, data' = [data EXCEPT ![work] = @ \ {"RUNNING"}],
         active_jobs' = active_jobs - 1, work' = NULL
  PROVE  TipoCola' /\ CuentasExactas'
<1>a. TipoCola /\ CuentasExactas BY DEF WqInv
<1>1. /\ data' \in [Trabajos -> SUBSET {"PENDING", "RUNNING"}]
      /\ data'[work] = data[work] \ {"RUNNING"} /\ \A v \in Trabajos \ {work} : data'[v] = data[v]
  BY <1>a DEF TipoCola
<1>2. active_jobs = pending + 1 BY <1>a DEF CuentasExactas
<1>3. active_jobs' = pending BY <1>a, <1>2 DEF TipoCola
<1>4. TipoCola' BY <1>a, <1>1, <1>3 DEF TipoCola
<1>5. ASSUME NEW v \in Trabajos
      PROVE  /\ "PENDING" \in data'[v] <=> Contains(work_list', v)
             /\ "RUNNING" \in data'[v] <=> work' = v
  BY <1>a, <1>1 DEF CuentasExactas
<1>6. active_jobs' = pending' + (IF work' = NULL THEN 0 ELSE 1) BY <1>a, <1>3 DEF TipoCola
<1> QED BY <1>a, <1>4, <1>5, <1>6 DEF CuentasExactas

LEMMA CuentaCancela ==
  ASSUME WqInv, wq = 1, UNCHANGED <<wq, running, worker_task, work>>, NEW w \in Trabajos,
         "PENDING" \in data[w], data' = [data EXCEPT ![w] = @ \ {"PENDING"}],
         work_list' = Sin(work_list, w), pending' = pending - 1, active_jobs' = active_jobs - 1
  PROVE  TipoCola' /\ CuentasExactas' /\ work_list # <<>>
<1>a. TipoCola /\ CuentasExactas BY DEF WqInv
<1>b. Contains(work_list, w) /\ IsInjective(work_list) /\ pending = Len(work_list)
  BY <1>a DEF CuentasExactas
<1>1. /\ work_list' \in Seq(Trabajos) /\ Len(work_list') = Len(work_list) - 1
      /\ \A u : Contains(work_list', u) <=> Contains(work_list, u) /\ u # w
      /\ IsInjective(work_list')
  BY <1>a, <1>b, ListaSin DEF TipoCola
<1>2. Len(work_list') \in Nat BY <1>1
<1>3. /\ data' \in [Trabajos -> SUBSET {"PENDING", "RUNNING"}]
      /\ data'[w] = data[w] \ {"PENDING"} /\ \A v \in Trabajos \ {w} : data'[v] = data[v]
  BY <1>a DEF TipoCola
<1>4. pending' = Len(work_list') /\ pending' \in Nat BY <1>b, <1>1, <1>2
<1>5. active_jobs' = pending' + (IF work' = NULL THEN 0 ELSE 1)
  BY <1>a DEF CuentasExactas, TipoCola
<1>6. active_jobs' \in Nat BY <1>4, <1>5
<1>7. TipoCola' BY <1>a, <1>1, <1>3, <1>4, <1>6 DEF TipoCola
<1>8. ASSUME NEW v \in Trabajos
      PROVE  /\ "PENDING" \in data'[v] <=> Contains(work_list', v)
             /\ "RUNNING" \in data'[v] <=> work' = v
  <2>1. CASE v = w BY <1>a, <1>1, <1>3, <2>1 DEF CuentasExactas
  <2>2. CASE v # w BY <1>a, <1>1, <1>3, <2>2 DEF CuentasExactas
  <2> QED BY <2>1, <2>2
<1>9. work_list # <<>> BY <1>b, ListaVacia
<1> QED BY <1>1, <1>4, <1>5, <1>7, <1>8, <1>9 DEF CuentasExactas

\* The queue and its worker, given its counters.
LEMMA WqCon ==
  ASSUME WqInv, wq = 1, UNCHANGED <<wq, running, worker_task>>, TipoCola', CuentasExactas',
         state'[worker_task] # "DEAD", ~Durmiendo(worker_task, "workerSched")',
         pc'[0] \in PuntosDestruir => pc[0] \in PuntosDestruir, pc'[0] # "soltar"
  PROVE  WqInv'
<1>1. WorkerAtendido' BY DEF WorkerAtendido
<1> QED BY <1>1 DEF WqInv

\* i915_queue_work.
LEMMA PasoEncola ==
  ASSUME Inv, NEW w \in Trabajos, QueueWork(w), ops' \in 0..MaxOps,
         UNCHANGED <<tabla, pc, actual, mutex, espera, cicloWq, work, objetivo>>
  PROVE  Inv'
<1> USE DEF obras, cola, cicloWq
<1>a. TipoResto /\ WqInv /\ PlanInv BY TiposDe DEF Inv
<1>b. wq = 1 /\ worker_task \in Tarea \ {0} BY <1>a DEF QueueWork, WqInv
<1>1. CASE running = 0 \/ "PENDING" \in data[w]
  <2>1. UNCHANGED <<planif, cola>> BY <1>1 DEF QueueWork
  <2>2. Despiertan({}) BY <1>a, <2>1, DespiertaNadie
  <2>3. PlanInv' /\ TablaInv' /\ MutexInv' /\ EsperaInv' /\ WqInv'
    BY <2>1, <2>2, Despertadas, DespertadasMutex, DespertadasEspera, DespertadasWq
  <2>4. TipoResto' BY <1>a, <2>1 DEF TipoResto
  <2> QED BY <2>3, <2>4 DEF Inv
<1>2. CASE ~(running = 0 \/ "PENDING" \in data[w])
  <2>1. /\ data' = [data EXCEPT ![w] = @ \cup {"PENDING"}]
        /\ work_list' = Append(work_list, w)
        /\ pending' = pending + 1 /\ active_jobs' = active_jobs + 1
        /\ firmes' = firmes \ {w}
        /\ Despertar(worker_task)
    BY <1>2 DEF QueueWork
  <2>2. Despiertan({worker_task}) BY <1>a, <1>b, <2>1, DespiertaUna
  <2>3. PlanInv' /\ TablaInv' /\ MutexInv' /\ EsperaInv'
    BY <2>2, Despertadas, DespertadasMutex, DespertadasEspera
  <2>4. TipoCola' /\ CuentasExactas' BY <1>2, <1>a, <1>b, <2>1, CuentaEntra
  <2>5. state[worker_task] # "DEAD" BY <1>2, <1>a, <1>b DEF WqInv
  <2>6. state'[worker_task] # "DEAD" /\ ~Durmiendo(worker_task, "workerSched")'
    BY <1>b, <2>2, <2>5 DEF Despiertan, Durmiendo
  <2>7. pc[0] # "soltar" BY <1>2, <1>a DEF WqInv, PuntosDestruir, TipoCola
  <2>8. WqInv' BY <1>a, <1>b, <2>4, <2>6, <2>7, WqCon
  <2>9. TipoResto'
    <3>1. firmes' \subseteq Trabajos BY <1>a, <2>1 DEF TipoResto
    <3> QED BY <1>a, <3>1 DEF TipoResto
  <2> QED BY <2>3, <2>8, <2>9 DEF Inv
<1> QED BY <1>1, <1>2

LEMMA PasoQueueWork ==
  ASSUME Inv, NEW w \in Trabajos, IrqQueueWork(w) \/ \E t \in Tarea : QueueWorkTarea(t, w)
  PROVE  Inv'
<1>1. ASSUME NEW n \in 0..MaxOps, n < MaxOps PROVE n + 1 \in 0..MaxOps BY <1>1
<1>2. ops \in 0..MaxOps BY TiposDe DEF TipoResto
<1>3. CASE IrqQueueWork(w)
  <2>1. ops' \in 0..MaxOps BY <1>1, <1>2, <1>3 DEF IrqQueueWork
  <2> QED BY <1>3, <2>1, PasoEncola DEF IrqQueueWork
<1>4. ASSUME NEW t \in Tarea, QueueWorkTarea(t, w) PROVE Inv'
  <2>1. ops' \in 0..MaxOps BY <1>1, <1>2, <1>4 DEF QueueWorkTarea, Llama
  <2> QED BY <1>4, <2>1, PasoEncola DEF QueueWorkTarea
<1> QED BY <1>3, <1>4

\* The worker: the task of the queue, running, outside any work or inside one.
LEMMA ElWorker ==
  ASSUME Inv, NEW t \in Tarea, pc[t] \in {"workerMira", "workerAcaba"}
  PROVE  /\ wq = 1 /\ worker_task = t /\ fn[t] = Obra /\ t # 0 /\ state[t] = "RUNNING" /\ t = actual
         /\ pc[t] = "workerMira" => work = NULL
         /\ pc[t] = "workerAcaba" => work \in Trabajos
         /\ pc[0] # "soltar"
<1>1. TablaTarea(t) /\ WqInv /\ TipoCola BY TiposDe DEF Inv, TablaInv
<1>2. fn[t] = Obra /\ wq = 1 /\ worker_task = t BY <1>1 DEF TablaTarea, PuntosWorker
<1>3. state[t] = "RUNNING" /\ t = actual BY EnMarcha DEF Activos
<1>4. pc[0] # "soltar" BY <1>1, <1>2, <1>3 DEF WqInv
<1> QED BY <1>1, <1>2, <1>3, <1>4 DEF TablaTarea, WqInv, SinObra, ConObra, TipoCola

\* worker_thread_fn takes a work, sleeps or ends.
LEMMA PasoWorkerMira == ASSUME Inv, NEW t \in Tarea, WorkerMira(t) PROVE Inv'
<1> USE DEF obras, cola, cicloWq
<1>a. TipoPlan /\ TipoResto /\ WqInv BY TiposDe DEF Inv
<1>b. /\ t = actual /\ pc[t] = "workerMira"
      /\ UNCHANGED <<runq, actual, tabla, mutex, espera, active_jobs, cicloWq>>
  BY DEF WorkerMira
<1>c. TipoResto' BY <1>a DEF WorkerMira, TipoResto
<1>d. /\ wq = 1 /\ worker_task = t /\ fn[t] = Obra /\ t # 0 /\ state[t] = "RUNNING"
      /\ work = NULL /\ pc[0] # "soltar"
  BY <1>b, ElWorker
<1>e. 0 \in Tarea \ {t} BY <1>d, TiposDe
<1>1. CASE work_list # <<>>
  <2>1. /\ work' = Head(work_list) /\ work_list' = Tail(work_list)
        /\ data' = [data EXCEPT ![Head(work_list)] = {"RUNNING"}]
        /\ pending' = pending - 1 /\ Ir(t, "func") /\ UNCHANGED state
    BY <1>1 DEF WorkerMira
  <2>2. TipoCola' /\ CuentasExactas' /\ work' \in Trabajos
    BY <1>1, <1>a, <1>b, <1>d, <2>1, CuentaSale
  <2>3. work' # NULL BY <2>2
  <2>4. Mueve(t, state[t], "func") BY <1>a, <2>1, MueveSolo DEF PC
  <2>5. Admite(t, state[t], "func")
    BY <1>d, <2>3
       DEF Admite, Activos, PuntosWorker, PuntosCliente, PuntosEspera, PuntosDestruir, SinObra, ConObra
  <2>6. PlanInv' /\ TablaInv' BY <1>b, <2>4, <2>5, Propio DEF Inv
  <2>7. MutexInv' BY <1>b, <2>4, MueveMutex DEF EnMutex
  <2>8. EsperaInv' BY <1>b, <2>4, MueveEspera DEF EnCola
  <2>9. pc'[0] = pc[0] /\ state'[t] = "RUNNING" BY <1>d, <1>e, <2>4 DEF Mueve
  <2>10. WqInv' BY <1>a, <1>b, <1>d, <2>2, <2>9, WqCon DEF Durmiendo
  <2> QED BY <1>c, <2>6, <2>7, <2>8, <2>10 DEF Inv
<1>2. CASE work_list = <<>>
  <2> DEFINE x == IF running = 0 THEN "DEAD" ELSE "UNINTERRUPTIBLE"
             d == IF running = 0 THEN "terminarSched" ELSE "workerSched"
  <2>1. state' = [state EXCEPT ![t] = x] /\ Ir(t, d) /\ UNCHANGED obras
    BY <1>2, <1>b DEF WorkerMira
  <2>2. \/ running = 0 /\ x = "DEAD" /\ d = "terminarSched"
        \/ running = 1 /\ x = "UNINTERRUPTIBLE" /\ d = "workerSched"
    BY <1>a DEF WqInv, TipoCola
  <2> HIDE DEF x, d
  <2>3. Mueve(t, x, d)
    <3>1. x \in Estados /\ d \in PC BY <2>2 DEF Estados, PC, EnSchedule
    <3> QED BY <1>a, <2>1, <3>1, MueveIr
  <2>4. Admite(t, x, d)
    BY <1>d, <2>1, <2>2
       DEF Admite, Activos, PuntosWorker, PuntosCliente, PuntosEspera, PuntosDestruir, SinObra, ConObra
  <2>5. PlanInv' /\ TablaInv' BY <1>b, <2>3, <2>4, Propio DEF Inv
  <2>6. MutexInv' BY <1>b, <2>2, <2>3, MueveMutex DEF EnMutex
  <2>7. EsperaInv' BY <1>b, <2>2, <2>3, MueveEspera DEF EnCola
  <2>8. pc'[0] = pc[0] /\ state'[t] = x /\ pc'[t] = d BY <1>e, <2>3 DEF Mueve
  <2>9. WqInv'
    <3>1. TipoCola' /\ CuentasExactas' BY <1>a, <2>1 DEF WqInv, TipoCola, CuentasExactas
    <3>2. WorkerAtendido' BY <1>2, <1>d, <2>1, <2>2, <2>8 DEF WorkerAtendido, Durmiendo
    <3>3. state'[worker_task'] = "DEAD" => running' = 0 /\ work_list' = <<>>
      BY <1>2, <1>d, <2>1, <2>2, <2>8
    <3> QED BY <1>a, <1>d, <2>1, <2>8, <3>1, <3>2, <3>3 DEF WqInv
  <2> QED BY <1>c, <2>5, <2>6, <2>7, <2>9 DEF Inv
<1> QED BY <1>1, <1>2

LEMMA PasoWorkerAcaba == ASSUME Inv, NEW t \in Tarea, WorkerAcaba(t) PROVE Inv'
<1> USE DEF obras, cola, cicloWq
<1>a. TipoPlan /\ TipoResto /\ WqInv BY TiposDe DEF Inv
<1>b. /\ t = actual /\ pc[t] = "workerAcaba" /\ Ir(t, "workerAvisa")
      /\ data' = [data EXCEPT ![work] = @ \ {"RUNNING"}]
      /\ active_jobs' = active_jobs - 1 /\ work' = NULL
      /\ UNCHANGED <<state, runq, actual, tabla, mutex, espera, work_list, pending, cicloWq>>
  BY DEF WorkerAcaba, planif
<1>c. TipoResto' BY <1>a DEF WorkerAcaba, TipoResto
<1>d. /\ wq = 1 /\ worker_task = t /\ fn[t] = Obra /\ t # 0 /\ state[t] = "RUNNING"
      /\ work \in Trabajos /\ pc[0] # "soltar"
  BY <1>b, ElWorker
<1>e. 0 \in Tarea \ {t} BY <1>d, TiposDe
<1>1. TipoCola' /\ CuentasExactas' BY <1>a, <1>b, <1>d, CuentaTermina
<1>2. Mueve(t, state[t], "workerAvisa") BY <1>a, <1>b, MueveSolo DEF PC
<1>3. Admite(t, state[t], "workerAvisa")
  BY <1>b, <1>d
     DEF Admite, Activos, PuntosWorker, PuntosCliente, PuntosEspera, PuntosDestruir, SinObra, ConObra
<1>4. PlanInv' /\ TablaInv' BY <1>b, <1>2, <1>3, Propio DEF Inv
<1>5. MutexInv' BY <1>b, <1>2, MueveMutex DEF EnMutex
<1>6. EsperaInv' BY <1>b, <1>2, MueveEspera DEF EnCola
<1>7. pc'[0] = pc[0] /\ state'[t] = "RUNNING" BY <1>d, <1>e, <1>2 DEF Mueve
<1>8. WqInv' BY <1>a, <1>b, <1>d, <1>1, <1>7, WqCon DEF Durmiendo
<1> QED BY <1>c, <1>4, <1>5, <1>6, <1>8 DEF Inv

\* Task 0 makes a call: it is at "libre", and it is not the worker.
LEMMA LlamaCero ==
  ASSUME Inv, Llama(0)
  PROVE  /\ 0 \in Tarea /\ actual = 0 /\ pc[0] = "libre" /\ state[0] = "RUNNING" /\ fn[0] # Obra
         /\ ops' \in 0..MaxOps
<1>1. TablaTarea(0) /\ 0 \in Tarea /\ ops \in 0..MaxOps BY TiposDe DEF Inv, TablaInv, TipoResto
<1>2. fn[0] # Obra BY <1>1 DEF TablaTarea, Obra
<1>3. actual = 0 /\ pc[0] = "libre" BY <1>1, <1>2 DEF TablaTarea, PuntosWorker, Llama
<1>4. ops' \in 0..MaxOps BY <1>1 DEF Llama
<1> QED BY <1>1, <1>2, <1>3, <1>4, EnMarcha DEF Activos

\* i915_cancel_work_sync, the section under the lock.
LEMMA PasoCancelWorkSync == ASSUME Inv, NEW w \in Trabajos, CancelWorkSync(w) PROVE Inv'
<1> USE DEF obras, cola, cicloWq
<1>a. TipoPlan /\ TipoResto /\ WqInv BY TiposDe DEF Inv
<1>b. /\ 0 \in Tarea /\ actual = 0 /\ pc[0] = "libre" /\ state[0] = "RUNNING" /\ fn[0] # Obra
      /\ ops' \in 0..MaxOps
  BY LlamaCero DEF CancelWorkSync
<1>c. /\ wq = 1 /\ Ir(0, "cancel") /\ UNCHANGED <<state, runq, tabla, actual, mutex, espera, cicloWq, work>>
      /\ objetivo' = w /\ firmes' = firmes \cup {w}
  BY DEF CancelWorkSync, planif
<1>d. TipoResto' BY <1>a, <1>b, <1>c DEF TipoResto
<1>1. CASE "PENDING" \notin data[w]
  <2>1. UNCHANGED obras BY <1>1, <1>c DEF CancelWorkSync
  <2>2. Puntos(0, "cancel")
    BY <1>b, <1>c DEF Puntos, Fuera, PuntosWorker, PuntosCliente, PuntosEspera, PuntosDestruir
  <2>3. "cancel" \in PC BY DEF PC
  <2>4. pc[0] \in Activos \ {"lock", "lockQuita", "preparar", "avisarWorker"} BY <1>b DEF Activos
  <2> QED BY <1>b, <1>c, <1>d, <2>1, <2>2, <2>3, <2>4, PasoLlano
<1>2. CASE "PENDING" \in data[w]
  <2>1. /\ work_list' = Sin(work_list, w) /\ data' = [data EXCEPT ![w] = @ \ {"PENDING"}]
        /\ pending' = pending - 1 /\ active_jobs' = active_jobs - 1
    BY <1>2 DEF CancelWorkSync
  <2>2. TipoCola' /\ CuentasExactas' /\ work_list # <<>> BY <1>2, <1>a, <1>c, <2>1, CuentaCancela
  <2>3. Mueve(0, state[0], "cancel") BY <1>a, <1>b, <1>c, MueveSolo DEF PC
  <2>4. Admite(0, state[0], "cancel")
    BY <1>b, <1>c DEF Admite, PuntosWorker, PuntosCliente
  <2>5. PlanInv' /\ TablaInv' BY <1>b, <1>c, <2>3, <2>4, Propio DEF Inv
  <2>6. MutexInv' BY <1>b, <1>c, <2>3, MueveMutex DEF EnMutex
  <2>7. EsperaInv' BY <1>b, <1>c, <2>3, MueveEspera DEF EnCola
  <2>8. state[worker_task] # "DEAD" /\ ~Durmiendo(worker_task, "workerSched")
        /\ worker_task \in Tarea \ {0}
    BY <1>a, <1>c, <2>2 DEF WqInv, WorkerAtendido
  <2>9. state'[worker_task] # "DEAD" /\ ~Durmiendo(worker_task, "workerSched")' /\ pc'[0] = "cancel"
    BY <1>c, <2>3, <2>8 DEF Mueve, Durmiendo
  <2>10. WqInv' BY <1>a, <1>c, <2>2, <2>9, WqCon DEF PuntosDestruir
  <2> QED BY <1>d, <2>5, <2>6, <2>7, <2>10 DEF Inv
<1> QED BY <1>1, <1>2

\* i915_destroy_workqueue refuses new works.
LEMMA PasoDestroyWorkqueue == ASSUME Inv, DestroyWorkqueue PROVE Inv'
<1> USE DEF obras, cola, cicloWq
<1>a. TipoPlan /\ TipoResto /\ WqInv BY TiposDe DEF Inv
<1>b. /\ 0 \in Tarea /\ actual = 0 /\ pc[0] = "libre" /\ state[0] = "RUNNING" /\ fn[0] # Obra
      /\ ops' \in 0..MaxOps
  BY LlamaCero DEF DestroyWorkqueue
<1>c. /\ wq = 1 /\ running' = 0 /\ Ir(0, "avisarWorker")
      /\ UNCHANGED <<state, runq, tabla, actual, mutex, espera, cola, wq, worker_task, work, objetivo>>
  BY DEF DestroyWorkqueue, planif
<1>d. TipoResto' BY <1>a, <1>b, <1>c DEF TipoResto
<1>1. Mueve(0, state[0], "avisarWorker") BY <1>a, <1>b, <1>c, MueveSolo DEF PC
<1>2. Admite(0, state[0], "avisarWorker") BY <1>b, <1>c DEF Admite, PuntosWorker, PuntosCliente
<1>3. PlanInv' /\ TablaInv' BY <1>b, <1>c, <1>1, <1>2, Propio DEF Inv
<1>4. MutexInv' BY <1>b, <1>c, <1>1, MueveMutex DEF EnMutex
<1>5. EsperaInv' BY <1>b, <1>c, <1>1, MueveEspera DEF EnCola
<1>6. WqInv'
  <2>1. TipoCola' /\ CuentasExactas' BY <1>a, <1>c DEF WqInv, TipoCola, CuentasExactas
  <2>2. worker_task \in Tarea \ {0} BY <1>a, <1>c DEF WqInv
  <2>3. pc'[0] = "avisarWorker" /\ pc'[worker_task] = pc[worker_task] BY <1>1, <2>2 DEF Mueve
  <2>4. WorkerAtendido' BY <1>a, <1>c, <2>3 DEF WqInv, WorkerAtendido, Durmiendo
  <2> QED BY <1>a, <1>c, <2>1, <2>2, <2>3, <2>4 DEF WqInv, PuntosEspera
<1> QED BY <1>d, <1>3, <1>4, <1>5, <1>6 DEF Inv

\* ... and wakes the worker.
LEMMA PasoAvisarWorker == ASSUME Inv, AvisarWorker PROVE Inv'
<1> USE DEF obras, cola, cicloWq
<1>a. TipoPlan /\ TipoResto /\ WqInv /\ PlanInv /\ 0 \in Tarea BY TiposDe DEF Inv
<1>b. /\ actual = 0 /\ pc[0] = "avisarWorker" /\ Despertar(worker_task) /\ Ir(0, "drenar")
      /\ UNCHANGED <<tabla, actual, mutex, espera, obras>>
  BY DEF AvisarWorker
<1>c. TipoResto' BY <1>a DEF AvisarWorker, TipoResto
<1>d. wq = 1 /\ running = 0 /\ worker_task \in Tarea \ {0} BY <1>a, <1>b DEF WqInv, PuntosDestruir
<1>e. state[0] = "RUNNING" /\ fn[0] # Obra
  <2>1. TablaTarea(0) BY <1>a DEF Inv, TablaInv
  <2> QED BY <1>a, <1>b, <2>1, EnMarcha DEF Activos, TablaTarea, Obra
<1>1. Despiertan({worker_task}) BY <1>a, <1>b, <1>d, DespiertaUna
<1>2. /\ \A u \in Tarea : state'[u] \in {state[u], "RUNNING"} /\ (state'[u] = "DEAD" <=> state[u] = "DEAD")
      /\ \A u \in Tarea : state[u] = "RUNNING" => state'[u] = "RUNNING"
  BY <1>1 DEF Despiertan
<1>3. pc' \in [Tarea -> PC] /\ pc'[0] = "drenar" /\ \A u \in Tarea \ {0} : pc'[u] = pc[u]
  <2>1. "drenar" \in PC BY DEF PC
  <2> QED BY <1>a, <1>b, <2>1 DEF TipoPlan, Ir
<1>4. PlanInv'
  <2>1. TipoPlan' BY <1>a, <1>b, <1>1, <1>3 DEF TipoPlan, tabla, Despiertan
  <2>2. ASSUME NEW u \in Tarea PROVE EstadoTarea(u)' /\ pc'[u] # "perdida"
    <3>1. EstadoTarea(u) /\ pc[u] # "perdida" BY <1>a DEF PlanInv, ColaExacta
    <3>2. CASE u = 0 BY <1>b, <1>e, <1>2, <1>3, <3>2 DEF EstadoTarea, Fuera
    <3>3. CASE u # 0 BY <1>b, <1>2, <1>3, <3>1, <3>3 DEF EstadoTarea
    <3> QED BY <3>2, <3>3
  <2>3. ColaExacta' BY <1>b, <1>1, <2>2 DEF ColaExacta, Despiertan
  <2> QED BY <2>1, <2>2, <2>3 DEF PlanInv
<1>5. TablaInv'
  <2>1. ASSUME NEW u \in Tarea PROVE TablaTarea(u)'
    <3>1. TablaTarea(u) BY DEF Inv, TablaInv
    <3>2. CASE u = 0
      BY <1>b, <1>e, <1>3, <3>1, <3>2
         DEF TablaTarea, tabla, PuntosWorker, PuntosCliente, PuntosDestruir
    <3>3. CASE u # 0 BY <1>b, <1>2, <1>3, <3>1, <3>3 DEF TablaTarea, tabla
    <3> QED BY <3>2, <3>3
  <2> QED BY <2>1 DEF TablaInv
<1>6. MutexInv'
  <2>1. \A u \in Tarea :
          \/ pc'[u] = pc[u]
          \/ pc[u] \notin EnMutex /\ pc'[u] \notin {"lockSched", "lockQuita"}
          \/ pc[u] = "lockSched" /\ pc'[u] = "lockQuita" /\ state'[u] = "RUNNING"
    BY <1>b, <1>3 DEF EnMutex
  <2> QED BY <1>b, <1>2, <2>1, MutexMarco DEF Inv
<1>7. EsperaInv'
  <2>1. \A u \in Tarea :
          \/ pc'[u] = pc[u]
          \/ pc[u] \notin EnCola /\ pc'[u] \notin {"mirar", "finalizar", "esperaSched"}
          \/ pc[u] = "esperaSched" /\ pc'[u] = "preparar"
    BY <1>b, <1>3 DEF EnCola
  <2> QED BY <1>b, <1>2, <2>1, EsperaMarco DEF Inv
<1>8. WqInv'
  <2>1. TipoCola' /\ CuentasExactas' BY <1>a, <1>b DEF WqInv, TipoCola, CuentasExactas
  <2>2. state'[worker_task] # "UNINTERRUPTIBLE" BY <1>d, <1>1 DEF Despiertan
  <2>3. WorkerAtendido' BY <1>b, <2>2 DEF WorkerAtendido, Durmiendo
  <2>4. state'[worker_task] = "DEAD" => work_list = <<>> BY <1>a, <1>d, <1>2 DEF WqInv
  <2> QED BY <1>b, <1>d, <1>3, <2>1, <2>3, <2>4 DEF WqInv, PuntosEspera
<1> QED BY <1>c, <1>4, <1>5, <1>6, <1>7, <1>8 DEF Inv

-----------------------------------------------------------------------------
(* Tasks that are created and destroyed.                                    *)

\* tomar_libre finds the lowest of the free slots.
LEMMA LibreEsLibre ==
  ASSUME Libres # {}
  PROVE  Libre \in Tarea \ {0} /\ state[Libre] = "DEAD" /\ pila[Libre] = 0
<1>1. Libres \subseteq Nat BY DEF Libres, Tarea
<1> DEFINE R == OpToRel(<, Nat)
<1>2. IsWellFoundedOn(R, Nat) BY NatLessThanWellFounded
<1>3. R = {p \in Nat \X Nat : p[1] < p[2]} BY DEF OpToRel
<1> HIDE DEF R
<1>4. PICK m \in Libres : \A u \in Libres : <<u, m>> \notin R BY <1>1, <1>2, WFMin
<1>5. \A u \in Libres : m <= u
  <2> SUFFICES ASSUME NEW u \in Libres PROVE m <= u OBVIOUS
  <2>1. m \in Nat /\ u \in Nat BY <1>1
  <2>2. ~(u < m) BY <1>3, <1>4, <2>1
  <2> QED BY <2>1, <2>2
<1>6. Libre \in Libres BY <1>5 DEF Libre
<1> QED BY <1>6 DEF Libres

\* Task k, which is not running, changes its state and its point at once.
Otra(k, x, d) ==
  /\ k \in Tarea \ {actual} /\ Mueve(k, x, d) /\ UNCHANGED actual
  /\ d \notin Activos \cup {"mirar", "finalizar", "perdida"} /\ (x = "DEAD" <=> d \in Fuera)
  /\ fn' \in [Tarea -> Funciones] /\ pila' \in [Tarea -> {0, 1}]
  /\ runq' \in Seq(Tarea) /\ IsInjective(runq')
  /\ \A u \in Tarea : Contains(runq', u) <=> IF u = k THEN x = "RUNNING" ELSE Contains(runq, u)

LEMMA OtraPlan == ASSUME Inv, NEW k, NEW x, NEW d, Otra(k, x, d) PROVE PlanInv'
<1>1. TipoPlan' BY TiposDe DEF TipoPlan, Otra, Mueve
<1>2. ASSUME NEW u \in Tarea
      PROVE  /\ Contains(runq', u) <=> u # actual' /\ state'[u] = "RUNNING"
             /\ pc'[u] # "perdida" /\ EstadoTarea(u)'
  <2>1. /\ EstadoTarea(u) /\ pc[u] # "perdida"
        /\ Contains(runq, u) <=> u # actual /\ state[u] = "RUNNING"
    BY DEF Inv, PlanInv, ColaExacta
  <2>2. CASE u = k BY <2>1, <2>2 DEF Otra, Mueve, EstadoTarea
  <2>3. CASE u # k BY <2>1, <2>3 DEF Otra, Mueve, EstadoTarea
  <2> QED BY <2>2, <2>3
<1>3. ColaExacta' BY <1>2 DEF ColaExacta, Otra
<1> QED BY <1>1, <1>2, <1>3 DEF PlanInv

\* Mutex and wait queue do not notice: k is in neither, before and after.
LEMMA OtraColas ==
  ASSUME Inv, NEW k, NEW x, NEW d, Otra(k, x, d), UNCHANGED <<mutex, espera>>,
         pc[k] \notin EnMutex \cup EnCola, d \in Fuera \cup {"nueva"}
  PROVE  MutexInv' /\ EsperaInv'
BY MueveMutex, MueveEspera DEF Otra, Fuera

LEMMA PasoDestruirCliente == ASSUME Inv, NEW t \in Tarea, DestruirCliente(t) PROVE Inv'
<1> USE DEF obras, cola, cicloWq
<1>a. TipoPlan /\ TipoMutex /\ TipoResto /\ WqInv /\ TablaTarea(t) BY TiposDe DEF Inv, TablaInv
<1>b. /\ 0 \in Tarea /\ actual = 0 /\ pc[0] = "libre" /\ ops' \in 0..MaxOps
  BY LlamaCero DEF DestruirCliente
<1>c. /\ t # 0 /\ fn[t] = "cliente" /\ pc[t] \in {"nueva", "ceder", "terminarSched"}
      /\ Ir(t, "nada") /\ runq' = Sin(runq, t) /\ wait_list' = Sin(wait_list, t)
      /\ pila' = [pila EXCEPT ![t] = 0] /\ state' = [state EXCEPT ![t] = "DEAD"]
      /\ fn' = [fn EXCEPT ![t] = "nada"]
      /\ UNCHANGED <<actual, count, owner, dentro, espera, obras, firmes, objetivo>>
  BY DEF DestruirCliente, Destruir, Ir
<1>d. TipoResto' BY <1>a, <1>b, <1>c DEF TipoResto
<1>1. UNCHANGED mutex
  <2>1. ~Contains(wait_list, t) BY <1>c DEF Inv, MutexInv, MutexTarea
  <2> QED BY <1>c, <2>1 DEF Sin, mutex
<1>2. Mueve(t, "DEAD", "nada") BY <1>a, <1>c, MueveIr DEF PC, Estados
<1>3. fn' \in [Tarea -> Funciones] /\ pila' \in [Tarea -> {0, 1}]
  BY <1>a, <1>c DEF TipoPlan, Funciones
<1>4. /\ runq' \in Seq(Tarea) /\ IsInjective(runq')
      /\ \A u : Contains(runq', u) <=> Contains(runq, u) /\ u # t
  BY <1>a, <1>c, ListaSin DEF TipoPlan, Inv, PlanInv, ColaExacta
<1>5. Otra(t, "DEAD", "nada") BY <1>b, <1>c, <1>2, <1>3, <1>4 DEF Otra, Activos, Fuera
<1>6. PlanInv' BY <1>5, OtraPlan
<1>7. MutexInv' /\ EsperaInv' BY <1>c, <1>1, <1>5, OtraColas DEF EnMutex, EnCola, Fuera
<1>8. fn[t] # Obra BY <1>c DEF Obra
<1>9. TablaInv'
  <2>1. ASSUME NEW u \in Tarea PROVE TablaTarea(u)'
    <3>1. TablaTarea(u) BY DEF Inv, TablaInv
    <3>2. CASE u = t
      <4>1. fn'[t] = "nada" /\ pc'[t] = "nada" /\ state'[t] = "DEAD" BY <1>a, <1>c, <1>2 DEF TipoPlan, Mueve
      <4>2. ~(wq = 1 /\ worker_task = t) BY <1>8, <1>a DEF TablaTarea
      <4> QED
        BY <1>b, <1>c, <3>2, <4>1, <4>2
           DEF TablaTarea, Obra, PuntosWorker, PuntosCliente, PuntosEspera, PuntosDestruir
    <3>3. CASE u # t
      <4>1. fn'[u] = fn[u] /\ pila'[u] = pila[u] BY <1>a, <1>c, <3>3 DEF TipoPlan
      <4> QED BY <1>c, <1>2, <3>1, <3>3, <4>1 DEF TablaTarea, Mueve
    <3> QED BY <3>2, <3>3
  <2> QED BY <2>1 DEF TablaInv
<1>10. WqInv'
  <2>1. pc'[0] = pc[0] BY <1>b, <1>c, <1>2 DEF Mueve
  <2>2. wq = 1 => worker_task \in Tarea \ {t} BY <1>8, <1>a DEF WqInv, TablaTarea
  <2>3. wq = 1 => /\ state'[worker_task] = "DEAD" <=> state[worker_task] = "DEAD"
                  /\ Durmiendo(worker_task, "workerSched")' => Durmiendo(worker_task, "workerSched")
    BY <1>c, <1>2, <2>2 DEF Mueve, Durmiendo
  <2> QED BY <1>a, <1>b, <1>c, <2>1, <2>3, WqMarco
<1> QED BY <1>d, <1>6, <1>7, <1>9, <1>10 DEF Inv

\* What i915_tarea_crear leaves, whatever the function.
LEMMA Nace ==
  ASSUME Inv, actual = 0, NEW f \in Funciones, Crear(f), UNCHANGED <<actual, mutex, espera>>
  PROVE  /\ Libre \in Tarea \ {0} /\ pc[Libre] \in Fuera /\ fn[Libre] # Obra
         /\ Mueve(Libre, "RUNNING", "nueva") /\ PlanInv' /\ MutexInv' /\ EsperaInv'
         /\ fn'[Libre] = f /\ pila'[Libre] = 1
         /\ \A u \in Tarea \ {Libre} : fn'[u] = fn[u] /\ pila'[u] = pila[u]
<1> DEFINE k == Libre
<1>a. TipoPlan BY TiposDe
<1>b. /\ Libres # {} /\ state' = [state EXCEPT ![k] = "RUNNING"] /\ fn' = [fn EXCEPT ![k] = f]
      /\ pila' = [pila EXCEPT ![k] = 1] /\ Ir(k, "nueva") /\ runq' = Append(runq, k)
  BY DEF Crear, Ir
<1>1. k \in Tarea \ {0} /\ state[k] = "DEAD" /\ pila[k] = 0 BY <1>b, LibreEsLibre
<1> HIDE DEF k
<1>2. pc[k] \in Fuera BY <1>1 DEF Inv, PlanInv, EstadoTarea
<1>3. fn[k] # Obra BY <1>1 DEF Inv, TablaInv, TablaTarea
<1>4. Mueve(k, "RUNNING", "nueva") BY <1>a, <1>b, <1>1, MueveIr DEF PC, EnSchedule, Estados
<1>5. ~Contains(runq, k) BY <1>1 DEF Inv, PlanInv, ColaExacta
<1>6. /\ runq' \in Seq(Tarea) /\ IsInjective(runq')
      /\ \A u : Contains(runq', u) <=> Contains(runq, u) \/ u = k
  BY <1>a, <1>b, <1>1, <1>5, ListaAlFinal DEF TipoPlan, Inv, PlanInv, ColaExacta
<1>7. /\ fn' \in [Tarea -> Funciones] /\ pila' \in [Tarea -> {0, 1}]
      /\ fn'[k] = f /\ pila'[k] = 1
      /\ \A u \in Tarea \ {k} : fn'[u] = fn[u] /\ pila'[u] = pila[u]
  BY <1>a, <1>b, <1>1 DEF TipoPlan
<1>8. Otra(k, "RUNNING", "nueva") BY <1>1, <1>4, <1>6, <1>7 DEF Otra, Activos, Fuera
<1>9. PlanInv' BY <1>8, OtraPlan
<1>10. MutexInv' /\ EsperaInv' BY <1>2, <1>8, OtraColas DEF EnMutex, EnCola, Fuera
<1> QED BY <1>1, <1>2, <1>3, <1>4, <1>7, <1>9, <1>10 DEF k

LEMMA PasoCrearCliente == ASSUME Inv, CrearCliente PROVE Inv'
<1> USE DEF obras, cola, cicloWq
<1> DEFINE k == Libre
<1>a. TipoResto /\ WqInv BY TiposDe DEF Inv
<1>b. 0 \in Tarea /\ actual = 0 /\ ops' \in 0..MaxOps BY LlamaCero DEF CrearCliente
<1>c. UNCHANGED <<actual, mutex, espera, obras, firmes, objetivo>> BY DEF CrearCliente
<1>d. TipoResto' BY <1>a, <1>b, <1>c DEF TipoResto
<1>1. /\ k \in Tarea \ {0} /\ pc[k] \in Fuera /\ fn[k] # Obra /\ Mueve(k, "RUNNING", "nueva")
      /\ PlanInv' /\ MutexInv' /\ EsperaInv' /\ fn'[k] = "cliente" /\ pila'[k] = 1
      /\ \A u \in Tarea \ {k} : fn'[u] = fn[u] /\ pila'[u] = pila[u]
  BY <1>b, <1>c, Nace DEF CrearCliente, Funciones
<1> HIDE DEF k
<1>2. TablaInv'
  <2>1. ASSUME NEW u \in Tarea PROVE TablaTarea(u)'
    <3>1. TablaTarea(u) BY DEF Inv, TablaInv
    <3>2. CASE u = k
      BY <1>c, <1>1, <3>1, <3>2
         DEF TablaTarea, Obra, PuntosWorker, PuntosCliente, PuntosEspera, PuntosDestruir, Mueve
    <3>3. CASE u # k BY <1>c, <1>1, <3>1, <3>3 DEF TablaTarea, Mueve
    <3> QED BY <3>2, <3>3
  <2> QED BY <2>1 DEF TablaInv
<1>3. WqInv'
  <2>1. pc'[0] = pc[0] BY <1>b, <1>1 DEF Mueve
  <2>2. wq = 1 => worker_task \in Tarea \ {k}
    BY <1>1, <1>a DEF WqInv, TablaTarea, Inv, TablaInv
  <2>3. wq = 1 => /\ state'[worker_task] = "DEAD" <=> state[worker_task] = "DEAD"
                  /\ Durmiendo(worker_task, "workerSched")' => Durmiendo(worker_task, "workerSched")
    BY <1>c, <1>1, <2>2 DEF Mueve, Durmiendo
  <2> QED BY <1>a, <1>b, <1>c, <2>1, <2>3, WqMarco
<1> QED BY <1>d, <1>1, <1>2, <1>3 DEF Inv

LEMMA PasoCreateWorkqueue == ASSUME Inv, CreateWorkqueue PROVE Inv'
<1> USE DEF obras, cola, cicloWq
<1> DEFINE k == Libre
<1>a. TipoResto /\ WqInv /\ TipoCola BY TiposDe DEF Inv
<1>b. 0 \in Tarea /\ actual = 0 /\ pc[0] = "libre" /\ ops' \in 0..MaxOps BY LlamaCero DEF CreateWorkqueue
<1>c. /\ wq = 0 /\ wq' = 1 /\ running' = 1 /\ worker_task' = k
      /\ work_list' = <<>> /\ active_jobs' = 0 /\ pending' = 0
      /\ UNCHANGED <<actual, mutex, espera, data, firmes, work, objetivo>>
  BY DEF CreateWorkqueue
<1>d. TipoResto' BY <1>a, <1>b, <1>c DEF TipoResto
<1>e. work = NULL /\ \A w \in Trabajos : data[w] = {} BY <1>a, <1>c DEF WqInv
<1>1. /\ k \in Tarea \ {0} /\ pc[k] \in Fuera /\ fn[k] # Obra /\ Mueve(k, "RUNNING", "nueva")
      /\ PlanInv' /\ MutexInv' /\ EsperaInv' /\ fn'[k] = Obra /\ pila'[k] = 1
      /\ \A u \in Tarea \ {k} : fn'[u] = fn[u] /\ pila'[u] = pila[u]
  BY <1>b, <1>c, Nace DEF CreateWorkqueue, Funciones, Obra
<1> HIDE DEF k
<1>2. TablaInv'
  <2>1. ASSUME NEW u \in Tarea PROVE TablaTarea(u)'
    <3>1. TablaTarea(u) BY DEF Inv, TablaInv
    <3>2. CASE u = k
      BY <1>c, <1>e, <1>1, <3>1, <3>2
         DEF TablaTarea, Obra, PuntosWorker, PuntosCliente, PuntosEspera, PuntosDestruir, ConObra, Mueve
    <3>3. CASE u # k BY <1>c, <1>1, <3>1, <3>3 DEF TablaTarea, Mueve
    <3> QED BY <3>2, <3>3
  <2> QED BY <2>1 DEF TablaInv
<1>3. WqInv'
  <2>1. pc'[0] = "libre" /\ state'[k] = "RUNNING" BY <1>b, <1>1 DEF Mueve
  <2>2. <<>> \in Seq(Trabajos) /\ IsInjective(<<>>) /\ (\A u : ~Contains(<<>>, u)) BY ListaVacia
  <2>3. TipoCola' BY <1>a, <1>c, <1>1, <2>2 DEF TipoCola
  <2>4. ASSUME NEW w \in Trabajos
        PROVE  /\ "PENDING" \in data'[w] <=> Contains(work_list', w)
               /\ "RUNNING" \in data'[w] <=> work' = w
    BY <1>c, <1>e, <2>2
  <2>5. CuentasExactas' BY <1>c, <1>e, <2>2, <2>4 DEF CuentasExactas
  <2>6. WorkerAtendido' BY <1>c, <2>1 DEF WorkerAtendido, Durmiendo
  <2> QED BY <1>c, <1>1, <2>1, <2>3, <2>5, <2>6 DEF WqInv, PuntosEspera, PuntosDestruir
<1> QED BY <1>d, <1>1, <1>2, <1>3 DEF Inv

\* i915_destroy_workqueue frees the stack of the worker and the queue.
LEMMA PasoSoltar == ASSUME Inv, Soltar PROVE Inv'
<1> USE DEF obras, cola, cicloWq
<1> DEFINE k == worker_task
<1>a. TipoPlan /\ TipoMutex /\ TipoResto /\ WqInv /\ TipoCola /\ 0 \in Tarea BY TiposDe DEF Inv
<1>b. /\ actual = 0 /\ pc[0] = "soltar" /\ wq' = 0 /\ worker_task' = NULL /\ Ir(0, "libre")
      /\ runq' = Sin(runq, k) /\ wait_list' = Sin(wait_list, k)
      /\ pila' = [pila EXCEPT ![k] = 0] /\ state' = [state EXCEPT ![k] = "DEAD"]
      /\ fn' = [fn EXCEPT ![k] = "nada"]
      /\ UNCHANGED <<actual, count, owner, dentro, espera, cola, running, work>>
  BY DEF Soltar, Destruir
<1>c. TipoResto' BY <1>a DEF Soltar, TipoResto
<1>d. wq = 1 /\ k \in Tarea \ {0} /\ state[k] = "DEAD" /\ work_list = <<>>
  BY <1>a, <1>b DEF WqInv, PuntosDestruir
<1> HIDE DEF k
<1>e. TablaTarea(k) /\ fn[k] = Obra BY <1>d DEF Inv, TablaInv, TablaTarea, k
<1>f. pc[k] = "terminarSched"
  <2>1. pc[k] \in Fuera BY <1>d DEF Inv, PlanInv, EstadoTarea
  <2> QED BY <1>e, <2>1 DEF Fuera, TablaTarea, Obra
<1>g. work = NULL BY <1>e, <1>f DEF TablaTarea, SinObra
<1>h. state[0] = "RUNNING" BY <1>a, <1>b, EnMarcha DEF Activos
<1>1. UNCHANGED state BY <1>a, <1>b, <1>d DEF TipoPlan
<1>2. UNCHANGED runq
  <2>1. ~Contains(runq, k) BY <1>d DEF Inv, PlanInv, ColaExacta
  <2> QED BY <1>b, <2>1 DEF Sin
<1>3. UNCHANGED mutex
  <2>1. ~Contains(wait_list, k) BY <1>d, <1>f DEF Inv, MutexInv, MutexTarea
  <2> QED BY <1>b, <2>1 DEF Sin, mutex
<1>4. Mueve(0, state[0], "libre") BY <1>a, <1>b, <1>1, MueveSolo DEF PC
<1>5. /\ fn' \in [Tarea -> Funciones] /\ pila' \in [Tarea -> {0, 1}] /\ fn'[k] = "nada"
      /\ \A u \in Tarea \ {k} : fn'[u] = fn[u] /\ pila'[u] = pila[u]
  BY <1>a, <1>b, <1>d DEF TipoPlan, Funciones
<1>6. pc'[0] = "libre" /\ \A u \in Tarea \ {0} : pc'[u] = pc[u] BY <1>4 DEF Mueve
<1>7. PlanInv'
  <2>1. TipoPlan' BY <1>a, <1>b, <1>2, <1>4, <1>5 DEF TipoPlan, Mueve
  <2>2. ASSUME NEW u \in Tarea PROVE EstadoTarea(u)' /\ pc'[u] # "perdida"
    <3>1. EstadoTarea(u) /\ pc[u] # "perdida" BY DEF Inv, PlanInv, ColaExacta
    <3>2. CASE u = 0 BY <1>b, <1>h, <1>1, <1>6, <3>2 DEF EstadoTarea, Fuera
    <3>3. CASE u # 0 BY <1>b, <1>1, <1>6, <3>1, <3>3 DEF EstadoTarea
    <3> QED BY <3>2, <3>3
  <2>3. ColaExacta' BY <1>b, <1>1, <1>2, <2>2 DEF ColaExacta, Inv, PlanInv
  <2> QED BY <2>1, <2>2, <2>3 DEF PlanInv
<1>8. TablaInv'
  <2>1. ASSUME NEW u \in Tarea PROVE TablaTarea(u)'
    <3>1. TablaTarea(u) BY DEF Inv, TablaInv
    <3>2. CASE u = 0
      <4>1. fn'[0] = fn[0] /\ fn[0] = "principal" BY <1>a, <1>d, <1>5, <3>1, <3>2 DEF TablaTarea
      <4> QED
        BY <1>b, <1>6, <3>2, <4>1
           DEF TablaTarea, Obra, PuntosWorker, PuntosCliente, PuntosEspera, PuntosDestruir
    <3>3. CASE u = k
      BY <1>b, <1>d, <1>f, <1>1, <1>5, <1>6, <3>3
         DEF TablaTarea, Obra, PuntosWorker, PuntosCliente, PuntosEspera, PuntosDestruir
    <3>4. CASE u # 0 /\ u # k
      <4>1. fn'[u] = fn[u] /\ fn[u] # Obra BY <1>5, <3>1, <3>4 DEF TablaTarea, k
      <4> QED BY <1>b, <1>1, <1>5, <1>6, <3>1, <3>4, <4>1 DEF TablaTarea
    <3> QED BY <3>2, <3>3, <3>4
  <2> QED BY <2>1 DEF TablaInv
<1>9. MutexInv' BY <1>a, <1>b, <1>3, <1>4, MueveMutex DEF EnMutex
<1>10. EsperaInv' BY <1>a, <1>b, <1>4, MueveEspera DEF EnCola
<1>11. WqInv'
  <2>1. ASSUME NEW w \in Trabajos PROVE data[w] = {}
    <3>1. ~Contains(work_list, w) /\ work # w BY <1>d, <1>g, ListaVacia
    <3>2. "PENDING" \notin data[w] /\ "RUNNING" \notin data[w] BY <1>a, <1>d, <3>1 DEF WqInv, CuentasExactas
    <3> QED BY <1>a, <3>2 DEF TipoCola
  <2>2. TipoCola' BY <1>a, <1>b DEF TipoCola
  <2>3. CuentasExactas' /\ WorkerAtendido' BY <1>b DEF CuentasExactas, WorkerAtendido
  <2> QED BY <1>b, <1>g, <1>6, <2>1, <2>2, <2>3 DEF WqInv, PuntosEspera, PuntosDestruir
<1> QED BY <1>c, <1>7, <1>8, <1>9, <1>10, <1>11 DEF Inv

-----------------------------------------------------------------------------
\* Every step keeps the invariant.
LEMMA InvPaso == Inv /\ [Next]_vars => Inv'
<1> SUFFICES ASSUME Inv, [Next]_vars PROVE Inv' OBVIOUS
<1>1. CASE Paso
  <2>1. ASSUME NEW t \in Tarea, Schedule(t) PROVE Inv' BY <2>1, PasoSchedule
  <2>2. ASSUME NEW t \in Tarea, Lock(t) PROVE Inv' BY <2>2, PasoLock
  <2>3. ASSUME NEW t \in Tarea, LockQuita(t) PROVE Inv' BY <2>3, PasoLockQuita
  <2>4. ASSUME NEW t \in Tarea, Preparar(t) PROVE Inv' BY <2>4, PasoPreparar
  <2>5. ASSUME NEW t \in Tarea, Mirar(t) PROVE Inv' BY <2>5, PasoMirar
  <2>6. ASSUME NEW t \in Tarea, Finalizar(t) PROVE Inv' BY <2>6, PasoFinalizar
  <2>7. ASSUME NEW t \in Tarea, WorkerMira(t) PROVE Inv' BY <2>7, PasoWorkerMira
  <2>8. ASSUME NEW t \in Tarea, FuncVuelve(t) \/ WorkerAvisa(t) PROVE Inv' BY <2>8, PasoLlamadas
  <2>9. ASSUME NEW t \in Tarea, WorkerAcaba(t) PROVE Inv' BY <2>9, PasoWorkerAcaba
  <2>10. CASE FlushEspera \/ CancelEspera \/ Drenar \/ EsperarMuerte BY <2>10, PasoEsperas
  <2>11. CASE AvisarWorker BY <2>11, PasoAvisarWorker
  <2>12. CASE Soltar BY <2>12, PasoSoltar
  <2> QED
    BY <1>1, <2>1, <2>2, <2>3, <2>4, <2>5, <2>6, <2>7, <2>8, <2>9, <2>10, <2>11, <2>12 DEF Paso
<1>2. CASE Llamadas
  <2>1. CASE CrearCliente BY <2>1, PasoCrearCliente
  <2>2. CASE CreateWorkqueue BY <2>2, PasoCreateWorkqueue
  <2>3. CASE Flush BY <2>3, PasoEsperas
  <2>4. CASE DestroyWorkqueue BY <2>4, PasoDestroyWorkqueue
  <2>5. ASSUME NEW w \in Trabajos, CancelWorkSync(w) PROVE Inv' BY <2>5, PasoCancelWorkSync
  <2>6. ASSUME NEW t \in Tarea, DestruirCliente(t) PROVE Inv' BY <2>6, PasoDestruirCliente
  <2>7. ASSUME NEW t \in Tarea, Ceder(t) \/ PedirMutex(t) \/ Esperar(t) PROVE Inv'
    BY <2>7, PasoLlamadas
  <2>8. ASSUME NEW t \in Tarea, Terminar(t) \/ Dormir(t) PROVE Inv' BY <2>8, PasoDormir
  <2>9. ASSUME NEW t \in Tarea, NEW u \in Tarea, DespertarTarea(t, u) PROVE Inv'
    BY <2>9, PasoDespertar
  <2>10. ASSUME NEW t \in Tarea, TryLock(t) PROVE Inv' BY <2>10, PasoTryLock
  <2>11. ASSUME NEW t \in Tarea, Unlock(t) PROVE Inv' BY <2>11, PasoUnlock
  <2>12. ASSUME NEW t \in Tarea, WakeUpTarea(t) PROVE Inv' BY <2>12, PasoWakeUp
  <2>13. ASSUME NEW t \in Tarea, NEW w \in Trabajos, QueueWorkTarea(t, w) PROVE Inv'
    BY <2>13, PasoQueueWork
  <2> QED
    BY <1>2, <2>1, <2>2, <2>3, <2>4, <2>5, <2>6, <2>7, <2>8, <2>9, <2>10, <2>11, <2>12, <2>13
       DEF Llamadas
<1>3. CASE Irq
  <2>1. CASE IrqWakeUp BY <2>1, PasoWakeUp
  <2>2. ASSUME NEW w \in Trabajos, IrqQueueWork(w) PROVE Inv' BY <2>2, PasoQueueWork
  <2> QED BY <1>3, <2>1, <2>2 DEF Irq
<1>4. CASE UNCHANGED vars
  <2> USE DEF vars, obras, cola, cicloWq
  <2>1. Despiertan({}) BY <1>4, DespiertaNadie DEF Inv
  <2>2. PlanInv' /\ TablaInv' /\ MutexInv' /\ EsperaInv' /\ WqInv'
    BY <1>4, <2>1, Despertadas, DespertadasMutex, DespertadasEspera, DespertadasWq
  <2>3. TipoResto' BY <1>4, TiposDe DEF TipoResto
  <2> QED BY <2>2, <2>3 DEF Inv
<1> QED BY <1>1, <1>2, <1>3, <1>4 DEF Next

LEMMA InvSiempre == Spec => []Inv
BY InvInicial, InvPaso, PTL DEF Spec

-----------------------------------------------------------------------------
(* Cancellation.                                                            *)

\* A cancelled work is out of the queue from the moment of the call, and out
\* of the worker once the wait is over.
Firmeza ==
  \A w \in firmes : /\ "PENDING" \notin data[w]
                    /\ objetivo # w => "RUNNING" \notin data[w]

LEMMA FirmezaQuieta ==
  ASSUME Firmeza, UNCHANGED <<data, firmes, objetivo>> PROVE Firmeza'
BY DEF Firmeza

\* The three steps that touch the bits of a work.
LEMMA FirmezaEncola ==
  ASSUME Inv, Firmeza, NEW w \in Trabajos, QueueWork(w), UNCHANGED objetivo PROVE Firmeza'
<1>a. data \in [Trabajos -> SUBSET {"PENDING", "RUNNING"}] /\ firmes \subseteq Trabajos
  BY TiposDe DEF TipoCola, TipoResto
<1>1. CASE running = 0 \/ "PENDING" \in data[w]
  BY <1>1, FirmezaQuieta DEF QueueWork, cola
<1>2. CASE ~(running = 0 \/ "PENDING" \in data[w])
  <2>1. data' = [data EXCEPT ![w] = @ \cup {"PENDING"}] /\ firmes' = firmes \ {w} BY <1>2 DEF QueueWork
  <2>2. \A v \in firmes' : v \in firmes /\ data'[v] = data[v] BY <1>a, <2>1
  <2> QED BY <2>2 DEF Firmeza
<1> QED BY <1>1, <1>2

LEMMA FirmezaMira ==
  ASSUME Inv, Firmeza, NEW t \in Tarea, WorkerMira(t) PROVE Firmeza'
<1>a. data \in [Trabajos -> SUBSET {"PENDING", "RUNNING"}] /\ firmes \subseteq Trabajos
      /\ work_list \in Seq(Trabajos)
  BY TiposDe DEF TipoCola, TipoResto
<1>1. CASE work_list = <<>> BY <1>1, FirmezaQuieta DEF WorkerMira
<1>2. CASE work_list # <<>>
  <2>1. data' = [data EXCEPT ![Head(work_list)] = {"RUNNING"}] /\ UNCHANGED <<firmes, objetivo>>
    BY <1>2 DEF WorkerMira
  <2>2. wq = 1 /\ CuentasExactas BY ElWorker DEF WorkerMira, Inv, WqInv
  <2>3. Head(work_list) \in Trabajos /\ Contains(work_list, Head(work_list)) BY <1>a, <1>2, ListaPrimero
  <2>4. "PENDING" \in data[Head(work_list)] BY <2>2, <2>3 DEF CuentasExactas
  <2>5. Head(work_list) \notin firmes BY <2>4 DEF Firmeza
  <2>6. \A v \in firmes : data'[v] = data[v] BY <1>a, <2>1, <2>5
  <2> QED BY <2>1, <2>6 DEF Firmeza
<1> QED BY <1>1, <1>2

LEMMA FirmezaAcaba ==
  ASSUME Inv, Firmeza, NEW t \in Tarea, WorkerAcaba(t) PROVE Firmeza'
<1>1. data \in [Trabajos -> SUBSET {"PENDING", "RUNNING"}] /\ firmes \subseteq Trabajos
  BY TiposDe DEF TipoCola, TipoResto
<1>2. data' = [data EXCEPT ![work] = @ \ {"RUNNING"}] /\ UNCHANGED <<firmes, objetivo>>
  BY DEF WorkerAcaba
<1>3. \A v \in firmes : data'[v] \subseteq data[v] BY <1>1, <1>2
<1> QED BY <1>2, <1>3 DEF Firmeza

\* The first task has a work to wait for only inside cancel_work_sync.
EnCancel == objetivo # NULL => pc[0] \in {"cancel", "cancelSched"}

LEMMA FirmezaCancela ==
  ASSUME Inv, Firmeza, EnCancel, NEW w \in Trabajos, CancelWorkSync(w) PROVE Firmeza' /\ EnCancel'
<1>a. /\ data \in [Trabajos -> SUBSET {"PENDING", "RUNNING"}] /\ firmes \subseteq Trabajos
      /\ pc \in [Tarea -> PC] /\ 0 \in Tarea
  BY TiposDe DEF TipoCola, TipoResto, TipoPlan
<1>1. objetivo' = w /\ firmes' = firmes \cup {w} /\ pc' = [pc EXCEPT ![0] = "cancel"]
  BY DEF CancelWorkSync, Ir
<1>2. "PENDING" \notin data'[w] /\ \A v \in Trabajos \ {w} : data'[v] = data[v]
  <2>1. CASE "PENDING" \in data[w]
    <3>1. data' = [data EXCEPT ![w] = @ \ {"PENDING"}] BY <2>1 DEF CancelWorkSync
    <3> QED BY <1>a, <3>1
  <2>2. CASE "PENDING" \notin data[w] BY <2>2 DEF CancelWorkSync
  <2> QED BY <2>1, <2>2
<1>3. objetivo = NULL BY DEF EnCancel, CancelWorkSync, Llama
<1>4. \A v \in firmes : objetivo # v => "RUNNING" \notin data[v] BY DEF Firmeza
<1>5. NULL \notin Trabajos BY NullAssumption
<1>6. Firmeza' BY <1>a, <1>1, <1>2, <1>3, <1>4, <1>5 DEF Firmeza
<1> QED BY <1>a, <1>1, <1>6 DEF EnCancel

LEMMA FirmezaEspera ==
  ASSUME Inv, Firmeza, EnCancel, CancelEspera PROVE Firmeza' /\ EnCancel'
<1>a. pc \in [Tarea -> PC] /\ 0 \in Tarea BY TiposDe DEF TipoPlan
<1>1. UNCHANGED <<data, firmes>> BY DEF CancelEspera, cola
<1>2. CASE "RUNNING" \in data[objetivo]
  <2>1. UNCHANGED objetivo /\ pc' = [pc EXCEPT ![0] = "cancelSched"] BY <1>2 DEF CancelEspera, Ir
  <2> QED BY <1>a, <1>1, <2>1, FirmezaQuieta DEF EnCancel
<1>3. CASE "RUNNING" \notin data[objetivo]
  <2>1. objetivo' = NULL BY <1>3 DEF CancelEspera
  <2> QED BY <1>1, <1>3, <2>1 DEF EnCancel, Firmeza
<1> QED BY <1>2, <1>3

\* A step that leaves the wait of the first task alone.
LEMMA SinCancel ==
  ASSUME EnCancel, UNCHANGED objetivo,
         pc[0] \in {"cancel", "cancelSched"} => pc'[0] \in {"cancel", "cancelSched"}
  PROVE  EnCancel'
BY DEF EnCancel

LEMMA PasoFirme ==
  ASSUME Inv, Firmeza, EnCancel, [Next]_vars PROVE Firmeza' /\ EnCancel'
<1> USE DEF cola
<1>a. pc \in [Tarea -> PC] /\ 0 \in Tarea BY TiposDe DEF TipoPlan
<1>b. ASSUME NEW t \in Tarea, NEW x, pc[t] \notin {"cancel", "cancelSched"}, pc' = [pc EXCEPT ![t] = x],
             UNCHANGED objetivo
      PROVE  EnCancel'
  <2>1. CASE t = 0 BY <1>b, <2>1, SinCancel
  <2>2. CASE t # 0 BY <1>a, <1>b, <2>2, SinCancel
  <2> QED BY <2>1, <2>2
<1>c. ASSUME UNCHANGED <<pc, objetivo>> PROVE EnCancel' BY <1>c, SinCancel
<1>1. CASE Paso
  <2>1. ASSUME NEW t \in Tarea, Schedule(t) PROVE Firmeza' /\ EnCancel'
    <3>1. Firmeza' BY <2>1, FirmezaQuieta DEF Schedule
    <3>2. UNCHANGED objetivo BY <2>1 DEF Schedule
    <3>3. PICK u : pc' = [pc EXCEPT ![u] = Continua(u)] BY <2>1 DEF Schedule
    <3>4. pc[0] # "cancel"
      <4>1. EstadoTarea(0) BY <1>a DEF Inv, PlanInv
      <4> QED BY <2>1, <4>1 DEF EstadoTarea, Activos, Schedule, EnSchedule
    <3>5. pc[0] = "cancelSched" => pc'[0] \in {"cancel", "cancelSched"} BY <1>a, <3>3 DEF Continua
    <3> QED BY <3>1, <3>2, <3>4, <3>5, SinCancel
  <2>2. ASSUME NEW t \in Tarea, Lock(t) \/ LockQuita(t) \/ Preparar(t) \/ Mirar(t) \/ Finalizar(t)
                                \/ FuncVuelve(t) \/ WorkerAvisa(t)
        PROVE  Firmeza' /\ EnCancel'
    <3>1. UNCHANGED <<data, firmes, objetivo>>
      BY <2>2 DEF Lock, LockQuita, Preparar, Mirar, Finalizar, FuncVuelve, WorkerAvisa
    <3>2. pc[t] \notin {"cancel", "cancelSched"} /\ \E x : pc' = [pc EXCEPT ![t] = x]
      BY <2>2 DEF Lock, LockQuita, Preparar, Mirar, Finalizar, FuncVuelve, WorkerAvisa, Ir
    <3> QED BY <1>b, <3>1, <3>2, FirmezaQuieta
  <2>3. ASSUME NEW t \in Tarea, WorkerMira(t) PROVE Firmeza' /\ EnCancel'
    <3>1. UNCHANGED objetivo /\ pc[t] \notin {"cancel", "cancelSched"} /\ \E x : pc' = [pc EXCEPT ![t] = x]
      BY <2>3 DEF WorkerMira, Ir
    <3> QED BY <1>b, <2>3, <3>1, FirmezaMira
  <2>4. ASSUME NEW t \in Tarea, WorkerAcaba(t) PROVE Firmeza' /\ EnCancel'
    <3>1. UNCHANGED objetivo /\ pc[t] \notin {"cancel", "cancelSched"} /\ \E x : pc' = [pc EXCEPT ![t] = x]
      BY <2>4 DEF WorkerAcaba, Ir
    <3> QED BY <1>b, <2>4, <3>1, FirmezaAcaba
  <2>5. CASE CancelEspera BY <2>5, FirmezaEspera
  <2>6. CASE FlushEspera \/ AvisarWorker \/ Drenar \/ EsperarMuerte \/ Soltar
    <3>1. UNCHANGED <<data, firmes, objetivo>>
      BY <2>6 DEF FlushEspera, AvisarWorker, Drenar, EsperarMuerte, Soltar, EsperarTrabajos
    <3>2. pc[0] \notin {"cancel", "cancelSched"} /\ \E x : pc' = [pc EXCEPT ![0] = x]
      BY <2>6 DEF FlushEspera, AvisarWorker, Drenar, EsperarMuerte, Soltar, EsperarTrabajos, Ir
    <3> QED BY <1>a, <1>b, <3>1, <3>2, FirmezaQuieta
  <2> QED BY <1>1, <2>1, <2>2, <2>3, <2>4, <2>5, <2>6 DEF Paso
<1>2. CASE Llamadas
  <2>1. CASE CrearCliente \/ CreateWorkqueue
    <3>1. UNCHANGED <<data, firmes, objetivo>> BY <2>1 DEF CrearCliente, CreateWorkqueue
    <3>2. pc' = [pc EXCEPT ![Libre] = "nueva"] /\ pc[0] \notin {"cancel", "cancelSched"}
      BY <2>1 DEF CrearCliente, CreateWorkqueue, Crear, Llama
    <3> QED BY <3>1, <3>2, FirmezaQuieta, SinCancel
  <2>2. CASE Flush \/ DestroyWorkqueue
    <3>1. UNCHANGED <<data, firmes, objetivo>> BY <2>2 DEF Flush, DestroyWorkqueue
    <3>2. pc[0] \notin {"cancel", "cancelSched"} BY <2>2 DEF Flush, DestroyWorkqueue, Llama
    <3> QED BY <3>1, <3>2, FirmezaQuieta, SinCancel
  <2>3. ASSUME NEW w \in Trabajos, CancelWorkSync(w) PROVE Firmeza' /\ EnCancel'
    BY <2>3, FirmezaCancela
  <2>4. ASSUME NEW t \in Tarea, DestruirCliente(t) PROVE Firmeza' /\ EnCancel'
    <3>1. UNCHANGED <<data, firmes, objetivo>> BY <2>4 DEF DestruirCliente
    <3>2. pc[0] \notin {"cancel", "cancelSched"} BY <2>4 DEF DestruirCliente, Llama
    <3> QED BY <3>1, <3>2, FirmezaQuieta, SinCancel
  <2>5. ASSUME NEW t \in Tarea, Ceder(t) \/ Terminar(t) \/ Dormir(t) \/ PedirMutex(t) \/ Esperar(t)
        PROVE  Firmeza' /\ EnCancel'
    <3>1. UNCHANGED <<data, firmes, objetivo>> BY <2>5 DEF Ceder, Terminar, Dormir, PedirMutex, Esperar
    <3>2. pc[t] \notin {"cancel", "cancelSched"} /\ \E x : pc' = [pc EXCEPT ![t] = x]
      BY <2>5 DEF Ceder, Terminar, Dormir, PedirMutex, Esperar, Llama, Ir
    <3> QED BY <1>b, <3>1, <3>2, FirmezaQuieta
  <2>6. ASSUME NEW t \in Tarea, TryLock(t) \/ Unlock(t) \/ WakeUpTarea(t) \/ \E u \in Tarea : DespertarTarea(t, u)
        PROVE  Firmeza' /\ EnCancel'
    <3>1. UNCHANGED <<data, firmes, objetivo, pc>> BY <2>6 DEF TryLock, Unlock, WakeUpTarea, DespertarTarea
    <3> QED BY <1>c, <3>1, FirmezaQuieta
  <2>7. ASSUME NEW t \in Tarea, NEW w \in Trabajos, QueueWorkTarea(t, w) PROVE Firmeza' /\ EnCancel'
    BY <1>c, <2>7, FirmezaEncola DEF QueueWorkTarea
  <2> QED BY <1>2, <2>1, <2>2, <2>3, <2>4, <2>5, <2>6, <2>7 DEF Llamadas
<1>3. CASE Irq
  <2>1. CASE IrqWakeUp BY <1>c, <2>1, FirmezaQuieta DEF IrqWakeUp
  <2>2. ASSUME NEW w \in Trabajos, IrqQueueWork(w) PROVE Firmeza' /\ EnCancel'
    BY <1>c, <2>2, FirmezaEncola DEF IrqQueueWork
  <2> QED BY <1>3, <2>1, <2>2 DEF Irq
<1>4. CASE UNCHANGED vars BY <1>4, <1>c, FirmezaQuieta DEF vars
<1> QED BY <1>1, <1>2, <1>3, <1>4 DEF Next

-----------------------------------------------------------------------------
(* The theorems.                                                            *)

\* The fields of the task, mutex, wait queue and workqueue structures stay in
\* their ranges; in particular pending and active_jobs are never negative.
THEOREM TypeOKCorrecto == Spec => []TypeOK
BY InvSiempre, Propiedades, PTL

\* For any number of tasks the run queue of tareas.c holds exactly the tasks
\* that may run, each once, and i915_schedule never resumes a dead one.
THEOREM ColaExactaCorrecta == Spec => []ColaExacta
BY InvSiempre, Propiedades, PTL

\* i915_mutex_lock and i915_mutex_trylock exclude, however many tasks are woken
\* and for whatever reason.
THEOREM ExclusionMutexCorrecta == Spec => []ExclusionMutex
BY InvSiempre, Propiedades, PTL

\* No wakeup of the mutex, the wait queue or the worker is lost between the
\* registration of the sleeper and i915_schedule.
THEOREM NadieOlvidadoCorrecto == Spec => []NadieOlvidado
BY InvSiempre, Propiedades, PTL

\* pending, active_jobs and the bits of every work agree with the queue and
\* with what the worker runs, for any number of works.
THEOREM CuentasExactasCorrectas == Spec => []CuentasExactas
BY InvSiempre, Propiedades, PTL

\* i915_destroy_workqueue and i915_tarea_destruir leave no queued or running
\* work behind, and no queue from which a freed task could come back.
THEOREM DestruccionLimpiaCorrecta == Spec => []DestruccionLimpia
BY InvSiempre, Propiedades, PTL

\* When i915_cancel_work_sync has returned, the work is neither queued nor
\* running, unless somebody has queued it since the call began.
THEOREM CancelacionFirmeCorrecta == Spec => []CancelacionFirme
<1>1. Init => Firmeza /\ EnCancel BY DEF Init, Firmeza, EnCancel
<1>2. Inv /\ Firmeza /\ EnCancel /\ [Next]_vars => Firmeza' /\ EnCancel' BY PasoFirme
<1>3. Inv /\ Firmeza => CancelacionFirme
  <2> SUFFICES ASSUME Inv, Firmeza, NEW w \in firmes, objetivo # w PROVE data[w] = {}
    BY DEF CancelacionFirme
  <2>1. data \in [Trabajos -> SUBSET {"PENDING", "RUNNING"}] /\ firmes \subseteq Trabajos
    BY TiposDe DEF TipoCola, TipoResto
  <2>2. "PENDING" \notin data[w] /\ "RUNNING" \notin data[w] BY DEF Firmeza
  <2> QED BY <2>1, <2>2
<1> QED BY <1>1, <1>2, <1>3, InvSiempre, PTL DEF Spec
=============================================================================
