-------------------------------- MODULE Gpu --------------------------------
(***************************************************************************)
(* The Intel video engine: buffer objects and their window in the global   *)
(* translation table (i915_gem.c), the ring of the video command streamer  *)
(* (i915_vcs.c) and decoding sessions on top of both (i915_va.c).          *)
(* In this commit i915_driver_iniciar always stops at its gate, because    *)
(* nothing sets the accreditation flags it clears: buffer objects, ring    *)
(* and sessions run under the host build of i915_va.c, whose harness calls *)
(* i915_gem_iniciar and i915_vcs_motor_iniciar itself.                     *)
(* A GPU state is a record:                                                *)
(*   m        the page support (Paginas)                                   *)
(*   obj      g_gem_objetos; ggtt the entries of the translation table     *)
(*            (0: not valid); cursor is g_ggtt_cursor_libre                *)
(*   ring     the object of the ring (0: engine not started)               *)
(*   cola, cabeza  the tail written and the head the engine has reached    *)
(*   colgada  the engine no longer advances; quieto is g_vcs.quiescente    *)
(*   ses      the session: [viva, sup, aux, poc, salida, actual]           *)
(* Every object keeps a second buffer for the CPU (dir_cpu), a heap block  *)
(* of its own that is not one of its pages: the engine fetches zeros,      *)
(* which are no-operations, and what it would write is never seen by the   *)
(* CPU. The model keeps that: no command of a batch is ever executed.      *)
(***************************************************************************)
EXTENDS Paginas

CONSTANTS MaxObjetos,        \* I915_GEM_MAX_OBJETOS, 128
          GgttBase,          \* first page of the window that may be used
          GgttLimite,        \* first page beyond it
          NumSuperficies,    \* surfaces of a session, 8 (two pages each here, one the other objects)
          TamRing            \* I915_VCS_RING_SIZE_BYTES in submissions of 16 bytes

ASSUME GpuAssumption == /\ MaxObjetos \in Nat \ {0} /\ TamRing \in Nat \ {0}
                        /\ GgttBase \in Nat /\ GgttLimite \in Nat /\ GgttBase <= GgttLimite
                        /\ NumSuperficies \in Nat \ {0}

Objetos == 1 .. MaxObjetos

SinObjeto == [vivo |-> FALSE, pags |-> <<>>, pin |-> 0, map |-> FALSE, off |-> 0, uso |-> FALSE]

SinSesion == [viva |-> FALSE, sup |-> <<>>, aux |-> <<>>, poc |-> 0, salida |-> 0, actual |-> 1]

(* i915_gem_iniciar and the state before i915_vcs_motor_iniciar. *)
GemIniciar == [m |-> PmmIniciar, obj |-> [o \in Objetos |-> SinObjeto],
               ggtt |-> [e \in GgttBase .. (GgttLimite - 1) |-> 0], cursor |-> GgttBase,
               ring |-> 0, cola |-> 0, cabeza |-> 0, colgada |-> FALSE, quieto |-> TRUE,
               ses |-> SinSesion]

RG(ok, g, v) == [ok |-> ok, g |-> g, v |-> v]

(* i915_gem_crear_objeto: a free entry, the pages, the buffer of the CPU;  *)
(* the pages are given back when the buffer cannot be had.                 *)
GemCrear(g, n) ==
    LET libres == {o \in Objetos : ~g.obj[o].vivo}
        o == CHOOSE x \in libres : \A y \in libres : x <= y
        objeto(ps, cpu) ==
            IF ~cpu.ok THEN RG(FALSE, [g EXCEPT !.m = FreeDispersas(cpu.m, ps)], 0)
            ELSE RG(TRUE, [g EXCEPT !.m = cpu.m, !.obj[o] = [SinObjeto EXCEPT !.vivo = TRUE, !.pags = ps]], o)
        paginas(p) == IF ~p.ok THEN RG(FALSE, [g EXCEPT !.m = p.m], 0) ELSE objeto(p.v, Kmalloc(p.m))
    IN  IF libres = {} THEN RG(FALSE, g, 0) ELSE paginas(AllocDispersas(g.m, n))

(* i915_gem_pin_en_ggtt: the window at the cursor and one entry per page. *)
GemPin(g, o) ==
    LET ob == g.obj[o]
        n == Len(ob.pags)
    IN  CASE ob.map -> RG(TRUE, [g EXCEPT !.obj[o].pin = @ + 1], ob.off)
          [] ~ob.map /\ g.cursor + n > GgttLimite -> RG(FALSE, g, 0)
          [] OTHER -> RG(TRUE,
                [g EXCEPT !.cursor = @ + n,
                          !.ggtt = [e \in DOMAIN @ |->
                              IF e \in g.cursor .. (g.cursor + n - 1) THEN ob.pags[e - g.cursor + 1] ELSE @[e]],
                          !.obj[o] = [ob EXCEPT !.off = g.cursor, !.map = TRUE, !.pin = 1]],
                g.cursor)

(* i915_gem_unpin_de_ggtt: the last pin clears the entries and lowers the  *)
(* cursor to the end of the highest window still in use.                   *)
GemUnpin(g, o) ==
    LET ob == g.obj[o]
        n == Len(ob.pags)
        resto == {x \in Objetos \ {o} : g.obj[x].vivo /\ g.obj[x].map}
        fines == {GgttBase} \cup {g.obj[x].off + Len(g.obj[x].pags) : x \in resto}
    IN  CASE ~ob.map -> g
          [] ob.map /\ ob.pin > 1 -> [g EXCEPT !.obj[o].pin = @ - 1]
          [] OTHER -> [g EXCEPT !.ggtt = [e \in DOMAIN @ |-> IF e \in ob.off .. (ob.off + n - 1) THEN 0 ELSE @[e]],
                                !.obj[o] = [ob EXCEPT !.map = FALSE, !.pin = 0, !.off = 0],
                                !.cursor = CHOOSE x \in fines : \A y \in fines : x >= y]

(* Mutation: the entries of the translation table outlive the object. *)
GemLiberarSinUnpin(g, o) ==
    IF ~g.obj[o].vivo \/ g.obj[o].uso THEN g
    ELSE [g EXCEPT !.m = FreeDispersas(Kfree(@), g.obj[o].pags), !.obj[o] = SinObjeto]

(* i915_gem_liberar_objeto: refused while the engine may use it. *)
GemLiberar(g, o) ==
    IF ~g.obj[o].vivo \/ g.obj[o].uso THEN g
    ELSE LET u == GemUnpin(g, o)
         IN  [u EXCEPT !.m = FreeDispersas(Kfree(@), g.obj[o].pags), !.obj[o] = SinObjeto]

LiberarTodos(g, os) == FoldLeft(GemLiberar, g, os)

(* What every user of an object does: create it and fix its window, or     *)
(* release it.                                                             *)
GemCrearFijo(g, n) ==
    LET fijado(o, p) == IF p.ok THEN RG(TRUE, p.g, o) ELSE RG(FALSE, GemLiberar(p.g, o), 0)
        creado(c) == IF c.ok THEN fijado(c.v, GemPin(c.g, c.v)) ELSE c
    IN  creado(GemCrear(g, n))

GemDestruir(g) == LiberarTodos(g, [o \in Objetos |-> o])

(***************************************************************************)
(* The ring. The engine is on while the ring object exists (RING_CTL).     *)
(***************************************************************************)
(* i915_vcs_motor_iniciar: the object and window of the ring, then its     *)
(* registers with head and tail 0.                                         *)
VcsIniciar(g) ==
    LET con(c) == IF c.ok THEN RG(TRUE, [c.g EXCEPT !.ring = c.v, !.cola = 0, !.cabeza = 0, !.quieto = TRUE], c.v)
                  ELSE c
    IN  con(GemCrearFijo(g, 1))

VcsDetener(g) == IF g.ring = 0 THEN g ELSE [GemLiberar(g, g.ring) EXCEPT !.ring = 0]

(* i915_vcs_esperar_quiescencia: the engine reaches the tail within the    *)
(* time given, unless it hangs.                                            *)
VcsQuiescencia(g) ==
    CASE g.ring = 0 -> RG(TRUE, g, 0)
      [] g.ring /= 0 /\ (~g.colgada \/ g.cabeza = g.cola) ->
             RG(TRUE, [g EXCEPT !.cabeza = g.cola, !.quieto = TRUE], 0)
      [] OTHER -> RG(FALSE, [g EXCEPT !.quieto = FALSE], 0)

(* i915_vcs_reset: an engine that answers is idle afterwards, its head and *)
(* tail where they were; one that hangs does not answer.                   *)
VcsReset(g) == IF g.colgada THEN g ELSE [g EXCEPT !.quieto = TRUE]

VcsEnviar(g) ==
    IF g.ring = 0 THEN RG(FALSE, g, 0)
    ELSE RG(TRUE, [g EXCEPT !.cola = (@ + 1) % TamRing, !.quieto = FALSE], 0)

(* i915_vcs_ejecutar_primer_trabajo: the destination and the batch, marked *)
(* as used by the engine, the submission and 2 s of polling. The signature *)
(* never appears in the buffer of the CPU, so the job ends with the reset  *)
(* and both objects stay, marked, as the rule of quiescence asks.          *)
PrimerTrabajo(g) ==
    LET lote(d, b) == IF ~b.ok THEN GemLiberar(b.g, d)
                      ELSE VcsReset(VcsEnviar([b.g EXCEPT !.obj[d].uso = TRUE, !.obj[b.v].uso = TRUE]).g)
        destino(d) == IF ~d.ok THEN d.g ELSE lote(d.v, GemCrearFijo(d.g, 1))
    IN  destino(GemCrearFijo(g, 1))

(***************************************************************************)
(* Decoding sessions.                                                      *)
(***************************************************************************)
(* i915_va_destruir_sesion: the result of the wait is not looked at. *)
VaDestruir(g) ==
    LET q == VcsQuiescencia(g).g
        f == LiberarTodos(q, g.ses.sup \o g.ses.aux)
    IN  [f EXCEPT !.m = Kfree(@), !.ses = SinSesion]

(* One surface: object and window, or nothing. *)
CrearSuperficie(a, i) ==
    LET con(c) == IF c.ok THEN RG(TRUE, [c.g EXCEPT !.ses.sup = Append(@, c.v)], 0) ELSE c
    IN  IF a.ok THEN con(GemCrearFijo(a.g, 2)) ELSE a

(* One auxiliary object; the four are asked for before the first failure   *)
(* is looked at.                                                           *)
CrearAuxiliar(a, i) ==
    LET con(c) == RG(a.ok /\ c.ok, IF c.ok THEN [c.g EXCEPT !.ses.aux = Append(@, c.v)] ELSE c.g, 0)
    IN  con(GemCrear(a.g, 1))

FijarAuxiliar(a, o) == IF ~a.ok THEN a ELSE GemPin(a.g, o)

(* i915_va_crear_sesion: what has been made is destroyed when a later part *)
(* is missing. The batch, bitstream, row and canary buffers are the four   *)
(* auxiliary objects.                                                      *)
VaCrear(g) ==
    LET s == Kmalloc(g.m)
        vacia == [g EXCEPT !.m = s.m, !.ses = [SinSesion EXCEPT !.viva = TRUE]]
        auxiliares(a) == IF a.ok THEN FoldLeft(CrearAuxiliar, a, <<1, 2, 3, 4>>) ELSE a
        fijadas(a) == IF a.ok THEN FoldLeft(FijarAuxiliar, a, a.g.ses.aux) ELSE a
        fin(a) == IF a.ok THEN a ELSE RG(FALSE, VaDestruir(a.g), 0)
    IN  IF ~s.ok THEN RG(FALSE, [g EXCEPT !.m = s.m], 0)
        ELSE fin(fijadas(auxiliares(FoldLeft(CrearSuperficie, RG(TRUE, vacia, 0), [i \in 1 .. NumSuperficies |-> i]))))

(* i915_va_parsear_nal: the parameter sets say how the order of a slice is *)
(* coded; a slice leaves its order for the picture. Other units are        *)
(* ignored.                                                                *)
VaParsearNal(g, nal) ==
    CASE nal.tipo = "sps" -> RG(TRUE, [g EXCEPT !.ses.poc = IF nal.porLsb THEN 0 ELSE -1], FALSE)
      [] nal.tipo = "slice" -> RG(TRUE, [g EXCEPT !.ses.poc = IF @ >= 0 THEN nal.poc ELSE @], TRUE)
      [] OTHER -> RG(TRUE, g, FALSE)

(* i915_va_decodificar_cuadro: the bitstream must fit; the batch is sent   *)
(* and waited for; the canary in the buffer of the CPU still holds the 0   *)
(* written before the submission, so the picture is never taken. v tells   *)
(* the three ends apart.                                                   *)
VaDecodificar(g, largo) ==
    LET e == VcsEnviar(g)
        q == VcsQuiescencia(e.g)
    IN  CASE largo > 1 -> RG(FALSE, g, "no cabe")
          [] largo <= 1 /\ ~e.ok -> RG(FALSE, e.g, "sin motor")
          [] largo <= 1 /\ e.ok /\ ~q.ok -> RG(FALSE, q.g, "plazo")
          [] OTHER -> RG(FALSE, q.g, "canario")

(* i915_va_obtener_imagen needs a surface that was shown complete. *)
VaObtener(g) == g.ses.salida /= 0

VaDrenar(g) == [g EXCEPT !.ses.salida = 0]

(***************************************************************************)
(* What a healthy state says of memory and of the translation table.       *)
(***************************************************************************)
PaginasDeObjetos(g) == UNION {Range(g.obj[o].pags) : o \in {x \in Objetos : g.obj[x].vivo}}

(* Heap blocks the live objects and the session account for: one per page, *)
(* the array and the buffer of each object, and the session itself.        *)
BloquesDeObjetos(g) ==
    Cardinality(PaginasDeObjetos(g)) + 2 * Cardinality({o \in Objetos : g.obj[o].vivo})
        + (IF g.ses.viva THEN 1 ELSE 0)

GgttPropia(g) ==
    \A e \in DOMAIN g.ggtt : g.ggtt[e] /= 0 =>
        /\ g.m.pool[g.ggtt[e]].est = "asignada"
        /\ \E o \in Objetos : LET ob == g.obj[o]
                              IN  /\ ob.vivo /\ ob.map /\ e \in ob.off .. (ob.off + Len(ob.pags) - 1)
                                  /\ ob.pags[e - ob.off + 1] = g.ggtt[e]
=============================================================================
