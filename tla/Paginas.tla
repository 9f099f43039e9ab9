------------------------------ MODULE Paginas ------------------------------
(***************************************************************************)
(* The page support of the i915 port (compatibilidad/linux_i915/           *)
(* memoria_i915.c): a fixed table of tracked pages with a reference count, *)
(* a pin count and a mapping count each, blocks of 2^order pages that are  *)
(* freed only as a whole, scatter-gather tables that take a reference on   *)
(* the pages they represent, and the mapping of a table for a device.      *)
(* Every function runs under one spin lock with interrupts off, so it is a *)
(* function of the memory it is called in:                                 *)
(*   m.pool    the table (g_pool)                                          *)
(*   m.bloques how many blocks of the heap are handed out                  *)
(*   m.falla   how many more requests succeed before one fails (-1: none   *)
(*             fails); a request is an i915_kmalloc or a translation of a  *)
(*             virtual page to its frame                                   *)
(* A result is a record: ok, m (the memory after the call) and v (what the *)
(* call returns).                                                          *)
(***************************************************************************)
EXTENDS Integers, Sequences, FiniteSets, SequencesExt

CONSTANT MaxTracked          \* MAX_TRACKED_PAGES, 16384 in the code

ASSUME MaxTrackedAssumption == MaxTracked \in Nat \ {0}

Libre == [est |-> "libre", ref |-> 0, pins |-> 0, maps |-> 0, orden |-> 0, head |-> 0]

(* pmm_iniciar: every entry of the table is free. *)
PmmIniciar == [pool |-> [i \in 1 .. MaxTracked |-> Libre], bloques |-> 0, falla |-> -1]

Res(ok, m, v) == [ok |-> ok, m |-> m, v |-> v]

(* One request that the environment may refuse. *)
Peticion(m) == Res(m.falla /= 0, [m EXCEPT !.falla = IF @ < 0 THEN @ ELSE @ - 1], 0)

Kmalloc(m) == LET r == Peticion(m)
              IN  Res(r.ok, [r.m EXCEPT !.bloques = IF r.ok THEN @ + 1 ELSE @], 0)

Kfree(m) == [m EXCEPT !.bloques = @ - 1]

(* The pages of the block a page belongs to. *)
Bloque(m, p) == LET h == m.pool[p].head IN h .. (h + 2 ^ m.pool[h].orden - 1)

BloqueLimpio(m, p) == \A j \in Bloque(m, p) : m.pool[j].ref = 0

BloqueSinPinsMappings(m, p) ==
    \A j \in Bloque(m, p) : m.pool[j].pins = 0 /\ m.pool[j].maps = 0

(* i915_evaluar_liberacion_bloque_locked: the block goes back to the heap  *)
(* when no page of it has a reference, a pin or a mapping. The state       *)
(* DESTRUYENDO does not outlive the lock.                                  *)
EvaluarLiberacion(m, p) ==
    IF m.pool[p].est /= "asignada" \/ ~BloqueLimpio(m, p) \/ ~BloqueSinPinsMappings(m, p)
    THEN m
    ELSE [Kfree(m) EXCEPT !.pool = [j \in DOMAIN @ |-> IF j \in Bloque(m, p) THEN Libre ELSE @[j]]]

PagePin(m, p) ==
    IF m.pool[p].est /= "asignada" THEN Res(FALSE, m, 0)
    ELSE Res(TRUE, [m EXCEPT !.pool[p].pins = @ + 1], 0)

PageUnpin(m, p) ==
    IF m.pool[p].est /= "asignada" \/ m.pool[p].pins = 0 THEN m
    ELSE EvaluarLiberacion([m EXCEPT !.pool[p].pins = @ - 1], p)

PageMapear(m, p) ==
    IF m.pool[p].est /= "asignada" THEN Res(FALSE, m, 0)
    ELSE Res(TRUE, [m EXCEPT !.pool[p].maps = @ + 1], 0)

PageDesmapear(m, p) ==
    IF m.pool[p].est /= "asignada" \/ m.pool[p].maps = 0 THEN m
    ELSE EvaluarLiberacion([m EXCEPT !.pool[p].maps = @ - 1], p)

GetPage(m, p) == IF m.pool[p].est = "libre" THEN m ELSE [m EXCEPT !.pool[p].ref = @ + 1]

PutPage(m, p) ==
    IF m.pool[p].est /= "asignada" \/ m.pool[p].ref = 0 THEN m
    ELSE EvaluarLiberacion([m EXCEPT !.pool[p].ref = @ - 1], p)

(* alloc_pages: the heap block, the translation of its pages, then the     *)
(* first run of free entries; the heap block is given back when one of the *)
(* later steps fails. v is the head of the block, 0 when there is none.    *)
AllocPages(m, orden) ==
    LET n == 2 ^ orden
        raw == Kmalloc(m)
        pa == Peticion(raw.m)
        huecos == {i \in 1 .. (MaxTracked - n + 1) :
                     \A j \in i .. (i + n - 1) : m.pool[j].est = "libre"}
        base == CHOOSE i \in huecos : \A k \in huecos : i <= k
        nueva == [est |-> "asignada", ref |-> 1, pins |-> 0, maps |-> 0,
                  orden |-> orden, head |-> base]
    IN  CASE orden > 10 -> Res(FALSE, m, 0)
          [] orden <= 10 /\ ~raw.ok -> Res(FALSE, raw.m, 0)
          [] orden <= 10 /\ raw.ok /\ (~pa.ok \/ huecos = {}) -> Res(FALSE, Kfree(pa.m), 0)
          [] OTHER -> Res(TRUE,
                [pa.m EXCEPT !.pool = [j \in DOMAIN @ |->
                                         IF j \in base .. (base + n - 1) THEN nueva ELSE @[j]]],
                base)

PutTodas(m, ps) == FoldLeft(PutPage, m, ps)

(* Mutation: the pages already taken are not given back when a later one   *)
(* cannot be had; only the array is.                                       *)
AllocDispersasSinVuelta(m, n) ==
    LET arr == Kmalloc(m)
        mas(a, r) == Res(r.ok, r.m, IF r.ok THEN Append(a.v, r.v) ELSE a.v)
        uno(a, i) == IF ~a.ok THEN a ELSE mas(a, AllocPages(a.m, 0))
        fin(a) == IF a.ok THEN a ELSE Res(FALSE, Kfree(a.m), <<>>)
    IN  IF ~arr.ok \/ n = 0 THEN Res(FALSE, arr.m, <<>>)
        ELSE fin(FoldLeft(uno, Res(TRUE, arr.m, <<>>), [i \in 1 .. n |-> i]))

(* i915_alloc_paginas_dispersas: an array and one page at a time; the      *)
(* pages already taken and the array are given back when one is missing.   *)
AllocDispersas(m, n) ==
    LET arr == Kmalloc(m)
        mas(a, r) == Res(r.ok, r.m, IF r.ok THEN Append(a.v, r.v) ELSE a.v)
        uno(a, i) == IF ~a.ok THEN a ELSE mas(a, AllocPages(a.m, 0))
        fin(a) == IF a.ok THEN a ELSE Res(FALSE, Kfree(PutTodas(a.m, a.v)), <<>>)
    IN  IF ~arr.ok \/ n = 0 THEN Res(FALSE, arr.m, <<>>)
        ELSE fin(FoldLeft(uno, Res(TRUE, arr.m, <<>>), [i \in 1 .. n |-> i]))

FreeDispersas(m, ps) == Kfree(PutTodas(m, ps))

(***************************************************************************)
(* Scatter-gather tables. Pages of one block are physically consecutive;   *)
(* pages of two blocks never are, because alloc_pages asks the heap for    *)
(* twice the block to align it. Lengths are in pages.                      *)
(***************************************************************************)
SinTabla == [sgl |-> <<>>, paginas |-> <<>>]

Contiguas(m, a, b) == m.pool[a].head = m.pool[b].head /\ b = a + 1

(* The segments of a list of pages: a new one at each discontinuity. *)
Segmentos(m, ps) ==
    LET uno(a, p) ==
            IF a /= <<>> /\ Contiguas(m, Last(a).pag + Last(a).largo - 1, p)
            THEN [a EXCEPT ![Len(a)].largo = @ + 1]
            ELSE Append(a, [pag |-> p, largo |-> 1, dma |-> 0])
    IN  FoldLeft(uno, <<>>, ps)

SgFreeTable(m, t) ==
    LET m1 == IF t.paginas = <<>> THEN m ELSE Kfree(PutTodas(m, t.paginas))
    IN  IF t.sgl = <<>> THEN m1 ELSE Kfree(m1)

(* sg_alloc_table_from_pages for the first `tam` pages of the list: the    *)
(* validation and count, sg_alloc_table, the array of pages with one       *)
(* reference on each page used, and the filling. The second pass meets the *)
(* same discontinuities as the first, so its own error exit is not reached *)
(* below 4 GiB per segment.                                                *)
SgDesdePaginas(m, ps, tam) ==
    LET usadas == SubSeq(ps, 1, tam)
        sgl == Kmalloc(m)
        arr == Kmalloc(sgl.m)
    IN  CASE tam = 0 \/ tam > Len(ps) \/ (\E i \in DOMAIN usadas : m.pool[usadas[i]].est = "libre") ->
                 Res(FALSE, m, SinTabla)
          [] ~sgl.ok -> Res(FALSE, sgl.m, SinTabla)
          [] ~arr.ok -> Res(FALSE, Kfree(arr.m), SinTabla)
          [] OTHER -> Res(TRUE, FoldLeft(GetPage, arr.m, usadas),
                          [sgl |-> Segmentos(m, usadas), paginas |-> usadas])

(* dma_unmap_sg for the first n entries. *)
DmaUnmapSg(m, sgl, n) ==
    LET uno(a, e) == IF e.dma /= 0 THEN PageDesmapear(a, e.pag) ELSE a
    IN  [m |-> FoldLeft(uno, m, SubSeq(sgl, 1, n)),
         sgl |-> [i \in DOMAIN sgl |-> IF i <= n THEN [sgl[i] EXCEPT !.dma = 0] ELSE sgl[i]]]

(* dma_map_sg: entry by entry; the first that is invalid, too long for the *)
(* device, not translated, wrapping round 2^64 or outside the mask undoes  *)
(* the ones before it. A device d says the longest segment (0: any), the   *)
(* entry its translation refuses (0: none), the last page its mask reaches *)
(* (0: all) and whether its addresses end at 2^64.                         *)
DmaMapSg(m, sgl, d) ==
    LET mala(e, i) == \/ m.pool[e.pag].est = "libre"
                      \/ d.max /= 0 /\ e.largo > d.max
                      \/ d.nula = i
                      \/ d.alta /\ e.largo > 1
                      \/ d.mascara /= 0 /\ e.pag + e.largo - 1 > d.mascara
        uno(a, i) ==
            IF ~a.ok THEN a
            ELSE LET e == sgl[i]
                     map == PageMapear(a.m, e.pag)
                 IN  IF mala(e, i) \/ ~map.ok
                     THEN LET u == DmaUnmapSg(a.m, a.v, i - 1) IN Res(FALSE, u.m, u.sgl)
                     ELSE Res(TRUE, map.m, [a.v EXCEPT ![i].dma = 1])
    IN  FoldLeft(uno, Res(TRUE, m, sgl), [i \in 1 .. Len(sgl) |-> i])

(* The frames a table lets a device reach. *)
Alcanzadas(sgl) == UNION {sgl[i].pag .. (sgl[i].pag + sgl[i].largo - 1) :
                            i \in {j \in DOMAIN sgl : sgl[j].dma /= 0}}

(***************************************************************************)
(* prueba_ring0_memoria_sg_dma: a page pinned across its last put, four    *)
(* scattered pages in a table, mapped and unmapped, and a translation that *)
(* wraps round; every exit gives back what the test holds.                 *)
(***************************************************************************)
DispositivoNormal == [max |-> 0, nula |-> 0, mascara |-> 0, alta |-> FALSE]

DiagMemoria(m, n) ==
    LET fin(m1, t, ps) == FreeDispersas(SgFreeTable(m1, t), ps)
        larga(ps) == <<[pag |-> ps[1], largo |-> 2, dma |-> 0]>>
        vuelta(m1, t, ps) == fin(DmaMapSg(m1, larga(ps), [DispositivoNormal EXCEPT !.alta = TRUE]).m, t, ps)
        mapa(x, t, ps) == IF x.ok THEN vuelta(DmaUnmapSg(x.m, x.v, Len(x.v)).m, t, ps) ELSE fin(x.m, t, ps)
        tabla(t, ps) == IF t.ok THEN mapa(DmaMapSg(t.m, t.v.sgl, DispositivoNormal), t.v, ps)
                        ELSE FreeDispersas(t.m, ps)
        dispersas(d) == IF d.ok THEN tabla(SgDesdePaginas(d.m, d.v, n), d.v) ELSE d.m
        suelta(m1, p) == IF m1.pool[p].est = "libre" THEN dispersas(AllocDispersas(m1, n)) ELSE m1
        fijada(m1, p) == IF m1.pool[p].est = "asignada" THEN suelta(PageUnpin(m1, p), p) ELSE m1
        pagina(a) == IF a.ok THEN fijada(PutPage(PagePin(a.m, a.v).m, a.v), a.v) ELSE a.m
    IN  pagina(AllocPages(m, 0))
=============================================================================
