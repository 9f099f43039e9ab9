------------------------------- MODULE Puerto -------------------------------
(***************************************************************************)
(* The page support of the i915 port (compatibilidad/linux_i915/           *)
(* memoria_i915.c) under the threads that call it: a fixed table of pages, *)
(* blocks of consecutive entries that go back to the heap only as a whole, *)
(* arrays of scattered pages, scatter-gather tables with a reference on    *)
(* each page, and their mapping for a device. The functions on pages hold  *)
(* g_pool_lock, get_page is one atomic increment, and everything longer is *)
(* a loop over them, so a step here is one of them or one heap request.    *)
(*                                                                         *)
(*   estado, head, tam, ref, pins, maps   the fields of struct page (0:    *)
(*                  PAGE_ESTADO_LIBRE and NULL; DESTRUYENDO does not       *)
(*                  outlive the lock; tam is 1 << order)                   *)
(*   bloques        blocks of the heap handed out                          *)
(*   suma           g_stats.refs; the other sums of g_stats change with    *)
(*                  the fields they add up                                 *)
(*   pc, pide, quiere  where each thread is, the pages of the block it     *)
(*                  asks for and of the array it fills                     *)
(*   mias, fijas    pages each thread has a reference on, or has pinned    *)
(*   lista, tiene   the array of pages ("lote") and the table ("tabla") of *)
(*                  each thread, and the places of it with a reference     *)
(*   inicios        where the entries of the table begin in its list       *)
(*   mapeadas       those of them with a DMA address                       *)
(* A thread passes to a function only pages it holds a reference on, and   *)
(* unmaps a table before it frees it, as the callers in the port do.       *)
(***************************************************************************)
EXTENDS Integers, Sequences, FiniteSets

CONSTANTS MaxTracked,        \* MAX_TRACKED_PAGES, 16384
          Hilos,             \* the threads that use the port
          Tamanos,           \* sizes of blocks in pages, 2^0 .. 2^10
          MaxLista,          \* bound: pages in an array or a table
          MaxBloques         \* bound: blocks the heap has room for

ASSUME PuertoAssumption ==
    /\ MaxTracked \in Nat \ {0} /\ MaxLista \in Nat \ {0} /\ MaxBloques \in Nat
    /\ IsFiniteSet(Hilos) /\ Tamanos \subseteq Nat \ {0}

VARIABLES estado, head, tam, ref, pins, maps, bloques, suma,
          pc, pide, quiere, mias, fijas, lista, tiene, inicios, mapeadas

campos == <<estado, head, tam, ref, pins, maps>>
pool == <<estado, head, tam, ref, pins, maps, bloques, suma>>
listas == <<lista, tiene, inicios, mapeadas>>
vars == <<estado, head, tam, ref, pins, maps, bloques, suma,
          pc, pide, quiere, mias, fijas, lista, tiene, inicios, mapeadas>>

Pags == 1 .. MaxTracked
Asas == Hilos \X {"lote", "tabla"}
Lugares == 1 .. MaxLista
Pasos == {"fuera", "coloca", "lote", "colocaLote", "sueltaLote", "arreglo", "refs",
          "mapea", "desmapea", "sueltaTabla", "sueltaSgl"}

Lote(h) == <<h, "lote">>
Tabla(h) == <<h, "tabla">>

(* pmm_iniciar *)
Init ==
    /\ estado = [p \in Pags |-> 0] /\ head = [p \in Pags |-> 0] /\ tam = [p \in Pags |-> 1]
    /\ ref = [p \in Pags |-> 0] /\ pins = [p \in Pags |-> 0] /\ maps = [p \in Pags |-> 0]
    /\ bloques = 0 /\ suma = 0
    /\ pc = [h \in Hilos |-> "fuera"]
    /\ pide = [h \in Hilos |-> 0] /\ quiere = [h \in Hilos |-> 0]
    /\ mias = [h \in Hilos |-> {}] /\ fijas = [h \in Hilos |-> {}]
    /\ lista = [a \in Asas |-> <<>>] /\ tiene = [a \in Asas |-> {}]
    /\ inicios = [h \in Hilos |-> {}] /\ mapeadas = [h \in Hilos |-> {}]

En(h, x) == pc[h] = x
A(h, x) == pc' = [pc EXCEPT ![h] = x]

Primero(s) == CHOOSE x \in s : \A y \in s : x <= y

(* The pages a thread may pass to a function. *)
Suyas(h) == mias[h] \cup {lista[Lote(h)][k] : k \in tiene[Lote(h)]}

(***************************************************************************)
(* The functions on pages.                                                 *)
(***************************************************************************)
Bloque(p) == head[p] .. (head[p] + tam[p] - 1)

(* bloque_limpio and bloque_sin_pins_mappings, with the counts given. *)
Limpio(p, r, pi, ma) == \A j \in Bloque(p) : r[j] = 0 /\ pi[j] = 0 /\ ma[j] = 0

(* i915_evaluar_liberacion_bloque_locked, after the counts became r, pi    *)
(* and ma: the block of p goes back to the heap when nothing holds it.     *)
Evaluar(p, r, pi, ma) ==
    LET borra(f) == [j \in Pags |-> IF j \in Bloque(p) THEN 0 ELSE f[j]]
    IN  /\ \/ /\ Limpio(p, r, pi, ma)
              /\ estado' = borra(estado) /\ head' = borra(head)
              /\ ref' = borra(r) /\ pins' = borra(pi) /\ maps' = borra(ma)
              /\ bloques' = bloques - 1
           \/ /\ ~Limpio(p, r, pi, ma)
              /\ ref' = r /\ pins' = pi /\ maps' = ma
              /\ UNCHANGED <<estado, head, bloques>>
        /\ tam' = tam

(* g_stats.refs is lowered only while it is positive. *)
Restado(n) == IF suma > n THEN suma - n ELSE 0

PutPage(p) ==
    \/ /\ estado[p] = 0 \/ ref[p] = 0
       /\ UNCHANGED pool
    \/ /\ estado[p] = 1 /\ ref[p] > 0
       /\ Evaluar(p, [ref EXCEPT ![p] = @ - 1], pins, maps)
       /\ suma' = Restado(1)

(* get_page, which leaves g_stats alone. *)
GetPage(p) ==
    /\ ref' = IF estado[p] = 0 THEN ref ELSE [ref EXCEPT ![p] = @ + 1]
    /\ UNCHANGED <<estado, head, tam, pins, maps, bloques, suma>>

PageUnpin(p) ==
    /\ \/ /\ estado[p] = 0 \/ pins[p] = 0
          /\ UNCHANGED <<campos, bloques>>
       \/ /\ estado[p] = 1 /\ pins[p] > 0
          /\ Evaluar(p, ref, [pins EXCEPT ![p] = @ - 1], maps)
    /\ suma' = suma

PageDesmapear(p) ==
    /\ \/ /\ estado[p] = 0 \/ maps[p] = 0
          /\ UNCHANGED <<campos, bloques>>
       \/ /\ estado[p] = 1 /\ maps[p] > 0
          /\ Evaluar(p, ref, pins, [maps EXCEPT ![p] = @ - 1])
    /\ suma' = suma

(* Heap requests; one that fails changes nothing. *)
Kmalloc == bloques < MaxBloques /\ bloques' = bloques + 1 /\ UNCHANGED <<campos, suma>>
Kfree == bloques' = bloques - 1 /\ UNCHANGED <<campos, suma>>

(***************************************************************************)
(* alloc_pages, alone or for an array. First the memory of the block, its  *)
(* translation and alignment; then, under the lock, the first run of free  *)
(* entries.                                                                *)
(***************************************************************************)
SoloControl == UNCHANGED <<mias, fijas, lista, tiene, inicios, mapeadas>>

PideBloque(h, n) ==
    /\ En(h, "fuera") /\ Kmalloc
    /\ pide' = [pide EXCEPT ![h] = n] /\ A(h, "coloca")
    /\ SoloControl /\ UNCHANGED quiere

Tramo(i, n) == i .. (i + n - 1)

Huecos(n) == {i \in Pags : i + n - 1 <= MaxTracked /\ \A j \in Tramo(i, n) : estado[j] = 0}

(* The entries from i on become a block with one reference each. *)
Ocupar(i, n) ==
    LET pone(f, v) == [j \in Pags |-> IF j \in Tramo(i, n) THEN v ELSE f[j]]
    IN  /\ estado' = pone(estado, 1) /\ head' = pone(head, i) /\ tam' = pone(tam, n)
        /\ ref' = pone(ref, 1) /\ pins' = pone(pins, 0) /\ maps' = pone(maps, 0)
        /\ suma' = suma + n /\ bloques' = bloques

ColocaBloque(h) ==
    /\ En(h, "coloca")
    /\ \/ /\ Huecos(pide[h]) = {} /\ Kfree /\ mias' = mias
       \/ /\ Huecos(pide[h]) /= {}
          /\ Ocupar(Primero(Huecos(pide[h])), pide[h])
          /\ mias' = [mias EXCEPT ![h] = @ \cup Tramo(Primero(Huecos(pide[h])), pide[h])]
    /\ pide' = [pide EXCEPT ![h] = 0] /\ A(h, "fuera")
    /\ UNCHANGED <<quiere, fijas, listas>>

(***************************************************************************)
(* What a thread does with a page or a block.                              *)
(***************************************************************************)
(* get_page of a page that somebody holds meanwhile. *)
TomaPagina(h, p) ==
    /\ En(h, "fuera") /\ p \notin mias[h] /\ \E o \in Hilos : p \in Suyas(o)
    /\ GetPage(p)
    /\ mias' = [mias EXCEPT ![h] = @ \cup {p}]
    /\ UNCHANGED <<pc, pide, quiere, fijas, listas>>

SueltaPagina(h, p) ==
    /\ En(h, "fuera") /\ p \in mias[h]
    /\ PutPage(p)
    /\ mias' = [mias EXCEPT ![h] = @ \ {p}]
    /\ UNCHANGED <<pc, pide, quiere, fijas, listas>>

(* Mutation: the block goes back although a page of it is pinned or mapped. *)
LiberaBloqueSinMirar(h, p) ==
    LET menos == [j \in Pags |-> IF j \in Bloque(p) THEN ref[j] - 1 ELSE ref[j]]
        borra(f) == [j \in Pags |-> IF j \in Bloque(p) THEN 0 ELSE f[j]]
    IN  /\ En(h, "fuera") /\ p \in mias[h] /\ head[p] = p /\ Bloque(p) \subseteq mias[h]
        /\ estado' = borra(estado) /\ head' = borra(head) /\ tam' = tam
        /\ ref' = borra(menos) /\ pins' = borra(pins) /\ maps' = borra(maps)
        /\ bloques' = bloques - 1 /\ suma' = Restado(tam[p])
        /\ mias' = [mias EXCEPT ![h] = @ \ Bloque(p)]
        /\ UNCHANGED <<pc, pide, quiere, fijas, listas>>

(* __free_pages for a block all of which the thread holds. While a page of *)
(* it is pinned or mapped the call returns EBUSY and changes nothing but   *)
(* g_stats.fugas.                                                          *)
LiberaBloque(h, p) ==
    /\ En(h, "fuera") /\ p \in mias[h] /\ head[p] = p /\ Bloque(p) \subseteq mias[h]
    /\ estado[p] = 1 /\ \A j \in Bloque(p) : pins[j] = 0 /\ maps[j] = 0
    /\ Evaluar(p, [j \in Pags |-> IF j \in Bloque(p) /\ ref[j] > 0 THEN ref[j] - 1 ELSE ref[j]], pins, maps)
    /\ suma' = Restado(tam[p])
    /\ mias' = [mias EXCEPT ![h] = @ \ Bloque(p)]
    /\ UNCHANGED <<pc, pide, quiere, fijas, listas>>

(* i915_page_pin and i915_page_unpin. *)
FijaPagina(h, p) ==
    /\ En(h, "fuera") /\ p \in Suyas(h) \ fijas[h] /\ estado[p] = 1
    /\ pins' = [pins EXCEPT ![p] = @ + 1]
    /\ fijas' = [fijas EXCEPT ![h] = @ \cup {p}]
    /\ UNCHANGED <<estado, head, tam, ref, maps, bloques, suma, pc, pide, quiere, mias, listas>>

DesfijaPagina(h, p) ==
    /\ En(h, "fuera") /\ p \in fijas[h]
    /\ PageUnpin(p)
    /\ fijas' = [fijas EXCEPT ![h] = @ \ {p}]
    /\ UNCHANGED <<pc, pide, quiere, mias, listas>>

(***************************************************************************)
(* i915_alloc_paginas_dispersas: the array, then one page at a time; what  *)
(* has been taken is given back when one is missing.                       *)
(***************************************************************************)
PideLote(h, n) ==
    /\ En(h, "fuera") /\ lista[Lote(h)] = <<>> /\ Kmalloc
    /\ quiere' = [quiere EXCEPT ![h] = n] /\ A(h, "lote")
    /\ SoloControl /\ UNCHANGED pide

(* Mutation: the pages already taken are forgotten, only the array is      *)
(* given back.                                                             *)
SigueLoteSinVuelta(h) ==
    /\ En(h, "lote")
    /\ \/ Kmalloc /\ A(h, "colocaLote") /\ UNCHANGED <<lista, tiene>>
       \/ /\ Kfree /\ A(h, "fuera")
          /\ lista' = [lista EXCEPT ![Lote(h)] = <<>>] /\ tiene' = [tiene EXCEPT ![Lote(h)] = {}]
    /\ UNCHANGED <<pide, quiere, mias, fijas, inicios, mapeadas>>

(* The memory of the next page, or the way back. *)
SigueLote(h) ==
    /\ En(h, "lote")
    /\ \/ Kmalloc /\ A(h, "colocaLote")
       \/ UNCHANGED pool /\ A(h, "sueltaLote")
    /\ SoloControl /\ UNCHANGED <<pide, quiere>>

ColocaLote(h) ==
    LET i == Primero(Huecos(1))
        n == Len(lista[Lote(h)]) + 1
    IN  /\ En(h, "colocaLote")
        /\ \/ /\ Huecos(1) = {} /\ Kfree /\ A(h, "sueltaLote")
              /\ UNCHANGED <<lista, tiene, quiere>>
           \/ /\ Huecos(1) /= {} /\ Ocupar(i, 1)
              /\ lista' = [lista EXCEPT ![Lote(h)] = Append(@, i)]
              /\ tiene' = [tiene EXCEPT ![Lote(h)] = @ \cup {n}]
              /\ A(h, IF n = quiere[h] THEN "fuera" ELSE "lote")
              /\ quiere' = IF n = quiere[h] THEN [quiere EXCEPT ![h] = 0] ELSE quiere
        /\ UNCHANGED <<pide, mias, fijas, inicios, mapeadas>>

(* i915_free_paginas_dispersas, whose loop is that of the way back. *)
LiberaLote(h) ==
    /\ En(h, "fuera") /\ lista[Lote(h)] /= <<>>
    /\ A(h, "sueltaLote")
    /\ SoloControl /\ UNCHANGED <<pool, pide, quiere>>

SueltaLote(h) ==
    LET k == Primero(tiene[Lote(h)])
    IN  /\ En(h, "sueltaLote")
        /\ \/ /\ tiene[Lote(h)] /= {} /\ PutPage(lista[Lote(h)][k])
              /\ tiene' = [tiene EXCEPT ![Lote(h)] = @ \ {k}]
              /\ UNCHANGED <<pc, quiere, lista>>
           \/ /\ tiene[Lote(h)] = {} /\ Kfree
              /\ lista' = [lista EXCEPT ![Lote(h)] = <<>>] /\ quiere' = [quiere EXCEPT ![h] = 0]
              /\ A(h, "fuera") /\ tiene' = tiene
        /\ UNCHANGED <<pide, mias, fijas, inicios, mapeadas>>

(***************************************************************************)
(* sg_alloc_table_from_pages. Pages of one block are physically            *)
(* consecutive; pages of two blocks never are, because alloc_pages asks    *)
(* the heap for twice the block to align it.                               *)
(***************************************************************************)
Contiguas(a, b) == head[a] = head[b] /\ b = a + 1

Discontinuidades(l) == {i \in DOMAIN l : i = 1 \/ ~Contiguas(l[i - 1], l[i])}

Tiras(s) == UNION {[1 .. n -> s] : n \in Lugares}

(* Both passes over the list, and the array of entries. The second one     *)
(* meets the discontinuities of the first, so its error exit is not        *)
(* reached below 4 GiB per entry.                                          *)
HaceTabla(h, l) ==
    /\ En(h, "fuera") /\ lista[Tabla(h)] = <<>>
    /\ \A i \in DOMAIN l : estado[l[i]] = 1
    /\ Kmalloc
    /\ lista' = [lista EXCEPT ![Tabla(h)] = l]
    /\ inicios' = [inicios EXCEPT ![h] = Discontinuidades(l)]
    /\ A(h, "arreglo")
    /\ UNCHANGED <<pide, quiere, mias, fijas, tiene, mapeadas>>

(* The array of pages; without it the table is freed, entries only. *)
PideArreglo(h) ==
    /\ En(h, "arreglo")
    /\ \/ Kmalloc /\ A(h, "refs")
       \/ UNCHANGED pool /\ A(h, "sueltaSgl")
    /\ SoloControl /\ UNCHANGED <<pide, quiere>>

Faltan(a) == DOMAIN lista[a] \ tiene[a]

(* Mutation: the references of the table are those of its owner. *)
TomaRefsSinGet(h) ==
    LET k == Primero(Faltan(Tabla(h)))
    IN  /\ En(h, "refs") /\ UNCHANGED pool
        /\ tiene' = [tiene EXCEPT ![Tabla(h)] = @ \cup {k}]
        /\ A(h, IF Faltan(Tabla(h)) = {k} THEN "fuera" ELSE "refs")
        /\ UNCHANGED <<pide, quiere, mias, fijas, lista, inicios, mapeadas>>

(* One reference for each page of the table. *)
TomaRefs(h) ==
    LET k == Primero(Faltan(Tabla(h)))
    IN  /\ En(h, "refs") /\ GetPage(lista[Tabla(h)][k])
        /\ tiene' = [tiene EXCEPT ![Tabla(h)] = @ \cup {k}]
        /\ A(h, IF Faltan(Tabla(h)) = {k} THEN "fuera" ELSE "refs")
        /\ UNCHANGED <<pide, quiere, mias, fijas, lista, inicios, mapeadas>>

(* sg_free_table: the references, the array of pages, the entries. *)
LiberaTabla(h) ==
    /\ En(h, "fuera") /\ lista[Tabla(h)] /= <<>> /\ mapeadas[h] = {}
    /\ A(h, "sueltaTabla")
    /\ SoloControl /\ UNCHANGED <<pool, pide, quiere>>

SueltaTabla(h) ==
    LET k == Primero(tiene[Tabla(h)])
    IN  /\ En(h, "sueltaTabla")
        /\ \/ /\ tiene[Tabla(h)] /= {} /\ PutPage(lista[Tabla(h)][k])
              /\ tiene' = [tiene EXCEPT ![Tabla(h)] = @ \ {k}] /\ pc' = pc
           \/ /\ tiene[Tabla(h)] = {} /\ Kfree /\ A(h, "sueltaSgl") /\ tiene' = tiene
        /\ UNCHANGED <<pide, quiere, mias, fijas, lista, inicios, mapeadas>>

SueltaSgl(h) ==
    /\ En(h, "sueltaSgl") /\ Kfree
    /\ lista' = [lista EXCEPT ![Tabla(h)] = <<>>] /\ inicios' = [inicios EXCEPT ![h] = {}]
    /\ A(h, "fuera")
    /\ UNCHANGED <<pide, quiere, mias, fijas, tiene, mapeadas>>

(***************************************************************************)
(* dma_map_sg and dma_unmap_sg.                                            *)
(***************************************************************************)
MapeaTabla(h) ==
    /\ En(h, "fuera") /\ lista[Tabla(h)] /= <<>> /\ mapeadas[h] = {}
    /\ A(h, "mapea")
    /\ SoloControl /\ UNCHANGED <<pool, pide, quiere>>

(* The next entry, which is too long for the device, not translated, wraps *)
(* round or leaves the mask; or its page, which gets one mapping.          *)
MapeaEntrada(h) ==
    LET i == Primero(inicios[h] \ mapeadas[h])
        p == lista[Tabla(h)][i]
    IN  /\ En(h, "mapea")
        /\ \/ /\ A(h, "desmapea") /\ UNCHANGED <<maps, mapeadas>>
           \/ /\ estado[p] = 1 /\ maps' = [maps EXCEPT ![p] = @ + 1]
              /\ mapeadas' = [mapeadas EXCEPT ![h] = @ \cup {i}]
              /\ A(h, IF inicios[h] \ mapeadas[h] = {i} THEN "fuera" ELSE "mapea")
        /\ UNCHANGED <<estado, head, tam, ref, pins, bloques, suma,
                       pide, quiere, mias, fijas, lista, tiene, inicios>>

DesmapeaTabla(h) ==
    /\ En(h, "fuera") /\ mapeadas[h] /= {}
    /\ A(h, "desmapea")
    /\ SoloControl /\ UNCHANGED <<pool, pide, quiere>>

DesmapeaEntrada(h) ==
    LET i == Primero(mapeadas[h])
    IN  /\ En(h, "desmapea")
        /\ \/ /\ mapeadas[h] /= {} /\ PageDesmapear(lista[Tabla(h)][i])
              /\ mapeadas' = [mapeadas EXCEPT ![h] = @ \ {i}] /\ pc' = pc
           \/ /\ mapeadas[h] = {} /\ A(h, "fuera") /\ UNCHANGED <<pool, mapeadas>>
        /\ UNCHANGED <<pide, quiere, mias, fijas, lista, tiene, inicios>>

Sigue(h) ==
    \/ ColocaBloque(h) \/ SigueLote(h) \/ ColocaLote(h) \/ SueltaLote(h)
    \/ PideArreglo(h) \/ TomaRefs(h) \/ SueltaTabla(h) \/ SueltaSgl(h)
    \/ MapeaEntrada(h) \/ DesmapeaEntrada(h)

Empieza(h) ==
    \/ \E n \in Tamanos : PideBloque(h, n)
    \/ \E p \in Pags : \/ TomaPagina(h, p) \/ SueltaPagina(h, p) \/ LiberaBloque(h, p)
                       \/ FijaPagina(h, p) \/ DesfijaPagina(h, p)
    \/ \E n \in Lugares : PideLote(h, n)
    \/ \E l \in Tiras(Suyas(h)) : HaceTabla(h, l)
    \/ LiberaLote(h) \/ LiberaTabla(h) \/ MapeaTabla(h) \/ DesmapeaTabla(h)

Next == \E h \in Hilos : Sigue(h) \/ Empieza(h)

Spec == Init /\ [][Next]_vars

(***************************************************************************)
(* Properties.                                                             *)
(***************************************************************************)
TypeOK ==
    /\ estado \in [Pags -> {0, 1}] /\ head \in [Pags -> Pags \cup {0}] /\ tam \in [Pags -> Nat \ {0}]
    /\ ref \in [Pags -> Nat] /\ pins \in [Pags -> Nat] /\ maps \in [Pags -> Nat]
    /\ bloques \in Nat /\ suma \in Nat
    /\ pc \in [Hilos -> Pasos] /\ pide \in [Hilos -> Tamanos \cup {0}] /\ quiere \in [Hilos -> 0 .. MaxLista]
    /\ mias \in [Hilos -> SUBSET Pags] /\ fijas \in [Hilos -> SUBSET Pags]
    /\ lista \in [Asas -> Seq(Pags)] /\ tiene \in [Asas -> SUBSET Lugares]
    /\ inicios \in [Hilos -> SUBSET Lugares] /\ mapeadas \in [Hilos -> SUBSET Lugares]

(* Who holds a page: the threads, the places of arrays and tables, the     *)
(* threads that pinned it, and the mapped entries that begin at it.        *)
Duenos(p) == {h \in Hilos : p \in mias[h]}
EnListas(p) == {x \in Asas \X Lugares : x[2] \in tiene[x[1]] /\ lista[x[1]][x[2]] = p}
Fijadores(p) == {h \in Hilos : p \in fijas[h]}
Entradas(p) == {x \in Hilos \X Lugares : x[2] \in mapeadas[x[1]] /\ lista[Tabla(x[1])][x[2]] = p}

(* The threads with a heap block that is not a page: one on its way to     *)
(* alloc_pages, the array of scattered pages, the entries of a table and   *)
(* its array.                                                              *)
Brutos == {h \in Hilos : pc[h] \in {"coloca", "colocaLote"}}
Lotes == {h \in Hilos : pc[h] \in {"lote", "colocaLote", "sueltaLote"} \/ lista[Lote(h)] /= <<>>}
Tablas == {h \in Hilos : lista[Tabla(h)] /= <<>>}
Arreglos == {h \in Tablas : pc[h] \notin {"arreglo", "sueltaSgl"}}

Cabezas == {p \in Pags : estado[p] = 1 /\ head[p] = p}

(* The counts of a page are exactly its holders, whatever calls of other   *)
(* threads run in between and wherever one of them fails.                  *)
CuentasDePagina ==
    \A p \in Pags :
        /\ ref[p] = Cardinality(Duenos(p)) + Cardinality(EnListas(p))
        /\ pins[p] = Cardinality(Fijadores(p))
        /\ maps[p] = Cardinality(Entradas(p))

(* Nothing is lost on any path, the undo paths included: an entry of the   *)
(* table is taken only while somebody holds a page of its block, and the   *)
(* heap blocks handed out are one per block and those in the threads'      *)
(* hands.                                                                  *)
NadaPerdido ==
    /\ \A p \in Pags : estado[p] = 1 =>
           \E q \in Bloque(p) :
               Duenos(q) \cup Fijadores(q) /= {} \/ EnListas(q) /= {} \/ Entradas(q) /= {}
    /\ bloques = Cardinality(Cabezas) + Cardinality(Brutos) + Cardinality(Lotes)
                       + Cardinality(Tablas) + Cardinality(Arreglos)

(* The pages of the entry that begins at place i of a table. *)
Entrada(h, i) ==
    {lista[Tabla(h)][k] : k \in {x \in DOMAIN lista[Tabla(h)] :
                                   x >= i /\ \A y \in (i + 1) .. x : y \notin inicios[h]}}

(* What a device may reach, or a thread has pinned or holds, is never      *)
(* given back, even after its owner put it: a page that is held or pinned  *)
(* keeps its whole block, and every page of a mapped entry is allocated.   *)
DmaVivo ==
    \A h \in Hilos :
        /\ \A p \in Suyas(h) \cup fijas[h] : \A q \in Bloque(p) : q \in Pags /\ estado[q] = 1
        /\ \A i \in mapeadas[h] : \A p \in Entrada(h, i) : estado[p] = 1
=============================================================================
