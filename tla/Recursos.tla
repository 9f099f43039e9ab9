----------------------------- MODULE Recursos ------------------------------
(***************************************************************************)
(* What drivers take from the kernel and must give back: page mappings     *)
(* (base/paginacion.c), contiguous device memory (base/dma.c and the       *)
(* coherent and contiguous allocators over it), and windows on device      *)
(* registers (ioremap and iounmap of compatibilidad/linux.c, and the       *)
(* nv_os layer of the NVIDIA driver). All of it is called from the one     *)
(* boot processor, so each call is a function of the kernel's state k:     *)
(*   falla    requests for a frame that still succeed (-1: all do)         *)
(*   marcos   frames taken; tablas the upper levels of page tables present *)
(*            per region of virtual addresses (0 .. 2); hojas the leaf     *)
(*            tables, as <<region, index>>; mapa the pages mapped, as      *)
(*            <<region, page, frame>>                                      *)
(*   total    pages of the arena; ocup the pages taken; tam the size       *)
(*            recorded at the first page of each allocation                *)
(*   ventanas g_tabla_ioremap; cursor g_cursor_ioremap_virtual             *)
(* A region stands for the virtual addresses one driver maps at; two       *)
(* regions never share a page table.                                       *)
(***************************************************************************)
EXTENDS Integers, Sequences, FiniteSets, SequencesExt

CONSTANTS Regiones,          \* the regions of virtual addresses
          PorTabla,          \* pages a leaf table maps, 512
          MaxIoremap,        \* MAX_MAPEOS_IOREMAP, 64
          Grande             \* pages of 64 KiB: from here on requests are aligned to it

ASSUME RecursosAssumption == MaxIoremap \in Nat \ {0} /\ PorTabla \in Nat \ {0} /\ Grande \in Nat \ {0}
                             /\ {"ioremap", "prueba"} \subseteq Regiones

R(ok, k, v) == [ok |-> ok, k |-> k, v |-> v]

SinVentana == [activo |-> FALSE, inicio |-> 0, pags |-> 0]

(* Before paginacion_iniciar: no table, and no arena before dma_iniciar. *)
SinRecursos == [falla |-> -1, pag |-> FALSE, marcos |-> 0, tablas |-> [r \in Regiones |-> 0],
                hojas |-> {}, mapa |-> {}, total |-> 0, ocup |-> {}, tam |-> <<>>,
                ventanas |-> [i \in 1 .. MaxIoremap |-> SinVentana], cursor |-> 0]

(* paginacion_iniciar: the top table is one frame; without it the machine  *)
(* stops (huevo_quebrar).                                                  *)
PaginacionIniciar(k) ==
    IF k.falla = 0 THEN R(FALSE, k, 0)
    ELSE R(TRUE, [k EXCEPT !.pag = TRUE, !.marcos = 1, !.falla = IF @ < 0 THEN @ ELSE @ - 1], 0)

(* paginacion_mapear: the missing levels are taken one after the other and *)
(* stay when a later one cannot be had.                                    *)
Mapear(k, r, n, f) ==
    LET hoja == <<r, n \div PorTabla>>
        faltan == (2 - k.tablas[r]) + (IF hoja \in k.hojas THEN 0 ELSE 1)
    IN  CASE ~k.pag -> R(FALSE, k, 0)
          [] k.pag /\ k.falla \in 0 .. (faltan - 1) ->
                 R(FALSE, [k EXCEPT !.tablas[r] = @ + k.falla, !.marcos = @ + k.falla, !.falla = -1], 0)
          [] OTHER ->
                 R(TRUE, [k EXCEPT !.tablas[r] = 2, !.hojas = @ \cup {hoja}, !.marcos = @ + faltan,
                                   !.falla = IF @ < 0 THEN @ ELSE @ - faltan,
                                   !.mapa = {t \in @ : t[1] /= r \/ t[2] /= n} \cup {<<r, n, f>>}], 0)

(* The callers that map n pages in a row and stop at the first failure,    *)
(* keeping what is mapped.                                                 *)
MapearTodas(k, r, ini, fis, n) ==
    LET una(a, p) == IF ~a.ok THEN a ELSE Mapear(a.k, r, ini + p - 1, fis + p - 1)
    IN  FoldLeft(una, R(TRUE, k, 0), [p \in 1 .. n |-> p])

(* The callers that ignore the result of each page; ok tells what they do not look at. *)
MapearSinMirar(k, r, ini, fis, n) ==
    LET una(a, p) == LET m == Mapear(a.k, r, ini + p - 1, fis + p - 1)
                     IN  R(a.ok /\ m.ok, m.k, 0)
    IN  FoldLeft(una, R(TRUE, k, 0), [p \in 1 .. n |-> p])

(* paginacion_desmapear *)
Desmapear(k, r, n) ==
    IF ~k.pag \/ <<r, n \div PorTabla>> \notin k.hojas THEN k
    ELSE [k EXCEPT !.mapa = {t \in @ : t[1] /= r \/ t[2] /= n}]

(* paginacion_obtener_fisica; 0: not mapped. *)
ObtenerFisica(k, r, n) ==
    IF \E t \in k.mapa : t[1] = r /\ t[2] = n
    THEN (CHOOSE t \in k.mapa : t[1] = r /\ t[2] = n)[3] ELSE 0

(* paginacion_ejecutar_autodiagnostico: a frame is mapped, looked up,      *)
(* unmapped and given back on every exit.                                  *)
PaginacionAutodiag(k) ==
    IF ~k.pag \/ k.falla = 0 THEN R(FALSE, k, 0)
    ELSE LET k1 == [k EXCEPT !.marcos = @ + 1, !.falla = IF @ < 0 THEN @ ELSE @ - 1]
             m == Mapear(k1, "prueba", 0, 1)
             u == [Desmapear(m.k, "prueba", 0) EXCEPT !.marcos = @ - 1]
         IN  IF ~m.ok THEN R(FALSE, [m.k EXCEPT !.marcos = @ - 1], 0)
             ELSE R(ObtenerFisica(m.k, "prueba", 0) = 1 /\ ObtenerFisica(u, "prueba", 0) = 0, u, 0)

(***************************************************************************)
(* The arena of contiguous device memory.                                  *)
(***************************************************************************)
DmaIniciar(k, paginas) == [k EXCEPT !.total = paginas, !.tam = [p \in 1 .. paginas |-> 0]]

Tramo(i, n) == i .. (i + n - 1)

(* dma_asignar_bufer_contiguo: the first aligned run of free pages. *)
DmaAsignar(k, n, alineacion) ==
    LET aptos == {i \in 1 .. (k.total - n + 1) :
                    (i - 1) % alineacion = 0 /\ Tramo(i, n) \cap k.ocup = {}}
        i == CHOOSE x \in aptos : \A y \in aptos : x <= y
    IN  IF n = 0 \/ n > k.total \/ aptos = {} THEN R(FALSE, k, 0)
        ELSE R(TRUE, [k EXCEPT !.ocup = @ \cup Tramo(i, n), !.tam[i] = n], i)

(* dma_liberar_bufer_contiguo: refused outside the arena, for a page that  *)
(* starts no allocation, for another size and for pages already free.      *)
DmaLiberar(k, i, n) ==
    IF n = 0 \/ i \notin 1 .. k.total \/ k.tam[i] /= n \/ ~(Tramo(i, n) \subseteq k.ocup)
    THEN R(FALSE, k, 0)
    ELSE R(TRUE, [k EXCEPT !.ocup = @ \ Tramo(i, n), !.tam[i] = 0], 0)

(* dma_ejecutar_autodiagnostico: 64 KiB aligned to 64 KiB, checked and     *)
(* given back; the count of pages in use must be what it was.              *)
DmaAutodiag(k) ==
    LET devuelto(i, l) == R((i - 1) % Grande = 0 /\ Cardinality(l.k.ocup) = Cardinality(k.ocup), l.k, 0)
        pedido(a) == IF a.ok THEN devuelto(a.v, DmaLiberar(a.k, a.v, Grande)) ELSE a
    IN  IF k.total = 0 THEN R(FALSE, k, 0) ELSE pedido(DmaAsignar(k, Grande, Grande))

(* dma_alloc_coherent and dma_free_coherent_ex *)
AllocCoherent(k, n) == DmaAsignar(k, n, IF n >= Grande THEN Grande ELSE 1)

FreeCoherent(k, i, n) == DmaLiberar(k, i, n)

(***************************************************************************)
(* Windows on device registers.                                            *)
(***************************************************************************)
(* ioremap_interno: the pages one by one at the cursor, undone together    *)
(* with the move of the cursor when one cannot be mapped; then a free      *)
(* entry of the table, when there is one. A guard page follows. v is the   *)
(* first virtual page plus one (0 is NULL).                                *)
Ioremap(k, fis, n) ==
    LET ini == k.cursor
        libres == {i \in 1 .. MaxIoremap : ~k.ventanas[i].activo}
        i == CHOOSE x \in libres : \A y \in libres : x <= y
        vuelta(k1) == [k1 EXCEPT !.cursor = ini, !.mapa = {t \in @ : t[1] /= "ioremap" \/ t[2] < ini}]
        anota(k1) == IF libres = {} THEN k1
                     ELSE [k1 EXCEPT !.ventanas[i] = [activo |-> TRUE, inicio |-> ini, pags |-> n]]
        hecho(a) == IF a.ok THEN R(TRUE, anota(a.k), ini + 1) ELSE R(FALSE, vuelta(a.k), 0)
    IN  IF n = 0 THEN R(FALSE, k, 0)
        ELSE hecho(MapearTodas([k EXCEPT !.cursor = @ + n + 1], "ioremap", ini, fis, n))

(* iounmap: only a window the table knows is unmapped. *)
Iounmap(k, v) ==
    LET suyas == {i \in 1 .. MaxIoremap : k.ventanas[i].activo /\ k.ventanas[i].inicio = v - 1}
        i == CHOOSE x \in suyas : \A y \in suyas : x <= y
        w == k.ventanas[i]
    IN  IF v = 0 \/ suyas = {} THEN k
        ELSE [k EXCEPT !.ventanas[i].activo = FALSE,
                       !.mapa = {t \in @ : t[1] /= "ioremap" \/ t[2] \notin Tramo(w.inicio, w.pags)}]

(***************************************************************************)
(* What a healthy state says.                                              *)
(***************************************************************************)
MarcosDeTablas(k) == (IF k.pag THEN 1 ELSE 0) + FoldFunctionOnSet(+, 0, k.tablas, Regiones)
                         + Cardinality(k.hojas)

(* The pages mapped in the ioremap region are those of the windows. *)
VentanasExactas(k) ==
    {t[2] : t \in {u \in k.mapa : u[1] = "ioremap"}} =
        UNION {Tramo(k.ventanas[i].inicio, k.ventanas[i].pags) :
                 i \in {j \in 1 .. MaxIoremap : k.ventanas[j].activo}}
=============================================================================
