------------------------------- MODULE Monton -------------------------------
(***************************************************************************)
(* The allocators of nucleo/base/memoria.c: the stack of physical frames   *)
(* (PMM) and the kernel heap, a doubly linked list of blocks that splits   *)
(* on allocation, coalesces on release and grows with frames of the PMM.   *)
(*                                                                         *)
(* Only the coordinator allocates (trabajos_es_coordinador), so a call is  *)
(* sequential; the search of the list and each attempt to grow are steps,  *)
(* as the loops of the code are.  The unit of size and address is          *)
(* 16 bytes, to which asignar_memoria rounds up.  The canaries, which      *)
(* detect writes outside a block, are left out: a client writes only       *)
(* inside what it was given.                                               *)
(***************************************************************************)
EXTENDS Integers, FiniteSetsExt, SequencesExt

CONSTANTS
  TamPagina,   \* units per frame
  Cabecera,    \* sizeof(bloque_heap_t)
  Resto,       \* smallest data size worth a block of its own
  ArenaInicial,\* frames of the initial arena of the heap
  Usables,     \* frames of the PMM, in the order of the memory map
  MinPaginas,  \* smallest growth of the heap
  MaxIntentos, \* attempts to grow per allocation (128)
  Pedidos,     \* sizes the clients ask for
  MaxVivos     \* bound: pointers and pages in the hands of clients

ASSUME TamPaginaAssumption == TamPagina \in Nat /\ TamPagina > Cabecera
ASSUME CabeceraAssumption == Cabecera \in Nat \ {0} /\ Resto \in Nat \ {0}
ASSUME PedidosAssumption == Pedidos \subseteq Nat \ {0}
ASSUME CrecerAssumption == MinPaginas \in Nat \ {0} /\ MaxIntentos \in Nat
\* memoria_iniciar leaves the first MiB and the arena out of the stack.
ASSUME ArenaAssumption ==
  /\ IsFiniteSet(ArenaInicial) /\ ArenaInicial # {} /\ ArenaInicial \subseteq Nat \ {0}
  /\ ArenaInicial = Min(ArenaInicial)..Max(ArenaInicial)
ASSUME UsablesAssumption ==
  Usables \in Seq(Nat \ {0}) /\ IsInjective(Usables) /\ Range(Usables) \cap ArenaInicial = {}

Marcos == Range(Usables)

VARIABLES
  pila,        \* g_pila_marcos_libres, top first
  marco,       \* state of each frame: 0 reserved, 1 free, 2 allocated
  paginas_libres, paginas_en_uso,
  hdr,         \* headers of the heap: address -> [libre, tam, siguiente, anterior]
  cabeza,      \* g_heap_cabeza
  capacidad, bytes_en_uso, bloques_activos,
  pc, bytes, bloque, intento,   \* the call in progress and its locals
  viejo,       \* the pointer reasignar_memoria is moving, 0 if none
  punteros,    \* clients: live pointers, address -> size asked for
  paginas      \* clients: frames taken from the PMM

pmm == <<pila, marco, paginas_libres, paginas_en_uso>>
heap == <<hdr, cabeza, capacidad, bytes_en_uso, bloques_activos>>
llamada == <<pc, bytes, bloque, intento, viejo>>
clientes == <<punteros, paginas>>
vars == <<pmm, heap, llamada, clientes>>

Dir(f) == f * TamPagina
\* The data of the block with header h.
Datos(h) == h + Cabecera
Fin(h) == h + Cabecera + hdr[h].tam

\* memoria_iniciar: the frames that belong to no arena are pushed in the
\* order of the map and the heap begins with one free block.  The tables of
\* frame states come from it and are never released: they are allocations
\* like those of any client, and the initial arena is what they leave.
Init ==
  /\ pila = Reverse(Usables)
  /\ marco = [f \in Marcos |-> 1]
  /\ paginas_libres = Len(Usables) /\ paginas_en_uso = 0
  /\ cabeza = Dir(Min(ArenaInicial))
  /\ capacidad = Cardinality(ArenaInicial) * TamPagina
  /\ hdr = [h \in {cabeza} |-> [libre |-> 1, tam |-> capacidad - Cabecera,
                                siguiente |-> 0, anterior |-> 0]]
  /\ bytes_en_uso = 0 /\ bloques_activos = 0
  /\ pc = "libre" /\ bytes = 0 /\ bloque = 0 /\ intento = 0 /\ viejo = 0
  /\ punteros = [p \in {} |-> 0] /\ paginas = {}

\* The counters are decremented without going below 0.
Resta(a, b) == IF a >= b THEN a - b ELSE 0

Vivos == Cardinality(DOMAIN punteros) + Cardinality(paginas)
\* The partial function g without, or with, the points of d.
Quitar(g, d) == [a \in DOMAIN g \ d |-> g[a]]

-----------------------------------------------------------------------------
(* PMM: frames for clients, such as the page tables.                        *)

\* pmm_asignar_pagina_fisica; with the stack empty it returns 0.
AsignarPagina ==
  /\ pc = "libre" /\ Vivos < MaxVivos
  /\ pila # <<>>
  /\ pila' = Tail(pila)
  /\ marco' = [marco EXCEPT ![Head(pila)] = 2]
  /\ paginas_libres' = Resta(paginas_libres, 1) /\ paginas_en_uso' = paginas_en_uso + 1
  /\ paginas' = paginas \cup {Head(pila)}
  /\ UNCHANGED <<heap, llamada, punteros>>

\* pmm_liberar_pagina_fisica of a frame its client holds; any other frame
\* stops the system (huevo_quebrar).
LiberarPagina(f) ==
  /\ pc = "libre" /\ f \in paginas
  /\ pila' = <<f>> \o pila
  /\ marco' = [marco EXCEPT ![f] = 1]
  /\ paginas_libres' = paginas_libres + 1 /\ paginas_en_uso' = Resta(paginas_en_uso, 1)
  /\ paginas' = paginas \ {f}
  /\ UNCHANGED <<heap, llamada, punteros>>

-----------------------------------------------------------------------------
(* asignar_memoria.                                                         *)

Asignar(n) ==
  /\ pc = "libre" /\ Vivos < MaxVivos
  /\ bytes' = n /\ bloque' = cabeza /\ intento' = 0
  /\ pc' = "buscar"
  /\ UNCHANGED <<pmm, heap, viejo, clientes>>

\* The list after block h is taken for n units, split if the rest is enough.
Partido(h, n) ==
  LET s == Datos(h) + n IN
  IF hdr[h].tam >= n + Cabecera + Resto
  THEN [a \in DOMAIN hdr \cup {s} |->
          CASE a = s -> [libre |-> 1, tam |-> hdr[h].tam - n - Cabecera,
                         siguiente |-> hdr[h].siguiente, anterior |-> h]
            [] a = h -> [hdr[h] EXCEPT !.libre = 0, !.tam = n, !.siguiente = s]
            [] a = hdr[h].siguiente -> [hdr[a] EXCEPT !.anterior = s]
            [] OTHER -> hdr[a]]
  ELSE [hdr EXCEPT ![h].libre = 0]

\* First fit: the block under the cursor is taken.  The caller is a client,
\* or reasignar_memoria, which then copies and releases the old block.
Tomar ==
  /\ pc = "buscar" /\ bloque # 0
  /\ hdr[bloque].libre = 1 /\ hdr[bloque].tam >= bytes
  /\ hdr' = Partido(bloque, bytes)
  /\ bytes_en_uso' = bytes_en_uso + hdr'[bloque].tam
  /\ bloques_activos' = bloques_activos + 1
  /\ punteros' = [a \in DOMAIN punteros \cup {Datos(bloque)} |->
                    IF a = Datos(bloque) THEN bytes ELSE punteros[a]]
  /\ pc' = IF viejo = 0 THEN "libre" ELSE "mover"
  /\ UNCHANGED <<pmm, cabeza, capacidad, bytes, bloque, intento, viejo, paginas>>

\* It does not fit: go on, or grow the heap after the last one.
Seguir ==
  /\ pc = "buscar" /\ bloque # 0
  /\ ~(hdr[bloque].libre = 1 /\ hdr[bloque].tam >= bytes)
  /\ bloque' = hdr[bloque].siguiente
  /\ pc' = IF bloque' = 0 THEN "crecer" ELSE "buscar"
  /\ UNCHANGED <<pmm, heap, bytes, intento, viejo, clientes>>

\* Frames asked of the PMM to grow by one arena.
Necesarias ==
  LET p == (bytes + Cabecera + TamPagina + TamPagina - 1) \div TamPagina
  IN IF p < MinPaginas THEN MinPaginas ELSE p

\* The first m frames of the stack, taken one by one, always extend the arena
\* at one of its ends.
Corrida(m) ==
  \A j \in 1..m :
    LET s == {pila[l] : l \in 1..j} IN Max(s) - Min(s) = j - 1

Obtenidas == Max({m \in 1..Len(pila) : m <= Necesarias /\ Corrida(m)})

\* Mutation: the arena begins at the first frame that came out of the stack.
BaseArenaPrimera(s) == Dir(pila[1])

\* primera_fisica: the lowest frame of the arena.
BaseArena(s) == Dir(Min(s))

\* Mutation: an arena smaller than the one planned is taken as too small.
BastaDeMas(m) == m >= Necesarias

\* The new arena is enough for the request.
Basta(m) == m * TamPagina >= bytes + Cabecera

\* heap_agregar_arena: n units at h become a free block at the end of the list.
AgregarArena(h, n) ==
  LET ultimo == CHOOSE u \in DOMAIN hdr : hdr[u].siguiente = 0
  IN /\ hdr' = [a \in DOMAIN hdr \cup {h} |->
                  CASE a = h -> [libre |-> 1, tam |-> n - Cabecera,
                                 siguiente |-> 0, anterior |-> ultimo]
                    [] a = ultimo -> [hdr[a] EXCEPT !.siguiente = h]
                    [] OTHER -> hdr[a]]
     /\ capacidad' = capacidad + n

\* One attempt: the frames that come out of the stack contiguous become an
\* arena at the end of the list; the first one that is not goes back.
Crecer ==
  /\ pc = "crecer" /\ intento < MaxIntentos /\ pila # <<>>
  /\ LET s == {pila[l] : l \in 1..Obtenidas}
     IN /\ pila' = SubSeq(pila, Obtenidas + 1, Len(pila))
        /\ marco' = [f \in Marcos |-> IF f \in s THEN 2 ELSE marco[f]]
        /\ paginas_libres' = Resta(paginas_libres, Obtenidas)
        /\ paginas_en_uso' = paginas_en_uso + Obtenidas
        /\ AgregarArena(BaseArena(s), Obtenidas * TamPagina)
  /\ IF Basta(Obtenidas)
     THEN pc' = "buscar" /\ bloque' = cabeza /\ intento' = 0
     ELSE pc' = "crecer" /\ intento' = intento + 1 /\ UNCHANGED bloque
  /\ UNCHANGED <<cabeza, bytes_en_uso, bloques_activos, bytes, viejo, clientes>>

\* Mutation: the search is repeated although no arena was added.
FracasarReintentando ==
  /\ pc = "crecer" /\ (intento = MaxIntentos \/ pila = <<>>)
  /\ pc' = "buscar" /\ bloque' = cabeza /\ intento' = 0
  /\ UNCHANGED <<pmm, heap, bytes, viejo, clientes>>

\* No more attempts or frames: NULL.  reasignar_memoria keeps the old block.
Fracasar ==
  /\ pc = "crecer" /\ (intento = MaxIntentos \/ pila = <<>>)
  /\ pc' = "libre" /\ viejo' = 0
  /\ UNCHANGED <<pmm, heap, bytes, bloque, intento, clientes>>

-----------------------------------------------------------------------------
(* liberar_memoria.                                                         *)

\* The list g after block h absorbs its successor, if that is free and starts
\* where h ends.
Absorber(g, h) ==
  LET s == g[h].siguiente IN
  IF s # 0 /\ g[s].libre = 1 /\ Datos(h) + g[h].tam = s
  THEN [a \in DOMAIN g \ {s} |->
          CASE a = h -> [g[h] EXCEPT !.tam = @ + Cabecera + g[s].tam,
                                     !.siguiente = g[s].siguiente]
            [] a = g[s].siguiente -> [g[a] EXCEPT !.anterior = h]
            [] OTHER -> g[a]]
  ELSE g

\* Block h becomes free and is joined with the next and the previous one.
Fusionado(h) ==
  LET g1 == Absorber([hdr EXCEPT ![h].libre = 1], h)
      a == g1[h].anterior
  IN IF a # 0 /\ g1[a].libre = 1 THEN Absorber(g1, a) ELSE g1

\* Mutation: the size counted is the one after joining the blocks.
LiberarBloqueTarde(p) ==
  LET h == p - Cabecera
      tras == Fusionado(h)
  IN /\ hdr' = tras
     /\ bytes_en_uso' = Resta(bytes_en_uso, IF h \in DOMAIN tras THEN tras[h].tam ELSE 0)
     /\ bloques_activos' = Resta(bloques_activos, 1)

LiberarBloque(p) ==
  LET h == p - Cabecera
  IN /\ hdr' = Fusionado(h)
     /\ bytes_en_uso' = Resta(bytes_en_uso, hdr[h].tam)
     /\ bloques_activos' = Resta(bloques_activos, 1)

\* liberar_memoria of a pointer its client holds; a second release stops the
\* system (huevo_quebrar).
Liberar(p) ==
  /\ pc = "libre" /\ p \in DOMAIN punteros
  /\ LiberarBloque(p)
  /\ punteros' = Quitar(punteros, {p})
  /\ UNCHANGED <<pmm, cabeza, capacidad, llamada, paginas>>

-----------------------------------------------------------------------------
(* reasignar_memoria of a live pointer.                                     *)

Reasignar(p, n) ==
  /\ pc = "libre" /\ p \in DOMAIN punteros
  /\ IF hdr[p - Cabecera].tam >= n
     THEN /\ punteros' = [punteros EXCEPT ![p] = n]
          /\ UNCHANGED <<pc, bytes, bloque, intento, viejo>>
     ELSE /\ bytes' = n /\ bloque' = cabeza /\ intento' = 0
          /\ viejo' = p /\ pc' = "buscar"
          /\ UNCHANGED punteros
  /\ UNCHANGED <<pmm, heap, paginas>>

\* The contents have been copied: release the old block.
Mover ==
  /\ pc = "mover"
  /\ LiberarBloque(viejo)
  /\ punteros' = Quitar(punteros, {viejo})
  /\ pc' = "libre" /\ viejo' = 0
  /\ UNCHANGED <<pmm, cabeza, capacidad, bytes, bloque, intento, paginas>>

-----------------------------------------------------------------------------
Paso == Tomar \/ Seguir \/ Crecer \/ Fracasar \/ Mover

Next ==
  \/ Paso
  \/ AsignarPagina \/ \E f \in Marcos : LiberarPagina(f)
  \/ \E n \in Pedidos : Asignar(n) \/ \E p \in DOMAIN punteros : Reasignar(p, n)
  \/ \E p \in DOMAIN punteros : Liberar(p)

Spec == Init /\ [][Next]_vars

\* A call goes on until it returns; clients call when they please.
FairSpec == Spec /\ WF_vars(Paso)

-----------------------------------------------------------------------------
Nodos == DOMAIN hdr \cup {0}

\* The headers are records of the list and every counter is a natural number.
TypeOK ==
  /\ pila \in Seq(Marcos) /\ marco \in [Marcos -> {0, 1, 2}]
  /\ paginas_libres \in Nat /\ paginas_en_uso \in Nat
  /\ cabeza \in DOMAIN hdr
  /\ \A h \in DOMAIN hdr :
       hdr[h] \in [libre : {0, 1}, tam : Nat \ {0}, siguiente : Nodos, anterior : Nodos]
  /\ capacidad \in Nat /\ bytes_en_uso \in Nat /\ bloques_activos \in Nat
  /\ pc \in {"libre", "buscar", "crecer", "mover"} /\ bytes \in Pedidos \cup {0}
  /\ pc = "buscar" => bloque \in DOMAIN hdr
  /\ intento \in 0..MaxIntentos /\ viejo \in DOMAIN punteros \cup {0}
  /\ paginas \subseteq Marcos

\* The frames that the units of block h lie in.
MarcosDe(h) == (h \div TamPagina)..((Fin(h) - 1) \div TamPagina)

\* Nothing is given to two owners: the blocks of the heap do not overlap, each
\* live pointer has a block of its own that is not free and is as large as was
\* asked for, and the frames of the heap, of the clients of the PMM and of
\* the free stack are different frames.
SinSolape ==
  /\ \A g, h \in DOMAIN hdr : g < h => Fin(g) <= h
  /\ \A p \in DOMAIN punteros :
       /\ p - Cabecera \in DOMAIN hdr
       /\ hdr[p - Cabecera].libre = 0 /\ hdr[p - Cabecera].tam >= punteros[p]
  /\ \A h \in DOMAIN hdr : \A f \in MarcosDe(h) :
       f \in ArenaInicial \/ (f \in Marcos /\ marco[f] = 2 /\ f \notin paginas)
  /\ IsInjective(pila) /\ Range(pila) = {f \in Marcos : marco[f] = 1}
  /\ \A f \in paginas : marco[f] = 2

\* What memoria_verificar_integridad audits, and that every block is in the
\* list: the links forward and back agree after any splits, growths and joins.
ListaIntegra ==
  /\ hdr[cabeza].anterior = 0
  /\ \A h \in DOMAIN hdr :
       /\ hdr[h].siguiente # 0 => hdr[hdr[h].siguiente].anterior = h
       /\ hdr[h].anterior # 0 => hdr[hdr[h].anterior].siguiente = h
       /\ hdr[h].anterior = 0 => h = cabeza

\* The blocks in use, the units of their data, and the units of all blocks
\* with their headers; blocks do not overlap, so counting the units of a set
\* of blocks adds up their sizes.
EnUso(g) == {h \in DOMAIN g : g[h].libre = 0}
MemoriaEnUso(g) == UNION {Datos(h)..(Datos(h) + g[h].tam - 1) : h \in EnUso(g)}
Memoria(g) == UNION {h..(Datos(h) + g[h].tam - 1) : h \in DOMAIN g}

\* memoria_obtener_estadisticas tells the truth and no memory is lost: used
\* bytes, active blocks and pages are those of the clients, and blocks with
\* their headers are all the units of the arenas.
CuentasExactas ==
  /\ bytes_en_uso = Cardinality(MemoriaEnUso(hdr))
  /\ bloques_activos = Cardinality(EnUso(hdr)) /\ bloques_activos = Cardinality(DOMAIN punteros)
  /\ capacidad = Cardinality(Memoria(hdr))
  /\ paginas_libres = Len(pila) /\ paginas_en_uso = Len(Usables) - Len(pila)

\* asignar_memoria gives up, and drains the PMM while it tries, only when no
\* free block of the heap is large enough.
FracasoJusto ==
  pc = "crecer" => \A h \in DOMAIN hdr : ~(hdr[h].libre = 1 /\ hdr[h].tam >= bytes)

\* Every call returns: the list that is searched has an end.
LlamadaTermina == pc # "libre" ~> pc = "libre"
=============================================================================
