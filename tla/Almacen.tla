------------------------------ MODULE Almacen -------------------------------
(***************************************************************************)
(* What lies between the medium and the decoders: the ring of blocks read  *)
(* ahead (anillo_almacenamiento.c) that all the tracks share, and the      *)
(* queue of samples of each track (cola_muestras.c), a byte buffer that is *)
(* compacted before it is refilled.                                        *)
(*                                                                         *)
(* A ring is [bl, prod, leido, activa]: blocks from the oldest, where the  *)
(* producer is, how far each track has read and whether it ever did.       *)
(* A queue is [cur, m, usados, eof, error, datos].                         *)
(***************************************************************************)
EXTENDS Mp4

CONSTANTS NumBloques,   \* blocks of the ring (8)
          TamBloque,    \* units of a block (128 KiB)
          CapV, CapA,   \* units of the buffers of the queues (8 MiB, 2 MiB)
          BajoV, MetaV, BajoA, MetaA   \* samples: refill below, up to (2, 4, 32, 64)

Pistas == {"v", "a"}
Nada == -1

AnilloInicio == [bl |-> <<>>, prod |-> 0, leido |-> [p \in Pistas |-> 0], activa |-> {}]

(* anillo_min_leido: the slowest of the tracks that read; before any does, *)
(* the whole window.                                                       *)
MinLeido(a) ==
    IF a.activa # {} THEN Min({a.leido[p] : p \in a.activa})
    ELSE IF a.bl # <<>> THEN a.bl[1].off ELSE a.prod

(* anillo_buscar: the block that holds a place, 0 when none does.          *)
BuscarBloque(a, pos) ==
    LET s == {i \in DOMAIN a.bl : a.bl[i].off <= pos /\ pos < a.bl[i].off + Len(a.bl[i].d)}
    IN IF s = {} THEN 0 ELSE Min(s)

LargoBloque(a, tam) == IF tam - a.prod < TamBloque THEN tam - a.prod ELSE TamBloque

(* anillo_rellenar: may the producer put a block?  A full ring gives up    *)
(* its oldest block only when every track is past it.                      *)
Lleno(a) == Len(a.bl) = NumBloques
Parado(a) == Lleno(a) /\ a.bl[1].off + Len(a.bl[1].d) > MinLeido(a)
Desaloja(a) == IF Lleno(a) THEN [a EXCEPT !.bl = Tail(@)] ELSE a

(* A block that was read whole; a read that fails leaves the room empty.   *)
Produce(a, tam) ==
    [a EXCEPT !.bl = Append(@, [off |-> a.prod, d |-> [i \in 1..LargoBloque(a, tam) |-> a.prod + i - 1]]),
              !.prod = @ + LargoBloque(a, tam)]

(* anillo_leer, a place that is not in the ring: before its window or past *)
(* the producer, everything is dropped and the producer moves there.       *)
Reposiciona(a, pos) ==
    LET ini == IF a.bl # <<>> THEN a.bl[1].off ELSE a.prod
    IN IF pos < ini \/ pos > a.prod THEN [a EXCEPT !.bl = <<>>, !.prod = pos] ELSE a

(* What one block gives of the n units wanted from pos.                    *)
Trozo(a, pos, n) ==
    LET b == a.bl[BuscarBloque(a, pos)]
        dentro == pos - b.off
        k == IF Len(b.d) - dentro < n THEN Len(b.d) - dentro ELSE n
    IN SubSeq(b.d, dentro + 1, dentro + k)

Consumido(a, p, fin) == [a EXCEPT !.leido[p] = IF fin > @ THEN fin ELSE @, !.activa = @ \union {p}]

---------------------------------------------------------------------------
CapDe(p) == IF p = "v" THEN CapV ELSE CapA
BajoDe(p) == IF p = "v" THEN BajoV ELSE BajoA
MetaDe(p) == IF p = "v" THEN MetaV ELSE MetaA

ColaInicio(p) == [cur |-> CursorInicio, m |-> <<>>, usados |-> 0, eof |-> FALSE, error |-> Bien,
                  datos |-> [i \in 1..CapDe(p) |-> Nada]]

Contenido(q, s) == SubSeq(q.datos, s.ini + 1, s.ini + s.n)

(* Mutation: compacting renumbers the samples and leaves their bytes.       *)
CompactaSinMover(q) ==
    [q EXCEPT !.usados = MapThenSumSet(LAMBDA k : q.m[k].n, DOMAIN q.m),
              !.m = [k \in DOMAIN q.m |-> [q.m[k] EXCEPT !.ini = MapThenSumSet(LAMBDA l : q.m[l].n, 1..(k - 1))]]]

(* The samples that wait, moved to the front of the buffer one by one: a   *)
(* sample may be copied over the room of the ones before it.               *)
Compacta(q) ==
    LET mueve[k \in 0..Len(q.m)] ==
            IF k = 0 THEN [datos |-> q.datos, usados |-> 0, m |-> <<>>]
            ELSE LET e == mueve[k - 1]
                     s == q.m[k]
                 IN [datos |-> [i \in DOMAIN q.datos |->
                                   IF i \in (e.usados + 1)..(e.usados + s.n) THEN e.datos[s.ini + i - e.usados]
                                   ELSE e.datos[i]],
                     usados |-> e.usados + s.n,
                     m |-> Append(e.m, [s EXCEPT !.ini = e.usados])]
        z == mueve[Len(q.m)]
    IN [q EXCEPT !.datos = z.datos, !.usados = z.usados, !.m = z.m]

(* A sample whose bytes arrived.                                           *)
Encaja(q, unidades, cur, pts) ==
    [q EXCEPT !.datos = [i \in DOMAIN @ |-> IF i \in (q.usados + 1)..(q.usados + Len(unidades))
                                            THEN unidades[i - q.usados] ELSE @[i]],
              !.m = Append(@, [ini |-> q.usados, n |-> Len(unidades), pts |-> pts, idx |-> cur.indice]),
              !.usados = @ + Len(unidades), !.cur = cur]

(* cola_muestras_tomar: 1, 0 at the end of the track, an error otherwise;  *)
(* a queue that is empty before its end is an error.                       *)
Tomable(q) == IF q.error # Bien THEN q.error ELSE IF q.m # <<>> THEN 1 ELSE IF q.eof THEN 0 ELSE ErrorLectura
Tomada(q) == [q EXCEPT !.m = Tail(@)]

=============================================================================
