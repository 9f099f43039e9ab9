--------------------------- MODULE Decodificador ----------------------------
(***************************************************************************)
(* The H.264 decoder without its pixels (decodificador.c, parametros.c and *)
(* the reference lists of inter.c): parameter sets, slices and pictures,   *)
(* the picture buffer with its marking, order of output and reference      *)
(* lists.  What a NAL unit holds comes as a record; the picture a slice    *)
(* makes is the number of its sample.                                      *)
(*                                                                         *)
(* A picture is [ref, salida, poc, fn, larga, id, pts, dim]; the decoder   *)
(* is [fotos, act, sl, mb, corte, msb, lsb, maxLarga, sps, pps, lista].    *)
(***************************************************************************)
EXTENDS Integers, Sequences, FiniteSets, FiniteSetsExt
LOCAL INSTANCE SequencesExt

CONSTANTS NumFotos,     \* pictures of the decoder (18)
          MaxRefs,      \* H264_MAX_REFS (16)
          MaxDimension, \* macroblocks of a picture, at most
          MaxPps, MaxSps, \* parameter sets (256, 32)
          MaxMarcas     \* marks or reorderings of a slice (63)

FotoLibre == [ref |-> FALSE, salida |-> FALSE, poc |-> 0, fn |-> 0, larga |-> -1, id |-> 0, pts |-> 0, dim |-> 0]
SinCorte == [nal |-> "nada"]
DecInicio == [fotos |-> [i \in 1..NumFotos |-> FotoLibre], act |-> 0, sl |-> SinCorte, mb |-> 0, corte |-> 0,
              msb |-> 0, lsb |-> 0, maxLarga |-> -1, sps |-> <<>>, pps |-> <<>>, lista |-> <<>>]

Fotos == 1..NumFotos
PpsDe(d, c) == d.pps[c.pps]
SpsDe(d, c) == d.sps[PpsDe(d, c).sps]

---------------------------------------------------------------------------
(* h264_leer_sps, leer_vui: what is taken, and the pictures to keep before *)
(* one is shown, MaxRefs unless the VUI says.                              *)
PerfilesAltos == {44, 83, 86, 100, 110, 118, 122, 128, 134, 135, 138, 139, 244}

VuiBueno(v) == v.hay => (v.tick > 0 /\ v.dpb <= MaxRefs /\ v.reordenar <= v.dpb)

SpsBueno(s) ==
    /\ ~s.restringido /\ s.id < MaxSps
    /\ s.perfil \in PerfilesAltos => (s.croma = 1 /\ s.profundidad = 0 /\ ~s.matrices)
    /\ s.perfil \in PerfilesAltos \union {66, 77, 88}
    /\ s.pocTipo \in 0..2 /\ s.refs <= MaxRefs /\ ~s.huecos
    /\ s.mbs <= MaxDimension /\ s.frameSolo /\ s.recorte < s.mbs
    /\ VuiBueno(s.vui)

LeerSps(d, s) ==
    [d EXCEPT !.sps = [i \in DOMAIN d.sps \union {s.id} |->
        IF i = s.id THEN [refs |-> s.refs, mbs |-> s.mbs, dim |-> s.dim, maxFn |-> s.maxFn, maxLsb |-> s.maxLsb,
                          pocTipo |-> s.pocTipo, reordenar |-> IF s.vui.hay THEN s.vui.reordenar ELSE MaxRefs]
        ELSE d.sps[i]]]

(* h264_leer_pps.                                                          *)
PpsBueno(p) == p.id < MaxPps /\ p.sps < MaxSps /\ ~p.fmo /\ p.nrefs <= 32 /\ p.bipred <= 2 /\ p.qp \in 0..51 /\ ~p.matrices
LeerPps(d, p) ==
    [d EXCEPT !.pps = [i \in DOMAIN d.pps \union {p.id} |->
        IF i = p.id THEN [sps |-> p.sps, cabac |-> p.cabac] ELSE d.pps[i]]]

(* cabecera_slice: the header names parameter sets that came before and    *)
(* stays within the tables of the decoder.                                 *)
CabeceraBuena(d, c) ==
    /\ c.tipo \in {"I", "P", "B"}
    /\ c.pps \in DOMAIN d.pps /\ PpsDe(d, c).sps \in DOMAIN d.sps
    /\ c.primero < SpsDe(d, c).mbs
    /\ Len(c.reord) <= MaxMarcas /\ Len(c.marcas) <= MaxMarcas
    /\ \A i \in DOMAIN c.reord : c.reord[i][1] \in 0..2
    /\ \A i \in DOMAIN c.marcas : c.marcas[i][1] \in 1..6
    /\ c.qp \in 0..51

---------------------------------------------------------------------------
(* vaciar: the pictures that wait for their turn, the lowest order first.  *)
Esperan(d) == {i \in Fotos : d.fotos[i].salida}
(* Mutation: pictures come out in the order of the buffer.                  *)
MenorIndice(d) == Min(Esperan(d))

MenorPoc(d) == CHOOSE i \in Esperan(d) : \A j \in Esperan(d) : d.fotos[i].poc < d.fotos[j].poc
                                                            \/ (d.fotos[i].poc = d.fotos[j].poc /\ i <= j)
Emitida(d, i) == [d EXCEPT !.fotos[i].salida = FALSE]

(* Short-term pictures in decoding order: frame_num wraps.                 *)
Vuelta(d, i, fn) == IF d.fotos[i].fn > fn THEN d.fotos[i].fn - SpsDe(d, d.sl).maxFn ELSE d.fotos[i].fn

Referencias(d) == {i \in Fotos : d.fotos[i].ref}
Cortas(d) == {i \in Referencias(d) \ {d.act} : d.fotos[i].larga < 0}

(* Sliding window: the oldest short-term picture goes while there are more *)
(* references than the stream said.                                        *)
MasVieja(d) ==
    LET fn == d.fotos[d.act].fn
    IN CHOOSE i \in Cortas(d) : \A j \in Cortas(d) : Vuelta(d, i, fn) < Vuelta(d, j, fn) \/ (Vuelta(d, i, fn) = Vuelta(d, j, fn) /\ i <= j)

Ventana(d) ==
    LET sobran == Cardinality(Referencias(d)) - SpsDe(d, d.sl).refs
        quita[k \in 0..NumFotos] ==
            IF k = 0 THEN d
            ELSE LET e == quita[k - 1]
                 IN IF k <= sobran /\ Cortas(e) # {} THEN [e EXCEPT !.fotos[MasVieja(e)].ref = FALSE] ELSE e
    IN quita[NumFotos]

(* One memory management operation <<op, a, b>>: <<TRUE, after>> or a      *)
(* reference that is not there.                                            *)
SinRef(d, S) == [d EXCEPT !.fotos = [i \in Fotos |-> IF i \in S THEN [d.fotos[i] EXCEPT !.ref = FALSE] ELSE d.fotos[i]]]
Largas(d, n) == {i \in Referencias(d) \ {d.act} : d.fotos[i].larga = n}

CortaDe(d, a) == LET max == SpsDe(d, d.sl).maxFn
                 IN {i \in Cortas(d) : d.fotos[i].fn = (d.fotos[d.act].fn + max - 1 - a) % max}

HacerLarga(d, i, n) ==
    IF d.maxLarga < 0 \/ n > d.maxLarga THEN <<FALSE, d>>
    ELSE <<TRUE, [SinRef(d, Largas(d, n)) EXCEPT !.fotos[i].larga = n]>>

Marca(d, m) ==
    CASE m[1] \in {1, 3} /\ (m[2] >= SpsDe(d, d.sl).maxFn \/ CortaDe(d, m[2]) = {}) -> <<FALSE, d>>
      [] m[1] = 2 /\ Largas(d, m[2]) = {} -> <<FALSE, d>>
      [] m[1] = 1 -> <<TRUE, SinRef(d, {Max(CortaDe(d, m[2]))})>>
      [] m[1] = 2 -> <<TRUE, SinRef(d, {Max(Largas(d, m[2]))})>>
      [] m[1] = 3 -> HacerLarga(d, Max(CortaDe(d, m[2])), m[3])
      [] m[1] = 6 -> HacerLarga(d, d.act, m[2])
      [] m[1] = 4 -> IF m[2] > SpsDe(d, d.sl).refs THEN <<FALSE, d>>
                     ELSE <<TRUE, [SinRef(d, {i \in Fotos \ {d.act} : d.fotos[i].larga > m[2] - 1}) EXCEPT !.maxLarga = m[2] - 1]>>
      [] OTHER -> <<TRUE, [SinRef(d, Fotos \ {d.act}) EXCEPT !.maxLarga = -1, !.msb = 0, !.lsb = 0,
                                                             !.fotos[d.act].fn = 0, !.fotos[d.act].poc = 0]>>

Marcas(d) ==
    LET hace[k \in 0..Len(d.sl.marcas)] ==
            IF k = 0 THEN <<TRUE, d>>
            ELSE IF hace[k - 1][1] THEN Marca(hace[k - 1][2], d.sl.marcas[k]) ELSE hace[k - 1]
    IN hace[Len(d.sl.marcas)]

(* terminar_foto, up to its output: <<TRUE, after>>.                       *)
TerminarFoto(d) ==
    LET f == [d EXCEPT !.fotos[d.act].salida = TRUE, !.fotos[d.act].ref = d.sl.ref,
                       !.fotos[d.act].larga = IF d.sl.idr /\ d.sl.larga THEN 0 ELSE -1]
        g == IF ~d.sl.ref THEN <<TRUE, f>> ELSE IF ~d.sl.adapt THEN <<TRUE, Ventana(f)>> ELSE Marcas(f)
    IN IF d.mb # SpsDe(d, d.sl).mbs THEN <<FALSE, d>>
       ELSE IF ~g[1] \/ Cardinality(Referencias(g[2])) > SpsDe(d, d.sl).refs THEN <<FALSE, g[2]>>
       ELSE <<TRUE, [g[2] EXCEPT !.act = 0]>>

---------------------------------------------------------------------------
(* iniciar_foto.  An IDR forgets every reference; the pictures that wait   *)
(* were shown before, or are dropped when the stream says so.              *)
Omitidas(d) == [d EXCEPT !.fotos = [i \in Fotos |-> [d.fotos[i] EXCEPT !.salida = FALSE]]]
TrasIdr(d, c) == [SinRef(d, Fotos) EXCEPT !.maxLarga = IF c.larga THEN 0 ELSE -1, !.msb = 0, !.lsb = 0]

Huecos(d) == {i \in Fotos : ~d.fotos[i].ref /\ ~d.fotos[i].salida}

Msb(d, c) ==
    LET max == SpsDe(d, c).maxLsb
    IN IF c.lsb < d.lsb /\ d.lsb - c.lsb >= max \div 2 THEN d.msb + max
       ELSE IF c.lsb > d.lsb /\ c.lsb - d.lsb > max \div 2 THEN d.msb - max
       ELSE d.msb

IniciarFoto(d, c, id, pts) ==
    LET i == Min(Huecos(d))
    IN [d EXCEPT !.fotos[i] = [ref |-> FALSE, salida |-> FALSE, poc |-> Msb(d, c) + c.lsb, fn |-> c.fn, larga |-> -1,
                               id |-> id, pts |-> pts, dim |-> SpsDe(d, c).dim],
                 !.msb = IF c.ref THEN Msb(d, c) ELSE @, !.lsb = IF c.ref THEN c.lsb ELSE @,
                 !.act = i, !.mb = 0, !.corte = 0, !.sl = c]

(* A further slice must belong to the picture that is open and go on where *)
(* it stopped.                                                             *)
SigueFoto(d, c) ==
    /\ d.act # 0 /\ c.primero = d.mb
    /\ c.pps = d.sl.pps /\ c.fn = d.sl.fn /\ c.lsb = d.sl.lsb /\ c.ref = d.sl.ref /\ c.idr = d.sl.idr

---------------------------------------------------------------------------
(* h264_preparar_referencias: list 0 of a slice.  P: the latest first;     *)
(* B: the nearest before, then after; long-term pictures last; then the    *)
(* reorderings of the slice.                                               *)
Antes(d, i, j) ==
    LET a == d.fotos[i]
        b == d.fotos[j]
        yo == d.fotos[d.act].poc
    IN IF a.larga >= 0 \/ b.larga >= 0 THEN a.larga < 0 \/ (b.larga >= 0 /\ a.larga < b.larga)
       ELSE IF d.sl.tipo = "P" THEN Vuelta(d, i, d.sl.fn) > Vuelta(d, j, d.sl.fn)
       ELSE IF (a.poc < yo) # (b.poc < yo) THEN a.poc < yo
       ELSE IF a.poc < yo THEN a.poc > b.poc ELSE a.poc < b.poc

ListaInicial(d) == SetToSortSeq(Referencias(d), LAMBDA i, j : Antes(d, i, j))

(* One reordering <<op, value>> at place j, from the frame_num predicted:  *)
(* [l |-> list, pred, bien].                                               *)
Recoloca(d, e, j) ==
    LET max == SpsDe(d, d.sl).maxFn
        op == d.sl.reord[j][1]
        v == d.sl.reord[j][2]
        pred == IF op = 2 THEN e.pred ELSE (e.pred + (IF op = 1 THEN v + 1 ELSE -(v + 1)) + max) % max
        s == {i \in Referencias(d) : IF op = 2 THEN d.fotos[i].larga = v ELSE d.fotos[i].larga < 0 /\ d.fotos[i].fn = pred}
        f == Max(s)
    IN IF ~e.bien \/ s = {} \/ j > d.sl.nrefs THEN [e EXCEPT !.bien = FALSE]
       ELSE [l |-> SubSeq(e.l, 1, j - 1) \o <<f>> \o SelectSeq(SubSeq(e.l, j, Len(e.l)), LAMBDA i : i # f),
             pred |-> pred, bien |-> TRUE]

PrepararReferencias(d) ==
    LET va[j \in 0..Len(d.sl.reord)] == IF j = 0 THEN [l |-> ListaInicial(d), pred |-> d.sl.fn, bien |-> TRUE]
                                        ELSE Recoloca(d, va[j - 1], j)
        z == va[Len(d.sl.reord)]
    IN [z EXCEPT !.bien = @ /\ Len(z.l) >= d.sl.nrefs
                           /\ \A i \in Referencias(d) : d.fotos[i].dim = d.fotos[d.act].dim]

=============================================================================
