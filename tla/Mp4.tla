-------------------------------- MODULE Mp4 ---------------------------------
(***************************************************************************)
(* mp4.c: the boxes of a file, what makes a track usable, and the walk of  *)
(* the sample tables that says where the next sample is and when it is     *)
(* due.  A file is its length and its boxes; a byte of it is abstracted to *)
(* a unit, and the content of a unit is its place.                         *)
(*                                                                         *)
(* A track is [hdlr, escala, codec, descripciones, stsz, stsc, stco, stts, *)
(* ctts]: sample sizes; <<first chunk, samples per chunk>>; chunk places;  *)
(* <<samples, duration>>; <<samples, presentation offset>>.                *)
(***************************************************************************)
EXTENDS Integers, Sequences, FiniteSets, FiniteSetsExt

Bien == 0
ErrorLectura == -1
DatosInvalidos == -2
NoSoportado == -3
LimiteExcedido == -4

---------------------------------------------------------------------------
(* A box never leaves its container: 8 or 16 bytes of header, 0 is "up to  *)
(* the end".                                                               *)
LargoCaja(c, resta) == IF c.tam = 0 THEN resta ELSE c.tam
CajaBuena(c, resta) == c.cab <= LargoCaja(c, resta) /\ LargoCaja(c, resta) <= resta

(* The place after the box at off, -1 when that box cannot be.             *)
TrasCaja(f, off) ==
    IF off \notin DOMAIN f.cajas \/ ~CajaBuena(f.cajas[off], f.tam - off) THEN -1
    ELSE off + LargoCaja(f.cajas[off], f.tam - off)

(* buscar: the first moov of a file that is in memory, -1 without one.     *)
BuscarMoov(f) ==
    LET va[k \in 0..f.tam] == IF k = 0 THEN 0
                              ELSE LET o == va[k - 1]
                                   IN IF o < 0 \/ o >= f.tam \/ o \notin DOMAIN f.cajas \/ f.cajas[o].tipo = "moov"
                                      THEN o ELSE TrasCaja(f, o)
        sitio == va[f.tam]
    IN IF sitio \in DOMAIN f.cajas /\ TrasCaja(f, sitio) > 0 THEN sitio ELSE -1

---------------------------------------------------------------------------
(* The tables of a track: the rules cover the chunks without a hole and    *)
(* give as many samples as there are sizes.                                *)
SiguientePrimero(t, i) == IF i < Len(t.stsc) THEN t.stsc[i + 1][1] ELSE Len(t.stco) + 1

FragmentosBuenos(t) ==
    /\ t.stsz # <<>> /\ t.stsc # <<>> /\ t.stco # <<>> /\ t.stts # <<>>
    /\ t.stsc[1][1] = 1
    /\ \A i \in DOMAIN t.stsc :
           /\ t.stsc[i][1] \in 1..Len(t.stco) /\ t.stsc[i][2] > 0
           /\ t.stsc[i][1] < SiguientePrimero(t, i) /\ SiguientePrimero(t, i) <= Len(t.stco) + 1
    /\ MapThenSumSet(LAMBDA i : (SiguientePrimero(t, i) - t.stsc[i][1]) * t.stsc[i][2], DOMAIN t.stsc) = Len(t.stsz)

CuentaBuena(tabla, n) ==
    /\ \A i \in DOMAIN tabla : tabla[i][1] > 0
    /\ MapThenSumSet(LAMBDA i : tabla[i][1], DOMAIN tabla) = n

DuracionTicks(t) == MapThenSumSet(LAMBDA i : t.stts[i][1] * t.stts[i][2], DOMAIN t.stts)

PistaVideo(t) ==
    /\ t.hdlr = "vide" /\ t.escala > 0 /\ t.descripciones = 1 /\ t.codec = "avc1"
    /\ FragmentosBuenos(t)
    /\ CuentaBuena(t.stts, Len(t.stsz))
    /\ t.ctts # <<>> => CuentaBuena(t.ctts, Len(t.stsz))
    /\ DuracionTicks(t) > 0

(* The times of a sound track are not counted here.                        *)
PistaAudio(t) ==
    /\ t.hdlr = "soun" /\ t.escala > 0 /\ t.descripciones >= 1 /\ t.codec = "mp4a"
    /\ FragmentosBuenos(t)

(* mp4_parsear_moov: the first usable track of each kind, 0 for none.      *)
PrimeraQue(traks, P(_)) == LET s == {i \in DOMAIN traks : P(traks[i])} IN IF s = {} THEN 0 ELSE Min(s)
ParsearMoov(f) == [v |-> PrimeraQue(f.traks, PistaVideo), a |-> PrimeraQue(f.traks, PistaAudio)]

---------------------------------------------------------------------------
(* The walk of a track.                                                    *)
CursorInicio == [indice |-> 0, frag |-> 0, enFrag |-> 0, regla |-> 1, off |-> 0, tRegla |-> 1, tResta |-> 0,
                 cRegla |-> 1, cResta |-> 0, tiempo |-> 0]

(* At the first sample of a chunk, its place and the rule that covers it.  *)
EntraFragmento(t, c) ==
    IF c.enFrag # 0 THEN c
    ELSE LET pasan == {i \in c.regla..Len(t.stsc) : \A j \in (c.regla + 1)..i : t.stsc[j][1] <= c.frag + 1}
         IN [c EXCEPT !.off = t.stco[c.frag + 1], !.regla = Max(pasan)]

(* mp4_siguiente_video: <<1, cursor after, place, size, presentation>>,    *)
(* <<0>> at the end, <<error>> when the tables give no more.               *)
SiguienteVideo(t, c, bytes) ==
    IF c.indice = Len(t.stsz) THEN <<0>>
    ELSE IF c.enFrag = 0 /\ c.frag >= Len(t.stco) THEN <<DatosInvalidos>>
    ELSE
    LET e == EntraFragmento(t, c)
        tam == t.stsz[c.indice + 1]
        tResta == IF c.tResta = 0 THEN t.stts[c.tRegla][1] ELSE c.tResta
        cResta == IF c.cResta = 0 THEN t.ctts[c.cRegla][1] ELSE c.cResta
        delta == t.stts[c.tRegla][2]
        llena == e.enFrag + 1 = t.stsc[e.regla][2]
    IN CASE tam = 0 \/ c.tRegla > Len(t.stts) -> <<DatosInvalidos>>
         [] t.ctts # <<>> /\ c.cRegla > Len(t.ctts) -> <<DatosInvalidos>>
         [] e.off + tam > bytes -> <<DatosInvalidos>>
         [] OTHER ->
              <<1, [e EXCEPT !.indice = @ + 1, !.off = @ + tam, !.tiempo = @ + delta,
                             !.tResta = tResta - 1, !.tRegla = IF tResta = 1 THEN @ + 1 ELSE @,
                             !.cResta = IF t.ctts = <<>> THEN 0 ELSE cResta - 1,
                             !.cRegla = IF t.ctts # <<>> /\ cResta = 1 THEN @ + 1 ELSE @,
                             !.enFrag = IF llena THEN 0 ELSE @ + 1,
                             !.frag = IF llena THEN @ + 1 ELSE @],
                e.off, tam, c.tiempo + IF t.ctts = <<>> THEN 0 ELSE t.ctts[c.cRegla][2]>>

(* mp4_siguiente_audio: the same walk, without presentation offsets.       *)
SiguienteAudio(t, c, bytes) == SiguienteVideo([t EXCEPT !.ctts = <<>>], c, bytes)

---------------------------------------------------------------------------
(* What the tables say, for the properties: the place of sample i of a     *)
(* track from the chunk it is in and the samples before it in that chunk.  *)
PorFragmento(t, k) == t.stsc[Max({i \in DOMAIN t.stsc : t.stsc[i][1] <= k})][2]
Previas(t, k) == MapThenSumSet(LAMBDA j : PorFragmento(t, j), 1..(k - 1))
FragmentoDe(t, i) == CHOOSE k \in DOMAIN t.stco : Previas(t, k) < i /\ i <= Previas(t, k) + PorFragmento(t, k)
SitioMuestra(t, i) ==
    LET k == FragmentoDe(t, i)
    IN t.stco[k] + MapThenSumSet(LAMBDA j : t.stsz[j], (Previas(t, k) + 1)..(i - 1))
UnidadesMuestra(t, i) == [k \in 1..t.stsz[i] |-> SitioMuestra(t, i) + k - 1]

=============================================================================
