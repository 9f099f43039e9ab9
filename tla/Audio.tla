------------------------------- MODULE Audio --------------------------------
(***************************************************************************)
(* The sound of the machine: the Intel HDA driver (audio_hda.c), the AC97  *)
(* driver and the functions that choose between them (audio_ac97.c), with  *)
(* the two controllers.  A controller reads a cyclic buffer in its own     *)
(* time; a driver finds out where it is only when somebody calls           *)
(* audio_ac97_actualizar, and refills what it believes was read.           *)
(*                                                                         *)
(*   hda     the HDA driver, its stream registers, codec and DMA buffer    *)
(*   ac97    the AC97 driver, its buffer descriptors and its controller    *)
(*   placa   what the machine has and what audio_ac97_iniciar made of it   *)
(*   reloj   time, in units of sound                                       *)
(*   oido    the last unit of sound a controller read, 0 before the first  *)
(*                                                                         *)
(* Sound is counted in units of 32 KiB: a unit is its number in what was   *)
(* handed to the driver, 0 is silence.  An HDA block (64 KiB) is Bloque    *)
(* units and the DMA buffer two blocks.  Counters that are only printed    *)
(* are left out.                                                           *)
(***************************************************************************)
EXTENDS Integers, Sequences, FiniteSets

CONSTANTS Bloque,       \* units of an HDA block (2)
          CapCola,      \* units of g_cola_pcm (8)
          NumBdl,       \* buffer descriptors of AC97 (32)
          Ms200, Ms500, Ms1000, Ms1500,   \* spans of time, in units of sound
          MaxHueco,     \* units that pass, at most, without a call to the driver
          MaxReloj,     \* end of time
          Placas        \* machines: PCI candidates for HDA, does its position buffer work,
                        \* is there an AC97 card, does its codec take 44.1 kHz, how many faults

VARIABLES hda, ac97, placa, reloj, oido

audioVars == <<hda, ac97, placa, reloj, oido>>

TamDma == 2 * Bloque
Silencio(n) == [i \in 1..n |-> 0]
Menor(a, b) == IF a < b THEN a ELSE b

(* The stream counters that every start sets back.                         *)
AlEmpezar(h, t) == [h EXCEPT !.dma = 0, !.enCola = 0, !.bloque = 0, !.ant = 0,
                             !.tProg = t, !.fuente = "dpib", !.dpib = 0]

HdaInicio == [ini |-> FALSE, est |-> "detenido", repr |-> FALSE, stream |-> FALSE,
              cola |-> <<>>, aceptado |-> 0, enCola |-> 0, dma |-> 0,
              bloque |-> 0, gen |-> <<0, 0>>, ant |-> 0, fuente |-> "dpib", tProg |-> 0,
              pista |-> 0, cursor |-> 0, bucle |-> FALSE, db |-> -24, mudo |-> FALSE,
              nodos |-> <<>>, rirb |-> <<>>, tarde |-> FALSE,
              run |-> FALSE, terco |-> FALSE, lpib |-> 0, dpib |-> 0, muerto |-> FALSE,
              bcis |-> FALSE, dese |-> FALSE, fifoe |-> FALSE, buf |-> Silencio(TamDma),
              atras |-> 0, hueco |-> FALSE, mezcla |-> FALSE]

Ac97Inicio == [tam |-> 0, cursor |-> 0, bucle |-> FALSE, activo |-> FALSE, indice |-> 0, civVisto |-> 0,
               enCola |-> 0, db |-> -24, mudo |-> FALSE, bdl |-> [i \in 0..(NumBdl - 1) |-> 0],
               run |-> FALSE, dch |-> TRUE, civ |-> 0, lvi |-> 0]

AudioInit ==
    /\ hda = HdaInicio
    /\ ac97 = Ac97Inicio
    /\ \E p \in Placas : placa = [hay |-> p, estado |-> "apagada", nodo |-> 1, usarHda |-> FALSE,
                                  iniciado |-> FALSE, fallos |-> 0]
    /\ reloj = 0
    /\ oido = 0

---------------------------------------------------------------------------
(* The HDA codec.  A verb waits 20 ms for an answer and takes the oldest   *)
(* one that was not read: an answer that comes late is taken by the next   *)
(* verb, and so on for ever.  A verb without an answer reads as 0.         *)

(* The oldest unread answer, once the codec has put its own in the ring.   *)
Respuesta(h, valor, tarde) == IF tarde THEN 0 ELSE Head(Append(h.rirb, valor))

EnviarVerbo(h, valor, tarde) ==
    [h EXCEPT !.rirb = IF tarde THEN Append(@, valor) ELSE Tail(Append(@, valor)),
              !.tarde = @ \/ tarde]

(* hda_registrar_nodo_salida: a node is kept once, with the kind it was    *)
(* last seen with.                                                         *)
RegistrarNodo(h, n, tipo) ==
    LET i == {k \in DOMAIN h.nodos : h.nodos[k].nodo = n}
    IN [h EXCEPT !.nodos = IF i # {} THEN [k \in DOMAIN @ |-> IF k \in i THEN [nodo |-> n, tipo |-> tipo] ELSE @[k]]
                                     ELSE Append(@, [nodo |-> n, tipo |-> tipo])]

(* One node of the audio group: its kind is asked for, converters, pins    *)
(* and mixers are set up and remembered, selectors set up, the rest left.  *)
ConfigurarNodo(h, n, tipo, tarde) ==
    LET visto == Respuesta(h, tipo, tarde)
        g == EnviarVerbo(h, tipo, tarde)
        k == [g EXCEPT !.rirb = [i \in DOMAIN @ |-> 0]]   \* the answers of the verbs that set it up
    IN CASE visto \in {0, 2, 4} -> RegistrarNodo(k, n, visto)
         [] visto = 3 -> k
         [] OTHER -> g

(* A PCI candidate is used when its BAR is memory, it leaves reset, a      *)
(* codec answers and it has an output stream; Intel's come first.          *)
Utilizable(c) == c.bar /\ c.crst /\ c.codec /\ c.oss
Candidatos(p) == SelectSeq(p, LAMBDA c : c.intel) \o SelectSeq(p, LAMBDA c : ~c.intel)
Elegido(p) == SelectSeq(Candidatos(p), Utilizable)

(* audio_ac97_iniciar: the first usable HDA controller, whose rings and     *)
(* buffers must be allocated; its codec, node by node; else the AC97 card, *)
(* if its codec takes 44.1 kHz.                                            *)
IniciarHda ==
    /\ placa.estado = "apagada"
    /\ placa' = [placa EXCEPT !.estado = IF Elegido(placa.hay.pci) # <<>> /\ Elegido(placa.hay.pci)[1].memoria
                                         THEN "nodos" ELSE "sin hda"]
    /\ UNCHANGED <<hda, ac97, reloj, oido>>

IniciarNodo(tarde) ==
    LET nodos == Elegido(placa.hay.pci)[1].nodos
    IN /\ placa.estado = "nodos" /\ placa.nodo \in DOMAIN nodos
       /\ tarde => placa.fallos < placa.hay.averias
       /\ hda' = ConfigurarNodo(hda, placa.nodo, nodos[placa.nodo], tarde)
       /\ placa' = [placa EXCEPT !.nodo = @ + 1, !.fallos = @ + IF tarde THEN 1 ELSE 0]
       /\ UNCHANGED <<ac97, reloj, oido>>

IniciarListo ==
    /\ placa.estado = "nodos" /\ placa.nodo \notin DOMAIN Elegido(placa.hay.pci)[1].nodos
    /\ hda' = [hda EXCEPT !.ini = TRUE]
    /\ placa' = [placa EXCEPT !.estado = "lista", !.usarHda = TRUE, !.iniciado = TRUE]
    /\ UNCHANGED <<ac97, reloj, oido>>

IniciarAc97 ==
    /\ placa.estado = "sin hda"
    /\ placa' = [placa EXCEPT !.estado = "lista", !.iniciado = placa.hay.ac97 /\ placa.hay.vra]
    /\ UNCHANGED <<hda, ac97, reloj, oido>>

---------------------------------------------------------------------------
(* hda_llenar_bloque_dma: a block takes what the queue has, or the next    *)
(* part of the song, and silence up to its end.                            *)
Pone(h, b, unidades) ==
    [i \in 1..TamDma |-> IF i \in (b * Bloque + 1)..((b + 1) * Bloque)
                         THEN (unidades \o Silencio(Bloque))[i - b * Bloque] ELSE h.buf[i]]

LlenarDeCola(h, b) ==
    LET n == Menor(Len(h.cola), Bloque)
    IN [h EXCEPT !.buf = Pone(h, b, SubSeq(h.cola, 1, n)),
                 !.cola = SubSeq(@, n + 1, Len(@)),
                 !.enCola = @ + n,
                 !.mezcla = @ \/ (n < Bloque /\ h.est # "drenando")]

LlenarDePista(h, b) ==
    LET n == Menor(h.pista - h.cursor, Bloque)
    IN [h EXCEPT !.buf = Pone(h, b, [i \in 1..n |-> h.cursor + i]),
                 !.cursor = IF h.cursor + n >= h.pista /\ h.bucle THEN 0 ELSE @ + n,
                 !.enCola = @ + n]

LlenarBloque(h, b, gen) ==
    LET g == IF h.stream THEN LlenarDeCola(h, b) ELSE LlenarDePista(h, b)
    IN [g EXCEPT !.gen[b + 1] = gen]

(* The controller may not obey: RUN stays set and the driver gives up.     *)
DetenerHardware(h) == [h EXCEPT !.run = h.run /\ h.terco]

(* hda_arrancar_stream_hardware: stop, reset, program, RUN.                *)
ArrancarHardware(h) ==
    LET g == DetenerHardware(h)
    IN IF g.run THEN [g EXCEPT !.est = "error"]
       ELSE [g EXCEPT !.run = TRUE, !.lpib = 0, !.bcis = FALSE, !.fifoe = FALSE, !.dese = FALSE,
                      !.repr = TRUE, !.est = "reproduciendo", !.atras = 0]

HdaDetener(h) ==
    IF ~h.ini THEN h
    ELSE LET g == DetenerHardware(h)
         IN [g EXCEPT !.buf = Silencio(TamDma), !.repr = FALSE,
                      !.est = IF @ = "error" THEN @ ELSE "detenido",
                      !.pista = 0, !.cursor = 0, !.bloque = 0, !.gen = <<0, 0>>, !.ant = 0,
                      !.stream = FALSE, !.cola = <<>>]

(* hda_iniciar_reproduccion: a song that is in memory.                     *)
HdaReproducir(h, n, bucle, t) ==
    LET g == [AlEmpezar(HdaDetener(h), t) EXCEPT
                !.est = "preparando", !.pista = n, !.cursor = 0, !.bucle = bucle, !.aceptado = n, !.mezcla = FALSE]
    IN ArrancarHardware(LlenarBloque(LlenarBloque(g, 0, 1), 1, 1))

(* audio_hda_encolar_pcm: the first call of a session makes the queue.     *)
HdaEncolar(h, unidad, t) ==
    LET g == IF h.stream THEN h
             ELSE [AlEmpezar(h, t) EXCEPT !.stream = TRUE, !.cola = <<>>, !.pista = 0, !.cursor = 0, !.bucle = FALSE,
                                          !.est = "preparando", !.aceptado = 0, !.gen = <<0, 0>>,
                                          !.mezcla = FALSE]
    IN IF Len(g.cola) = CapCola THEN g
       ELSE [g EXCEPT !.cola = Append(@, unidad), !.aceptado = @ + 1]

HdaIniciarStream(h, t) ==
    IF ~h.ini \/ h.est = "reproduciendo" THEN h
    ELSE LET g == [AlEmpezar(IF h.repr THEN HdaDetener(h) ELSE h, t) EXCEPT !.est = "preparando"]
         IN ArrancarHardware(LlenarBloque(LlenarBloque(g, 0, 1), 1, 1))

HdaDrenar(h) == IF h.ini /\ h.est = "reproduciendo" THEN [h EXCEPT !.est = "drenando"] ELSE h

---------------------------------------------------------------------------
(* audio_hda_actualizar.  The position comes from memory (DPIB) or, when   *)
(* that stays at zero for 200 ms, from the register (LPIB); a step of more *)
(* than a block is refused; a change of block refills the one left behind, *)
(* once for each generation.                                               *)
ElegirFuente(h, t) ==
    IF h.fuente = "dpib" /\ h.dpib = 0 /\ h.lpib > 0 /\ t - h.tProg > Ms200
    THEN [h EXCEPT !.fuente = "lpib", !.ant = h.lpib] ELSE h

Posicion(h) == IF h.fuente = "dpib" THEN h.dpib ELSE h.lpib

Avance(h) == (Posicion(h) - h.ant + TamDma) % TamDma

AvanceBueno(h) == Avance(h) \in 1..Bloque

ContarAvance(h, t) ==
    IF AvanceBueno(h)
    THEN [h EXCEPT !.dma = @ + Avance(h), !.ant = Posicion(h), !.tProg = t, !.atras = 0]
    ELSE h

BloqueDe(pos) == IF pos >= Bloque THEN 1 ELSE 0

(* Mutation: the block that is being read is refilled, not the one left.    *)
CambiarBloqueLeido(h) ==
    LET ahora == BloqueDe(h.ant)
    IN IF ahora = h.bloque THEN h ELSE LlenarBloque([h EXCEPT !.bloque = ahora], ahora, h.gen[ahora + 1] + 1)

CambiarBloque(h) ==
    LET ahora == BloqueDe(h.ant)
        libre == h.bloque
        g == [h EXCEPT !.bloque = ahora]
    IN IF ahora = libre THEN h
       ELSE IF h.gen[libre + 1] <= h.gen[ahora + 1] THEN LlenarBloque(g, libre, h.gen[ahora + 1] + 1)
       ELSE g

(* A drain ends when the queue is empty and the controller has read as     *)
(* much as was ever queued; a song, when it has read as much as it has.    *)
Cerrar(h) ==
    IF \/ h.est = "drenando" /\ h.cola = <<>> /\ h.dma >= h.enCola
       \/ h.est = "reproduciendo" /\ ~h.stream /\ ~h.bucle /\ h.dma >= h.pista
    THEN HdaDetener(h) ELSE h

HdaActualizar(h, t) ==
    LET g == ElegirFuente([h EXCEPT !.fifoe = FALSE, !.bcis = FALSE], t)
        c == ContarAvance(g, t)
    IN IF ~h.ini \/ h.est \notin {"reproduciendo", "drenando"} THEN h
       ELSE IF h.dese THEN HdaDetener([h EXCEPT !.est = "error"])
       ELSE IF t - c.tProg >= Ms1000 THEN HdaDetener([c EXCEPT !.est = "error"])
       ELSE Cerrar(IF AvanceBueno(g) THEN CambiarBloque(c) ELSE c)

---------------------------------------------------------------------------
(* AC97: descriptors over the song itself, up to NumBdl ahead.             *)
AlBdl(c) ==
    LET n == c.cursor + 1
    IN [c EXCEPT !.bdl[c.indice] = n,
                 !.cursor = IF n >= c.tam /\ c.bucle THEN 0 ELSE n,
                 !.activo = @ /\ (n < c.tam \/ c.bucle),
                 !.lvi = c.indice,
                 !.indice = (@ + 1) % NumBdl, !.enCola = @ + 1]

CabeBdl(c) == c.enCola < NumBdl /\ (c.activo \/ (c.bucle /\ c.tam > 0)) /\ c.cursor < c.tam

LlenarBdl(c) ==
    LET llena[k \in 0..NumBdl] == IF k = 0 THEN c
                                  ELSE IF CabeBdl(llena[k - 1]) THEN AlBdl(llena[k - 1]) ELSE llena[k - 1]
    IN llena[NumBdl]

(* audio_ac97_reproducir_flujo: the channel is reset, whatever it played.  *)
Ac97Reproducir(c, n, bucle) ==
    LET g == LlenarBdl([c EXCEPT !.tam = n, !.cursor = 0, !.bucle = bucle, !.activo = TRUE,
                                 !.indice = 0, !.civVisto = 0, !.enCola = 0])
    IN [g EXCEPT !.run = TRUE, !.dch = FALSE, !.civ = 0]

Ac97Actualizar(c) ==
    LET pasadas == (c.civ - c.civVisto + NumBdl) % NumBdl
        g == LlenarBdl([c EXCEPT !.enCola = IF @ < pasadas THEN 0 ELSE @ - pasadas, !.civVisto = c.civ])
    IN IF ~c.activo /\ c.enCola = 0 THEN c
       ELSE IF g.dch /\ g.enCola > 0 THEN [g EXCEPT !.run = TRUE, !.dch = (g.civ = g.lvi)]
       ELSE g

Ac97Detener(c) == [c EXCEPT !.run = FALSE, !.dch = TRUE, !.activo = FALSE, !.bucle = FALSE, !.enCola = 0, !.cursor = 0]

---------------------------------------------------------------------------
(* The functions of audio_ac97.c the rest of the kernel calls.             *)
Actualizar ==
    /\ hda' = IF placa.usarHda THEN HdaActualizar(hda, reloj) ELSE hda
    /\ ac97' = IF placa.iniciado /\ ~placa.usarHda THEN Ac97Actualizar(ac97) ELSE ac97

ColaOcupada(h) == IF placa.usarHda THEN Len(h.cola) ELSE 0

(* audio_ac97_esta_reproduciendo, of what Actualizar leaves.               *)
Sonando(h, c) ==
    IF placa.usarHda THEN h.est \in {"reproduciendo", "drenando"}
    ELSE placa.iniciado /\ (c.activo \/ c.enCola > 0 \/ ~c.dch)

Tiempo(h, c) == IF placa.usarHda THEN h.dma ELSE IF placa.iniciado THEN c.cursor ELSE 0

(* What audio_ac97_encolar_pcm accepts: on AC97 each packet starts the     *)
(* channel again.                                                          *)
Acepta(h) == IF placa.usarHda THEN ~h.stream \/ Len(h.cola) < CapCola ELSE placa.iniciado

Encolar(unidad) ==
    /\ hda' = IF placa.usarHda THEN HdaEncolar(hda, unidad, reloj) ELSE hda
    /\ ac97' = IF placa.iniciado /\ ~placa.usarHda THEN Ac97Reproducir(ac97, 1, FALSE) ELSE ac97

IniciarStream(h) == IF placa.usarHda THEN HdaIniciarStream(h, reloj) ELSE h
Drenar(h) == IF placa.usarHda THEN HdaDrenar(h) ELSE h

Detener ==
    /\ hda' = IF placa.usarHda THEN HdaDetener(hda) ELSE hda
    /\ ac97' = IF placa.iniciado /\ ~placa.usarHda THEN Ac97Detener(ac97) ELSE ac97

Reproducir(n, bucle) ==
    /\ hda' = IF placa.usarHda /\ hda.ini THEN HdaReproducir(hda, n, bucle, reloj) ELSE hda
    /\ ac97' = IF placa.iniciado /\ ~placa.usarHda THEN Ac97Reproducir(ac97, n, bucle) ELSE ac97

(* audio_fijar_volumen_db: -60 to 6 dB, given to the nodes or the mixer.   *)
EnRango(db) == IF db > 6 THEN 6 ELSE IF db < -60 THEN -60 ELSE db
FijarVolumen(delta) ==
    /\ hda' = IF placa.usarHda THEN [hda EXCEPT !.db = EnRango(@ + delta)] ELSE hda
    /\ ac97' = IF placa.usarHda THEN ac97 ELSE [ac97 EXCEPT !.db = EnRango(@ + delta)]

---------------------------------------------------------------------------
(* The controllers, in their own time.                                     *)
Leido == hda.buf[hda.lpib + 1]

(* A unit of time: HDA reads a unit of its buffer, AC97 a packet.          *)
Pasa ==
    /\ reloj < MaxReloj
    /\ reloj' = reloj + 1
    /\ IF hda.run /\ ~hda.muerto
       THEN /\ hda.atras < MaxHueco
            /\ LET p == (hda.lpib + 1) % TamDma
               IN hda' = [hda EXCEPT !.lpib = p, !.dpib = IF placa.hay.dpib THEN p ELSE 0,
                                     !.bcis = @ \/ p % Bloque = 0,
                                     !.atras = @ + 1, !.hueco = @ \/ hda.atras >= Bloque]
            /\ oido' = IF Leido = 0 THEN oido ELSE Leido
       ELSE /\ hda' = hda
            /\ oido' = IF ac97.run /\ ~ac97.dch THEN ac97.bdl[ac97.civ] ELSE oido
    /\ ac97' = IF ac97.run /\ ~ac97.dch
               THEN [ac97 EXCEPT !.dch = (ac97.civ = ac97.lvi),
                                 !.civ = IF ac97.civ = ac97.lvi THEN @ ELSE (@ + 1) % NumBdl]
               ELSE ac97
    /\ UNCHANGED placa

(* Descriptor error, FIFO error, a stream that stops moving, a controller  *)
(* that will not clear RUN.                                                *)
Averia(campo) ==
    /\ hda.run /\ placa.fallos < placa.hay.averias
    /\ hda' = [hda EXCEPT ![campo] = TRUE]
    /\ placa' = [placa EXCEPT !.fallos = @ + 1]
    /\ UNCHANGED <<ac97, reloj, oido>>

=============================================================================
