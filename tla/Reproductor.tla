---------------------------- MODULE Reproductor -----------------------------
(***************************************************************************)
(* The players: the MP4 player (reproductor.c) with its container, ring,   *)
(* queues, decoder and clock, the MP3 player (reproductor_mp3.c) and the   *)
(* music command of the terminal, over the sound drivers of Audio.         *)
(*                                                                         *)
(* A player is one thread that polls: pila is what it is doing, innermost  *)
(* first, one label for each place where it can be seen waiting, reading   *)
(* the medium, polling or looking at the clock.  Time passes, keys are     *)
(* pressed and the disk is pulled only where the code would notice.        *)
(*                                                                         *)
(*   esc     what is played: program, source, mode, file, card, scarcity   *)
(*   pila    the calls under way                                           *)
(*   rep     the player: flags, frames that wait, clock, the call's locals *)
(*   mp4     usable tracks, samples taken, last error of the medium        *)
(*   anillo, colas, dec   the ring, the queues, the decoder                *)
(*   disco   the medium; tecla, a key to stop                              *)
(*   visto   the last frame drawn, its picture and its time; all the       *)
(*           pictures drawn, those an IDR bade drop, and those that waited *)
(*           when the orders began again                                   *)
(***************************************************************************)
EXTENDS Almacen, Decodificador, Audio

CONSTANTS Escenarios,    \* what can be played
          BajoPcm, MetaPcm, PrePcm,   \* sound queued: 450 ms, 750 ms (33 packets of AAC), 160 KiB
          MuestrasFuncionales,   \* samples of the boot's short test (32)
          InicioMp3,     \* sound queued before an MP3 starts (128 KiB)
          EntradaMp3,    \* input of the MP3 decoder
          MaxOrdenes     \* commands at the terminal

VARIABLES esc, pila, rep, mp4, anillo, colas, dec, disco, tecla, visto

datosVars == <<mp4, anillo, colas>>
vars == <<esc, pila, rep, mp4, anillo, colas, dec, disco, tecla, visto, hda, ac97, placa, reloj, oido>>

(* What a command of the terminal or of the boot line plays, from which    *)
(* module in memory; "nada" when it plays nothing.                         *)
Juega(prog, modo, modulo) == [prog |-> prog, modo |-> modo, modulo |-> modulo]
H264Comando(arg) ==
    CASE arg \in {"360p", "1"} -> Juega("pelicula", "interactivo", "360p")
      [] arg \in {"1080p", "2"} -> Juega("pelicula", "interactivo", "1080p")
      [] arg \in {"prueba 360p", "test 360p", "prueba"} -> Juega("pelicula", "forense", "360p")
      [] arg \in {"prueba 1080p", "test 1080p"} -> Juega("pelicula", "forense", "1080p")
      [] arg \in {"bench 360p", "benchmark 360p", "bench"} -> Juega("pelicula", "bench", "360p")
      [] arg \in {"bench 1080p", "benchmark 1080p"} -> Juega("pelicula", "bench", "1080p")
      [] arg \in {"aac 360p", "audio 360p", "aac", "audio"} -> Juega("aac", "bench", "360p")
      [] arg \in {"aac 1080p", "audio 1080p"} -> Juega("aac", "bench", "1080p")
      [] OTHER -> Juega("nada", "bench", "nada")

AacComando(arg) ==
    CASE arg \in {"360p", "1", "probar", "test", "todo", ""} -> Juega("aac", "bench", "360p")
      [] arg \in {"1080p", "2"} -> Juega("aac", "bench", "1080p")
      [] OTHER -> Juega("nada", "bench", "nada")

H264Arranque(token) ==
    CASE token = "h264=prueba360" -> H264Comando("prueba 360p")
      [] token = "h264=prueba1080" -> H264Comando("prueba 1080p")
      [] token = "h264=bench360" -> H264Comando("bench 360p")
      [] token \in {"h264=bench1080", "h264=smoke1080"} -> H264Comando("bench 1080p")
      [] token = "h264=play360" -> H264Comando("360p")
      [] token \in {"h264=play1080", "h264=1080p"} -> H264Comando("1080p")
      [] OTHER -> Juega("nada", "bench", "nada")

(* The music and reproducir commands name a file of a disk or of memory.   *)
Orden ==
    CASE esc.por = "h264" -> H264Comando(esc.arg)
      [] esc.por = "aac" -> AacComando(esc.arg)
      [] esc.por = "arranque" -> H264Arranque(esc.arg)
      [] OTHER -> Juega(esc.por, esc.arg, esc.modulo)

Prog == Orden.prog
Modo == Orden.modo

F == esc.archivo
Usb == esc.fuente = "usb"
PistaDe(p) == F.traks[mp4[p]]
ConAac == mp4.a # 0 /\ Modo = "interactivo" /\ esc.falta # "aac"
ConAnillo == Usb /\ esc.falta # "anillo"
NumA == IF mp4.a = 0 THEN 0 ELSE Len(PistaDe("a").stsz)
Periodo == DuracionTicks(PistaDe("v")) \div Len(PistaDe("v").stsz)

RepInicio == [cancelado |-> FALSE, error |-> FALSE, res |-> 0, pend |-> 0, cab |-> 0, pts |-> <<0, 0>>, rgb |-> <<0, 0>>,
              primer |-> 0, inicio |-> 0, cuadros |-> 0, ultimo |-> 0, ultima |-> 0, ya |-> FALSE, audioEof |-> FALSE,
              dim |-> 0, cual |-> "v", lee |-> <<>>, uso |-> <<>>, nal |-> 0, im |-> 0, t0 |-> 0, k |-> 0, pcm |-> 0, off |-> 0]

Init ==
    /\ esc \in Escenarios
    /\ AudioInit /\ placa.hay = esc.placa
    /\ pila = <<"arranque">>
    /\ rep = RepInicio
    /\ mp4 = [v |-> 0, a |-> 0, aInd |-> 0, err |-> 0]
    /\ anillo = AnilloInicio
    /\ colas = [p \in Pistas |-> ColaInicio(p)]
    /\ dec = DecInicio
    /\ disco = [vivo |-> TRUE, cancelado |-> FALSE, fallos |-> 0]
    /\ tecla = FALSE
    /\ visto = [id |-> 0, pts |-> -1, dibujadas |-> {}, omitidas |-> {}, pospuestas |-> {}]

---------------------------------------------------------------------------
(* The stack.                                                              *)
En(l) == pila # <<>> /\ Head(pila) = l
Sigue(ls) == pila' = ls \o Tail(pila)
Sale == pila' = Tail(pila)
Para == rep.cancelado \/ rep.error

(* Every failure below the main loop ends it.                              *)
Fracasa == pila' = <<"drena">>

QuietoAudio == UNCHANGED <<hda, ac97, placa, reloj, oido>>
QuietoDatos == UNCHANGED <<mp4, anillo, colas, disco>>
QuietoResto == UNCHANGED <<esc, tecla>>
SoloRep == QuietoAudio /\ QuietoDatos /\ QuietoResto /\ UNCHANGED <<dec, visto>>

(* leer_medido and vfs_leer_en: a read of the medium.  One that fails      *)
(* leaves the descriptor cancelled.                                        *)
LeeBien == disco.vivo /\ ~disco.cancelado
LeeDisco(bien) ==
    /\ bien => LeeBien
    /\ ~bien => (~LeeBien \/ disco.fallos < esc.averias)
    /\ disco' = IF bien THEN disco
                ELSE [disco EXCEPT !.cancelado = TRUE, !.fallos = IF LeeBien THEN @ + 1 ELSE @]

---------------------------------------------------------------------------
(* atender: poll USB and sound, look at the unit of the file, take keys.   *)
Atender ==
    LET caido == Usb /\ (disco.cancelado \/ ~disco.vivo)
    IN /\ En("atender") /\ Sale
       /\ Actualizar
       /\ rep' = [rep EXCEPT !.error = @ \/ caido, !.cancelado = @ \/ tecla]
       /\ mp4' = IF caido /\ (mp4.err = 0 \/ ~disco.vivo)
                 THEN [mp4 EXCEPT !.err = IF disco.vivo THEN 1 ELSE 2] ELSE mp4
       /\ colas' = IF caido THEN [p \in Pistas |-> [colas[p] EXCEPT !.error = ErrorLectura]] ELSE colas
       /\ disco' = [disco EXCEPT !.cancelado = @ \/ (tecla /\ Usb)]
       /\ tecla' = FALSE
       /\ UNCHANGED <<esc, anillo, dec, visto, placa, reloj, oido>>

(* servir_coordinador: at most once in a millisecond.                      *)
Servir ==
    /\ En("servir")
    /\ \E sondea \in BOOLEAN : Sigue(IF sondea THEN <<"atender", "servido">> ELSE <<"servido">>)
    /\ UNCHANGED rep /\ SoloRep

Servido ==
    /\ En("servido")
    /\ IF Para THEN Fracasa /\ rep' = [rep EXCEPT !.res = -1] ELSE Sale /\ UNCHANGED rep
    /\ SoloRep

---------------------------------------------------------------------------
(* reproductor_reproducir_fuente, reproductor_reproducir_memoria: the      *)
(* container is opened, box by box from a medium; the result goes back.    *)
Termina(res) == pila' = <<>> /\ rep' = [RepInicio EXCEPT !.res = res]

AbrirMemoria ==
    /\ En("abrir") /\ ~Usb
    /\ mp4' = [mp4 EXCEPT !.v = ParsearMoov(F).v, !.a = ParsearMoov(F).a]
    /\ IF BuscarMoov(F) < 0 \/ (mp4'.v = 0 /\ mp4'.a = 0) THEN Termina(-2) ELSE Sigue(<<"preparar">>) /\ UNCHANGED rep
    /\ QuietoAudio /\ QuietoResto /\ UNCHANGED <<anillo, colas, dec, disco, visto>>

AbrirFuente ==
    /\ En("abrir") /\ Usb
    /\ \E bien \in BOOLEAN :
       /\ LeeDisco(bien)
       /\ LET tras == TrasCaja(F, rep.off)
              moov == tras > 0 /\ F.cajas[rep.off].tipo = "moov"
          IN CASE ~bien -> Termina(-1) /\ mp4' = [mp4 EXCEPT !.err = 1]
               [] bien /\ (tras < 0 \/ (~moov /\ tras >= F.tam)) -> Termina(-3) /\ UNCHANGED mp4
               [] bien /\ moov ->
                    /\ mp4' = [mp4 EXCEPT !.v = ParsearMoov(F).v, !.a = ParsearMoov(F).a]
                    /\ IF mp4'.v = 0 /\ mp4'.a = 0 THEN Termina(-3) ELSE Sigue(<<"preparar">>) /\ UNCHANGED rep
               [] OTHER -> rep' = [rep EXCEPT !.off = tras] /\ UNCHANGED <<pila, mp4>>
    /\ QuietoAudio /\ QuietoResto /\ UNCHANGED <<anillo, colas, dec, visto>>

(* reproductor_ejecutar up to the prebuffer: no video, no decoder; without *)
(* a ring the queues read the medium; without queues nothing is played.    *)
Preparar ==
    /\ En("preparar")
    /\ IF mp4.v = 0 THEN Termina(-3)
       ELSE IF esc.falta = "decodificador" THEN Termina(-4)
       ELSE /\ rep' = [rep EXCEPT !.error = esc.falta = "colas"]
            /\ Sigue(IF ConAac THEN <<"pre">> ELSE <<"avcc">>)
    /\ SoloRep

(* The prebuffer: samples go to the sound queue until it holds 160 KiB.    *)
Prebuffer ==
    /\ En("pre")
    /\ Sigue(IF ~Para /\ mp4.aInd < NumA /\ ColaOcupada(hda) < PrePcm
             THEN (IF ConAnillo THEN <<"llena">> ELSE <<>>) \o <<"recA", "preToma">> ELSE <<"stream">>)
    /\ rep' = [rep EXCEPT !.k = 0]
    /\ SoloRep

PreToma ==
    LET q == colas["a"]
        pcm == F.pcm[Contenido(q, q.m[1])[1]]
    IN /\ En("preToma")
       /\ IF Tomable(q) # 1
          THEN /\ Sigue(<<"stream">>)
               /\ rep' = [rep EXCEPT !.error = @ \/ Tomable(q) < 0]
               /\ UNCHANGED <<colas, mp4, hda, ac97>>
          ELSE /\ colas' = [colas EXCEPT !["a"] = Tomada(q)]
               /\ mp4' = [mp4 EXCEPT !.aInd = @ + 1]
               /\ IF pcm = 0 \/ Acepta(hda) THEN Sigue(<<"pre">>) ELSE Sigue(<<"atender", "pre">>)
               /\ IF pcm # 0 /\ Acepta(hda) THEN Encolar(pcm) ELSE UNCHANGED <<hda, ac97>>
               /\ UNCHANGED rep
       /\ QuietoResto /\ UNCHANGED <<anillo, disco, dec, visto, placa, reloj, oido>>

PreStream ==
    /\ En("stream") /\ Sigue(<<"avcc">>)
    /\ hda' = IniciarStream(hda)
    /\ UNCHANGED rep /\ QuietoDatos /\ QuietoResto /\ UNCHANGED <<dec, visto, ac97, placa, reloj, oido>>

(* h264_configurar_avcc: the parameter sets of the container.              *)
ConfigurarAvcc ==
    /\ En("avcc")
    /\ IF SpsBueno(F.sps) /\ PpsBueno(F.pps)
       THEN Sigue(<<"bucle">>) /\ dec' = LeerPps(LeerSps(dec, F.sps), F.pps) /\ UNCHANGED rep
       ELSE Fracasa /\ UNCHANGED dec /\ rep' = [rep EXCEPT !.res = -1]
    /\ QuietoAudio /\ QuietoDatos /\ QuietoResto /\ UNCHANGED visto

---------------------------------------------------------------------------
(* The main loop: serve, show what is due, read ahead, refill, take a      *)
(* sample, feed the sound, decode.                                         *)
Basta == esc.arg = "h264=smoke1080" /\ colas["v"].cur.indice - Len(colas["v"].m) >= MuestrasFuncionales

Bucle ==
    /\ En("bucle")
    /\ Sigue(IF Basta THEN <<"termina", "vacia0", "pinta">> ELSE
             <<"servir", "pp">> \o (IF ConAnillo THEN <<"llena">> ELSE <<>>)
             \o (IF ConAac THEN <<"recA">> ELSE <<>>) \o <<"recV", "tomar">>)
    /\ rep' = [rep EXCEPT !.k = 0, !.uso = <<>>]
    /\ SoloRep

(* anillo_rellenar: one block; a read that fails is not reported.          *)
Rellenar ==
    /\ En("llena")
    /\ IF anillo.prod >= F.tam \/ Parado(anillo) \/ rep.k = NumBloques
       THEN Sale /\ UNCHANGED <<rep, anillo, disco>>
       ELSE \E bien \in BOOLEAN :
            /\ LeeDisco(bien)
            /\ anillo' = IF bien THEN Produce(Desaloja(anillo), F.tam) ELSE Desaloja(anillo)
            /\ IF bien THEN UNCHANGED pila /\ rep' = [rep EXCEPT !.k = @ + 1] ELSE Sale /\ UNCHANGED rep
    /\ QuietoAudio /\ QuietoResto /\ UNCHANGED <<mp4, colas, dec, visto>>

(* recargar failed: the prebuffer goes on to play what it has, the rest    *)
(* ends.                                                                   *)
RecargaMal(r) ==
    /\ rep' = [r EXCEPT !.error = TRUE, !.res = IF Head(Tail(pila)) = "preToma" THEN @ ELSE -1]
    /\ IF Head(Tail(pila)) = "preToma" THEN pila' = <<"stream">> ELSE Fracasa

Recargar(p, etiqueta) ==
    LET q == colas[p]
    IN /\ En(etiqueta)
       /\ IF Len(q.m) >= BajoDe(p) THEN Sale /\ UNCHANGED <<rep, colas>>
          ELSE IF q.error # Bien THEN RecargaMal(rep) /\ UNCHANGED colas
          ELSE IF Len(q.m) >= MetaDe(p) \/ q.eof THEN Sale /\ UNCHANGED <<rep, colas>>
          ELSE /\ colas' = [colas EXCEPT ![p] = Compacta(q)]
               /\ rep' = [rep EXCEPT !.cual = p]
               /\ Sigue(<<"atender", "cola">>)
       /\ QuietoAudio /\ QuietoResto /\ UNCHANGED <<mp4, anillo, disco, dec, visto>>

(* cola_muestras_recargar, a turn: the index says where the next sample    *)
(* is; a sample that does not fit now waits, one that never fits is an     *)
(* error.                                                                  *)
Indice ==
    LET p == rep.cual
        q == colas[p]
        s == IF p = "v" THEN SiguienteVideo(PistaDe(p), q.cur, F.tam) ELSE SiguienteAudio(PistaDe(p), q.cur, F.tam)
        malo == IF Para THEN ErrorLectura ELSE IF s[1] < 0 THEN s[1]
                ELSE IF s[1] = 1 /\ s[4] > CapDe(p) THEN LimiteExcedido ELSE Bien
    IN /\ En("cola")
       /\ CASE malo # Bien -> colas' = [colas EXCEPT ![p].error = malo] /\ RecargaMal(rep)
            [] malo = Bien /\ s[1] = 0 -> colas' = [colas EXCEPT ![p].eof = TRUE] /\ Sale /\ UNCHANGED rep
            [] malo = Bien /\ s[1] = 1 /\ s[4] > CapDe(p) - q.usados -> Sale /\ UNCHANGED <<rep, colas>>
            [] OTHER ->
                 /\ rep' = [rep EXCEPT !.lee = [cur |-> s[2], off |-> s[3], n |-> s[4], pts |-> s[5], d |-> <<>>]]
                 /\ Sigue(IF ConAnillo THEN <<"atender", "leer">> ELSE <<"directo">>)
                 /\ UNCHANGED colas
       /\ QuietoAudio /\ QuietoResto /\ UNCHANGED <<mp4, anillo, disco, dec, visto>>

(* The sample is whole: it joins its queue, and the next is looked for.    *)
Listo(a, unidades) ==
    LET p == rep.cual
        q == Encaja(colas[p], unidades, rep.lee.cur, rep.lee.pts)
    IN /\ colas' = [colas EXCEPT ![p] = q]
       /\ anillo' = a
       /\ rep' = [rep EXCEPT !.lee = <<>>]
       /\ Sigue(IF Len(q.m) < MetaDe(p) THEN <<"atender", "cola">> ELSE <<>>)
       /\ UNCHANGED mp4

LecturaMal ==
    /\ colas' = [colas EXCEPT ![rep.cual].error = ErrorLectura]
    /\ mp4' = [mp4 EXCEPT !.err = IF @ = 0 THEN 1 ELSE @]
    /\ RecargaMal([rep EXCEPT !.lee = <<>>])

(* From memory, or from the medium without a ring.                         *)
LeerDirecto ==
    /\ En("directo")
    /\ \E bien \in BOOLEAN :
       /\ IF Usb THEN LeeDisco(bien) ELSE bien /\ UNCHANGED disco
       /\ IF bien THEN Listo(anillo, [i \in 1..rep.lee.n |-> rep.lee.off + i - 1])
          ELSE LecturaMal /\ UNCHANGED anillo
    /\ QuietoAudio /\ QuietoResto /\ UNCHANGED <<dec, visto>>

(* anillo_leer: block after block; what is not there is read on demand,    *)
(* even over blocks that another track still wants.                        *)
LeerAnillo ==
    LET pos == rep.lee.off + Len(rep.lee.d)
    IN /\ En("leer")
       /\ IF Para THEN LecturaMal /\ UNCHANGED anillo
          ELSE /\ Sigue(IF BuscarBloque(anillo, pos) # 0 THEN <<"copia">> ELSE <<"demanda">>)
               /\ anillo' = IF BuscarBloque(anillo, pos) # 0 THEN anillo ELSE Reposiciona(anillo, pos)
               /\ UNCHANGED <<mp4, colas, rep>>
       /\ QuietoAudio /\ QuietoResto /\ UNCHANGED <<disco, dec, visto>>

LeerDemanda ==
    /\ En("demanda")
    /\ \E bien \in BOOLEAN :
       /\ LeeDisco(bien)
       /\ IF bien THEN /\ anillo' = Produce(Desaloja(anillo), F.tam)
                       /\ Sigue(IF BuscarBloque(anillo', rep.lee.off + Len(rep.lee.d)) # 0 THEN <<"copia">> ELSE <<"demanda">>)
                       /\ UNCHANGED <<mp4, colas, rep>>
          ELSE LecturaMal /\ anillo' = Desaloja(anillo)
    /\ QuietoAudio /\ QuietoResto /\ UNCHANGED <<dec, visto>>

LeerCopia ==
    LET d == rep.lee.d \o Trozo(anillo, rep.lee.off + Len(rep.lee.d), rep.lee.n - Len(rep.lee.d))
    IN /\ En("copia")
       /\ IF Len(d) = rep.lee.n THEN Listo(Consumido(anillo, rep.cual, rep.lee.off + rep.lee.n), d)
          ELSE /\ rep' = [rep EXCEPT !.lee.d = d]
               /\ Sigue(<<"atender", "leer">>)
               /\ UNCHANGED <<mp4, anillo, colas>>
       /\ QuietoAudio /\ QuietoResto /\ UNCHANGED <<disco, dec, visto>>

(* The next sample of the video; without one the stream is finished.       *)
Tomar ==
    LET q == colas["v"]
    IN /\ En("tomar")
       /\ CASE Tomable(q) = 0 -> Sigue(<<"termina", "vacia0", "pinta">>) /\ UNCHANGED <<rep, colas>>
            [] Tomable(q) < 0 -> Fracasa /\ rep' = [rep EXCEPT !.error = TRUE, !.res = -1] /\ UNCHANGED colas
            [] OTHER -> /\ colas' = [colas EXCEPT !["v"] = Tomada(q)]
                        /\ rep' = [rep EXCEPT !.uso = q.m[1], !.nal = 1]
                        /\ Sigue(<<"alimenta", "nal">>)
       /\ QuietoAudio /\ QuietoResto /\ UNCHANGED <<mp4, anillo, disco, dec, visto>>

---------------------------------------------------------------------------
(* reproductor_alimentar_audio: below 450 ms of sound, up to 750 ms.       *)
Alimentar ==
    /\ En("alimenta")
    /\ IF ~ConAac \/ rep.audioEof \/ (mp4.aInd < NumA /\ ColaOcupada(hda) >= BajoPcm) THEN Sale ELSE Sigue(<<"alim">>)
    /\ UNCHANGED rep /\ SoloRep

AlimentarPaquete ==
    LET q == colas["a"]
        pcm == F.pcm[Contenido(q, q.m[1])[1]]
    IN /\ En("alim") /\ ~Para /\ mp4.aInd < NumA /\ ColaOcupada(hda) < MetaPcm /\ Tomable(q) = 1
       /\ colas' = [colas EXCEPT !["a"] = Tomada(q)]
       /\ mp4' = [mp4 EXCEPT !.aInd = @ + 1]
       /\ rep' = [rep EXCEPT !.pcm = pcm]
       /\ Sigue(IF pcm = 0 THEN <<"alim">> ELSE <<"encola">>)
       /\ QuietoAudio /\ QuietoResto /\ UNCHANGED <<anillo, disco, dec, visto>>

AlimentarEncola ==
    /\ En("encola")
    /\ IF rep.cancelado \/ Acepta(hda) THEN Sigue(<<"alim">>) /\ rep' = [rep EXCEPT !.pcm = 0]
       ELSE Sigue(<<"atender", "encola">>) /\ UNCHANGED rep
    /\ IF ~rep.cancelado /\ Acepta(hda) THEN Encolar(rep.pcm) ELSE UNCHANGED <<hda, ac97>>
    /\ QuietoDatos /\ QuietoResto /\ UNCHANGED <<dec, visto, placa, reloj, oido>>

(* The loop ends; when the track did, the sound is left to drain.          *)
AlimentarFin ==
    LET mal == ~Para /\ mp4.aInd < NumA /\ ColaOcupada(hda) < MetaPcm /\ Tomable(colas["a"]) < 0
        fin == ~Para /\ ~mal /\ mp4.aInd = NumA
    IN /\ En("alim") /\ Sale
       /\ Para \/ mp4.aInd = NumA \/ ColaOcupada(hda) >= MetaPcm \/ Tomable(colas["a"]) # 1
       /\ rep' = [rep EXCEPT !.error = @ \/ mal, !.audioEof = @ \/ fin]
       /\ hda' = IF fin THEN Drenar(hda) ELSE hda
       /\ QuietoDatos /\ QuietoResto /\ UNCHANGED <<dec, visto, ac97, placa, reloj, oido>>

---------------------------------------------------------------------------
(* h264_decodificar_muestra_avcc and h264_nal: one NAL unit after another, *)
(* read from the buffer of the queue at that time.                         *)
NalDe(unidad) == IF unidad \in DOMAIN F.nal THEN F.nal[unidad] ELSE [nal |-> "raro"]
NalActual == NalDe(colas["v"].datos[rep.uso.ini + rep.nal])

Nal ==
    /\ En("nal")
    /\ IF rep.nal > rep.uso.n THEN Sigue(<<"bucle">>) /\ UNCHANGED rep
       ELSE CASE NalActual.nal = "sei" -> UNCHANGED pila /\ rep' = [rep EXCEPT !.nal = @ + 1]
              [] NalActual.nal = "fin" -> Sigue(<<"termina", "vacia0", "nal">>) /\ rep' = [rep EXCEPT !.nal = @ + 1]
              [] NalActual.nal \in {"sps", "pps"} -> Sigue(<<"termina", NalActual.nal>>) /\ UNCHANGED rep
              [] NalActual.nal = "corte" -> Sigue(IF NalActual.primero = 0 THEN <<"termina", "corte">> ELSE <<"corte">>) /\ UNCHANGED rep
              [] OTHER -> Fracasa /\ rep' = [rep EXCEPT !.res = -1]
    /\ SoloRep

NuevoSps ==
    /\ En("sps")
    /\ IF SpsBueno(NalActual) THEN Sigue(<<"nal">>) /\ dec' = LeerSps(dec, NalActual) /\ rep' = [rep EXCEPT !.nal = @ + 1]
       ELSE Fracasa /\ UNCHANGED dec /\ rep' = [rep EXCEPT !.res = -1]
    /\ QuietoAudio /\ QuietoDatos /\ QuietoResto /\ UNCHANGED visto

NuevoPps ==
    /\ En("pps")
    /\ IF PpsBueno(NalActual) THEN Sigue(<<"nal">>) /\ dec' = LeerPps(dec, NalActual) /\ rep' = [rep EXCEPT !.nal = @ + 1]
       ELSE Fracasa /\ UNCHANGED dec /\ rep' = [rep EXCEPT !.res = -1]
    /\ QuietoAudio /\ QuietoDatos /\ QuietoResto /\ UNCHANGED visto

(* terminar_foto, then vaciar: more than the stream reorders, or all.  A   *)
(* mark 5 starts the orders again at 0 and leaves waiting what waits.      *)
EsperanIds == {dec.fotos[i].id : i \in Esperan(dec)}
Reinicia(c) == c.ref /\ c.adapt /\ \E k \in DOMAIN c.marcas : c.marcas[k][1] = 5

TerminaFoto ==
    /\ En("termina")
    /\ IF dec.act = 0 THEN Sale /\ UNCHANGED <<rep, dec>>
       ELSE LET t == TerminarFoto(dec)
            IN IF t[1] THEN Sigue(<<"vaciaR">>) /\ dec' = t[2] /\ UNCHANGED rep
               ELSE Fracasa /\ dec' = t[2] /\ rep' = [rep EXCEPT !.res = -1]
    /\ visto' = IF dec.act # 0 /\ Reinicia(dec.sl) THEN [visto EXCEPT !.pospuestas = @ \union EsperanIds] ELSE visto
    /\ QuietoAudio /\ QuietoDatos /\ QuietoResto

Vaciar(etiqueta, conservar) ==
    /\ En(etiqueta)
    /\ IF Cardinality(Esperan(dec)) <= conservar THEN Sale /\ UNCHANGED <<rep, dec>>
       ELSE /\ rep' = [rep EXCEPT !.im = MenorPoc(dec)]
            /\ dec' = Emitida(dec, MenorPoc(dec))
            /\ Sigue(<<"atender", "presenta", etiqueta>>)
    /\ QuietoAudio /\ QuietoDatos /\ QuietoResto /\ UNCHANGED visto

(* decodificar_slice: header, picture, references, macroblocks.            *)
Corte ==
    LET c == NalActual
    IN /\ En("corte")
       /\ IF ~CabeceraBuena(dec, c) \/ ~PpsDe(dec, c).cabac \/ (c.primero # 0 /\ ~SigueFoto(dec, c))
          THEN Fracasa /\ rep' = [rep EXCEPT !.res = -1] /\ UNCHANGED <<dec, visto>>
          ELSE IF c.primero # 0 THEN /\ dec' = [dec EXCEPT !.sl = c, !.corte = @ + 1]
                                     /\ Sigue(<<"refs">>) /\ UNCHANGED <<rep, visto>>
          ELSE /\ dec' = IF c.idr /\ c.omitir THEN Omitidas(dec) ELSE dec
               /\ visto' = IF c.idr /\ c.omitir THEN [visto EXCEPT !.omitidas = @ \union EsperanIds] ELSE visto
               /\ Sigue(IF c.idr /\ ~c.omitir THEN <<"vacia0", "foto">> ELSE <<"foto">>) /\ UNCHANGED rep
       /\ QuietoAudio /\ QuietoDatos /\ QuietoResto

Foto ==
    LET c == NalActual
        d == IF c.idr THEN TrasIdr(dec, c) ELSE dec
    IN /\ En("foto")
       /\ IF Huecos(d) = {} \/ SpsDe(d, c).pocTipo # 0
          THEN Fracasa /\ rep' = [rep EXCEPT !.res = -1] /\ dec' = d
          ELSE Sigue(<<"refs">>) /\ dec' = IniciarFoto(d, c, rep.uso.idx, rep.uso.pts) /\ UNCHANGED rep
       /\ QuietoAudio /\ QuietoDatos /\ QuietoResto /\ UNCHANGED visto

Refs ==
    LET r == PrepararReferencias(dec)
    IN /\ En("refs")
       /\ IF dec.sl.tipo = "I" THEN Sigue(<<"servir", "mbs">>) /\ dec' = [dec EXCEPT !.lista = <<>>] /\ UNCHANGED rep
          ELSE IF r.bien THEN Sigue(<<"servir", "mbs">>) /\ dec' = [dec EXCEPT !.lista = r.l] /\ UNCHANGED rep
          ELSE Fracasa /\ rep' = [rep EXCEPT !.res = -1] /\ UNCHANGED dec
       /\ QuietoAudio /\ QuietoDatos /\ QuietoResto /\ UNCHANGED visto

(* What of a macroblock may end the slice, in the order it is read: its    *)
(* syntax elements, raw samples when it is intra, motion without the       *)
(* reference it names when it is inter, a residue out of range.            *)
SintaxisBuena(c) == c.malo # "sintaxis"
IntraBueno(c) == c.malo # "intra"
InterBueno(c) == c.tipo = "I" \/ c.malo # "inter"
ResiduoBueno(c) == c.malo # "residuo"
Legible(c) == SintaxisBuena(c) /\ IntraBueno(c) /\ InterBueno(c) /\ ResiduoBueno(c)

(* The macroblocks of the slice, then their reconstruction in a batch,     *)
(* during which the coordinator serves; a prediction may fail there.       *)
Macrobloques ==
    /\ En("mbs")
    /\ IF ~Legible(dec.sl) \/ dec.sl.malo = "prediccion"
       THEN Fracasa /\ rep' = [rep EXCEPT !.res = -1] /\ UNCHANGED dec
       ELSE /\ dec' = [dec EXCEPT !.mb = dec.sl.fin]
            /\ Sigue(<<"servir", "nal">>)
            /\ rep' = [rep EXCEPT !.nal = @ + 1]
    /\ QuietoAudio /\ QuietoDatos /\ QuietoResto /\ UNCHANGED visto

---------------------------------------------------------------------------
(* presentar: a picture comes out of the decoder.  It is converted into    *)
(* one of two frames; both taken, the oldest is shown first; another size  *)
(* shows them all and starts again.                                        *)
Presentar ==
    LET r == IF rep.cuadros = 0 THEN [rep EXCEPT !.primer = dec.fotos[rep.im].pts, !.inicio = reloj] ELSE rep
        dibuja == Modo # "forense" \/ rep.cuadros = 0
    IN /\ En("presenta")
       /\ CASE rep.cancelado -> Fracasa /\ rep' = [rep EXCEPT !.res = -1]
            [] ~rep.cancelado /\ ~dibuja -> Sale /\ rep' = [r EXCEPT !.cuadros = @ + 1]
            [] OTHER -> rep' = r /\ Sigue(IF rep.pend = 2 THEN <<"ppE", "tamano">> ELSE <<"tamano">>)
       /\ SoloRep

Tamano ==
    LET dim == dec.fotos[rep.im].dim
    IN /\ En("tamano")
       /\ IF rep.dim = dim THEN Sigue(<<"servir", "convierte">>) /\ UNCHANGED rep
          ELSE IF rep.pend > 0 THEN Sigue(<<"ppE", "tamano">>) /\ UNCHANGED rep
          ELSE IF esc.falta = "rgb" THEN Fracasa /\ rep' = [rep EXCEPT !.error = TRUE, !.res = -1]
          ELSE Sigue(<<"servir", "convierte">>) /\ rep' = [rep EXCEPT !.dim = dim, !.cab = 0]
       /\ SoloRep

Convertir ==
    LET hueco == (rep.cab + rep.pend) % 2
    IN /\ En("convierte") /\ Sigue(<<"pp">>)
       /\ rep' = [rep EXCEPT !.rgb[hueco + 1] = dec.fotos[rep.im].id, !.pts[hueco + 1] = dec.fotos[rep.im].pts,
                             !.pend = @ + 1, !.cuadros = @ + 1, !.im = 0]
       /\ SoloRep

(* reloj_maestro: the sound while it plays, else the wall; never back.     *)
MiraReloj == ac97' = IF placa.iniciado /\ ~placa.usarHda THEN Ac97Actualizar(ac97) ELSE ac97
RelojMaestro(c) ==
    LET t == IF Sonando(hda, c) THEN Tiempo(hda, c) ELSE reloj - rep.inicio
    IN IF t < rep.ultimo THEN rep.ultimo ELSE t

Destino == rep.pts[rep.cab + 1] - rep.primer

(* A frame is too late by two periods, and there is another to show or one *)
(* was shown just before: it is dropped.                                   *)
Caduca(ahora) ==
    /\ ahora - Destino > 2 * Periodo
    /\ rep.pend > 1 \/ (rep.ya /\ ahora - rep.ultima < Periodo)

Quita(r) == [r EXCEPT !.cab = 1 - @, !.pend = @ - 1]

QuietoSonido == UNCHANGED <<hda, placa, reloj, oido>>

(* presentar_pendiente.                                                    *)
Pendiente(etiqueta, esperar) ==
    /\ En(etiqueta)
    /\ IF rep.pend = 0 THEN Sale /\ UNCHANGED <<rep, ac97>>
       ELSE IF Modo # "interactivo" THEN Sigue(<<"dibuja">>) /\ UNCHANGED <<rep, ac97>>
       ELSE IF Destino < 0 THEN Fracasa /\ rep' = [rep EXCEPT !.error = TRUE, !.res = -1] /\ UNCHANGED ac97
       ELSE /\ MiraReloj
            /\ LET ahora == RelojMaestro(ac97')
                   r == [rep EXCEPT !.ultimo = ahora]
               IN CASE ahora < Destino /\ ~esperar -> Sale /\ rep' = r
                    [] ahora < Destino /\ esperar -> Sigue(<<"espera">>) /\ rep' = [r EXCEPT !.t0 = reloj]
                    [] ahora >= Destino /\ Caduca(ahora) -> Sale /\ rep' = Quita(r)
                    [] OTHER -> Sigue(<<"dibuja">>) /\ rep' = r
    /\ QuietoSonido /\ QuietoDatos /\ QuietoResto /\ UNCHANGED <<dec, visto>>

(* The wait for a frame's time serves, refills and feeds the sound; it     *)
(* lasts half a second at most.                                            *)
Espera ==
    /\ En("espera")
    /\ MiraReloj
    /\ rep' = [rep EXCEPT !.ultimo = RelojMaestro(ac97')]
    /\ Sigue(IF RelojMaestro(ac97') >= Destino \/ reloj - rep.t0 >= Ms500 THEN <<"dibuja">> ELSE <<"atender", "esperaR">>)
    /\ QuietoSonido /\ QuietoDatos /\ QuietoResto /\ UNCHANGED <<dec, visto>>

EsperaRecarga ==
    /\ En("esperaR")
    /\ IF rep.cancelado THEN Fracasa /\ rep' = [rep EXCEPT !.res = -1]
       ELSE Sigue((IF ConAac THEN <<"recA">> ELSE <<>>) \o <<"alimenta", "espera">>) /\ UNCHANGED rep
    /\ SoloRep

Dibujar ==
    /\ En("dibuja") /\ Sale
    /\ MiraReloj
    /\ visto' = [visto EXCEPT !.id = rep.rgb[rep.cab + 1], !.pts = rep.pts[rep.cab + 1],
                              !.dibujadas = @ \union {rep.rgb[rep.cab + 1]}]
    /\ rep' = [Quita(rep) EXCEPT !.ultimo = RelojMaestro(ac97'), !.ultima = RelojMaestro(ac97'), !.ya = TRUE]
    /\ QuietoSonido /\ QuietoDatos /\ QuietoResto /\ UNCHANGED dec

---------------------------------------------------------------------------
(* The end: frames that wait, sound that drains for 1.5 s at most, stop,   *)
(* release.                                                                *)
Pintar ==
    /\ En("pinta")
    /\ Sigue(IF ~rep.cancelado /\ rep.pend > 0 THEN <<"ppE", "pinta">> ELSE <<"drena">>)
    /\ UNCHANGED rep /\ SoloRep

DrenaFin ==
    /\ En("drena")
    /\ IF ConAac /\ ~Para THEN /\ hda' = Drenar(hda) /\ Sigue(<<"drenando">>)
                               /\ rep' = [rep EXCEPT !.t0 = reloj]
       ELSE Sigue(<<"libera">>) /\ UNCHANGED <<hda, rep>>
    /\ QuietoDatos /\ QuietoResto /\ UNCHANGED <<dec, visto, ac97, placa, reloj, oido>>

Drenando ==
    /\ En("drenando")
    /\ MiraReloj
    /\ Sigue(IF Sonando(hda, ac97') /\ reloj - rep.t0 < Ms1500 THEN <<"atender", "drenando">> ELSE <<"libera">>)
    /\ UNCHANGED rep /\ QuietoSonido /\ QuietoDatos /\ QuietoResto /\ UNCHANGED <<dec, visto>>

Resultado == IF mp4.err # 0 THEN -10 - mp4.err ELSE IF rep.cancelado THEN 1 ELSE IF rep.res # 0 \/ rep.error THEN -1 ELSE 0

Liberar ==
    /\ En("libera")
    /\ Termina(Resultado)
    /\ IF ConAac THEN Detener ELSE UNCHANGED <<hda, ac97>>
    /\ dec' = DecInicio /\ anillo' = AnilloInicio /\ colas' = [p \in Pistas |-> ColaInicio(p)]
    /\ QuietoResto /\ UNCHANGED <<mp4, disco, visto, placa, reloj, oido>>

---------------------------------------------------------------------------
(* reproductor_mp3_reproducir_vfs.  The file is frames and other bytes     *)
(* between its tags; the decoder skips what is no frame.                   *)
AtenderMp3 ==
    /\ En("atenderM") /\ Sale
    /\ Actualizar
    /\ rep' = [rep EXCEPT !.cancelado = tecla]
    /\ disco' = [disco EXCEPT !.cancelado = @ \/ tecla]
    /\ tecla' = FALSE
    /\ UNCHANGED <<esc, mp4, anillo, colas, dec, visto, placa, reloj, oido>>

FinMp3 == F.tam - F.cola
Mp3Cabecera ==
    /\ En("mp3")
    /\ \E bien \in BOOLEAN :
       /\ LeeDisco(bien)
       /\ IF ~placa.iniciado THEN Termina(-1)
          ELSE IF F.tam < 1 THEN Termina(-2)
          ELSE IF (IF bien THEN F.tag ELSE 0) >= (IF bien THEN FinMp3 ELSE F.tam) THEN Termina(-3)
          ELSE IF esc.falta = "decodificador" THEN Termina(-4)
          ELSE /\ Sigue(<<"mBucle">>)
               /\ rep' = [rep EXCEPT !.off = IF bien THEN F.tag ELSE 0, !.k = IF bien THEN FinMp3 ELSE F.tam]
    /\ QuietoAudio /\ QuietoResto /\ UNCHANGED <<datosVars, dec, visto>>

(* While there is something to read or to decode.                          *)
Mp3Bucle ==
    /\ En("mBucle")
    /\ Sigue(IF rep.off < rep.k \/ rep.lee # <<>> THEN <<"atenderM", "mLee">> ELSE <<"mFin">>)
    /\ UNCHANGED rep /\ SoloRep

Mp3Lee ==
    LET falta == Len(rep.lee) < EntradaMp3 /\ rep.off < rep.k
        n == Menor(EntradaMp3 - Len(rep.lee), rep.k - rep.off)
    IN /\ En("mLee")
       /\ IF rep.cancelado THEN Sigue(<<"mFin">>) /\ UNCHANGED <<rep, disco>>
          ELSE IF ~falta THEN Sigue(<<"mCuadro">>) /\ UNCHANGED <<rep, disco>>
          ELSE \E bien \in BOOLEAN :
               /\ LeeDisco(bien)
               /\ IF bien THEN /\ rep' = [rep EXCEPT !.off = @ + n, !.lee = @ \o [i \in 1..n |-> F.marcos[rep.off + i]]]
                               /\ Sigue(<<"mCuadro">>)
                  ELSE rep' = [rep EXCEPT !.res = -5] /\ Sigue(<<"mFin">>)
       /\ QuietoAudio /\ QuietoResto /\ UNCHANGED <<datosVars, dec, visto>>

(* A frame, or a byte that is none (0): at the end of the file that ends   *)
(* it all, before it is skipped.                                           *)
Mp3Cuadro ==
    /\ En("mCuadro")
    /\ IF rep.lee = <<>> \/ (rep.lee[1] = 0 /\ rep.off >= rep.k) THEN Sigue(<<"mFin">>) /\ rep' = [rep EXCEPT !.lee = <<>>]
       ELSE /\ rep' = [rep EXCEPT !.lee = Tail(@), !.pcm = rep.lee[1]]
            /\ Sigue(IF rep.lee[1] = 0 THEN <<"mBucle">> ELSE <<"atenderM", "mEncola">>)
    /\ SoloRep

(* mp3_encolar: until the driver takes it, or a key.                       *)
Mp3Encola ==
    /\ En("mEncola")
    /\ IF rep.cancelado THEN Sigue(<<"mFin">>) /\ UNCHANGED <<rep, hda, ac97>>
       ELSE IF Acepta(hda) THEN Encolar(rep.pcm) /\ Sigue(<<"mInicia">>) /\ rep' = [rep EXCEPT !.pcm = 0]
       ELSE Sigue(<<"atenderM", "mEncola">>) /\ UNCHANGED <<rep, hda, ac97>>
    /\ QuietoDatos /\ QuietoResto /\ UNCHANGED <<dec, visto, placa, reloj, oido>>

Arranco(h) == ~placa.usarHda \/ h.est = "reproduciendo"

Mp3Inicia ==
    LET ya == rep.ya \/ ColaOcupada(hda) < InicioMp3
        h == IF ya THEN hda ELSE IniciarStream(hda)
    IN /\ En("mInicia")
       /\ hda' = h
       /\ IF ya THEN Sigue(<<"mBucle">>) /\ UNCHANGED rep
          ELSE IF Arranco(h) THEN Sigue(<<"mBucle">>) /\ rep' = [rep EXCEPT !.ya = TRUE]
          ELSE Sigue(<<"mFin">>) /\ rep' = [rep EXCEPT !.res = -8]
       /\ QuietoDatos /\ QuietoResto /\ UNCHANGED <<dec, visto, ac97, placa, reloj, oido>>

(* A short song starts here; then the sound drains, 2 s at most.           *)
Mp3Fin ==
    LET sano == ~rep.cancelado /\ rep.res = 0
        h == IF sano /\ ~rep.ya /\ ColaOcupada(hda) > 0 THEN IniciarStream(hda) ELSE hda
        ya == rep.ya \/ (sano /\ ColaOcupada(hda) > 0 /\ Arranco(h))
    IN /\ En("mFin")
       /\ hda' = IF ya /\ sano THEN Drenar(h) ELSE h
       /\ rep' = [rep EXCEPT !.ya = ya, !.t0 = reloj,
                             !.res = IF sano /\ ~ya /\ ColaOcupada(hda) > 0 THEN -8 ELSE @]
       /\ Sigue(IF ya /\ sano THEN <<"mDrena">> ELSE <<"mAlto">>)
       /\ QuietoDatos /\ QuietoResto /\ UNCHANGED <<dec, visto, ac97, placa, reloj, oido>>

Mp3Drena ==
    /\ En("mDrena")
    /\ MiraReloj
    /\ Sigue(IF ~rep.cancelado /\ Sonando(hda, ac97') /\ reloj - rep.t0 < Ms1500 + Ms500 THEN <<"atenderM", "mDrena">> ELSE <<"mAlto">>)
    /\ UNCHANGED rep /\ QuietoSonido /\ QuietoDatos /\ QuietoResto /\ UNCHANGED <<dec, visto>>

Mp3Alto ==
    /\ En("mAlto")
    /\ Termina(IF rep.cancelado THEN 1 ELSE rep.res)
    /\ Detener
    /\ QuietoDatos /\ QuietoResto /\ UNCHANGED <<dec, visto, placa, reloj, oido>>

---------------------------------------------------------------------------
(* audio_aac_probar: every packet of the sound track of a module, decoded  *)
(* and thrown away; a walk that fails ends like one that is complete.      *)
AacAbrir ==
    /\ En("aac")
    /\ mp4' = [mp4 EXCEPT !.a = ParsearMoov(F).a]
    /\ IF BuscarMoov(F) < 0 \/ mp4'.a = 0 \/ esc.falta = "aac" THEN Termina(-1) ELSE Sigue(<<"aacToma">>) /\ UNCHANGED rep
    /\ QuietoAudio /\ QuietoResto /\ UNCHANGED <<anillo, colas, dec, disco, visto>>

AacToma ==
    LET s == SiguienteAudio(PistaDe("a"), colas["a"].cur, F.tam)
    IN /\ En("aacToma")
       /\ IF s[1] # 1 THEN Termina(IF rep.cuadros > 0 THEN 0 ELSE -1) /\ UNCHANGED <<mp4, colas>>
          ELSE /\ colas' = [colas EXCEPT !["a"].cur = s[2]]
               /\ mp4' = [mp4 EXCEPT !.aInd = @ + 1]
               /\ rep' = [rep EXCEPT !.pcm = F.pcm[s[3]]]
               /\ Sigue(<<"atender", "aacDec">>)
       /\ QuietoAudio /\ QuietoResto /\ UNCHANGED <<anillo, dec, disco, visto>>

AacDecodifica ==
    /\ En("aacDec")
    /\ IF rep.cancelado THEN Termina(1)
       ELSE Sigue(<<"aacToma">>) /\ rep' = [rep EXCEPT !.cuadros = IF rep.pcm # 0 THEN @ + 1 ELSE @]
    /\ SoloRep

---------------------------------------------------------------------------
(* The terminal: music in memory, once or for ever; stop; volume; and the  *)
(* poll of its loop.                                                       *)
Consola(sigue) ==
    /\ En("consola") /\ rep.k < MaxOrdenes /\ UNCHANGED pila
    /\ rep' = [rep EXCEPT !.k = @ + 1]
    /\ sigue
    /\ QuietoDatos /\ QuietoResto /\ UNCHANGED <<dec, visto, placa, reloj>>

Musica(n, bucle) == Consola(Reproducir(n, bucle) /\ oido' = 0)
MusicaDetener == Consola(Detener /\ UNCHANGED oido)
Volumen(delta) == Consola(FijarVolumen(delta) /\ UNCHANGED oido)
SondeoConsola ==
    /\ En("consola") /\ UNCHANGED pila
    /\ Actualizar
    /\ UNCHANGED rep /\ QuietoDatos /\ QuietoResto /\ UNCHANGED <<dec, visto, placa, reloj, oido>>

---------------------------------------------------------------------------
(* The boot starts the sound; then what is played is played.               *)
QuietoPlayer == UNCHANGED <<esc, pila, rep, mp4, anillo, colas, dec, disco, tecla, visto>>
ArrancaSonido ==
    /\ En("arranque") /\ QuietoPlayer
    /\ IniciarHda \/ IniciarListo \/ IniciarAc97 \/ \E tarde \in BOOLEAN : IniciarNodo(tarde)

Arranca ==
    /\ En("arranque") /\ placa.estado = "lista"
    /\ Sigue(CASE Prog = "cancion" -> <<"consola">>
               [] Prog = "mp3" -> <<"mp3">>
               [] Orden.modulo # esc.modulo -> <<>>
               [] Prog = "pelicula" /\ Orden.modulo = esc.modulo -> <<"abrir">>
               [] OTHER -> <<"aac">>)
    /\ UNCHANGED rep /\ SoloRep

(* Where the player polls, looks at the clock or reads the medium.         *)
Mira == {"atender", "atenderM", "espera", "drenando", "mDrena", "consola"}
Lee == {"atender", "llena", "demanda", "directo", "abrir", "mLee"}

Tiempo1 == pila # <<>> /\ Head(pila) \in Mira /\ Pasa /\ QuietoPlayer
AveriaSonido(campo) == pila # <<>> /\ Head(pila) \in Mira /\ Averia(campo) /\ QuietoPlayer

Tecla ==
    /\ pila # <<>> /\ Head(pila) \in {"atender", "atenderM"} /\ esc.tecla /\ ~tecla /\ ~rep.cancelado
    /\ tecla' = TRUE
    /\ QuietoAudio /\ QuietoDatos /\ UNCHANGED <<esc, pila, rep, dec, visto>>

Desenchufa ==
    /\ pila # <<>> /\ Head(pila) \in Lee /\ esc.saca /\ disco.vivo
    /\ disco' = [disco EXCEPT !.vivo = FALSE]
    /\ QuietoAudio /\ QuietoResto /\ UNCHANGED <<pila, rep, datosVars, dec, visto>>

Acabado == pila = <<>> /\ UNCHANGED vars

Pelicula ==
    \/ AbrirMemoria \/ AbrirFuente \/ Preparar \/ Prebuffer \/ PreToma \/ PreStream \/ ConfigurarAvcc
    \/ Bucle \/ Atender \/ Servir \/ Servido \/ Rellenar \/ Recargar("a", "recA") \/ Recargar("v", "recV")
    \/ Indice \/ LeerDirecto \/ LeerAnillo \/ LeerDemanda \/ LeerCopia \/ Tomar
    \/ Alimentar \/ AlimentarPaquete \/ AlimentarEncola \/ AlimentarFin
    \/ Nal \/ NuevoSps \/ NuevoPps \/ TerminaFoto \/ Vaciar("vaciaR", SpsDe(dec, dec.sl).reordenar) \/ Vaciar("vacia0", 0)
    \/ Corte \/ Foto \/ Refs \/ Macrobloques
    \/ Presentar \/ Tamano \/ Convertir \/ Pendiente("pp", FALSE) \/ Pendiente("ppE", TRUE)
    \/ Espera \/ EsperaRecarga \/ Dibujar \/ Pintar \/ DrenaFin \/ Drenando \/ Liberar

Mp3 == \/ AtenderMp3 \/ Mp3Cabecera \/ Mp3Bucle \/ Mp3Lee \/ Mp3Cuadro \/ Mp3Encola \/ Mp3Inicia
       \/ Mp3Fin \/ Mp3Drena \/ Mp3Alto \/ AacAbrir \/ AacToma \/ AacDecodifica

Next ==
    \/ ArrancaSonido \/ Arranca \/ Pelicula \/ Mp3
    \/ \E bucle \in BOOLEAN : Musica(esc.cancion, bucle)
    \/ MusicaDetener \/ SondeoConsola \/ \E delta \in {-40, 40} : Volumen(delta)
    \/ Tiempo1 \/ Tecla \/ Desenchufa \/ Acabado
    \/ \E campo \in {"dese", "fifoe", "muerto", "terco"} : AveriaSonido(campo)

Spec == Init /\ [][Next]_vars

---------------------------------------------------------------------------
(* Every sample that waits in a queue, and the one being decoded, holds    *)
(* the bytes the container's tables give it, at its time and in order:     *)
(* whatever the ring evicted, dropped or read twice, and however often the *)
(* buffer was compacted.                                                   *)
TiempoMuestra(t, i) ==
    LET por(tabla) == LET k == CHOOSE k \in DOMAIN tabla :
                                   /\ MapThenSumSet(LAMBDA j : tabla[j][1], 1..(k - 1)) < i
                                   /\ i <= MapThenSumSet(LAMBDA j : tabla[j][1], 1..k)
                      IN tabla[k][2]
    IN MapThenSumSet(LAMBDA j : LET k == CHOOSE k \in DOMAIN t.stts :
                                             /\ MapThenSumSet(LAMBDA l : t.stts[l][1], 1..(k - 1)) < j
                                             /\ j <= MapThenSumSet(LAMBDA l : t.stts[l][1], 1..k)
                                IN t.stts[k][2], 1..(i - 1))
       + IF t.ctts = <<>> THEN 0 ELSE por(t.ctts)

MuestraFiel(p, s) == Contenido(colas[p], s) = UnidadesMuestra(PistaDe(p), s.idx) /\ s.pts = TiempoMuestra(PistaDe(p), s.idx)

MuestrasFieles ==
    \A p \in Pistas : mp4[p] # 0 =>
        LET q == colas[p]
        IN /\ \A i \in DOMAIN q.m : MuestraFiel(p, q.m[i]) /\ q.m[i].idx = q.cur.indice - Len(q.m) + i
           /\ p = "a" /\ pila # <<>> => q.cur.indice - Len(q.m) = mp4.aInd
           /\ p = "v" /\ rep.uso # <<>> => MuestraFiel(p, rep.uso)

(* What is heard is what was queued, unit after unit, unless the driver    *)
(* was left alone for more than a block of sound or the controller does    *)
(* not obey a stop; a drain that ends by     *)
(* itself, with no silence mixed in, has played all that was accepted; and *)
(* with answers in time the driver knows the nodes of the codec as they    *)
(* are.                                                                    *)
Enlaza == oido' \in {oido, oido + 1} \/ (hda.bucle /\ oido = hda.pista) \/ (ac97.bucle /\ oido = ac97.tam) \/ oido' = 0

SonidoFiel ==
    [][/\ (~hda.hueco /\ ~hda'.hueco /\ ~hda.terco /\ (placa.usarHda \/ Prog = "cancion")) => Enlaza
       /\ (hda.est = "drenando" /\ hda'.est = "detenido" /\ pila # <<>> /\ Head(pila) \in {"atender", "atenderM"} /\ ~hda.mezcla /\ ~hda.hueco)
             => oido = hda.aceptado
       /\ (placa.usarHda /\ ~hda.tarde) =>
             {<<hda.nodos[k].nodo, hda.nodos[k].tipo>> : k \in DOMAIN hda.nodos}
               = LET n == Elegido(placa.hay.pci)[1].nodos IN {<<k, n[k]>> : k \in {j \in DOMAIN n : n[j] \in {0, 2, 4}}}]_vars

(* Every frame drawn is the picture its sample made, at its time, none     *)
(* after a later one, and no picture twice: but for those that waited when *)
(* a picture with mark 5 was done, which wait on with their old orders     *)
(* among the new and may come late (decodificador.c:164-170).  A slice     *)
(* predicts from the pictures it was coded against.  A film that ends well *)
(* has put out every picture but those an IDR bade drop.                   *)
PresentacionFiel ==
    [][/\ En("dibuja") =>
             /\ visto'.pts = TiempoMuestra(PistaDe("v"), visto'.id)
             /\ visto'.id \notin visto.dibujadas \union visto.omitidas
             /\ visto'.id \notin visto.pospuestas =>
                  \A i \in visto.dibujadas \ visto.pospuestas : TiempoMuestra(PistaDe("v"), i) < visto'.pts
       /\ En("refs") /\ Head(pila') # "drena" =>
             [i \in 1..dec.sl.nrefs |-> dec.fotos[dec'.lista[i]].id] = dec.sl.cita
       /\ En("pinta") /\ pila' = <<"drena">> /\ ~Para /\ ~Basta =>
             rep.cuadros = Len(PistaDe("v").stsz) - Cardinality(visto.omitidas)]_vars

=============================================================================
