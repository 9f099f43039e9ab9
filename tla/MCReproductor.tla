--------------------------- MODULE MCReproductor ----------------------------
(***************************************************************************)
(* The instance of Reproductor that TLC checks.                            *)
(*                                                                         *)
(* A film of four pictures (I, P, a B shown between them, P) and seven     *)
(* sound packets, in chunks that alternate; another with its sound after   *)
(* its pictures and a change of size at an IDR; one with long-term         *)
(* references; one whose orders begin again while a picture waits; one     *)
(* with new parameter sets and an IDR that drops the picture that waits;   *)
(* films that must be refused; a song as MP3.                              *)
(***************************************************************************)
EXTENDS Reproductor, TLC

Sps == [nal |-> "sps", id |-> 0, restringido |-> FALSE, perfil |-> 100, croma |-> 1, profundidad |-> 0, matrices |-> FALSE,
        pocTipo |-> 0, refs |-> 2, huecos |-> FALSE, mbs |-> 2, frameSolo |-> TRUE, recorte |-> 0, dim |-> 1,
        maxFn |-> 4, maxLsb |-> 8, vui |-> [hay |-> TRUE, tick |-> 1, dpb |-> 2, reordenar |-> 1]]
Pps == [nal |-> "pps", id |-> 0, sps |-> 0, cabac |-> TRUE, fmo |-> FALSE, nrefs |-> 2, bipred |-> 0, qp |-> 26, matrices |-> FALSE]

Corte0 == [nal |-> "corte", primero |-> 0, fin |-> 2, tipo |-> "P", idr |-> FALSE, ref |-> TRUE, fn |-> 0, lsb |-> 0, pps |-> 0,
           adapt |-> FALSE, marcas |-> <<>>, omitir |-> FALSE, larga |-> FALSE, nrefs |-> 1, reord |-> <<>>, qp |-> 26,
           malo |-> "no", cita |-> <<1>>]
CorteI == [Corte0 EXCEPT !.tipo = "I", !.idr = TRUE, !.nrefs = 0, !.cita = <<>>]

Caja(tipo, tam) == [tipo |-> tipo, tam |-> tam, cab |-> 1]

TrakV(stsz, stsc, stco) ==
    [hdlr |-> "vide", escala |-> 1, codec |-> "avc1", descripciones |-> 1, stsz |-> stsz, stsc |-> stsc, stco |-> stco,
     stts |-> <<<<4, 2>>>>, ctts |-> <<<<1, 2>>, <<1, 4>>, <<1, 0>>, <<1, 2>>>>]
TrakA(n, stsc, stco) ==
    [hdlr |-> "soun", escala |-> 1, codec |-> "mp4a", descripciones |-> 1, stsz |-> [i \in 1..n |-> 1], stsc |-> stsc, stco |-> stco,
     stts |-> <<<<n, 1>>>>, ctts |-> <<>>]

(* Units 3 to 15: V1 (two slices), A1 A2, V2 V3, A3 A4 A5, V4, A6 A7.      *)
Alternada ==
    [tam |-> 15, cajas |-> (0 :> Caja("ftyp", 1)) @@ (1 :> Caja("moov", 1)) @@ (2 :> Caja("mdat", 0)),
     traks |-> <<TrakV(<<2, 1, 1, 1>>, <<<<1, 1>>, <<2, 2>>, <<3, 1>>>>, <<3, 7, 12>>),
                 TrakA(7, <<<<1, 2>>, <<2, 3>>, <<3, 2>>>>, <<5, 9, 13>>)>>,
     sps |-> Sps, pps |-> Pps,
     nal |-> (3 :> [CorteI EXCEPT !.fin = 1]) @@ (4 :> [CorteI EXCEPT !.primero = 1])
             @@ (7 :> [Corte0 EXCEPT !.fn = 1, !.lsb = 4])
             @@ (8 :> [Corte0 EXCEPT !.fn = 2, !.lsb = 2, !.tipo = "B", !.ref = FALSE, !.nrefs = 2, !.cita = <<1, 2>>])
             @@ (12 :> [Corte0 EXCEPT !.fn = 2, !.lsb = 6, !.nrefs = 2, !.cita = <<2, 1>>]),
     pcm |-> [u \in 0..15 |-> CASE u \in 5..6 -> u - 4 [] u \in 9..11 -> u - 6 [] u \in 13..14 -> u - 7 [] OTHER -> 0],
     tag |-> 0, cola |-> 0, marcos |-> <<>>]

(* Units: moov last but one; V1, V2, V3, V4 (a new SPS and an IDR), then    *)
(* all the sound.  P3 is predicted from picture 1 by a reordering, with a  *)
(* mark that lets go of picture 2.                                         *)
Separada ==
    [tam |-> 17, cajas |-> (0 :> Caja("ftyp", 1)) @@ (1 :> Caja("moov", 1)) @@ (2 :> Caja("mdat", 0)),
     traks |-> <<[TrakV(<<1, 1, 2, 2>>, <<<<1, 2>>>>, <<3, 5>>) EXCEPT !.ctts = <<>>], TrakA(8, <<<<1, 8>>>>, <<9>>)>>,
     sps |-> Sps, pps |-> Pps,
     nal |-> (3 :> CorteI) @@ (4 :> [Corte0 EXCEPT !.fn = 1, !.lsb = 2])
             @@ (5 :> [nal |-> "sei"])
             @@ (6 :> [Corte0 EXCEPT !.fn = 2, !.lsb = 4, !.reord = <<<<0, 1>>>>, !.adapt = TRUE, !.marcas = <<<<1, 0, 0>>>>])
             @@ (7 :> [Sps EXCEPT !.dim = 2]) @@ (8 :> CorteI),
     pcm |-> [u \in 0..17 |-> IF u \in 9..16 THEN u - 8 ELSE 0],
     tag |-> 0, cola |-> 0, marcos |-> <<>>]

(* A tag, six frames with a piece of something else among them, a tag.     *)
Cancion3 == [Alternada EXCEPT !.tam = 9, !.tag = 1, !.cola = 1, !.marcos = <<0, 1, 2, 0, 3, 4, 5, 6, 0>>]

(* Long-term pictures: the second marks itself, the third keeps the first  *)
(* as long-term 0 and predicts from it by a reordering, the fourth lets go *)
(* of everything; an end of sequence closes.                               *)
Largas4 ==
    [Separada EXCEPT
       !.traks = <<[TrakV(<<1, 1, 1, 2>>, <<<<1, 4>>>>, <<3>>) EXCEPT !.ctts = <<>>]>>,
       !.nal = (3 :> CorteI)
               @@ (4 :> [Corte0 EXCEPT !.fn = 1, !.lsb = 2, !.adapt = TRUE, !.marcas = <<<<4, 2, 0>>, <<3, 0, 0>>>>])
               @@ (5 :> [Corte0 EXCEPT !.fn = 2, !.lsb = 4, !.nrefs = 2, !.reord = <<<<2, 0>>>>, !.cita = <<1, 2>>,
                                       !.adapt = TRUE, !.marcas = <<<<2, 0, 0>>, <<6, 1, 0>>>>])
               @@ (6 :> [Corte0 EXCEPT !.fn = 3, !.lsb = 6, !.nrefs = 2, !.cita = <<2, 3>>])
               @@ (7 :> [nal |-> "fin"])]

(* The third picture starts the orders again while the second waits, which *)
(* then comes out after the third and the fourth.                          *)
Reinicio ==
    [Separada EXCEPT
       !.traks = <<[TrakV(<<1, 1, 1, 1>>, <<<<1, 4>>>>, <<3>>) EXCEPT !.ctts = <<>>]>>,
       !.nal = (3 :> CorteI) @@ (4 :> [Corte0 EXCEPT !.fn = 1, !.lsb = 4])
               @@ (5 :> [Corte0 EXCEPT !.fn = 2, !.lsb = 6, !.nrefs = 2, !.cita = <<2, 1>>, !.adapt = TRUE, !.marcas = <<<<5, 0, 0>>>>])
               @@ (6 :> [Corte0 EXCEPT !.fn = 1, !.lsb = 2, !.cita = <<3>>])]

(* New parameter sets inside the third sample, whose IDR drops the second  *)
(* picture, which waits.                                                   *)
Omite ==
    [Separada EXCEPT
       !.traks = <<[TrakV(<<1, 1, 3, 1>>, <<<<1, 4>>>>, <<3>>) EXCEPT !.ctts = <<>>]>>,
       !.nal = (3 :> CorteI) @@ (4 :> [Corte0 EXCEPT !.fn = 1, !.lsb = 2])
               @@ (5 :> Sps) @@ (6 :> Pps) @@ (7 :> [CorteI EXCEPT !.omitir = TRUE])
               @@ (8 :> [Corte0 EXCEPT !.fn = 1, !.lsb = 2, !.cita = <<3>>])]

(* Streams and files the player refuses.                                   *)
CorteMalo(nal, malo) == [Separada EXCEPT !.nal[nal].malo = malo]
SinReferencia == [Separada EXCEPT !.nal[6].reord = <<<<0, 2>>>>]
NalRaro == [Separada EXCEPT !.nal[5].nal = "raro"]
MarcaMala == [Separada EXCEPT !.nal[6].marcas = <<<<1, 2, 0>>>>]
Incompleta == [Alternada EXCEPT !.nal[4].fin = 1]
PpsNuevoMalo == [Omite EXCEPT !.nal[6].fmo = TRUE]
SpsMalo == [Separada EXCEPT !.nal[7].huecos = TRUE]
PpsMalo == [Separada EXCEPT !.pps.fmo = TRUE]
CajaLarga == [Separada EXCEPT !.cajas[1].tam = 99]
TablaCorta == [Separada EXCEPT !.traks[1].stts[1][1] = 3]
Fuera == [Separada EXCEPT !.traks[1].stco[2] = 15]
Enorme == [Separada EXCEPT !.traks[1].stsz[3] = 5]
Refusadas == {CorteMalo(3, "intra"), CorteMalo(3, "prediccion"), CorteMalo(4, "sintaxis"), CorteMalo(4, "inter"),
              CorteMalo(4, "residuo"), SinReferencia, NalRaro, MarcaMala, Incompleta, SpsMalo, PpsMalo, PpsNuevoMalo, CajaLarga, TablaCorta, Fuera, Enorme}

Nodos == <<0, 3, 2, 4>>
Hda(intel) == [intel |-> intel, bar |-> TRUE, crst |-> TRUE, codec |-> TRUE, oss |-> TRUE, memoria |-> TRUE, nodos |-> Nodos]
ConHda == [pci |-> <<[Hda(FALSE) EXCEPT !.codec = FALSE], Hda(TRUE)>>, dpib |-> TRUE, ac97 |-> FALSE, vra |-> FALSE, averias |-> 0]
HdaRota == [ConHda EXCEPT !.averias = 1]
SinDpib == [ConHda EXCEPT !.dpib = FALSE]
ConAc97 == [pci |-> <<[Hda(TRUE) EXCEPT !.memoria = FALSE]>>, dpib |-> FALSE, ac97 |-> TRUE, vra |-> TRUE, averias |-> 0]
Muda == [ConAc97 EXCEPT !.ac97 = FALSE]

MCPlacas == {ConHda, HdaRota, SinDpib, ConAc97, Muda}

Base == [por |-> "pelicula", arg |-> "interactivo", modulo |-> "fichero", fuente |-> "usb", archivo |-> Alternada,
         placa |-> ConHda, falta |-> "nada", tecla |-> FALSE, saca |-> FALSE, averias |-> 0, cancion |-> 3]
EnRam(por, arg) == [Base EXCEPT !.por = por, !.arg = arg, !.modulo = "360p", !.fuente = "ram", !.placa = Muda]
Mp3s == [Base EXCEPT !.por = "mp3", !.archivo = Cancion3]
Cancion == [Base EXCEPT !.por = "cancion"]

(* With sound: the film with a key, the film whose tracks lie apart, a     *)
(* card without a position buffer and a player without a ring, AC97.       *)
ConSonido ==
    {[Base EXCEPT !.tecla = TRUE], [Base EXCEPT !.archivo = Separada],
     [Base EXCEPT !.placa = SinDpib, !.falta = "anillo", !.averias = 1], [Base EXCEPT !.placa = ConAc97]}

(* A disk that fails or is pulled, scarce memory, modules in memory, films *)
(* the player refuses, commands that play nothing.                         *)
SinSonido ==
    {[Base EXCEPT !.placa = Muda, !.averias = 1, !.tecla = TRUE, !.saca = TRUE], [Base EXCEPT !.archivo = CajaLarga]}
    \union {[Base EXCEPT !.placa = Muda, !.falta = x] : x \in {"decodificador", "aac", "colas", "rgb"}}
    \union {[EnRam("h264", x) EXCEPT !.archivo = a] : a \in {Separada, Largas4}, x \in {"prueba", "bench"}}
    \union {[EnRam("h264", x) EXCEPT !.archivo = a] : a \in {Reinicio, Omite}, x \in {"360p", "bench"}}
    \union {[EnRam("h264", "prueba") EXCEPT !.archivo = a] : a \in Refusadas}
    \union {[EnRam("arranque", "h264=smoke1080") EXCEPT !.modulo = "1080p"], EnRam("h264", "1080p"), EnRam("h264", "cpu 2")}
    \union {[EnRam("aac", "todo") EXCEPT !.tecla = TRUE], [EnRam("aac", "todo") EXCEPT !.falta = "aac"]}

Canciones ==
    {[Mp3s EXCEPT !.tecla = TRUE, !.saca = TRUE, !.averias = 1], [Mp3s EXCEPT !.placa = HdaRota],
     [Mp3s EXCEPT !.placa = ConAc97], [Mp3s EXCEPT !.placa = Muda], [Mp3s EXCEPT !.falta = "decodificador"]}
    \union {[Cancion EXCEPT !.placa = p] : p \in {HdaRota, SinDpib, ConAc97}}

MCEscenarios == ConSonido \union SinSonido \union Canciones
=============================================================================
