------------------------------- MODULE Tramas -------------------------------
(***************************************************************************)
(* Traffic through the rings of the Ethernet driver                        *)
(* (controladores/red/e1000.c), from the state red_iniciar leaves. The     *)
(* driver is called by one thread and polls; it shares with the card the   *)
(* two rings of descriptors, their buffers and the four registers TDH,     *)
(* TDT, RDH and RDT. A card works on the descriptors from its head up to   *)
(* the tail, excluded: equal registers mean that it has nothing. It moves  *)
(* the head first and writes the status (the DD bit) back later, in order. *)
(*                                                                         *)
(*   txDd, txBuf    DD bit (0, 1) and buffer of each transmit descriptor   *)
(*   rxEst, rxBuf   status and buffer of each receive descriptor; "vacio"  *)
(*                  is a status without DD, "mala" one with errors or      *)
(*                  without EOP                                            *)
(*   txIdx, rxIdx   g_tx_idx, g_rx_idx                                     *)
(*   pc             where in red_enviar_trama or red_recibir_trama the     *)
(*                  thread is ("fuera": in neither)                        *)
(*   pedida         the frame red_enviar_trama was called with             *)
(*   vista, status, copia   rdh, status and the caller's buffer in         *)
(*                  red_recibir_trama (at rest outside the functions)      *)
(*   txHechas, rxHechas     status write-backs the card has done           *)
(*                                                                         *)
(* History: the frames accepted for sending and the frames on the wire;    *)
(* the frames the card stored, how many of them the driver has passed, and *)
(* the frames handed to the caller with their place among those stored.    *)
(***************************************************************************)
EXTENDS Integers, Sequences

CONSTANTS NumTx,             \* RED_TX_DESC_COUNT, 32
          NumRx,             \* RED_RX_DESC_COUNT, 64
          Contenidos,        \* what a frame may hold
          Cero,              \* what a zeroed buffer holds
          MaxEnvios,         \* bound: frames accepted for sending
          MaxLlegadas        \* bound: frames that come in

ASSUME TramasAssumption ==
    /\ NumTx \in Nat \ {0} /\ NumRx \in Nat \ {0, 1}
    /\ Cero \in Contenidos /\ MaxEnvios \in Nat /\ MaxLlegadas \in Nat

VARIABLES pc, pedida, ultimoError, txIdx, tdh, tdt, txDd, txBuf, txHechas,
          aceptadas, cable,
          vista, status, copia, rxIdx, rdh, rdt, rxEst, rxBuf, rxHechas,
          llegadas, leidas, entregadas

locales == <<pc, pedida, ultimoError, vista, status, copia>>
txVars == <<txIdx, tdh, tdt, txDd, txBuf, txHechas, aceptadas, cable>>
rxVars == <<rxIdx, rdh, rdt, rxEst, rxBuf, rxHechas, llegadas, leidas, entregadas>>
vars == <<pc, pedida, ultimoError, txIdx, tdh, tdt, txDd, txBuf, txHechas, aceptadas, cable,
          vista, status, copia, rxIdx, rdh, rdt, rxEst, rxBuf, rxHechas, llegadas, leidas, entregadas>>

DescTx == 0 .. (NumTx - 1)
DescRx == 0 .. (NumRx - 1)
Calidades == {"buena", "mala"}
Pasos == {"fuera", "espera", "escribe", "publica", "lee", "mira", "copia", "limpia", "devuelve"}

(* red_asignar_anillos zeroes both rings and marks the transmit            *)
(* descriptors done, so that they are the driver's; red_configurar_rx      *)
(* gives the card all receive descriptors but one.                         *)
Init ==
    /\ pc = "fuera" /\ ultimoError = 0
    /\ pedida = Cero /\ copia = Cero /\ vista = 0 /\ status = "vacio"
    /\ txIdx = 0 /\ tdh = 0 /\ tdt = 0 /\ txHechas = 0
    /\ txDd = [i \in DescTx |-> 1] /\ txBuf = [i \in DescTx |-> Cero]
    /\ aceptadas = <<>> /\ cable = <<>>
    /\ rxIdx = 0 /\ rdh = 0 /\ rdt = NumRx - 1 /\ rxHechas = 0
    /\ rxEst = [i \in DescRx |-> "vacio"] /\ rxBuf = [i \in DescRx |-> Cero]
    /\ llegadas = <<>> /\ leidas = 0 /\ entregadas = <<>>

(***************************************************************************)
(* red_enviar_trama, of a frame that fits a buffer.                        *)
(***************************************************************************)
EnviarEntra(t) ==
    /\ pc = "fuera" /\ Len(aceptadas) < MaxEnvios
    /\ pedida' = t /\ pc' = "espera"
    /\ UNCHANGED <<txVars, rxVars, ultimoError, vista, status, copia>>

(* Mutation: the DD bit of the descriptor is not waited for. *)
EnviarSinEsperar ==
    /\ pc = "espera"
    /\ pc' = "escribe"
    /\ UNCHANGED <<txVars, rxVars, pedida, ultimoError, vista, status, copia>>

(* The descriptor is the driver's, at once or within the 200 ms. *)
EnviarLibre ==
    /\ pc = "espera" /\ txDd[txIdx] = 1
    /\ pc' = "escribe"
    /\ UNCHANGED <<txVars, rxVars, pedida, ultimoError, vista, status, copia>>

(* The 200 ms pass without DD: the call fails and nothing was written. *)
EnviarAgota ==
    /\ pc = "espera" /\ txDd[txIdx] = 0
    /\ ultimoError' = 2 /\ pc' = "fuera" /\ pedida' = Cero
    /\ UNCHANGED <<txVars, rxVars, vista, status, copia>>

EnviarEscribe ==
    /\ pc = "escribe"
    /\ txDd' = [txDd EXCEPT ![txIdx] = 0]
    /\ txBuf' = [txBuf EXCEPT ![txIdx] = pedida]
    /\ pc' = "publica"
    /\ UNCHANGED <<rxVars, pedida, ultimoError, vista, status, copia, txIdx, tdh, tdt, txHechas, aceptadas, cable>>

EnviarPublica ==
    /\ pc = "publica"
    /\ txIdx' = (txIdx + 1) % NumTx /\ tdt' = (txIdx + 1) % NumTx
    /\ aceptadas' = Append(aceptadas, pedida)
    /\ pc' = "fuera" /\ pedida' = Cero
    /\ UNCHANGED <<rxVars, ultimoError, vista, status, copia, tdh, txDd, txBuf, txHechas, cable>>

(***************************************************************************)
(* red_recibir_trama.                                                      *)
(***************************************************************************)
RecibirEntra ==
    /\ pc = "fuera" /\ pc' = "lee"
    /\ UNCHANGED <<txVars, rxVars, pedida, ultimoError, vista, status, copia>>

(* RDH is read on entry and after every bad frame. *)
RecibirLee ==
    /\ pc = "lee"
    /\ vista' = rdh /\ pc' = "mira"
    /\ UNCHANGED <<txVars, rxVars, pedida, ultimoError, status, copia>>

(* The loop ends at the head it saw, or at a descriptor that was not       *)
(* written back yet.                                                       *)
RecibirMira ==
    /\ pc = "mira"
    /\ \/ /\ rxIdx = vista \/ rxEst[rxIdx] = "vacio"
          /\ pc' = "fuera" /\ status' = "vacio"
       \/ /\ rxIdx /= vista /\ rxEst[rxIdx] /= "vacio"
          /\ pc' = "copia" /\ status' = rxEst[rxIdx]
    /\ vista' = 0
    /\ UNCHANGED <<txVars, rxVars, pedida, ultimoError, copia>>

RecibirCopia ==
    /\ pc = "copia"
    /\ copia' = IF status = "buena" THEN rxBuf[rxIdx] ELSE copia
    /\ pc' = "limpia"
    /\ UNCHANGED <<txVars, rxVars, pedida, ultimoError, vista, status>>

(* Mutation: the status of the descriptor is left as it was. *)
RecibirSinLimpiar ==
    /\ pc = "limpia" /\ pc' = "devuelve"
    /\ UNCHANGED <<txVars, rxVars, pedida, ultimoError, vista, status, copia>>

RecibirLimpia ==
    /\ pc = "limpia"
    /\ rxEst' = [rxEst EXCEPT ![rxIdx] = "vacio"]
    /\ pc' = "devuelve"
    /\ UNCHANGED <<txVars, pedida, ultimoError, vista, status, copia,
                   rxIdx, rdh, rdt, rxBuf, rxHechas, llegadas, leidas, entregadas>>

(* Mutation: the tail is moved past the descriptor just read. *)
RecibirPasoDeMas ==
    /\ pc = "devuelve"
    /\ rdt' = (rxIdx + 1) % NumRx /\ rxIdx' = (rxIdx + 1) % NumRx
    /\ leidas' = leidas + 1
    /\ \/ /\ status = "buena" /\ pc' = "fuera"
          /\ entregadas' = Append(entregadas, [lugar |-> leidas + 1, trama |-> copia])
       \/ /\ status /= "buena" /\ pc' = "lee"
          /\ entregadas' = entregadas
    /\ status' = "vacio" /\ copia' = Cero
    /\ UNCHANGED <<txVars, pedida, ultimoError, vista, rdh, rxEst, rxBuf, rxHechas, llegadas>>

(* The tail is moved to the descriptor just read, which gives the card the *)
(* one before it. A good frame ends the call.                              *)
RecibirDevuelve ==
    /\ pc = "devuelve"
    /\ rdt' = rxIdx /\ rxIdx' = (rxIdx + 1) % NumRx
    /\ leidas' = leidas + 1
    /\ \/ /\ status = "buena" /\ pc' = "fuera"
          /\ entregadas' = Append(entregadas, [lugar |-> leidas + 1, trama |-> copia])
       \/ /\ status /= "buena" /\ pc' = "lee"
          /\ entregadas' = entregadas
    /\ status' = "vacio" /\ copia' = Cero
    /\ UNCHANGED <<txVars, pedida, ultimoError, vista, rdh, rxEst, rxBuf, rxHechas, llegadas>>

(***************************************************************************)
(* The card. TarjetaEnvia and TarjetaGuarda move a head; the other two     *)
(* write the oldest status that is missing.                                *)
(***************************************************************************)
TarjetaEnvia ==
    /\ tdh /= tdt
    /\ cable' = Append(cable, txBuf[tdh]) /\ tdh' = (tdh + 1) % NumTx
    /\ UNCHANGED <<locales, rxVars, txIdx, tdt, txDd, txBuf, txHechas, aceptadas>>

TarjetaAcaba ==
    /\ txHechas < Len(cable)
    /\ txDd' = [txDd EXCEPT ![txHechas % NumTx] = 1] /\ txHechas' = txHechas + 1
    /\ UNCHANGED <<locales, rxVars, txIdx, tdh, tdt, txBuf, aceptadas, cable>>

TarjetaGuarda(t, c) ==
    /\ rdh /= rdt /\ Len(llegadas) < MaxLlegadas
    /\ rxBuf' = [rxBuf EXCEPT ![rdh] = t] /\ rdh' = (rdh + 1) % NumRx
    /\ llegadas' = Append(llegadas, [trama |-> t, calidad |-> c])
    /\ UNCHANGED <<locales, txVars, rxIdx, rdt, rxEst, rxHechas, leidas, entregadas>>

TarjetaAnota ==
    /\ rxHechas < Len(llegadas)
    /\ rxEst' = [rxEst EXCEPT ![rxHechas % NumRx] = llegadas[rxHechas + 1].calidad]
    /\ rxHechas' = rxHechas + 1
    /\ UNCHANGED <<locales, txVars, rxIdx, rdh, rdt, rxBuf, llegadas, leidas, entregadas>>

Enviar == EnviarLibre \/ EnviarAgota \/ EnviarEscribe \/ EnviarPublica
Recibir == RecibirLee \/ RecibirMira \/ RecibirCopia \/ RecibirLimpia \/ RecibirDevuelve
Tarjeta == TarjetaEnvia \/ TarjetaAcaba \/ TarjetaAnota

Next ==
    \/ \E t \in Contenidos : EnviarEntra(t)
    \/ Enviar
    \/ RecibirEntra
    \/ Recibir
    \/ Tarjeta
    \/ \E t \in Contenidos, c \in Calidades : TarjetaGuarda(t, c)

Spec == Init /\ [][Next]_vars

(***************************************************************************)
(* Properties.                                                             *)
(***************************************************************************)
TypeOK ==
    /\ pc \in Pasos /\ ultimoError \in {0, 2}
    /\ pedida \in Contenidos /\ copia \in Contenidos
    /\ vista \in DescRx /\ status \in Calidades \cup {"vacio"}
    /\ txIdx \in DescTx /\ tdh \in DescTx /\ tdt \in DescTx /\ txHechas \in Nat
    /\ txDd \in [DescTx -> {0, 1}] /\ txBuf \in [DescTx -> Contenidos]
    /\ aceptadas \in Seq(Contenidos) /\ cable \in Seq(Contenidos)
    /\ rxIdx \in DescRx /\ rdh \in DescRx /\ rdt \in DescRx /\ rxHechas \in Nat
    /\ rxEst \in [DescRx -> Calidades \cup {"vacio"}] /\ rxBuf \in [DescRx -> Contenidos]
    /\ llegadas \in Seq([trama : Contenidos, calidad : Calidades])
    /\ leidas \in Nat /\ entregadas \in Seq([lugar : Nat, trama : Contenidos])

CableFiel == \A n \in 1 .. Len(cable) : n <= Len(aceptadas) /\ cable[n] = aceptadas[n]

ParadaConRazon == tdh = tdt => Len(aceptadas) \in {Len(cable), Len(cable) + NumTx}

(* What goes out on the wire is what red_enviar_trama accepted, frame by   *)
(* frame and in the same order: no buffer is written again before the card *)
(* has taken the frame in it. The card, which stops when the registers are *)
(* equal, stops with frames to send only when every descriptor of the ring *)
(* holds one: filling the ring (e1000.c:607) is the one way to be stuck.   *)
EnviosFieles == CableFiel /\ ParadaConRazon

(* Of the frames the card stored and the driver has passed, the good ones  *)
(* were handed to the caller, once, in order and with their contents, and  *)
(* no bad one was: the status the driver goes by is the one of the frame   *)
(* in the buffer, although RDH moves before the status is written.         *)
EntregasFieles ==
    /\ \A j \in 1 .. Len(entregadas) :
           /\ entregadas[j].lugar \in 1 .. leidas /\ entregadas[j].lugar <= Len(llegadas)
           /\ llegadas[entregadas[j].lugar]
                 = [trama |-> entregadas[j].trama, calidad |-> "buena"]
    /\ \A i, j \in 1 .. Len(entregadas) : i < j => entregadas[i].lugar < entregadas[j].lugar
    /\ \A n \in 1 .. leidas :
           llegadas[n].calidad = "buena" => \E j \in 1 .. Len(entregadas) : entregadas[j].lugar = n

(* red_recibir_trama finds nothing only when it has passed every frame the *)
(* card has written back, unless the head moved since it looked at it; and *)
(* when it has passed all, the card has room for one more: the tail it     *)
(* gives back never makes a full ring look empty to it or to the card.     *)
VacioFiel ==
    [][RecibirMira /\ pc' = "fuera" /\ vista = rdh =>
           leidas = rxHechas /\ (leidas = Len(llegadas) => rdh /= rdt)]_vars

=============================================================================
