-------------------------------- MODULE Xhci --------------------------------
(***************************************************************************)
(* The xHCI driver (controladores/xhci.c) and the host controller it       *)
(* talks to.  The driver is one thread: it polls, it enumerates the        *)
(* device of a port with a chain of commands and control transfers, and    *)
(* every wait is a loop that pumps the one event ring and looks at a       *)
(* mailbox until a deadline.  The controller, the devices and the hand     *)
(* that plugs them run beside it, between any two polls.                   *)
(*                                                                         *)
(*   bus, enchufes   what is plugged in: a plug is numbered, so a device   *)
(*                   taken out and put back is another plug                *)
(*   hw              the controller: slots, transfer queues, halted        *)
(*                   endpoints, its place in the command ring              *)
(*   ev              the event ring, oldest event first                    *)
(*   an              the command ring in memory and the driver's place     *)
(*   buzonCmd, buzon the mailboxes of xhci_bombear_eventos                 *)
(*   tab             the tables of the driver (ports, slots, endpoints)    *)
(*   dma             the DMA buffers that are allocated                    *)
(*   pc, loc         the driver's place and the locals of its call         *)
(*                                                                         *)
(* Transfer rings are queues: their index and cycle arithmetic is the one  *)
(* of the command ring, which is kept.  An endpoint is a pair slot, DCI:   *)
(* 1 is EP0, 2 the bulk OUT of a disk, 3 its bulk IN or the interrupt IN   *)
(* of a keyboard.                                                          *)
(***************************************************************************)
EXTENDS Integers, Sequences, FiniteSets

CONSTANTS Puertos,      \* root ports, 1..n
          Ranuras,      \* device slots, 1..n (XHCI_MAX_SLOTS)
          Tipos,        \* kinds of device: "teclado", "disco", "otro"
          TamAnillo,    \* TRBs of the command ring, the last one a link (64)
          Rafaga,       \* reports armed at once on an interrupt endpoint (4)
          MaxBulk,      \* entries of g_bulk_eps (8)
          MaxTeclas,    \* places of g_buffer_teclado (256)
          MaxUnidades,  \* USB_MSC_MAX_DISPOSITIVOS (4)
          MaxFallos,    \* deadlines that pass too soon, errors, lost buffers
          MaxSucesos,   \* plugs, unplugs and forced resets
          MaxReportes,  \* reports sent by keyboards
          PuestosAlArrancar  \* kind of the device in each port at boot, or "nada"

(* Two commands at least fit before the link.                              *)
ASSUME AnilloAssumption == TamAnillo \in Nat /\ TamAnillo > 2

(* Ports, slots and units are counted from 1: 0 is none.                   *)
ASSUME PuertosAssumption == Puertos \subseteq Nat \ {0}
ASSUME RanurasAssumption == Ranuras \subseteq Nat \ {0}
ASSUME UnidadesAssumption == MaxUnidades \in Nat

VARIABLES bus, enchufes, hw, ev, an, buzonCmd, buzon, captura, tab, hid, unidades, dma,
          pc, loc, gasto, fantasma

xhciVars == <<bus, enchufes, hw, ev, an, buzonCmd, buzon, captura, tab, hid, unidades, dma,
              pc, loc, gasto, fantasma>>

EP0 == 1
SALE == 2
ENTRA == 3
Dci == {EP0, SALE, ENTRA}
Bien == {1, 13}          \* Success, Short Packet

(* What a call keeps on its stack: nothing between calls.                  *)
LocVacio == [modo |-> "no", p |-> 0, s |-> 0, d |-> 0, bufs |-> {}, ret |-> "ocio", res |-> "ok",
             espera |-> 0, op |-> "no", etiqueta |-> 0, u |-> 0, intento |-> 0]

(* The command ring as xhci_iniciar leaves it, and as an abort rebuilds it: *)
(* all zero but the link, whose cycle bit only the rebuild sets.            *)
Anillo(c) == [celdas |-> [i \in 0..(TamAnillo - 1) |->
                            [ciclo |-> IF i = TamAnillo - 1 THEN c ELSE 0, tipo |-> "nada", slot |-> 0, p |-> 0]],
              idx |-> 0, ciclo |-> 1, disponible |-> TRUE]

RanuraLibre == [est |-> "libre", g |-> 0, ctx |-> 0]

Presente(g) == g > 0 /\ \E p \in Puertos : bus[p] = g

Falla == gasto.fallos < MaxFallos /\ gasto' = [gasto EXCEPT !.fallos = @ + 1]

-----------------------------------------------------------------------------
(* xhci_iniciar finds the controller, takes it from the BIOS, resets it    *)
(* and allocates every ring; the driver is then about to look at port 1.   *)
HwInicio == [ran |-> [s \in Ranuras |-> RanuraLibre],
             colas |-> [s \in Ranuras |-> [d \in Dci |-> <<>>]],
             paradas |-> {}, idx |-> 0, ciclo |-> 1]

TablasInicio == [ccs |-> [p \in Puertos |-> 0], puertoSlot |-> [p \in Puertos |-> 0],
                 slotPuerto |-> [s \in Ranuras |-> 0], slotCtx |-> [s \in Ranuras |-> 0],
                 dcbaa |-> [s \in Ranuras |-> 0], bulk |-> {}, cambio |-> FALSE]

HidInicio == [est |-> [s \in Ranuras |-> "no"], bufer |-> [s \in Ranuras |-> 0],
              ultimo |-> [s \in Ranuras |-> 0], teclas |-> <<>>]

(* g is the plug the unit was registered for; no code reads it.            *)
UnidadLibre == [activo |-> FALSE, listo |-> FALSE, slot |-> 0, g |-> 0]

XhciInit ==
  LET hay(n) == Len(SelectSeq(SubSeq(PuestosAlArrancar, 1, n), LAMBDA t : t # "nada"))
  IN /\ bus = [p \in Puertos |-> IF PuestosAlArrancar[p] = "nada" THEN 0 ELSE hay(p)]
     /\ enchufes = SelectSeq(PuestosAlArrancar, LAMBDA t : t # "nada")
     /\ hw = HwInicio /\ ev = <<>> /\ an = Anillo(0)
     /\ buzonCmd = <<>> /\ buzon = [s \in Ranuras |-> [d \in Dci |-> 0]]
     /\ captura = [activo |-> FALSE, codigos |-> <<>>]
     /\ tab = TablasInicio /\ hid = HidInicio /\ unidades = [u \in 1..MaxUnidades |-> UnidadLibre]
     /\ dma = {} /\ pc = "escanea" /\ loc = [LocVacio EXCEPT !.modo = "inicial", !.p = 1]
     /\ gasto = [fallos |-> 0, sucesos |-> 0, reportes |-> 0]
     /\ fantasma = [vencidas |-> {}, retiradas |-> {}, huerfanas |-> {}, pisada |-> FALSE,
                    tapada |-> 0, ajena |-> 0]

-----------------------------------------------------------------------------
(* The three ways a step of the driver ends: with a command, with a        *)
(* control transfer, or with nothing to wait for.                          *)

(* xhci_enviar_comando, up to the doorbell: refuse on a ring that an abort *)
(* left running, empty the mailbox, write the TRB with the cycle bit and,  *)
(* after the last one, the link that turns the cycle over.                 *)
Encola(a, trb) ==
  LET con == [a.celdas EXCEPT ![a.idx] = trb]
  IN IF a.idx + 1 >= TamAnillo - 1
     THEN [a EXCEPT !.celdas = [con EXCEPT ![TamAnillo - 1].ciclo = a.ciclo], !.idx = 0, !.ciclo = 1 - a.ciclo]
     ELSE [a EXCEPT !.celdas = con, !.idx = @ + 1]

(* Completions that were under way belong to commands before this one.     *)
Envejece == [i \in DOMAIN ev |-> IF ev[i].t = "comando" THEN [ev[i] EXCEPT !.vieja = 1] ELSE ev[i]]

EnviarComando(l, tipo, s, ret) ==
  /\ IF an.disponible
     THEN /\ an' = Encola(an, [ciclo |-> an.ciclo, tipo |-> tipo, slot |-> s, p |-> l.p])
          /\ buzonCmd' = <<>> /\ ev' = Envejece /\ pc' = "comando"
          /\ loc' = [l EXCEPT !.ret = ret, !.espera = an.idx]
     ELSE /\ pc' = ret /\ loc' = [l EXCEPT !.res = "mal"]
          /\ UNCHANGED <<an, buzonCmd, ev>>
  /\ UNCHANGED <<hw, buzon>>

(* xhci_transferencia_control, up to the doorbell of EP0: the three stages *)
(* of one transfer, and the mailbox of the endpoint is emptied.            *)
Control(l, ret) ==
  /\ hw' = [hw EXCEPT !.colas[l.s][EP0] = Append(@, "control")]
  /\ buzon' = [buzon EXCEPT ![l.s][EP0] = 0]
  /\ pc' = "control" /\ loc' = [l EXCEPT !.ret = ret, !.d = EP0]
  /\ UNCHANGED <<an, buzonCmd, ev>>

(* xhci_configurar_puerto returns: the scan goes on to the next port.      *)
Vuelve(l) ==
  /\ IF l.modo = "forzado" \/ l.p = Cardinality(Puertos)
     THEN pc' = "ocio" /\ loc' = LocVacio
     ELSE pc' = "escanea" /\ loc' = [LocVacio EXCEPT !.modo = l.modo, !.p = l.p + 1]
  /\ UNCHANGED <<an, buzonCmd, ev, hw, buzon>>

(* xhci_liberar_slot begins with Disable Slot; what follows is Libera.     *)
Liberar(l) == EnviarComando(l, "disable", l.s, "libera")

-----------------------------------------------------------------------------
(* The event ring and its dispatcher.                                      *)

(* Mutation: the reports of a keyboard go through the mailboxes too.       *)
EsHidNunca(s, d) == d = 0 /\ s = 0
EsHid(s, d) == d = ENTRA /\ hid.est[s] = "activo"

(* xhci_extraer_evento: the event at the head stays where it is while the  *)
(* mailbox it goes to is full, and with it all that follow.                *)
Bloqueado ==
  /\ ev # <<>>
  /\ LET e == Head(ev)
     IN \/ e.t = "comando" /\ buzonCmd # <<>>
        \/ e.t = "transfer" /\ ~EsHid(e.slot, e.d) /\ buzon[e.slot][e.d] # 0

Extraible == ev # <<>> /\ ~Bloqueado

(* xhci_procesar_evento_hid: a key that was not down in the report before  *)
(* goes to the terminal if there is room, the report is kept, and the TRB  *)
(* is queued again, after an error too.                                    *)
TeclaNueva(s) == hid.bufer[s] # 0 /\ hid.bufer[s] # hid.ultimo[s]
Teclea(s) == IF TeclaNueva(s) /\ Len(hid.teclas) < MaxTeclas - 1 THEN Append(hid.teclas, hid.bufer[s]) ELSE hid.teclas

Rearma(s) == hw' = [hw EXCEPT !.colas[s][ENTRA] = Append(@, "hid")]

ProcesarHid(e) ==
  /\ hid' = IF e.cc \in Bien THEN [hid EXCEPT !.teclas = Teclea(e.slot), !.ultimo[e.slot] = hid.bufer[e.slot]] ELSE hid
  /\ Rearma(e.slot)

Capturado(e) == captura.activo /\ e.slot = loc.s /\ e.d = loc.d

(* One turn of the loop of xhci_bombear_eventos.                           *)
Despacha(e) ==
  \/ /\ e.t = "comando"
     /\ buzonCmd' = <<e>>
     /\ UNCHANGED <<hw, hid, buzon, captura, tab>>
  \/ /\ e.t = "puerto"
     /\ tab' = [tab EXCEPT !.cambio = TRUE]
     /\ UNCHANGED <<hw, hid, buzon, captura, buzonCmd>>
  \/ /\ e.t = "transfer" /\ EsHid(e.slot, e.d)
     /\ ProcesarHid(e)
     /\ UNCHANGED <<buzon, captura, buzonCmd, tab>>
  \/ /\ e.t = "transfer" /\ ~EsHid(e.slot, e.d) /\ Capturado(e)
     /\ captura' = [captura EXCEPT !.codigos = Append(@, e.cc)]
     /\ UNCHANGED <<hw, hid, buzon, buzonCmd, tab>>
  \/ /\ e.t = "transfer" /\ ~EsHid(e.slot, e.d) /\ ~Capturado(e)
     /\ buzon' = [buzon EXCEPT ![e.slot][e.d] = e.cc]
     /\ UNCHANGED <<hw, hid, captura, buzonCmd, tab>>

Esperas == {"comando", "control", "bulk", "segmentada"}

Bombea ==
  /\ pc \in Esperas \cup {"ocio", "abortado"}
  /\ Extraible
  /\ ev' = Tail(ev)
  /\ Despacha(Head(ev))
  /\ UNCHANGED <<bus, enchufes, an, unidades, dma, pc, loc, gasto, fantasma>>

-----------------------------------------------------------------------------
(* The waits.                                                              *)

(* Mutation: whatever completion is in the mailbox is taken.               *)
AtrasadaNunca == FALSE

(* A completion of another TRB than the one awaited is dropped.            *)
Atrasada == buzonCmd[1].par # loc.espera

ComandoListo ==
  /\ pc = "comando" /\ buzonCmd # <<>>
  /\ buzonCmd' = <<>>
  /\ IF Atrasada THEN UNCHANGED <<pc, loc, fantasma>>
     ELSE LET e == buzonCmd[1]
          IN /\ pc' = loc.ret
             /\ loc' = [loc EXCEPT !.res = IF e.cc = 1 THEN "ok" ELSE "mal", !.s = IF loc.ret = "habilitado" THEN e.slot ELSE @]
             /\ fantasma' = [fantasma EXCEPT !.ajena = IF e.vieja = 1 THEN 1 ELSE @]
  /\ UNCHANGED <<bus, enchufes, hw, ev, an, buzon, captura, tab, hid, unidades, dma, gasto>>

(* Where the controller is in the command ring, past a link it may follow. *)
HcLugar == LET enlace == hw.idx = TamAnillo - 1 /\ an.celdas[hw.idx].ciclo = hw.ciclo
           IN IF enlace THEN [idx |-> 0, ciclo |-> 1 - hw.ciclo] ELSE [idx |-> hw.idx, ciclo |-> hw.ciclo]
HcOrden == LET c == an.celdas[HcLugar.idx] IN HcLugar.idx < TamAnillo - 1 /\ c.ciclo = HcLugar.ciclo
HcTras == [hw EXCEPT !.idx = HcLugar.idx + 1, !.ciclo = HcLugar.ciclo]

Completa(par, cc, slot) == [t |-> "comando", par |-> par, cc |-> cc, slot |-> slot, vieja |-> 0]

(* 5000 ms without the completion: the ring is told to abort.              *)
ComandoVence ==
  /\ pc = "comando" /\ buzonCmd = <<>> /\ ~Extraible
  /\ IF HcOrden THEN Falla ELSE UNCHANGED gasto
  /\ pc' = "abortando"
  /\ UNCHANGED <<bus, enchufes, hw, ev, an, buzonCmd, buzon, captura, tab, hid, unidades, dma, loc, fantasma>>

(* The controller stops: it ends the command it had not done, and says so. *)
HcPara ==
  /\ pc = "abortando"
  /\ LET h == IF HcOrden THEN HcTras ELSE hw
         parada == Completa(h.idx, 24, 0)
     IN /\ hw' = h
        /\ ev' = ev \o (IF HcOrden THEN <<Completa(HcLugar.idx, 25, 0), parada>> ELSE <<parada>>)
  /\ pc' = "abortado"
  /\ UNCHANGED <<bus, enchufes, an, buzonCmd, buzon, captura, tab, hid, unidades, dma, loc, gasto, fantasma>>

(* Or it does not, and the driver gives the ring up for good.              *)
ComandoNoPara ==
  /\ pc = "abortando" /\ Falla
  /\ an' = [an EXCEPT !.disponible = FALSE]
  /\ pc' = loc.ret /\ loc' = [loc EXCEPT !.res = "mal"]
  /\ UNCHANGED <<bus, enchufes, hw, ev, buzonCmd, buzon, captura, tab, hid, unidades, dma, fantasma>>

(* A transfer event that cannot be taken hides the completions behind it.  *)
Tapado == Bloqueado /\ Head(ev).t = "transfer"

(* The ring stopped: events are pumped, the mailbox emptied, the ring      *)
(* built again from its first TRB.                                         *)
Reconstruye ==
  /\ pc = "abortado" /\ ~Extraible
  /\ buzonCmd' = <<>> /\ an' = Anillo(1)
  /\ hw' = [hw EXCEPT !.idx = 0, !.ciclo = 1]
  /\ pc' = loc.ret /\ loc' = [loc EXCEPT !.res = "mal"]
  /\ fantasma' = [fantasma EXCEPT !.tapada = IF Tapado THEN 1 ELSE @]
  /\ UNCHANGED <<bus, enchufes, ev, buzon, captura, tab, hid, unidades, dma, gasto>>

(* A control transfer takes any event of EP0 as its own.                   *)
ControlListo ==
  /\ pc = "control" /\ buzon[loc.s][EP0] # 0
  /\ buzon' = [buzon EXCEPT ![loc.s][EP0] = 0]
  /\ pc' = loc.ret
  /\ loc' = [loc EXCEPT !.res = IF buzon[loc.s][EP0] \in Bien THEN "ok" ELSE "mal"]
  /\ UNCHANGED <<bus, enchufes, hw, ev, an, buzonCmd, captura, tab, hid, unidades, dma, gasto, fantasma>>

(* What the controller can still do for endpoint d of slot s.              *)
HcServible(s, d) == hw.ran[s].est = "dir" /\ <<s, d>> \notin hw.paradas /\ hw.colas[s][d] # <<>>

ControlVence ==
  /\ pc = "control" /\ buzon[loc.s][EP0] = 0 /\ ~Extraible
  /\ IF HcServible(loc.s, EP0) THEN Falla ELSE UNCHANGED gasto
  /\ fantasma' = [fantasma EXCEPT !.vencidas = @ \cup {<<loc.s, EP0>>}]
  /\ pc' = loc.ret /\ loc' = [loc EXCEPT !.res = "mal"]
  /\ UNCHANGED <<bus, enchufes, hw, ev, an, buzonCmd, buzon, captura, tab, hid, unidades, dma>>

-----------------------------------------------------------------------------
(* xhci_configurar_puerto, one action for each stretch between two waits.  *)

MarcoPaso == UNCHANGED <<bus, enchufes, captura, unidades>>
Quieto == UNCHANGED <<tab, hid, dma, gasto, fantasma>>
Tras(etapa) == pc = etapa /\ MarcoPaso

NuevoCtx == CHOOSE k \in 1..(Cardinality(dma) + 1) : <<"ctx", k>> \notin dma /\ \A j \in 1..(k - 1) : <<"ctx", j>> \in dma

(* Enable Slot answered: a device context and an input context, the entry  *)
(* of the DCBAA, an empty EP0 ring, Address Device.                        *)
Habilitado ==
  /\ Tras("habilitado")
  /\ IF loc.res # "ok" THEN Vuelve(loc) /\ Quieto
     ELSE LET ctx == <<"ctx", NuevoCtx>>
              sinCtx == Liberar(loc) /\ UNCHANGED <<dma, tab, hid>>
              sinIn == /\ Liberar([loc EXCEPT !.bufs = {ctx}])
                       /\ dma' = dma \cup {ctx} /\ tab' = [tab EXCEPT !.dcbaa[loc.s] = ctx[2]] /\ UNCHANGED hid
              bien == /\ EnviarComando([loc EXCEPT !.bufs = {ctx, <<"in", 0>>}], "address", loc.s, "direccionado")
                      /\ dma' = dma \cup {ctx, <<"in", 0>>} /\ tab' = [tab EXCEPT !.dcbaa[loc.s] = ctx[2]]
                      /\ UNCHANGED hid
          IN /\ \/ bien /\ UNCHANGED gasto
                \/ sinCtx /\ Falla
                \/ sinIn /\ Falla
             /\ fantasma' = [fantasma EXCEPT !.huerfanas = @ \ {loc.s}]

(* Address Device answered: a buffer for descriptors, and the first eight  *)
(* bytes of the device descriptor.                                         *)
Direccionado ==
  /\ Tras("direccionado")
  /\ \/ loc.res # "ok" /\ Liberar(loc) /\ Quieto
     \/ loc.res = "ok" /\ Liberar(loc) /\ Falla /\ UNCHANGED <<tab, hid, dma, fantasma>>
     \/ /\ loc.res = "ok"
        /\ Control([loc EXCEPT !.bufs = @ \cup {<<"desc", 0>>}], "descriptor8")
        /\ dma' = dma \cup {<<"desc", 0>>} /\ UNCHANGED <<tab, hid, gasto, fantasma>>

TipoEn(s) == LET g == hw.ran[s].g IN IF g = 0 THEN "otro" ELSE enchufes[g]

(* The packet size of EP0 that a keyboard reports is not the one assumed.  *)
Descriptor8 ==
  /\ Tras("descriptor8") /\ Quieto
  /\ IF loc.res # "ok" THEN Liberar(loc)
     ELSE IF TipoEn(loc.s) = "teclado" THEN EnviarComando(loc, "evaluar", loc.s, "evaluado")
     ELSE Control(loc, "descriptor18")

(* Evaluate Context answered: a refusal only costs a warning.              *)
Evaluado == Tras("evaluado") /\ Quieto /\ Control(loc, "descriptor18")

(* Any of these that fails frees the slot; else the next one is asked.     *)
Descriptor18 ==
  /\ Tras("descriptor18") /\ Quieto
  /\ IF loc.res # "ok" THEN Liberar(loc) ELSE Control(loc, "cabecera")
CabeceraCfg ==
  /\ Tras("cabecera") /\ Quieto
  /\ IF loc.res # "ok" THEN Liberar(loc) ELSE Control(loc, "configuracion")

(* The endpoints of the descriptor.  A keyboard takes an entry of          *)
(* g_teclado_eps, not active yet; a disk two entries of g_bulk_eps, active *)
(* at once, if two are free or of this slot.                               *)
BulkAjenos(s) == {e \in tab.bulk : e[1] # s}
ElegirBulk(s) == IF MaxBulk - Cardinality(BulkAjenos(s)) >= 2
                 THEN BulkAjenos(s) \cup {<<s, SALE>>, <<s, ENTRA>>} ELSE tab.bulk

Configuracion ==
  /\ Tras("configuracion") /\ UNCHANGED <<dma, gasto, fantasma>>
  /\ LET s == loc.s
     IN IF loc.res # "ok" \/ TipoEn(s) = "otro" THEN Liberar(loc) /\ UNCHANGED <<tab, hid>>
        ELSE /\ EnviarComando(loc, "configurar", s, "configurado")
             /\ IF TipoEn(s) = "teclado"
                THEN hid' = [hid EXCEPT !.est[s] = "armado", !.ultimo[s] = 0] /\ UNCHANGED tab
                ELSE tab' = [tab EXCEPT !.bulk = ElegirBulk(s)] /\ UNCHANGED hid

(* Configure Endpoint answered; then SET_CONFIGURATION.                    *)
Configurado ==
  /\ Tras("configurado") /\ Quieto
  /\ IF loc.res # "ok" THEN Liberar(loc) ELSE Control(loc, "puesta")

(* SET_CONFIGURATION answered: a disk is registered as a unit, a keyboard  *)
(* is asked for the boot protocol, a disk without endpoints is just noted. *)
Puesta ==
  /\ Tras("puesta") /\ Quieto
  /\ IF loc.res # "ok" THEN Liberar(loc)
     ELSE IF TipoEn(loc.s) = "teclado" THEN Control(loc, "protocolo")
     ELSE /\ pc' = IF <<loc.s, SALE>> \in tab.bulk THEN "registrar" ELSE "apunta"
          /\ UNCHANGED <<loc, an, buzonCmd, ev, hw, buzon>>

(* SET_PROTOCOL, SET_IDLE, and CLEAR_FEATURE after a refusal.              *)
Protocolo ==
  /\ Tras("protocolo") /\ Quieto
  /\ Control(loc, IF loc.res # "ok" THEN "protocoloLimpio" ELSE "inactividad")
ProtocoloLimpio == Tras("protocoloLimpio") /\ Quieto /\ Control(loc, "inactividad")
Inactividad ==
  /\ Tras("inactividad") /\ Quieto
  /\ IF loc.res # "ok" THEN Control(loc, "armar")
     ELSE pc' = "armar" /\ UNCHANGED <<loc, an, buzonCmd, ev, hw, buzon>>

(* The ring of the keyboard is emptied and filled with a burst of TRBs     *)
(* that share one buffer, the endpoint becomes active, the bell rings.     *)
Armar ==
  /\ Tras("armar")
  /\ hw' = [hw EXCEPT !.colas[loc.s][ENTRA] = [i \in 1..Rafaga |-> "hid"]]
  /\ hid' = [hid EXCEPT !.est[loc.s] = "activo"]
  /\ pc' = "apunta"
  /\ UNCHANGED <<loc, an, buzonCmd, ev, buzon, tab, dma, gasto, fantasma>>

(* The maps between ports and slots; the temporary buffers go.             *)
Apunta ==
  /\ Tras("apunta")
  /\ LET ctx == CHOOSE b \in loc.bufs : b[1] = "ctx"
     IN /\ tab' = [tab EXCEPT !.slotPuerto[loc.s] = loc.p, !.puertoSlot[loc.p] = loc.s, !.slotCtx[loc.s] = ctx[2]]
        /\ dma' = dma \ (loc.bufs \ {ctx})
  /\ Vuelve(loc)
  /\ UNCHANGED <<hid, gasto, fantasma>>

(* Disable Slot answered, or not: the entry of the DCBAA and the buffers   *)
(* go all the same.                                                        *)
Huerfanas(s) == IF loc.res = "ok" THEN fantasma.huerfanas ELSE fantasma.huerfanas \cup {s}

Libera ==
  /\ Tras("libera")
  /\ tab' = [tab EXCEPT !.dcbaa[loc.s] = 0]
  /\ dma' = dma \ loc.bufs
  /\ fantasma' = [fantasma EXCEPT !.huerfanas = Huerfanas(loc.s)]
  /\ Vuelve(loc)
  /\ UNCHANGED <<hid, gasto>>

-----------------------------------------------------------------------------
(* Ports.                                                                  *)

(* Mutation: the units of a slot outlive it.                               *)
DesregistrarNada(s) == unidades

(* usb_msc_desregistrar_dispositivo: the units of the slot go (the file    *)
(* systems are told; Lector models what they do).                          *)
Desregistrar(s) == [u \in DOMAIN unidades |-> IF unidades[u].activo /\ unidades[u].slot = s THEN UnidadLibre ELSE unidades[u]]

(* What a disconnection and a forced reset do before Disable Slot: the     *)
(* endpoints and the units of the slot are switched off.                   *)
Apaga(s) ==
  /\ hid' = [hid EXCEPT !.est[s] = "no"]
  /\ unidades' = Desregistrar(s)
  /\ fantasma' = [fantasma EXCEPT !.retiradas = IF hid.est[s] = "activo" THEN @ \cup {<<s, ENTRA>>} ELSE @]

(* Disable Slot answered, or not: the context is freed, the maps cleared.  *)
Retirada ==
  /\ pc = "retirada"
  /\ LET s == loc.s
     IN /\ dma' = dma \ {<<"ctx", tab.slotCtx[s]>>}
        /\ tab' = [tab EXCEPT !.dcbaa[s] = 0, !.slotCtx[s] = 0, !.slotPuerto[s] = 0, !.puertoSlot[loc.p] = 0]
        /\ fantasma' = [fantasma EXCEPT !.huerfanas = Huerfanas(s)]
  /\ IF loc.modo = "forzado"
     THEN pc' = "reset" /\ loc' = [loc EXCEPT !.s = 0] /\ UNCHANGED <<an, buzonCmd, ev, hw, buzon>>
     ELSE Vuelve(loc)
  /\ UNCHANGED <<bus, enchufes, captura, hid, unidades, gasto>>

Escanea(p) == pc = "escanea" /\ loc.p = p /\ UNCHANGED <<bus, enchufes, captura, dma, gasto>>

(* The first look, at the end of xhci_iniciar.                             *)
EscaneoInicial(p) ==
  /\ Escanea(p) /\ loc.modo = "inicial"
  /\ tab' = [tab EXCEPT !.ccs[p] = IF bus[p] = 0 THEN 0 ELSE 1]
  /\ IF bus[p] = 0 THEN Vuelve(loc) ELSE pc' = "reset" /\ UNCHANGED <<loc, an, buzonCmd, ev, hw, buzon>>
  /\ UNCHANGED <<hid, unidades, fantasma>>

(* xhci_escanear_cambios_puertos: only the level of CCS is compared with   *)
(* the one of the scan before.                                             *)
SinCambio(p) ==
  /\ Escanea(p) /\ loc.modo = "escaneo" /\ (bus[p] = 0) = (tab.ccs[p] = 0)
  /\ Vuelve(loc)
  /\ UNCHANGED <<tab, hid, unidades, fantasma>>

Conexion(p) ==
  /\ Escanea(p) /\ loc.modo = "escaneo" /\ bus[p] # 0 /\ tab.ccs[p] = 0
  /\ tab' = [tab EXCEPT !.ccs[p] = 1]
  /\ pc' = "rebote"
  /\ UNCHANGED <<loc, an, buzonCmd, ev, hw, buzon, hid, unidades, fantasma>>

Desconexion(p) ==
  /\ Escanea(p) /\ loc.modo = "escaneo" /\ bus[p] = 0 /\ tab.ccs[p] = 1
  /\ LET s == tab.puertoSlot[p]
         t == [tab EXCEPT !.ccs[p] = 0]
     IN IF s = 0 THEN tab' = t /\ Vuelve(loc) /\ UNCHANGED <<hid, unidades, fantasma>>
        ELSE /\ tab' = [t EXCEPT !.bulk = BulkAjenos(s)]
             /\ Apaga(s)
             /\ EnviarComando([loc EXCEPT !.s = s], "disable", s, "retirada")

(* 100 ms later the contact must still be there.                           *)
Rebote ==
  /\ pc = "rebote"
  /\ IF bus[loc.p] = 0 THEN Vuelve(loc) ELSE pc' = "reset" /\ UNCHANGED <<loc, an, buzonCmd, ev, hw, buzon>>
  /\ UNCHANGED <<bus, enchufes, captura, tab, hid, unidades, dma, gasto, fantasma>>

(* xhci_resetear_puerto: an enabled port is configured, from Enable Slot;  *)
(* but if it has a slot already (a forced reset found the device before    *)
(* the scan did), the keyboard and the context of that slot go first.      *)
ResetearPuerto ==
  /\ pc = "reset"
  /\ LET previo == tab.puertoSlot[loc.p]
     IN \/ /\ bus[loc.p] # 0 /\ previo = 0
           /\ EnviarComando(loc, "enable", 0, "habilitado") /\ UNCHANGED <<gasto, hid, fantasma>>
        \/ /\ bus[loc.p] # 0 /\ previo # 0
           /\ hid' = [hid EXCEPT !.est[previo] = "no"]
           /\ fantasma' = [fantasma EXCEPT !.pisada = TRUE,
                              !.retiradas = IF hid.est[previo] = "activo" THEN @ \cup {<<previo, ENTRA>>} ELSE @]
           /\ EnviarComando([loc EXCEPT !.s = previo], "disable", previo, "previo") /\ UNCHANGED gasto
        \/ bus[loc.p] = 0 /\ Vuelve(loc) /\ UNCHANGED <<gasto, hid, fantasma>>
        \/ bus[loc.p] # 0 /\ Vuelve(loc) /\ Falla /\ UNCHANGED <<hid, fantasma>>
  /\ UNCHANGED <<bus, enchufes, captura, tab, unidades, dma>>

(* The slot and the units of a disk stay in the tables.                    *)
SlotPrevio ==
  /\ pc = "previo"
  /\ dma' = dma \ {<<"ctx", tab.slotCtx[loc.s]>>}
  /\ tab' = [tab EXCEPT !.dcbaa[loc.s] = 0]
  /\ fantasma' = [fantasma EXCEPT !.huerfanas = Huerfanas(loc.s)]
  /\ EnviarComando([loc EXCEPT !.s = 0], "enable", 0, "habilitado")
  /\ UNCHANGED <<bus, enchufes, captura, hid, unidades, gasto>>

(* xhci_sondeo: a scan, then the pump (Bombea), then a scan if an event of *)
(* a port was seen.  A scan may start at any poll.                         *)
Sondeo ==
  /\ pc = "ocio"
  /\ pc' = "escanea" /\ loc' = [LocVacio EXCEPT !.modo = "escaneo", !.p = 1]
  /\ tab' = [tab EXCEPT !.cambio = FALSE]
  /\ UNCHANGED <<bus, enchufes, hw, ev, an, buzonCmd, buzon, captura, hid, unidades, dma, gasto, fantasma>>

LeerCaracter ==
  /\ pc = "ocio" /\ hid.teclas # <<>>
  /\ hid' = [hid EXCEPT !.teclas = Tail(@)]
  /\ UNCHANGED <<bus, enchufes, hw, ev, an, buzonCmd, buzon, captura, tab, unidades, dma, pc, loc, gasto, fantasma>>

Suceso == gasto.sucesos < MaxSucesos /\ gasto' = [gasto EXCEPT !.sucesos = @ + 1]

ForzarResetPuerto(p) ==
  /\ pc = "ocio" /\ Suceso
  /\ LET s == tab.puertoSlot[p]
         l == [LocVacio EXCEPT !.modo = "forzado", !.p = p, !.s = s]
     IN IF s = 0
        THEN /\ pc' = "reset" /\ loc' = l
             /\ UNCHANGED <<an, buzonCmd, ev, hw, buzon, tab, hid, unidades, fantasma>>
        ELSE /\ tab' = [tab EXCEPT !.bulk = BulkAjenos(s)]
             /\ Apaga(s)
             /\ EnviarComando(l, "disable", s, "retirada")
  /\ UNCHANGED <<bus, enchufes, captura, dma>>

-----------------------------------------------------------------------------
(* The controller and the devices.                                         *)

AvisoPuerto == IF \E i \in DOMAIN ev : ev[i].t = "puerto" THEN ev ELSE Append(ev, [t |-> "puerto"])

MarcoHc == UNCHANGED <<an, buzonCmd, buzon, captura, tab, unidades, dma, pc, loc, fantasma>>

Enchufa(p, t) ==
  /\ bus[p] = 0 /\ Suceso
  /\ enchufes' = Append(enchufes, t) /\ bus' = [bus EXCEPT ![p] = Len(enchufes')]
  /\ ev' = AvisoPuerto
  /\ MarcoHc /\ UNCHANGED <<hw, hid>>

Desenchufa(p) ==
  /\ bus[p] # 0 /\ Suceso
  /\ bus' = [bus EXCEPT ![p] = 0] /\ ev' = AvisoPuerto
  /\ MarcoHc /\ UNCHANGED <<hw, hid, enchufes>>

(* A command: its effect on the slots and its completion code.             *)
Ranura(s) == hw.ran[s]
Efecto(c, h) ==
  CASE c.tipo = "enable" ->
         LET libres == {s \in Ranuras : Ranura(s).est = "libre"}
             s == CHOOSE x \in libres : \A y \in libres : x <= y
         IN IF libres = {} THEN [hw |-> h, cc |-> 9, slot |-> 0]
            ELSE [hw |-> [h EXCEPT !.ran[s].est = "habilitada"], cc |-> 1, slot |-> s]
    [] c.tipo = "disable" ->
         IF Ranura(c.slot).est = "libre" THEN [hw |-> h, cc |-> 11, slot |-> c.slot]
         ELSE [hw |-> [h EXCEPT !.ran[c.slot] = RanuraLibre, !.colas[c.slot] = [d \in Dci |-> <<>>],
                               !.paradas = {e \in @ : e[1] # c.slot}], cc |-> 1, slot |-> c.slot]
    [] c.tipo = "address" ->
         IF Ranura(c.slot).est = "libre" THEN [hw |-> h, cc |-> 11, slot |-> c.slot]
         ELSE IF bus[c.p] = 0 THEN [hw |-> h, cc |-> 4, slot |-> c.slot]
         ELSE [hw |-> [h EXCEPT !.ran[c.slot] = [est |-> "dir", g |-> bus[c.p], ctx |-> tab.dcbaa[c.slot]]],
               cc |-> 1, slot |-> c.slot]
    [] OTHER -> [hw |-> h, cc |-> IF Ranura(c.slot).est = "dir" THEN 1 ELSE 19, slot |-> c.slot]

HcEjecuta ==
  /\ HcOrden
  /\ LET c == an.celdas[HcLugar.idx]
         r == Efecto(c, HcTras)
     IN \/ /\ hw' = r.hw /\ ev' = Append(ev, Completa(HcLugar.idx, r.cc, r.slot)) /\ UNCHANGED gasto
        \/ /\ Falla
           /\ hw' = HcTras /\ ev' = Append(ev, Completa(HcLugar.idx, 5, c.slot))
  /\ MarcoHc /\ UNCHANGED <<bus, enchufes, hid>>

(* The head of a transfer queue is done: its event; an error halts.        *)
HcCierra(s, d, cc) ==
  /\ hw' = [hw EXCEPT !.colas[s][d] = Tail(@), !.paradas = IF cc \in Bien THEN @ ELSE @ \cup {<<s, d>>}]
  /\ ev' = Append(ev, [t |-> "transfer", slot |-> s, d |-> d, cc |-> cc])

(* A device that is gone: a transaction error, whatever the endpoint.      *)
HcSinDispositivo(s, d) ==
  /\ HcServible(s, d) /\ ~Presente(hw.ran[s].g)
  /\ HcCierra(s, d, 4)
  /\ MarcoHc /\ UNCHANGED <<bus, enchufes, hid, gasto>>

HcControl(s) ==
  /\ HcServible(s, EP0) /\ Presente(hw.ran[s].g)
  /\ \/ HcCierra(s, EP0, 1) /\ UNCHANGED gasto
     \/ HcCierra(s, EP0, 6) /\ Falla
  /\ MarcoHc /\ UNCHANGED <<bus, enchufes, hid>>

(* A key goes down or up: the report is in the one buffer of the endpoint. *)
HcReporte(s) ==
  /\ HcServible(s, ENTRA) /\ Presente(hw.ran[s].g) /\ TipoEn(s) = "teclado"
  /\ gasto.reportes < MaxReportes /\ gasto' = [gasto EXCEPT !.reportes = @ + 1]
  /\ hid' = [hid EXCEPT !.bufer[s] = 1 - @]
  /\ HcCierra(s, ENTRA, 1)
  /\ MarcoHc /\ UNCHANGED <<bus, enchufes>>

-----------------------------------------------------------------------------
Enumeracion == \/ Habilitado \/ Direccionado \/ Descriptor8 \/ Evaluado \/ Descriptor18 \/ CabeceraCfg
               \/ Configuracion \/ Configurado \/ Puesta \/ Protocolo \/ ProtocoloLimpio \/ Inactividad
               \/ Armar \/ Apunta \/ Libera
Espera == \/ ComandoListo \/ ComandoVence \/ ComandoNoPara \/ Reconstruye \/ ControlListo \/ ControlVence
PuertosNext == \/ \E p \in Puertos : \/ EscaneoInicial(p) \/ SinCambio(p) \/ Conexion(p) \/ Desconexion(p)
                                     \/ ForzarResetPuerto(p)
               \/ Retirada \/ Rebote \/ ResetearPuerto \/ SlotPrevio
Mundo == \/ \E p \in Puertos : Desenchufa(p) \/ \E t \in Tipos : Enchufa(p, t)
         \/ HcPara \/ HcEjecuta
         \/ \E s \in Ranuras : HcControl(s) \/ HcReporte(s) \/ \E d \in Dci : HcSinDispositivo(s, d)

XhciNext == Enumeracion \/ Espera \/ PuertosNext \/ Mundo \/ Bombea \/ Sondeo \/ LeerCaracter
=============================================================================
