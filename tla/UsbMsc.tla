------------------------------- MODULE UsbMsc -------------------------------
(***************************************************************************)
(* USB disks (controladores/usb_msc.c) over the bulk transfers of xhci.c.  *)
(* A SCSI command is three transfers: the command wrapper (CBW) out, the   *)
(* data in or out, the status wrapper (CSW) in.  The wrappers and the      *)
(* data live in three buffers that every transaction of every disk shares, *)
(* a transfer whose deadline passed stays queued, and nothing resets the   *)
(* disk: what a disk still has to say can reach a later transaction.       *)
(*                                                                         *)
(*   msc   the shared buffers (cbw, buf, csw), the tag counter and the     *)
(*         caller's buffer (destino)                                       *)
(*   bot   where each disk is in the bulk-only protocol, by plug           *)
(***************************************************************************)
EXTENDS Xhci

CONSTANTS IntentosTur,    \* TEST UNIT READY is asked this many times (10)
          MaxComandos     \* reads and writes asked of the disks

VARIABLES msc, bot

usbVars == <<xhciVars, msc, bot>>

Nada == <<>>             \* a buffer that holds nothing of interest
Basura == <<0>>          \* bytes that are not what was asked for
Geometria == <<1>>       \* the answer to READ CAPACITY of a 512-byte disk
Ficha == <<2>>           \* the answer to INQUIRY

EnReposo == [f |-> "idle", op |-> "no", k |-> 0, tag |-> 0]

UsbInit ==
  /\ XhciInit
  /\ msc = [cbw |-> [tag |-> 0, op |-> "no"], buf |-> [d1 |-> Nada, d2 |-> Nada],
            csw |-> [tag |-> 0, mal |-> 0], destino |-> <<Nada, Nada>>, etiqueta |-> 1, pedidos |-> 0]
  /\ bot = [g \in 1..(Cardinality(Puertos) + MaxSucesos) |-> EnReposo]

-----------------------------------------------------------------------------
(* xhci_transferencia_bulk and _segmentada up to the doorbell: an endpoint *)
(* that is not in g_bulk_eps is refused; the mailbox is emptied and, for a *)
(* transfer of several TRBs, the capture of its events is switched on.     *)
Bulk(l, d, trbs, ret) ==
  /\ IF <<l.s, d>> \in tab.bulk
     THEN /\ hw' = [hw EXCEPT !.colas[l.s][d] = @ \o trbs]
          /\ buzon' = [buzon EXCEPT ![l.s][d] = 0]
          /\ captura' = [activo |-> Len(trbs) > 1, codigos |-> <<>>]
          /\ pc' = (IF Len(trbs) > 1 THEN "segmentada" ELSE "bulk")
          /\ loc' = [l EXCEPT !.d = d, !.ret = ret]
     ELSE pc' = "fin" /\ loc' = [l EXCEPT !.res = "mal"] /\ UNCHANGED <<hw, buzon, captura>>
  /\ UNCHANGED <<an, buzonCmd, ev>>

MarcoMsc == UNCHANGED <<bus, enchufes, tab, hid, dma, bot>>

(* Whatever event of the endpoint is in the mailbox ends the wait.         *)
BulkListo ==
  /\ pc = "bulk" /\ buzon[loc.s][loc.d] # 0
  /\ buzon' = [buzon EXCEPT ![loc.s][loc.d] = 0]
  /\ LET bien == buzon[loc.s][loc.d] \in Bien
     IN pc' = (IF bien THEN loc.ret ELSE "fin") /\ loc' = [loc EXCEPT !.res = IF bien THEN "ok" ELSE "mal"]
  /\ MarcoMsc /\ UNCHANGED <<hw, ev, an, buzonCmd, captura, unidades, gasto, fantasma, msc>>

(* All the events of the capture have come; one bad code is enough.        *)
SegmentadaListo ==
  /\ pc = "segmentada" /\ Len(captura.codigos) = 2
  /\ captura' = [activo |-> FALSE, codigos |-> <<>>]
  /\ LET bien == \A i \in 1..2 : captura.codigos[i] \in Bien
     IN pc' = (IF bien THEN loc.ret ELSE "fin") /\ loc' = [loc EXCEPT !.res = IF bien THEN "ok" ELSE "mal"]
  /\ MarcoMsc /\ UNCHANGED <<hw, ev, an, buzonCmd, buzon, unidades, gasto, fantasma, msc>>

(* What the disk in slot s would do next with its endpoint d: answer, or   *)
(* make the host wait (NAK).                                               *)
Responde(s, d) ==
  /\ HcServible(s, d)
  /\ \/ ~Presente(hw.ran[s].g)
     \/ /\ enchufes[hw.ran[s].g] = "disco"
        /\ LET b == bot[hw.ran[s].g]
           IN IF d = SALE THEN b.f \in {"idle", "entra"} ELSE b.f \in {"datos", "estado"}

BulkVence ==
  /\ \/ pc = "bulk" /\ buzon[loc.s][loc.d] = 0
     \/ pc = "segmentada" /\ Len(captura.codigos) < 2
  /\ ~Extraible
  /\ IF Responde(loc.s, loc.d) THEN Falla ELSE UNCHANGED gasto
  /\ captura' = [activo |-> FALSE, codigos |-> <<>>]
  /\ fantasma' = [fantasma EXCEPT !.vencidas = @ \cup {<<loc.s, loc.d>>}]
  /\ pc' = "fin" /\ loc' = [loc EXCEPT !.res = "mal"]
  /\ MarcoMsc /\ UNCHANGED <<hw, ev, an, buzonCmd, buzon, unidades, msc>>

-----------------------------------------------------------------------------
(* usb_msc_ejecutar_transaccion_ex: the next tag, the shared CBW filled    *)
(* in, and the CBW sent.                                                   *)
Transaccion(l, op) ==
  /\ msc' = [msc EXCEPT !.cbw = [tag |-> msc.etiqueta, op |-> op], !.etiqueta = @ + 1]
  /\ Bulk([l EXCEPT !.op = op, !.etiqueta = msc.etiqueta], SALE, <<"cbw">>, "datos")

TrbsDeDatos(op) == CASE op = "lee" -> <<"d1", "d2">> [] op = "inq" -> <<"inq">> [] op = "cap" -> <<"cap">>
                     [] OTHER -> <<"datos">>

(* The data phase: two TRBs for a read, one for the others, none for TUR.  *)
FaseDatos ==
  /\ pc = "datos"
  /\ IF loc.op = "tur" THEN pc' = "copia" /\ UNCHANGED <<loc, hw, buzon, captura, an, buzonCmd, ev>>
     ELSE Bulk(loc, IF loc.op = "escribe" THEN SALE ELSE ENTRA, TrbsDeDatos(loc.op), "copia")
  /\ MarcoMsc /\ UNCHANGED <<unidades, gasto, fantasma, msc>>

(* What came in is copied out of the shared buffer; the CSW is zeroed and  *)
(* asked for.                                                              *)
Copia(op) == IF op \in {"tur", "escribe"} THEN msc.destino ELSE <<msc.buf.d1, msc.buf.d2>>

FaseCsw ==
  /\ pc = "copia"
  /\ msc' = [msc EXCEPT !.destino = Copia(loc.op), !.csw = [tag |-> 0, mal |-> 0]]
  /\ Bulk(loc, ENTRA, <<"csw">>, "valida")
  /\ MarcoMsc /\ UNCHANGED <<unidades, gasto, fantasma>>

(* Mutation: the tag of the CSW is not compared.                           *)
CswDeCualquiera == msc.csw.tag # 0 /\ msc.csw.mal = 0

(* The CSW must be a CSW, of this tag, with a good status.                 *)
CswAceptado == msc.csw.tag # 0 /\ msc.csw.tag = loc.etiqueta /\ msc.csw.mal = 0

Valida ==
  /\ pc = "valida"
  /\ pc' = "fin" /\ loc' = [loc EXCEPT !.res = IF CswAceptado THEN "ok" ELSE "mal"]
  /\ MarcoMsc /\ UNCHANGED <<hw, ev, an, buzonCmd, buzon, captura, unidades, gasto, fantasma, msc>>

-----------------------------------------------------------------------------
(* usb_msc_registrar_dispositivo: the first free unit; TEST UNIT READY     *)
(* with retries, INQUIRY, READ CAPACITY.  Each may fail without ending the *)
(* others, and the unit is ready only if the last one gave a geometry.     *)
Registrar ==
  /\ pc = "registrar"
  /\ LET libres == {u \in DOMAIN unidades : ~unidades[u].activo}
         u == CHOOSE x \in libres : \A y \in libres : x <= y
     IN IF libres = {}
        THEN pc' = "apunta" /\ UNCHANGED <<unidades, loc, hw, buzon, captura, an, buzonCmd, ev, msc>>
        ELSE /\ unidades' = [unidades EXCEPT ![u] = [activo |-> TRUE, listo |-> FALSE, slot |-> loc.s, g |-> hw.ran[loc.s].g]]
             /\ Transaccion([loc EXCEPT !.u = u, !.intento = 1], "tur")
  /\ MarcoMsc /\ UNCHANGED <<gasto, fantasma>>

RegistrarSigue ==
  /\ pc = "fin" /\ loc.op \in {"tur", "inq", "cap"}
  /\ \/ /\ loc.op = "tur" /\ loc.res # "ok" /\ loc.intento < IntentosTur
        /\ Transaccion([loc EXCEPT !.intento = @ + 1], "tur") /\ UNCHANGED unidades
     \/ /\ loc.op = "tur" /\ (loc.res = "ok" \/ loc.intento = IntentosTur)
        /\ Transaccion(loc, "inq") /\ UNCHANGED unidades
     \/ /\ loc.op = "inq"
        /\ Transaccion(loc, "cap") /\ UNCHANGED unidades
     \/ /\ loc.op = "cap"
        /\ unidades' = [unidades EXCEPT ![loc.u].listo = loc.res = "ok" /\ msc.destino[1] = Geometria]
        /\ pc' = "apunta" /\ UNCHANGED <<loc, hw, buzon, captura, an, buzonCmd, ev, msc>>
  /\ MarcoMsc /\ UNCHANGED <<gasto, fantasma>>

(* usb_msc_leer_sectores and usb_msc_escribir_sectores, for a file system. *)
(* The tag of the command stands for the sectors it names.                 *)
Sectorial(u, op) ==
  /\ pc = "ocio" /\ unidades[u].activo /\ unidades[u].listo
  /\ msc.pedidos < MaxComandos
  /\ LET l == [LocVacio EXCEPT !.s = unidades[u].slot, !.u = u]
     IN /\ msc' = [msc EXCEPT !.cbw = [tag |-> msc.etiqueta, op |-> op], !.etiqueta = @ + 1,
                              !.pedidos = @ + 1]
        /\ Bulk([l EXCEPT !.op = op, !.etiqueta = msc.etiqueta], SALE, <<"cbw">>, "datos")
  /\ MarcoMsc /\ UNCHANGED <<unidades, gasto, fantasma>>

LeerSectores(u) == Sectorial(u, "lee")
EscribirSectores(u) == Sectorial(u, "escribe")

(* They return: nothing of the call is left but the shared buffers.        *)
Responder ==
  /\ pc = "fin" /\ loc.op \in {"lee", "escribe"}
  /\ pc' = "ocio" /\ loc' = LocVacio
  /\ msc' = [msc EXCEPT !.destino = <<Nada, Nada>>]
  /\ MarcoMsc /\ UNCHANGED <<hw, ev, an, buzonCmd, buzon, captura, unidades, gasto, fantasma>>

-----------------------------------------------------------------------------
(* The disk.  OUT: idle, it takes a CBW as it is in memory now, and stalls *)
(* on anything else; awaiting data, it takes whatever comes.  IN: a part   *)
(* of the data, or the CSW; a buffer too small for what it sends is        *)
(* babble, and both that and a stall halt the endpoint.                    *)
TrasOrden == LET c == msc.cbw
             IN [f |-> CASE c.op = "tur" -> "estado" [] c.op = "escribe" -> "entra" [] OTHER -> "datos",
                 op |-> c.op, k |-> 1, tag |-> c.tag]

DiscoRecibe(s, g, trb) ==
  \/ /\ bot[g].f = "idle" /\ trb = "cbw"
     /\ bot' = [bot EXCEPT ![g] = TrasOrden] /\ HcCierra(s, SALE, 1)
  \/ /\ bot[g].f = "idle" /\ trb # "cbw"
     /\ HcCierra(s, SALE, 6) /\ UNCHANGED bot
  \/ /\ bot[g].f = "entra"
     /\ bot' = [bot EXCEPT ![g].f = "estado"] /\ HcCierra(s, SALE, 1)

Tramo(t) == IF t = "d2" THEN "d2" ELSE "d1"
Cabe(op, t) == t \in {"d1", "d2"} \/ t = op \/ (op = "cap" /\ t = "inq")
Contenido(g, t) == LET b == bot[g]
                   IN CASE b.op = "lee" -> <<g, b.tag, b.k>>
                        [] b.op = "inq" -> IF t = "inq" THEN Ficha ELSE Basura
                        [] OTHER -> IF t = "cap" THEN Geometria ELSE Basura

DiscoEnvia(s, g, t) ==
  \/ /\ bot[g].f = "datos" /\ t # "csw" /\ Cabe(bot[g].op, t)
     /\ msc' = [msc EXCEPT !.buf[Tramo(t)] = Contenido(g, t)]
     /\ bot' = [bot EXCEPT ![g] = IF @.op = "lee" /\ @.k = 1 THEN [@ EXCEPT !.k = 2] ELSE [@ EXCEPT !.f = "estado"]]
     /\ HcCierra(s, ENTRA, IF bot[g].op = "lee" \/ t = bot[g].op THEN 1 ELSE 13)
     /\ UNCHANGED gasto
  \/ /\ bot[g].f = "datos" /\ (t = "csw" \/ ~Cabe(bot[g].op, t))
     /\ HcCierra(s, ENTRA, 3) /\ UNCHANGED <<msc, bot, gasto>>
  \/ /\ bot[g].f = "estado" /\ t = "csw"
     /\ \/ msc' = [msc EXCEPT !.csw = [tag |-> bot[g].tag, mal |-> 0]] /\ UNCHANGED gasto
        \/ msc' = [msc EXCEPT !.csw = [tag |-> bot[g].tag, mal |-> 1]] /\ Falla
     /\ bot' = [bot EXCEPT ![g] = EnReposo] /\ HcCierra(s, ENTRA, 1)
  \/ /\ bot[g].f = "estado" /\ t # "csw"
     /\ msc' = [msc EXCEPT !.buf[Tramo(t)] = Basura]
     /\ bot' = [bot EXCEPT ![g] = EnReposo] /\ HcCierra(s, ENTRA, 13) /\ UNCHANGED gasto

Disco(s) ==
  LET g == hw.ran[s].g
  IN /\ g > 0 /\ Presente(g) /\ enchufes[g] = "disco"
     /\ \/ HcServible(s, SALE) /\ DiscoRecibe(s, g, Head(hw.colas[s][SALE])) /\ UNCHANGED <<msc, gasto>>
        \/ HcServible(s, ENTRA) /\ DiscoEnvia(s, g, Head(hw.colas[s][ENTRA]))
     /\ MarcoHc /\ UNCHANGED <<bus, enchufes, hid>>

(* A port reset returns the disk behind it to idle.                        *)
ConReset == IF pc = "reset" /\ bus[loc.p] # 0 /\ pc' = "comando"
            THEN bot' = [bot EXCEPT ![bus[loc.p]] = EnReposo] ELSE UNCHANGED bot

-----------------------------------------------------------------------------
Discos == \/ Registrar \/ RegistrarSigue \/ FaseDatos \/ FaseCsw \/ Valida \/ Responder
          \/ BulkListo \/ SegmentadaListo \/ BulkVence
          \/ \E s \in Ranuras : Disco(s)
          \/ \E u \in DOMAIN unidades : LeerSectores(u) \/ EscribirSectores(u)

UsbNext == (XhciNext /\ ConReset /\ UNCHANGED msc) \/ Discos
UsbSpec == UsbInit /\ [][UsbNext]_usbVars
-----------------------------------------------------------------------------
(* All the disks read into one buffer (usb_msc.c:39), and a transfer whose *)
(* deadline passed stays queued (xhci.c:1607): one of a disk in another    *)
(* slot may write the buffer between the data of this read and its copy.   *)
LecturaDeOtroPendiente(s) == \E e \in fantasma.vencidas : e[1] # s /\ e[2] = ENTRA

(* With late transfers on both bulk endpoints of the disk, late ones can   *)
(* stand for both halves of the data phase: the read copies old data and   *)
(* the CSW, which comes when the disk is done, has the right tag.          *)
TardiasPorLosDos(s) == {<<s, ENTRA>>, <<s, SALE>>} \subseteq fantasma.vencidas

(* A read that returns 0 gave the caller both parts of what it asked for,  *)
(* read by the disk of the unit for this very command: neither a command   *)
(* wrapper taken late from the shared buffer, nor data or status left over *)
(* from transfers of one endpoint of this disk that timed out, can pass    *)
(* for it, because the tag of the CSW is checked (usb_msc.c:190).  Three   *)
(* exceptions: late transfers on both endpoints, a late transfer of        *)
(* another disk, and a unit whose port was configured again over its slot, *)
(* which then reads from the new device (xhci.c:1787).                     *)
LecturaUsbFiel ==
  pc = "fin" /\ loc.op = "lee" /\ loc.res = "ok" /\ ~fantasma.pisada
  /\ ~LecturaDeOtroPendiente(loc.s) /\ ~TardiasPorLosDos(loc.s)
  => LET g == unidades[loc.u].g IN msc.destino = <<<<g, loc.etiqueta, 1>>, <<g, loc.etiqueta, 2>>>>

(* While the driver is idle the event ring is stuck behind a transfer      *)
(* event only for an endpoint whose transfer timed out, or a keyboard that *)
(* was switched off with reports still in the ring (xhci.c:402), and       *)
(* behind a completion only if the ring was stuck that way before; unless  *)
(* a command took the completion of another (RespuestaPropia).             *)
CabezaLibre ==
  pc = "ocio" /\ Bloqueado /\ fantasma.ajena = 0 =>
    LET tardias == fantasma.vencidas \cup fantasma.retiradas
    IN IF Head(ev).t = "transfer" THEN <<Head(ev).slot, Head(ev).d>> \in tardias ELSE tardias # {}

(* The controller writes the context of an addressed slot at any moment:   *)
(* the buffer is still allocated and belongs to no other slot, unless its  *)
(* Disable Slot was never confirmed (xhci.c:1752, 3239).                   *)
ContextosVivos ==
  \A s \in Ranuras : hw.ran[s].est = "dir" /\ s \notin fantasma.huerfanas =>
    /\ <<"ctx", hw.ran[s].ctx>> \in dma
    /\ \A r \in Ranuras \ {s} : hw.ran[r].est = "dir" /\ r \notin fantasma.huerfanas => hw.ran[r].ctx # hw.ran[s].ctx

(* The tables of the two drivers agree with each other and with the        *)
(* controller: its contexts are alive; and between calls ports and slots   *)
(* are inverse maps, the only DMA buffers left are the contexts of the     *)
(* mapped slots, an active unit has a mapped slot with both endpoints, and *)
(* units do not share a slot. There are two exceptions: a port configured  *)
(* over a slot it already had, which xhci.c:1787 half undoes (the context  *)
(* of that slot is freed twice), and a completion that was taken for the   *)
(* one of another command (RespuestaPropia).                               *)
TablasCoherentes ==
  ~fantasma.pisada /\ fantasma.ajena = 0 =>
    /\ ContextosVivos
    /\ pc = "ocio" =>
       /\ \A p \in Puertos, s \in Ranuras : (tab.puertoSlot[p] = s) <=> (tab.slotPuerto[s] = p)
       /\ dma = {<<"ctx", tab.slotCtx[s]>> : s \in {r \in Ranuras : tab.slotPuerto[r] # 0}}
       /\ \A u \in DOMAIN unidades : unidades[u].activo =>
            /\ tab.slotPuerto[unidades[u].slot] # 0
            /\ {<<unidades[u].slot, SALE>>, <<unidades[u].slot, ENTRA>>} \subseteq tab.bulk
            /\ \A v \in DOMAIN unidades \ {u} : ~unidades[v].activo \/ unidades[v].slot # unidades[u].slot
       /\ \A s \in Ranuras : hid.est[s] = "activo" => tab.slotPuerto[s] # 0

(* The completion a command accepts is its own, not one of an earlier      *)
(* command that timed out (xhci.c:919), however often the command ring     *)
(* wraps and is built again, with one exception: completions are known by  *)
(* the place of their TRB, and a ring rebuilt while a transfer event that  *)
(* nobody takes hides them (xhci.c:402, 1042) uses those places again.     *)
RespuestaPropia == fantasma.ajena = 1 => fantasma.tapada = 1
=============================================================================
