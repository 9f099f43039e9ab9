------------------------------ MODULE Clientes ------------------------------
(***************************************************************************)
(* What uses the parts Arranque brings up and has no caller of its own in  *)
(* this commit, driven as its contract allows, in any order:               *)
(*   "video"      the host harness of the Intel video engine (Gpu)         *)
(*   "diferido"   a driver with deferred work, timers and interrupt lines  *)
(*   "sonda"      a driver that probes its device and opens windows        *)
(*   "gsp"        the bring-up of the NVIDIA GSP (Nvidia)                  *)
(* A request may fail in every call that makes one.                        *)
(***************************************************************************)
EXTENDS Arranque

(***************************************************************************)
(* The video engine.                                                       *)
(***************************************************************************)
SoloVideo == UNCHANGED <<maq, b, k, pci, gp, io, sh, nv, nic, otros, cli, n>>

Video == fase = "video" /\ fase' = fase

ConFallaVideo(f) == [g EXCEPT !.m.falla = f]

SinFalla(x) == [x EXCEPT !.m.falla = -1]

MotorInicia ==
    /\ Video /\ g.ring = 0 /\ \E f \in Fallas : g' = SinFalla(VcsIniciar(ConFallaVideo(f)).g)
    /\ SoloVideo

MotorSeCuelga == Video /\ g.ring /= 0 /\ ~g.colgada /\ g' = [g EXCEPT !.colgada = TRUE] /\ SoloVideo

MotorSeDetiene == Video /\ g.ring /= 0 /\ ~g.ses.viva /\ g' = VcsDetener(g) /\ SoloVideo

(* The first job keeps its two objects, so it is asked for once. *)
MotorTrabaja ==
    /\ Video /\ g.ring /= 0 /\ \A o \in Objetos : ~g.obj[o].uso
    /\ \E f \in Fallas : g' = SinFalla(PrimerTrabajo(ConFallaVideo(f)))
    /\ SoloVideo

SesionCrea ==
    /\ Video /\ ~g.ses.viva /\ \E f \in Fallas : g' = SinFalla(VaCrear(ConFallaVideo(f)).g)
    /\ SoloVideo

Nals == {[tipo |-> "sps", porLsb |-> TRUE, poc |-> 0], [tipo |-> "sps", porLsb |-> FALSE, poc |-> 0],
         [tipo |-> "slice", porLsb |-> TRUE, poc |-> 2], [tipo |-> "sei", porLsb |-> TRUE, poc |-> 0]}

SesionLee == Video /\ g.ses.viva /\ (\E nal \in Nals : g' = VaParsearNal(g, nal).g) /\ SoloVideo

SesionDecodifica == Video /\ g.ses.viva /\ (\E largo \in {1, 2} : g' = VaDecodificar(g, largo).g) /\ SoloVideo

SesionDrena == Video /\ g.ses.viva /\ ~VaObtener(g) /\ g' = VaDrenar(g) /\ SoloVideo

SesionDestruye == Video /\ g.ses.viva /\ g' = VaDestruir(g) /\ SoloVideo

VideoTermina == fase = "video" /\ ~g.ses.viva /\ g.ring = 0 /\ fase' = "fin" /\ g' = GemDestruir(g) /\ SoloVideo

(***************************************************************************)
(* A driver with deferred work. The function of a work may schedule any    *)
(* work while flush_scheduled_work goes on.                                *)
(***************************************************************************)
SoloShim == UNCHANGED <<maq, fase, b, k, pci, gp, io, nv, nic, otros, g, n>>

Diferido == fase = "diferido"

PideTrabajo == /\ Diferido /\ (\E w \in Trabajos : sh' = ScheduleWork(sh, w).s)
               /\ SoloShim /\ UNCHANGED cli

CancelaTrabajo == /\ Diferido /\ ~cli.vaciando /\ (\E w \in Trabajos : sh' = CancelWork(sh, w))
                  /\ SoloShim /\ UNCHANGED cli

VaciaTrabajos == Diferido /\ ~cli.vaciando /\ cli' = [cli EXCEPT !.vaciando = TRUE] /\ SoloShim /\ UNCHANGED sh

HaceTrabajo ==
    /\ Diferido /\ cli.vaciando
    /\ IF sh.trab = <<>> THEN sh' = sh /\ cli' = [cli EXCEPT !.vaciando = FALSE]
       ELSE sh' = UnTrabajo(sh) /\ cli' = cli
    /\ SoloShim

Temporiza == /\ Diferido /\ (\E t \in Temporizadores : sh' \in {ModTimer(sh, t), DelTimer(sh, t)})
             /\ SoloShim /\ UNCHANGED cli

Lineas == {5, 6}

PideLinea == /\ Diferido /\ (\E i \in Lineas : sh' = RequestIrq(sh, i).s)
             /\ SoloShim /\ UNCHANGED cli

SueltaLinea == /\ Diferido /\ (\E i \in Range(Despachados(sh)) : sh' = FreeIrq(sh, i))
               /\ SoloShim /\ UNCHANGED cli

(***************************************************************************)
(* A driver that probes. The device is found by its class or by its        *)
(* identity, enabled, made a bus master and given MSI; then its first BAR  *)
(* is mapped. A window is opened only while the table has room for it:     *)
(* beyond that the pages are mapped and iounmap no longer finds them.      *)
(***************************************************************************)
SoloSonda == UNCHANGED <<maq, fase, b, pci, gp, io, nv, nic, otros, g>>

Sondea == fase = "sonda"

Sonda ==
    LET i == GetClass(sh, "red", 0)
        j == GetDevice(sh, "intel", "e1000", 0)
    IN  /\ Sondea /\ i /= 0 /\ i = j
        /\ sh' \in {EnableMsi(SetMaster(EnableDevice(sh, i), i), i), DisableMsi(sh, i)}
        /\ SoloSonda /\ UNCHANGED <<k, cli, n>>

AbreVentana ==
    \E f \in Fallas :
        LET i == GetClass(sh, "red", 0)
            r == Ioremap(ConFalla(f), sh.devs[i].rec[1].ini, ResourceLen(sh, i, 1))
        IN  /\ Sondea /\ i /= 0 /\ n < MaxMandos /\ (\E x \in 1 .. MaxIoremap : ~k.ventanas[x].activo)
            /\ k' = [r.k EXCEPT !.falla = -1] /\ n' = n + 1
            /\ cli' = IF r.ok THEN [cli EXCEPT !.ventanas = @ \cup {r.v}] ELSE cli
            /\ SoloSonda /\ UNCHANGED sh

CierraVentana ==
    \E v \in cli.ventanas :
        /\ Sondea /\ k' = Iounmap(k, v) /\ cli' = [cli EXCEPT !.ventanas = @ \ {v}]
        /\ SoloSonda /\ UNCHANGED <<sh, n>>

AutodiagDma == Sondea /\ k' = DmaAutodiag(k).k /\ SoloSonda /\ UNCHANGED <<sh, cli, n>>

(***************************************************************************)
(* The channel to the NVIDIA system processor, brought up at most          *)
(* MaxMandos times; a call may time out and its answer come later.         *)
(***************************************************************************)
SoloGsp == UNCHANGED <<maq, fase, b, pci, gp, io, sh, nic, otros, g, cli>>

Gsp == fase = "gsp"

AbreCanal ==
    \E r \in {CoreAutodiag(nv, k, maq.m.bus)} :
        /\ Gsp /\ nv.guion = <<>> /\ n < MaxMandos /\ n' = n + 1
        /\ nv' = r.v /\ k' = r.k /\ SoloGsp

LlamaGsp == Gsp /\ nv.guion /= <<>> /\ nv.inicio = -1 /\ nv' = RpcEnviar(nv) /\ SoloGsp /\ UNCHANGED <<k, n>>

RespondeGsp == Gsp /\ nv.buzon /= 0 /\ nv.cmd /= <<>> /\ nv' = GspContesta(nv) /\ SoloGsp /\ UNCHANGED <<k, n>>

LeeGsp == /\ Gsp /\ nv.inicio /= -1 /\ Len(nv.stat) > nv.inicio
          /\ nv' = RpcLeer(nv) /\ SoloGsp /\ UNCHANGED <<k, n>>

FallaGsp == Gsp /\ nv.inicio /= -1 /\ nv' = RpcFallo(nv) /\ SoloGsp /\ UNCHANGED <<k, n>>

Next ==
    \/ NextArranque
    \/ MotorInicia \/ MotorSeCuelga \/ MotorSeDetiene \/ MotorTrabaja \/ SesionCrea \/ SesionLee
    \/ SesionDecodifica \/ SesionDrena \/ SesionDestruye \/ VideoTermina
    \/ PideTrabajo \/ CancelaTrabajo \/ VaciaTrabajos \/ HaceTrabajo \/ Temporiza \/ PideLinea \/ SueltaLinea
    \/ Sonda \/ AbreVentana \/ CierraVentana \/ AutodiagDma
    \/ AbreCanal \/ LlamaGsp \/ RespondeGsp \/ LeeGsp \/ FallaGsp

Spec == Init /\ [][Next]_vars

(***************************************************************************)
(* Properties.                                                             *)
(***************************************************************************)
(* The works and timers in the tables of the shim are there once, and each *)
(* carries its mark, so that it is not entered again.                      *)
TablasDelShim ==
    /\ \A i, j \in DOMAIN sh.trab : sh.trab[i] = sh.trab[j] => i = j
    /\ \A i, j \in DOMAIN sh.timers : sh.timers[i] = sh.timers[j] => i = j
    /\ \A w \in Range(sh.trab) : sh.pend[w] = 1
    /\ \A t \in Range(sh.timers) : sh.activo[t]

(* Whatever request fails, at boot, in a command or in a driver, nothing   *)
(* is lost and nothing is given back twice: the frames taken are those of  *)
(* the page tables, the arena pages taken are those the drivers hold, the  *)
(* pages mapped for ioremap are those of its windows, the works and timers *)
(* queued are queued once, and the tracked pages and heap blocks in use    *)
(* are those of the live objects and of the session (the undo paths of     *)
(* paginacion.c, dma.c, linux.c, e1000.c, memoria_i915.c, i915_gem.c and   *)
(* i915_va.c).                                                             *)
RecursosDevueltos ==
    /\ k.marcos = MarcosDeTablas(k)
    /\ k.ocup = PaginasNvidia(nv) \cup PaginasDeAnillos(nic) \cup otros
    /\ VentanasExactas(k)
    /\ TablasDelShim
    /\ {p \in DOMAIN g.m.pool : g.m.pool[p].est = "asignada"} = PaginasDeObjetos(g)
    /\ g.m.bloques = BloquesDeObjetos(g)

(* No device is left with an address of memory that was given back: every  *)
(* valid entry of the graphics translation table is a page of the live     *)
(* object whose window it lies in, even while the engine may still use the *)
(* object, and the rings of an active Ethernet card and the queues behind  *)
(* the mailboxes of the GSP are still taken in the arena.                  *)
DmaSoloEnLoPropio ==
    /\ GgttPropia(g)
    /\ \A o \in Objetos : g.obj[o].uso => g.obj[o].vivo /\ g.obj[o].map
    /\ nic.activa => PaginasDeAnillos(nic) \subseteq k.ocup /\ nic.anillos /= SinAnillos
    /\ PaginasDeColas(nv) \subseteq k.ocup
=============================================================================
