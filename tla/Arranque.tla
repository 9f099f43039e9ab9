------------------------------ MODULE Arranque ------------------------------
(***************************************************************************)
(* The boot of the kernel (principal.c), which brings up the parts of      *)
(* Recursos, Descubrimiento, Shim, Nvidia and Ethernet one after the other *)
(* on the boot processor, and the commands of the terminal that test those *)
(* parts afterwards. A read through a page that was not mapped is a page   *)
(* fault, which breaks the egg (huevo.c) and stops the machine.            *)
(* No batch of the work pool is under way while the boot processor runs    *)
(* this code, so paginacion_mapear and paginacion_desmapear, which refuse  *)
(* during one, never do here.                                              *)
(***************************************************************************)
EXTENDS Gpu, Ethernet, Shim, Nvidia, Descubrimiento

CONSTANTS Maquinas,          \* the machines: [bus, acpi, ...], see MCArranque
          Guiones,           \* what may run after the boot: "mando" or a client
          Fallas,            \* requests that succeed before one fails; -1: none fails
          MaxMandos          \* bound: commands at the terminal, attempts of a client

VARIABLES
    maq,       \* the machine, and what will run on it
    fase,      \* the next stage of the boot, or what runs after it
    b,         \* what the boot has found: keyboard, APIC, processors, VMX, the egg
    k,         \* Recursos
    pci, gp, io, sh, nv, nic,
    otros,     \* arena pages the USB and audio drivers hold
    g,         \* Gpu, its page support included
    cli,       \* the client over the Linux interface (Clientes)
    n          \* commands given, attempts made

vars == <<maq, fase, b, k, pci, gp, io, sh, nv, nic, otros, g, cli, n>>

SinArranque == [ps2 |-> FALSE, limite |-> 4, apic |-> "", smp |-> "no", vmx |-> FALSE, salud |-> 100]

SinCliente == [ventanas |-> {}, vaciando |-> FALSE]

Init ==
    /\ maq \in {m \in [m : Maquinas, guion : Guiones] : m.guion \in m.m.guiones}
    /\ \E f \in maq.m.fallas : k = [SinRecursos EXCEPT !.falla = f]
    /\ fase = "temprano" /\ b = SinArranque /\ pci = [devs |-> <<>>, gpu |-> 0]
    /\ gp = SinGpu /\ io = SinIommu /\ sh = SinShim /\ nv = SinNvidia /\ nic = SinTarjeta
    /\ otros = {} /\ g = GemIniciar /\ cli = SinCliente /\ n = 0

(***************************************************************************)
(* The stages of principal, in their order.                                *)
(***************************************************************************)
(* huevo_quebrar *)
Quebrar == fase' = "parado" /\ b' = [b EXCEPT !.salud = 0]

Etapa(de, a) == fase = de /\ fase' = a

Opcion(o) == o \in maq.m.opciones

(* trabajos_limitar_cpu: the first option that is there counts. *)
LimiteCpu ==
    CASE Opcion("smp=0") \/ Opcion("modo=vmx") -> 0
      [] Opcion("smp=1") /\ ~Opcion("smp=0") /\ ~Opcion("modo=vmx") -> 1
      [] Opcion("smp=2") /\ maq.m.opciones \cap {"smp=0", "modo=vmx", "smp=1"} = {} -> 2
      [] OTHER -> 4

(* Serial port, revision of the boot protocol, options, screen. *)
ArranqueTemprano ==
    /\ fase = "temprano"
    /\ \/ ~maq.m.limine /\ fase' = "parado" /\ b' = b
       \/ maq.m.limine /\ fase' = "paginacion" /\ b' = [b EXCEPT !.ps2 = Opcion("ps2"), !.limite = LimiteCpu]
    /\ UNCHANGED <<maq, k, pci, gp, io, sh, nv, nic, otros, g, cli, n>>

EtapaPaginacion ==
    \E r \in {PaginacionIniciar(k)} :
        /\ fase = "paginacion" /\ k' = r.k
        /\ IF r.ok THEN fase' = "apic" /\ b' = b ELSE Quebrar
        /\ UNCHANGED <<maq, pci, gp, io, sh, nv, nic, otros, g, cli, n>>

(* apic_iniciar: registers through MSRs, or through one page whose mapping *)
(* is not checked before it is written. Without APIC the boot goes on.     *)
EtapaApic ==
    \E m \in {MapearSinMirar(k, "apic", 0, 1, 1)} :
        /\ fase = "apic"
        /\ \/ maq.m.apic \in {"no", "x2apic"} /\ k' = k
              /\ fase' = "pci" /\ b' = [b EXCEPT !.apic = maq.m.apic]
           \/ maq.m.apic = "xapic" /\ k' = m.k
              /\ IF m.ok THEN fase' = "pci" /\ b' = [b EXCEPT !.apic = "xapic"] ELSE Quebrar
        /\ UNCHANGED <<maq, pci, gp, io, sh, nv, nic, otros, g, cli, n>>

EtapaPci ==
    /\ Etapa("pci", "gpu") /\ pci' = PciIniciar(maq.m.bus)
    /\ UNCHANGED <<maq, b, k, gp, io, sh, nv, nic, otros, g, cli, n>>

(* The boot goes on whatever gpu_iniciar returns. *)
EtapaGpu ==
    \E r \in {GpuIniciar(k, gp, pci)} :
        /\ Etapa("gpu", "dma") /\ k' = r.k /\ gp' = r.gp
        /\ UNCHANGED <<maq, b, pci, io, sh, nv, nic, otros, g, cli, n>>

EtapaDma ==
    /\ Etapa("dma", "iommu") /\ k' = DmaIniciar(k, maq.m.arena)
    /\ UNCHANGED <<maq, b, pci, gp, io, sh, nv, nic, otros, g, cli, n>>

EtapaIommu ==
    \E r \in {IommuIniciar(k, io, maq.m.acpi)} :
        /\ fase = "iommu" /\ k' = r.k /\ io' = r.io
        /\ IF r.ok THEN fase' = "shim" /\ b' = b ELSE Quebrar
        /\ UNCHANGED <<maq, pci, gp, sh, nv, nic, otros, g, cli, n>>

EtapaShim ==
    \E r \in {ShimIniciar(sh, k, pci.devs)} :
        /\ Etapa("shim", "nvidia") /\ sh' = r.s /\ k' = r.k
        /\ UNCHANGED <<maq, b, pci, gp, io, nv, nic, otros, g, cli, n>>

EtapaNvidia ==
    \E r \in {CoreIniciar(nv, k, maq.m.bus)} :
        /\ Etapa("nvidia", "usb") /\ nv' = r.v /\ k' = r.k
        /\ UNCHANGED <<maq, b, pci, gp, io, sh, nic, otros, g, cli, n>>

(* The keyboard: PS/2 when asked for, xHCI otherwise, PS/2 when there is   *)
(* no xHCI. What xhci_iniciar takes from the arena is one page here; the   *)
(* driver itself is module Xhci.                                           *)
EtapaUsb ==
    \E a \in {DmaAsignar(k, 1, 1)} :
        /\ Etapa("usb", "red")
        /\ \/ (b.ps2 \/ ~maq.m.xhci \/ ~a.ok) /\ k' = k /\ otros' = otros /\ b' = [b EXCEPT !.ps2 = TRUE]
           \/ ~b.ps2 /\ maq.m.xhci /\ a.ok /\ k' = a.k /\ otros' = otros \cup {a.v} /\ b' = b
        /\ UNCHANGED <<maq, pci, gp, io, sh, nv, nic, g, cli, n>>

(* A card that is missing, or has no memory for its rings, does not stop   *)
(* the boot; a register that is not mapped does.                           *)
EtapaRed ==
    \E r \in {RedIniciar(k, nic, pci.devs)} :
        /\ fase = "red" /\ k' = r.k /\ nic' = r.e
        /\ IF r.ok THEN fase' = "pantalla" /\ b' = b ELSE Quebrar
        /\ UNCHANGED <<maq, pci, gp, io, sh, nv, otros, g, cli, n>>

EtapaPantalla ==
    /\ fase = "pantalla"
    /\ IF maq.m.pantalla THEN fase' = "smp" /\ b' = b ELSE Quebrar
    /\ UNCHANGED <<maq, k, pci, gp, io, sh, nv, nic, otros, g, cli, n>>

(* vmx_iniciar, tried only when the other processors are not used: the     *)
(* lock bit of the firmware is respected.                                  *)
VmxIniciar(m) == m.vmx \in {"libre", "activo"}

(* trabajos_iniciar may find other processors where the APIC works and the *)
(* limit allows them; they stop when their self-test fails or when the     *)
(* option of the test says so. The pool itself is module Trabajos.         *)
EtapaSmp ==
    /\ Etapa("smp", "audio")
    /\ \/ b' = [b EXCEPT !.vmx = VmxIniciar(maq.m)]
       \/ /\ b.apic /= "no" /\ b.limite >= 2
          /\ \E autoprueba \in BOOLEAN :
                 b' = [b EXCEPT !.smp = IF autoprueba /\ ~Opcion("smp=prueba") THEN "activo" ELSE "parado"]
    /\ UNCHANGED <<maq, k, pci, gp, io, sh, nv, nic, otros, g, cli, n>>

(* huevo_agrietar *)
Agrietar(salud) == IF salud > 25 THEN salud - 25 ELSE 0

(* Audio, one arena page here (module Audio has the driver), or a crack in *)
(* the egg, the first one at boot, so that it does not break.              *)
EtapaAudio ==
    \E a \in {DmaAsignar(k, 1, 1)} :
        /\ fase = "audio"
        /\ \/ (~maq.m.audio \/ ~a.ok) /\ k' = k /\ otros' = otros
              /\ b' = [b EXCEPT !.salud = Agrietar(@)] /\ fase' = "espera"
           \/ maq.m.audio /\ a.ok /\ fase' = "espera" /\ b' = b /\ k' = a.k /\ otros' = otros \cup {a.v}
        /\ UNCHANGED <<maq, pci, gp, io, sh, nv, nic, g, cli, n>>

(* intel_diagnostico_ring0_ejecutar; its other tests are over module       *)
(* Tareas.                                                                 *)
DiagIntel(gg, f) == [gg EXCEPT !.m = [DiagMemoria([@ EXCEPT !.falla = f], 4) EXCEPT !.falla = -1]]

(* Nine seconds of music, then the tests the options ask for: of the page  *)
(* support, and of the network, which asks for the state of the link.      *)
EtapaEspera ==
    /\ Etapa("espera", maq.guion)
    /\ g' = IF Opcion("intel=probar") THEN DiagIntel(g, -1) ELSE g
    /\ \E cable \in BOOLEAN : nic' = IF Opcion("red=prueba") THEN EnlaceActualizar(nic, cable) ELSE nic
    /\ UNCHANGED <<maq, b, k, pci, gp, io, sh, nv, otros, cli, n>>

(***************************************************************************)
(* Commands at the terminal, each with a request that may fail.            *)
(***************************************************************************)
Mando == fase = "mando" /\ n < MaxMandos /\ n' = n + 1

ConFalla(f) == [k EXCEPT !.falla = f]

MandoPaginacion ==
    /\ Mando /\ \E f \in Fallas : k' = [PaginacionAutodiag(ConFalla(f)).k EXCEPT !.falla = -1]
    /\ UNCHANGED <<maq, fase, b, pci, gp, io, sh, nv, nic, otros, g, cli>>

MandoShim ==
    /\ Mando
    /\ \E f \in Fallas : \E r \in {ShimAutodiag(sh, ConFalla(f), pci.devs)} :
           sh' = r.s /\ k' = [r.k EXCEPT !.falla = -1]
    /\ UNCHANGED <<maq, fase, b, pci, gp, io, nv, nic, otros, g, cli>>

(* The state of the display controller is asked for again, which tries     *)
(* gpu_iniciar again when it failed at boot.                               *)
MandoGpu ==
    /\ Mando
    /\ \E f \in Fallas : \E r \in {GpuIniciar(ConFalla(f), gp, pci)} :
           gp' = r.gp /\ k' = [r.k EXCEPT !.falla = -1]
    /\ UNCHANGED <<maq, fase, b, pci, io, sh, nv, nic, otros, g, cli>>

(* intel probar *)
MandoIntel ==
    /\ Mando /\ \E f \in Fallas : g' = DiagIntel(g, f)
    /\ UNCHANGED <<maq, fase, b, k, pci, gp, io, sh, nv, nic, otros, cli>>

(* The remapping tables are read again only if they were not at boot. *)
MandoIommu ==
    \E r \in {IommuAutodiag(k, io, maq.m.acpi)} :
        /\ Mando /\ k' = r.k /\ io' = r.io
        /\ UNCHANGED <<maq, fase, b, pci, gp, sh, nv, nic, otros, g, cli>>

(* red: the state of the link. *)
MandoRed ==
    /\ Mando /\ \E cable \in BOOLEAN : nic' = EnlaceActualizar(nic, cable)
    /\ UNCHANGED <<maq, fase, b, k, pci, gp, io, sh, nv, otros, g, cli>>

NextArranque ==
    \/ ArranqueTemprano \/ EtapaPaginacion \/ EtapaApic \/ EtapaPci \/ EtapaGpu
    \/ EtapaDma \/ EtapaIommu \/ EtapaShim \/ EtapaNvidia \/ EtapaUsb \/ EtapaRed \/ EtapaPantalla
    \/ EtapaSmp \/ EtapaAudio \/ EtapaEspera
    \/ MandoPaginacion \/ MandoShim \/ MandoGpu \/ MandoIntel \/ MandoIommu \/ MandoRed
=============================================================================
