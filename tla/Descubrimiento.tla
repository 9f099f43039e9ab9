--------------------------- MODULE Descubrimiento ---------------------------
(***************************************************************************)
(* What the kernel finds out about the machine at boot: the PCI bus        *)
(* (arquitectura/x86_64/pci.c), the display controller and its registers   *)
(* (controladores/gpu.c) and the DMA remapping tables of the firmware      *)
(* (controladores/iommu.c).                                                *)
(* The machine is given as                                                 *)
(*   bus    the slots in the order of the scan, each [multi, fun], fun the *)
(*          functions of the slot, a raw function being a record of what   *)
(*          its configuration space holds; ven = "nadie" where nothing     *)
(*          answers                                                        *)
(*   acpi   [rsdp, hhdm, revision, xsdt, rsdt, dmar]: the state of the     *)
(*          root pointer, whether the tables lie in the direct map, and    *)
(*          the tables themselves                                          *)
(***************************************************************************)
EXTENDS Recursos

CONSTANTS MaxPci,            \* PCI_MAX_DISPOSITIVOS, 64
          PaginasGpu,        \* pages of the register BAR mapped, at most 4096
          MaxDrhd,           \* MAX_UNIDADES_DRHD, 8
          MaxRmrr            \* MAX_REGIONES_RMRR, 8

ASSUME DescubrimientoAssumption == {MaxPci, PaginasGpu, MaxDrhd, MaxRmrr} \subseteq Nat \ {0}

(***************************************************************************)
(* PCI.                                                                    *)
(***************************************************************************)
SinBarra == [valida |-> FALSE, base |-> 0, tam |-> 0, io |-> FALSE, b64 |-> FALSE, pref |-> FALSE]

(* A size in pages that is a power of two. *)
EsPotencia(t) == t \in {2 ^ i : i \in 0 .. 8}

(* pci_sondear_barra. Decoding is off while the BAR is written, and the    *)
(* BAR and the command register are written back on every exit, so the     *)
(* probe leaves the function as it found it. A 64-bit BAR in the last      *)
(* register is read as 32 bits of a type that is not valid.                *)
SondearBarra(reg, idx, ultima) ==
    CASE reg.tipo = "nada" -> SinBarra
      [] reg.tipo = "io" -> [SinBarra EXCEPT !.valida = EsPotencia(reg.tam), !.base = reg.base, !.tam = reg.tam, !.io = TRUE]
      [] reg.tipo = "m32" -> [SinBarra EXCEPT !.valida = EsPotencia(reg.tam), !.base = reg.base, !.tam = reg.tam, !.pref = reg.pref]
      [] reg.tipo = "m64" /\ idx < ultima ->
             [valida |-> EsPotencia(reg.tam), base |-> reg.base, tam |-> reg.tam, io |-> FALSE, b64 |-> TRUE, pref |-> reg.pref]
      [] OTHER -> [SinBarra EXCEPT !.base = reg.base, !.tam = reg.tam, !.pref = reg.pref]

(* The loop of pci_iniciar over the registers: the upper half of a 64-bit  *)
(* BAR is not a BAR.                                                       *)
SondearBarras(regs) ==
    LET n == Len(regs)
        una(a, i) == IF a.salta THEN [salta |-> FALSE, bs |-> Append(a.bs, SinBarra)]
                     ELSE LET b == SondearBarra(regs[i], i, n) IN [salta |-> b.b64, bs |-> Append(a.bs, b)]
    IN  FoldLeft(una, [salta |-> FALSE, bs |-> <<>>], [i \in 1 .. n |-> i]).bs

EsPantalla(f) == f.clase = "pantalla"

(* One function of pci_iniciar: entered in the table while there is room;  *)
(* the first display controller is the primary one, and an NVIDIA one      *)
(* takes its place.                                                        *)
AnotarFuncion(a, f) ==
    IF f.ven = "nadie" \/ Len(a.devs) >= MaxPci THEN a
    ELSE [devs |-> Append(a.devs, [f EXCEPT !.barras = IF f.puente THEN <<SinBarra, SinBarra, SinBarra>>
                                                       ELSE SondearBarras(f.barras)]),
          gpu |-> IF EsPantalla(f) /\ (a.gpu = 0 \/ f.ven = "nvidia") THEN Len(a.devs) + 1 ELSE a.gpu]

(* One slot: nothing when function 0 is missing, only function 0 unless    *)
(* its header says there are more.                                         *)
AnotarRanura(a, r) ==
    IF r.fun[1].ven = "nadie" THEN a
    ELSE FoldLeft(AnotarFuncion, a, IF r.multi THEN r.fun ELSE SubSeq(r.fun, 1, 1))

PciIniciar(bus) == FoldLeft(AnotarRanura, [devs |-> <<>>, gpu |-> 0], bus)

(***************************************************************************)
(* The display controller.                                                 *)
(***************************************************************************)
SinGpu == [iniciada |-> FALSE, detectada |-> FALSE, mmio |-> 0, vram |-> FALSE, activo |-> FALSE, maestro |-> FALSE]

(* Which BARs gpu_iniciar takes for registers and for video memory; 0 when *)
(* there is none. The last rule of the code, the first BAR for registers,  *)
(* is kept.                                                                *)
BarrasGpu(d) ==
    LET mem == {b \in DOMAIN d.barras : d.barras[b].valida /\ ~d.barras[b].io}
        primera(s) == IF s = {} THEN 0 ELSE CHOOSE b \in s : \A c \in s : b <= c
        regs == primera({b \in mem : ~d.barras[b].pref})
    IN  CASE d.ven = "nvidia" -> [mmio |-> 1, vram |-> 2]
          [] d.ven = "bochs" -> [mmio |-> 3, vram |-> 1]
          [] OTHER -> [mmio |-> IF regs = 0 THEN 1 ELSE regs,
                       vram |-> primera({b \in mem : d.barras[b].pref})]

(* gpu_iniciar, also run by gpu_obtener_estado until it has succeeded:     *)
(* nothing found (1), a page that could not be mapped (-2, what is mapped  *)
(* stays), or done (0).                                                    *)
GpuIniciar(k, gp, pci) ==
    LET d == pci.devs[pci.gpu]
        con(b) == [base |-> IF d.barras[b.mmio].valida THEN d.barras[b.mmio].base ELSE 0,
                   n |-> IF d.barras[b.mmio].tam \in 1 .. PaginasGpu THEN d.barras[b.mmio].tam ELSE PaginasGpu,
                   vram |-> b.vram /= 0 /\ d.barras[b.vram].valida]
        vista(x) == [SinGpu EXCEPT !.detectada = TRUE, !.mmio = x.base, !.vram = x.vram]
        mapeada(x, m) == IF ~m.ok THEN [v |-> -2, k |-> m.k, gp |-> vista(x)]
                         ELSE [v |-> 0, k |-> m.k, gp |-> [vista(x) EXCEPT !.activo = TRUE, !.maestro = TRUE, !.iniciada = TRUE]]
        hallada(x) == IF x.base = 0 THEN [v |-> 0, k |-> k, gp |-> [vista(x) EXCEPT !.iniciada = TRUE]]
                      ELSE mapeada(x, MapearTodas(k, "gpu", 0, x.base, x.n))
    IN  CASE gp.iniciada -> [v |-> 0, k |-> k, gp |-> gp]
          [] ~gp.iniciada /\ pci.gpu = 0 -> [v |-> 1, k |-> k, gp |-> SinGpu]
          [] OTHER -> hallada(con(BarrasGpu(d)))

(***************************************************************************)
(* DMA remapping.                                                          *)
(***************************************************************************)
SinIommu == [listo |-> FALSE, modo |-> "desconocido", dmar |-> FALSE, drhd |-> <<>>, rmrr |-> 0, acpi |-> 0]

RI(ok, k, io) == [ok |-> ok, k |-> k, io |-> io]

(* acpi_mapear_memoria_fisica: nothing to do for a table in the direct     *)
(* map; otherwise a new page, whose mapping is not checked, and the read   *)
(* that follows stops the machine when it failed (ok = FALSE).             *)
AcpiMapear(a, hhdm) ==
    LET con(m) == RI(m.ok, m.k, [a.io EXCEPT !.acpi = @ + 1])
    IN  IF ~a.ok \/ hhdm THEN a ELSE con(MapearSinMirar(a.k, "acpi", a.io.acpi, 1, 1))

(* One index of tables, XSDT or RSDT: its header, the whole of it, then    *)
(* the header of each table until the DMAR, which is mapped whole.         *)
BuscarDmar(a, hhdm, tabla) ==
    LET es(d) == [d EXCEPT !.io.dmar = d.ok]
        una(b, t) == CASE ~b.ok \/ b.io.dmar -> b
                       [] b.ok /\ ~b.io.dmar /\ t /= "DMAR" -> AcpiMapear(b, hhdm)
                       [] OTHER -> es(AcpiMapear(AcpiMapear(b, hhdm), hhdm))
    IN  CASE ~a.ok \/ a.io.dmar \/ ~tabla.hay -> a
          [] a.ok /\ ~a.io.dmar /\ tabla.hay /\ ~tabla.firma -> AcpiMapear(a, hhdm)
          [] OTHER -> FoldLeft(una, AcpiMapear(AcpiMapear(a, hhdm), hhdm), tabla.ents)

(* One structure of the DMAR: a unit, whose registers are mapped (the      *)
(* result is not looked at and the registers are read), or a region. The   *)
(* walk ends at a structure of a bad length.                               *)
LeerEstructura(a, s) ==
    LET unidad(m) == [ok |-> m.ok, fin |-> FALSE, k |-> m.k,
                      io |-> [a.io EXCEPT !.drhd = Append(@, [trad |-> s.trad, pt |-> s.pt])]]
    IN  CASE ~a.ok \/ a.fin -> a
          [] a.ok /\ ~a.fin /\ s.malo -> [a EXCEPT !.fin = TRUE]
          [] a.ok /\ ~a.fin /\ ~s.malo /\ s.tipo = "drhd" /\ Len(a.io.drhd) < MaxDrhd ->
                 unidad(MapearSinMirar(a.k, "iommu", Len(a.io.drhd), 1, 1))
          [] a.ok /\ ~a.fin /\ ~s.malo /\ s.tipo = "rmrr" /\ a.io.rmrr < MaxRmrr -> [a EXCEPT !.io.rmrr = @ + 1]
          [] OTHER -> a

ModoIommu(drhd) ==
    CASE \E i \in DOMAIN drhd : drhd[i].trad -> "traduccion"
      [] (\E i \in DOMAIN drhd : drhd[i].pt) /\ (\A i \in DOMAIN drhd : ~drhd[i].trad) -> "passthrough"
      [] OTHER -> "directo"

(* iommu_iniciar *)
IommuIniciar(k, io, acpi) ==
    LET nada == RI(TRUE, k, [SinIommu EXCEPT !.modo = "directo", !.listo = TRUE])
        modo(e) == RI(e.ok, e.k, [e.io EXCEPT !.modo = ModoIommu(e.io.drhd)])
        leer(t) == IF ~t.io.dmar THEN t
                   ELSE modo(FoldLeft(LeerEstructura, [ok |-> t.ok, fin |-> FALSE, k |-> t.k, io |-> t.io], acpi.dmar))
        xsdt(r) == IF acpi.revision >= 2 THEN BuscarDmar(r, acpi.hhdm, acpi.xsdt) ELSE r
        raiz(r) == IF acpi.rsdp = "mala" THEN r ELSE leer(BuscarDmar(xsdt(r), acpi.hhdm, acpi.rsdt))
    IN  CASE io.listo -> RI(TRUE, k, io)
          [] ~io.listo /\ acpi.rsdp = "no" -> nada
          [] OTHER -> raiz(AcpiMapear(nada, acpi.hhdm))

(* iommu_ejecutar_autodiagnostico and the queries: they only report. *)
IommuAutodiag(k, io, acpi) == IommuIniciar(k, io, acpi)

=============================================================================
