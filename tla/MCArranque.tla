----------------------------- MODULE MCArranque -----------------------------
(***************************************************************************)
(* Small machines for Arranque and Clientes. The machines of the terminal  *)
(* differ in what the boot may find; the clients start from machines whose *)
(* boot meets no failing request.                                          *)
(***************************************************************************)
EXTENDS Clientes

Nada == [tipo |-> "nada", base |-> 0, tam |-> 0, pref |-> FALSE]
M32(base, tam) == [tipo |-> "m32", base |-> base, tam |-> tam, pref |-> FALSE]
M64(base, tam, pref) == [tipo |-> "m64", base |-> base, tam |-> tam, pref |-> pref]
Io(base, tam) == [tipo |-> "io", base |-> base, tam |-> tam, pref |-> FALSE]

Fun(ven, id, clase, barras) ==
    [ven |-> ven, id |-> id, clase |-> clase, funcion |-> 0, puente |-> FALSE, familia |-> "",
     soportada |-> FALSE, rar |-> FALSE, eeprom |-> FALSE, barras |-> barras]

Ausente == Fun("nadie", "", "", <<Nada, Nada, Nada>>)
Puente == [Fun("intel", "raiz", "puente", <<Nada, Nada, Nada>>) EXCEPT !.puente = TRUE]
Igpu == Fun("intel", "kbl", "pantalla", <<M64(10, 2, FALSE), Nada, M64(20, 4, TRUE)>>)
IgpuRara == [Igpu EXCEPT !.barras = <<Io(1, 1), Nada, M32(20, 4)>>]
Bochs == Fun("bochs", "vga", "pantalla", <<[M32(30, 4) EXCEPT !.pref = TRUE], Nada, M32(34, 1)>>)
Nv == Fun("nvidia", "ad107", "pantalla", <<M32(40, 2), M64(44, 4, TRUE), Nada>>)
NvSonido == [Fun("nvidia", "hda", "audio", <<M32(50, 1), Nada, Nada>>) EXCEPT !.funcion = 1]
E1000 == [Fun("intel", "e1000", "red", <<M32(60, 2), Nada, Nada>>)
            EXCEPT !.soportada = TRUE, !.familia = "clasica", !.eeprom = TRUE]
Ich == [E1000 EXCEPT !.id = "i219", !.familia = "ich", !.rar = TRUE, !.eeprom = FALSE, !.barras = <<M32(70, 2), Nada, Nada>>]
IchGrande == [Ich EXCEPT !.barras = <<M32(80, 3), Nada, Nada>>]
RedAjena == [E1000 EXCEPT !.id = "x550", !.soportada = FALSE]

Uno(f) == [multi |-> FALSE, fun |-> <<f, Ausente>>]
Dos(f, h) == [multi |-> TRUE, fun |-> <<f, h>>]

SinAcpi == [rsdp |-> "no", hhdm |-> TRUE, revision |-> 0, xsdt |-> [hay |-> FALSE, firma |-> FALSE, ents |-> <<>>],
            rsdt |-> [hay |-> FALSE, firma |-> FALSE, ents |-> <<>>], dmar |-> <<>>]
Indice(ents) == [hay |-> TRUE, firma |-> TRUE, ents |-> ents]
Drhd(trad, pt) == [tipo |-> "drhd", malo |-> FALSE, trad |-> trad, pt |-> pt]
Rmrr == [tipo |-> "rmrr", malo |-> FALSE, trad |-> FALSE, pt |-> FALSE]
Malo == [tipo |-> "drhd", malo |-> TRUE, trad |-> TRUE, pt |-> TRUE]

AcpiTraduce == [rsdp |-> "bien", hhdm |-> FALSE, revision |-> 2, xsdt |-> Indice(<<"FACP", "DMAR">>),
                rsdt |-> Indice(<<"FACP">>), dmar |-> <<Drhd(FALSE, TRUE), Rmrr, Drhd(TRUE, FALSE), Rmrr, Malo>>]
AcpiVieja == [AcpiTraduce EXCEPT !.revision = 0, !.hhdm = TRUE, !.dmar = <<Drhd(TRUE, TRUE), Malo, Rmrr>>,
                                 !.rsdt = Indice(<<"DMAR">>)]
AcpiSinDmar == [AcpiTraduce EXCEPT !.xsdt = [hay |-> TRUE, firma |-> FALSE, ents |-> <<>>]]
AcpiRota == [AcpiTraduce EXCEPT !.rsdp = "mala"]

Fallos == -1 .. 16

Completa ==
    [limine |-> TRUE, opciones |-> {}, apic |-> "xapic",
     bus |-> <<Uno(Puente), Uno(Igpu), Uno(E1000), Dos(Nv, NvSonido)>>, arena |-> 28, acpi |-> AcpiTraduce,
     xhci |-> TRUE, pantalla |-> TRUE, vmx |-> "libre", audio |-> TRUE,
     guiones |-> {"mando"}, fallas |-> Fallos]

Sana == [Completa EXCEPT !.acpi = SinAcpi, !.fallas = {-1}, !.opciones = {"smp=1"}]

(* Without an NVIDIA card the window table is the client's own. *)
DeClientes == [Sana EXCEPT !.bus = <<Uno(Puente), Uno(Igpu), Uno(E1000)>>, !.apic = "x2apic",
                           !.guiones = {"video", "diferido", "sonda"}]

LasMaquinas ==
    {Completa, DeClientes,
     [Completa EXCEPT !.limine = FALSE, !.fallas = {-1}],
     [Completa EXCEPT !.pantalla = FALSE, !.fallas = {-1}],
     [Completa EXCEPT !.bus = <<Uno(Ausente), Uno(IgpuRara), Dos(E1000, Ich), Uno(RedAjena)>>, !.acpi = AcpiVieja,
                      !.apic = "no", !.opciones = {"ps2", "smp=0", "red=prueba"}],
     [Completa EXCEPT !.bus = <<Dos(Bochs, Ausente), Uno(RedAjena), Uno(IchGrande)>>, !.acpi = AcpiSinDmar,
                      !.apic = "x2apic", !.opciones = {"intel=probar", "smp=2", "smp=prueba"}, !.xhci = FALSE, !.audio = FALSE],
     [Completa EXCEPT !.bus = <<Uno(Puente)>>, !.acpi = AcpiRota, !.arena = 1, !.vmx = "no"],
     [Completa EXCEPT !.arena = 7, !.acpi = SinAcpi]}
    \cup {[Sana EXCEPT !.guiones = {"gsp"}, !.arena = a, !.bus = bus] :
             a \in {28, 22, 12}, bus \in {Completa.bus, <<Uno(Igpu)>>}}
=============================================================================
