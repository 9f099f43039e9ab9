------------------------------ MODULE Ethernet ------------------------------
(***************************************************************************)
(* How the Intel Ethernet driver (controladores/red/e1000.c) comes up: the *)
(* choice of the card, its registers, its address, the four parts of its   *)
(* rings in the arena, and the link. Sending and receiving over the rings  *)
(* is module Tramas. MMIO and arena come from Recursos.                    *)
(*   e.presente  a card was chosen; e.listo controlador_listo              *)
(*   e.anillos   first arena page of the receive ring, receive buffers,    *)
(*               transmit ring and transmit buffers (0: none)              *)
(*   e.activa    RCTL_EN: the card may write through the receive ring      *)
(***************************************************************************)
EXTENDS Recursos

CONSTANTS PaginasRed,        \* pages of registers where the BAR tells none, 32
          MaxPaginasRed,     \* pages of registers mapped at most, 256
          PaginasRx,         \* pages of RED_RX_DESC_COUNT receive buffers, 32
          PaginasTx          \* pages of RED_TX_DESC_COUNT transmit buffers, 16

ASSUME EthernetAssumption == {PaginasRed, MaxPaginasRed, PaginasRx, PaginasTx} \subseteq Nat \ {0}

(* The rings themselves fit in a page each. *)
PaginasAnillos == <<1, PaginasRx, 1, PaginasTx>>

SinAnillos == <<0, 0, 0, 0>>

SinTarjeta == [presente |-> FALSE, listo |-> FALSE, enlace |-> FALSE, familia |-> "", mac |-> "",
               anillos |-> SinAnillos, activa |-> FALSE]

RE(ok, k, e) == [ok |-> ok, k |-> k, e |-> e]

(* The choice of red_iniciar among the devices of the bus: the first       *)
(* supported Intel card with a memory BAR0, or the first of the ICH family *)
(* when there is one. 0: none.                                             *)
Candidatas(devs) ==
    {i \in DOMAIN devs : /\ devs[i].ven = "intel" /\ devs[i].clase = "red" /\ devs[i].soportada
                         /\ devs[i].barras[1].base /= 0 /\ ~devs[i].barras[1].io}

BuscarTarjeta(devs) ==
    LET c == Candidatas(devs)
        ich == {i \in c : devs[i].familia = "ich"}
        primera(s) == CHOOSE i \in s : \A j \in s : i <= j
    IN  CASE c = {} -> 0
          [] ich /= {} -> primera(ich)
          [] OTHER -> primera(c)

(* red_leer_mac: the address register, the EEPROM unless the family is     *)
(* ICH, or an address of its own.                                          *)
LeerMac(dev) ==
    CASE dev.rar -> "rar"
      [] ~dev.rar /\ dev.familia /= "ich" /\ dev.eeprom -> "eeprom"
      [] OTHER -> "respaldo"

(* red_mapear_mmio; a page that could not be mapped is not noticed. *)
PaginasDeMmio(tam) ==
    CASE tam = 0 -> PaginasRed
      [] tam > MaxPaginasRed -> MaxPaginasRed
      [] OTHER -> tam

MapearMmioRed(k, barra) == MapearSinMirar(k, "red", 0, barra.base, PaginasDeMmio(barra.tam))

(* red_liberar_recursos *)
LiberarAnillos(k, anillos) ==
    FoldLeft(LAMBDA a, i : IF anillos[i] = 0 THEN a ELSE DmaLiberar(a, anillos[i], PaginasAnillos[i]).k,
             k, <<1, 2, 3, 4>>)

(* red_asignar_anillos: the four parts are asked for, then looked at       *)
(* together; all are given back when one is missing.                       *)
AsignarAnillos(k, e) ==
    LET sigue(a, r) == [k |-> r.k, v |-> Append(a.v, r.v)]
        pide(a, i) == sigue(a, DmaAsignar(a.k, PaginasAnillos[i], 1))
        mira(t) == IF \E i \in 1 .. 4 : t.v[i] = 0 THEN RE(FALSE, LiberarAnillos(t.k, t.v), e)
                   ELSE RE(TRUE, t.k, [e EXCEPT !.anillos = t.v])
    IN  mira(FoldLeft(pide, [k |-> k, v |-> <<>>], <<1, 2, 3, 4>>))

(* red_configurar_rx *)
ConfigurarRx(e) == [e EXCEPT !.activa = TRUE]

(* red_enlace_actualizar, which does nothing before the driver is ready. *)
EnlaceActualizar(e, hayCable) == IF ~e.listo THEN e ELSE [e EXCEPT !.enlace = hayCable]

(* red_iniciar. Reading a register through a page that was not mapped is a *)
(* page fault, which stops the machine (ok = FALSE). The link is asked for *)
(* before the driver is marked ready, so it is not known yet.              *)
RedIniciar(k, e, devs) ==
    LET n == BuscarTarjeta(devs)
        elegida == [e EXCEPT !.presente = TRUE, !.familia = devs[n].familia]
        arranca(a) == IF ~a.ok THEN RE(TRUE, a.k, [a.e EXCEPT !.presente = FALSE])
                      ELSE RE(TRUE, a.k, [EnlaceActualizar(ConfigurarRx(a.e), TRUE) EXCEPT !.listo = TRUE])
        registros(m) == IF ~m.ok THEN RE(FALSE, m.k, elegida)
                        ELSE arranca(AsignarAnillos(m.k, [elegida EXCEPT !.mac = LeerMac(devs[n])]))
    IN  IF e.listo \/ e.presente \/ n = 0 THEN RE(TRUE, k, e)
        ELSE registros(MapearMmioRed(k, devs[n].barras[1]))

(* The arena pages the driver holds. *)
PaginasDeAnillos(e) ==
    UNION {Tramo(e.anillos[i], PaginasAnillos[i]) : i \in {j \in 1 .. 4 : e.anillos[j] /= 0}}
=============================================================================
