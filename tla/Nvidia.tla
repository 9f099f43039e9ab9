------------------------------- MODULE Nvidia -------------------------------
(***************************************************************************)
(* The NVIDIA driver: the layer over the kernel (nv_os_interface.c), the   *)
(* search of the card and the shared buffer (nvidia_core.c), the protected *)
(* region of the GSP firmware (gsp_firmware.c) and the synchronous calls   *)
(* to the GSP (gsp_rpc.c). At boot only nvidia_core_iniciar runs; the      *)
(* bring-up of the GSP has no caller in this commit and is modelled from   *)
(* nvidia_core_autodiagnostico, its outermost function, which never takes  *)
(* the firmware down again.                                                *)
(*   v.bar, v.buf, v.wpr   the window on BAR0, the shared buffer and the   *)
(*                         protected region (0: none); v.tam is            *)
(*                         g_wpr_tamano, in pages                          *)
(*   v.pags, v.mmio        g_nv_paginas_dma and g_nv_mapeos_mmio           *)
(*   v.cmd                 requests the GSP has not taken yet              *)
(*   v.stat                the answers written so far, by sequence number  *)
(*   v.inicio              cola_inicio of the call under way (-1: none)    *)
(*   v.guion               the calls still to make                         *)
(***************************************************************************)
EXTENDS Recursos

CONSTANTS PaginasBar,        \* pages of BAR0, 4096 (16 MiB)
          PaginasWpr,        \* pages of the protected region, 4096 (16 MiB)
          PaginasWprMin,     \* the second attempt, 1024 (4 MiB)
          MaxColaGsp         \* requests that fit in the command queue

ASSUME NvidiaAssumption == /\ {PaginasBar, PaginasWpr, PaginasWprMin, MaxColaGsp} \subseteq Nat \ {0}
                           /\ 3 * Grande <= PaginasWprMin /\ PaginasWprMin <= PaginasWpr

SinNvidia == [listo |-> FALSE, presente |-> FALSE, bar |-> 0, buf |-> 0, wpr |-> 0, tam |-> PaginasWpr,
              estado |-> "no iniciado", cargado |-> FALSE, rpc |-> FALSE, buzon |-> 0, pags |-> 0, mmio |-> 0,
              sec |-> 1, cmd |-> <<>>, stat |-> <<>>, inicio |-> -1, guion |-> <<>>]

RN(ok, v, k) == [ok |-> ok, v |-> v, k |-> k]

(* nv_os_alloc_pages keeps a count of its own. *)
NvAllocPages(v, k, n) ==
    LET con(r) == [ok |-> r.ok, v |-> IF r.ok THEN [v EXCEPT !.pags = @ + n] ELSE v, k |-> r.k, p |-> r.v]
    IN  con(AllocCoherent(k, n))

(* nv_os_map_mmio *)
NvMapMmio(v, k, fis, n) ==
    LET con(r) == [ok |-> r.ok, v |-> IF r.ok THEN [v EXCEPT !.mmio = @ + 1] ELSE v, k |-> r.k, p |-> r.v]
    IN  con(Ioremap(k, fis, n))

(* The search reads the configuration space itself: function 0 of every    *)
(* slot, and the register of BAR0 as it stands.                            *)
PrimeraNvidia(bus) ==
    LET c == {i \in DOMAIN bus : bus[i].fun[1].ven = "nvidia"}
    IN  IF c = {} THEN 0 ELSE CHOOSE i \in c : \A j \in c : i <= j

(* nvidia_core_iniciar: the card may be missing or its window not mapped;  *)
(* the shared buffer is asked for in any case.                             *)
CoreIniciar(v, k, bus) ==
    LET n == PrimeraNvidia(bus)
        buferes(b) == RN(TRUE, [b.v EXCEPT !.buf = b.p, !.listo = TRUE], b.k)
        tarjeta(m) == NvAllocPages([m.v EXCEPT !.presente = TRUE, !.bar = m.p, !.estado = "reset"], m.k, 2)
    IN  CASE v.listo -> RN(TRUE, v, k)
          [] ~v.listo /\ n = 0 -> buferes(NvAllocPages(v, k, 2))
          [] OTHER -> buferes(tarjeta(NvMapMmio(v, k, bus[n].fun[1].barras[1].base, PaginasBar)))

(* gsp_firmware_cargar: the full region, or the small one, which then      *)
(* stays the size asked for.                                               *)
FirmwareCargar(v, k) ==
    LET hecho(a) == RN(TRUE, [a.v EXCEPT !.wpr = a.p, !.cargado = TRUE], a.k)
        pequena(b) == IF b.ok THEN hecho(b) ELSE RN(FALSE, b.v, b.k)
        entera(a) == IF a.ok THEN hecho(a)
                     ELSE pequena(NvAllocPages([v EXCEPT !.tam = PaginasWprMin], k, PaginasWprMin))
    IN  IF v.cargado THEN RN(TRUE, v, k) ELSE entera(NvAllocPages(v, k, v.tam))

(* gsp_firmware_autodiagnostico: the region must be aligned to 64 KiB. *)
FirmwareAutodiag(v, k) ==
    LET con(c) == [c EXCEPT !.ok = @ /\ (c.v.wpr - 1) % Grande = 0]
    IN  con(FirmwareCargar(v, k))

(* The command queue lies 64 KiB into the region, the status queue 64 KiB  *)
(* behind it.                                                              *)
ColaCmd(v) == v.wpr + Grande

(* gsp_rpc_iniciar: both queues empty in the region; the mailboxes get the *)
(* address of the command queue.                                           *)
RpcIniciar(v, k) ==
    LET con(c) == IF ~c.ok THEN c
                  ELSE RN(TRUE, [c.v EXCEPT !.rpc = TRUE, !.cmd = <<>>, !.stat = <<>>,
                                            !.buzon = IF v.bar /= 0 THEN ColaCmd(c.v) ELSE 0], c.k)
    IN  IF v.rpc THEN RN(TRUE, v, k) ELSE con(FirmwareCargar(v, k))

(* The calls of gsp_rpc_autodiagnostico, then those of                     *)
(* nvidia_gpu_inicializar_completo.                                        *)
LlamadasAutodiag == <<"noop", "initialize", "get_caps">>

LlamadasCompletas == <<"initialize*", "get_caps*">>

(* nvidia_core_autodiagnostico up to its first call: buffer, card,         *)
(* firmware and channel.                                                   *)
CoreAutodiag(v, k, bus) ==
    LET canal(r) == IF ~r.ok THEN r
                    ELSE [r EXCEPT !.v.guion = LlamadasAutodiag
                              \o (IF r.v.estado = "operativo" THEN <<>> ELSE LlamadasCompletas)]
        firmware(f) == IF f.ok THEN canal(RpcIniciar(f.v, f.k)) ELSE f
        nucleo(c) == IF c.v.buf = 0 \/ ~c.v.presente THEN RN(c.v.buf /= 0, c.v, c.k)
                     ELSE firmware(FirmwareAutodiag(c.v, c.k))
    IN  nucleo(CoreIniciar(v, k, bus))

(* gsp_rpc_enviar_sincrono up to its wait: the request is written when it  *)
(* fits before the end of the queue, whose tail never wraps in the data.   *)
(* The firmware and channel the full sequence asks for first are already   *)
(* there, so the card is starting when its first call goes out.            *)
RpcEnviar(v) ==
    [v EXCEPT !.sec = @ + 1, !.inicio = Len(v.stat),
              !.estado = IF Head(v.guion) = "initialize*" THEN "gsp iniciando" ELSE @,
              !.cmd = IF v.sec <= MaxColaGsp THEN Append(@, v.sec) ELSE @]

(* The GSP takes a request and answers it. *)
GspContesta(v) == [v EXCEPT !.cmd = Tail(@), !.stat = Append(@, Head(v.cmd))]

(* The wait ends with the answer at the place where the tail was when the  *)
(* call began, whatever request it answers: the answer to a call that      *)
(* timed out is taken for that of a later one.                             *)
RpcLeer(v) ==
    [v EXCEPT !.inicio = -1, !.guion = Tail(@),
              !.estado = IF Head(v.guion) = "get_caps*" THEN "operativo" ELSE @]

(* 500 ms without an answer, or an answer that says no: the sequence ends. *)
RpcFallo(v) ==
    [v EXCEPT !.inicio = -1, !.guion = <<>>,
              !.estado = IF Head(v.guion) \in {"initialize*", "get_caps*"} THEN "fallo" ELSE @]

(* The arena pages the driver holds. *)
PaginasNvidia(v) ==
    (IF v.buf = 0 THEN {} ELSE Tramo(v.buf, 2)) \cup (IF v.wpr = 0 THEN {} ELSE Tramo(v.wpr, v.tam))

(* The two queues, which the GSP reaches from the address in its mailboxes. *)
PaginasDeColas(v) == IF v.buzon = 0 THEN {} ELSE Tramo(v.buzon, 2 * Grande)
=============================================================================
