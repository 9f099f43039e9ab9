-------------------------------- MODULE Pila --------------------------------
(***************************************************************************)
(* The IPv4 stack of controladores/red/pila.c.  All of it runs inside the  *)
(* blocking call that polls it: a loop calls red_pila_sondeo, which        *)
(* handles the frames that have arrived and then the TCP timer, looks at   *)
(* its condition and gives up after a time.  A send to a hop that is not   *)
(* in the ARP cache polls too, from inside the handler or the timer that   *)
(* sends, so polls nest: `espera` is the stack of those sends.             *)
(*                                                                         *)
(* Frames are records.  A frame that was ever sent may arrive, any number  *)
(* of times, in any order, or never: `salen` and `llegan` only grow.       *)
(* Addresses are hosts; checksums, which discard corrupted frames, belong  *)
(* to "never arrives".  Random identifiers (ports, DHCP and DNS ids) are   *)
(* fresh numbers.                                                          *)
(***************************************************************************)
EXTENDS Integers, FiniteSets, Sequences, SequencesExt

CONSTANTS
  Pc, Puerta,  \* the hosts of the LAN: the peer and the gateway
  Fuera,       \* a peer beyond the gateway
  ServidoresDhcp,
  Nadie,       \* the zero address
  MaxArp,      \* entries of the ARP cache (8)
  Modulo,      \* sequence numbers are Modulo values (2^32)
  Isn, IsnPar, \* first sequence numbers of the kernel and of the peers
  Reintentos,  \* RED_TCP_REINTENTOS
  MaxConexiones, MaxIds   \* bounds: connections, DHCP exchanges, queries

Lan == {Pc, Puerta}

\* A connection moves a few units each way, far fewer than there are numbers.
ASSUME ModuloAssumption == /\ Modulo \in Nat /\ Modulo > 7
                           /\ Isn \in 0..(Modulo - 1) /\ IsnPar \in 0..(Modulo - 1)
ASSUME LimitesAssumption == MaxArp \in Nat /\ Reintentos \in Nat /\ MaxConexiones \in Nat
ASSUME DireccionesAssumption == Fuera \notin Lan /\ Nadie \notin Lan \cup ServidoresDhcp

VARIABLES
  cfg,        \* struct red_config: [configurada, por_dhcp, ip, puerta, dns, servidor]
  arp,        \* addresses with a valid entry in g_arp
  dhcp,       \* g_dhcp_*: [xid, esperado, recibido, ip, puerta, dns, servidor]
  dns,        \* g_dns_*: [id, recibido]
  ping,       \* g_ping_*: [id, secuencia, activo, respuestas]
  tcp,        \* g_tcp
  payload,    \* g_payload, one buffer for every send
  espera,     \* sends that wait for ARP, innermost last
  pc,         \* where the call in progress polls; "libre" outside calls
  salen, llegan,  \* frames sent by the kernel, and to it
  par         \* the peers' ends of the TCP connections

pila == <<cfg, arp, dhcp, dns, ping, tcp, payload, espera>>
red == <<salen, llegan>>

Mas(a, n) == (a + n) % Modulo

TcpCero == [activa |-> 0, con |-> 0, remota |-> Nadie, seq |-> 0, ack |-> 0, estado |-> 0,
            ack_de_datos |-> 0, fin_recibido |-> 0, seq_ultimo |-> 0, ultimo |-> <<>>,
            ultimo_flags |-> "", reintentos |-> 0, rx |-> <<>>, rx_capacidad |-> 0,
            rx_desbordado |-> 0]

CfgVacia == [configurada |-> 0, por_dhcp |-> 0, ip |-> Nadie, puerta |-> Nadie,
             dns |-> Nadie, servidor |-> Nadie]

ParCero == [est |-> "nada", rcv |-> 0, datos |-> <<>>, resp |-> <<>>, hecho |-> 0]

\* red_ip_estatica: without a name server, or with one that need not be the
\* gateway.
CfgEstaticas ==
  {[configurada |-> 1, por_dhcp |-> 0, ip |-> Nadie, puerta |-> Puerta, dns |-> d,
    servidor |-> Nadie] : d \in {Nadie, Pc}}

\* After the start, or after `red ip`.
InitPila ==
  /\ cfg \in {CfgVacia} \cup CfgEstaticas /\ arp = {}
  /\ dhcp = [xid |-> 0, esperado |-> 0, recibido |-> 0, ip |-> Nadie,
             puerta |-> Nadie, dns |-> Nadie, servidor |-> Nadie]
  /\ dns = [id |-> 0, recibido |-> 0]
  /\ ping = [id |-> 0, secuencia |-> 0, activo |-> 0, respuestas |-> 0]
  /\ tcp = TcpCero /\ payload = <<>> /\ espera = <<>> /\ pc = "libre"
  /\ salen = {} /\ llegan = {}
  /\ par = [c \in 1..MaxConexiones |-> ParCero]

-----------------------------------------------------------------------------
(* Sending.                                                                 *)

\* red_misma_subred: the next hop of a packet for h.
Salto(h) == IF h \in Lan THEN h ELSE cfg.puerta

\* red_enviar_ipv4 of what is in g_payload, built by the caller as `s`: if the
\* hop is not in the cache, red_arp_resolver asks for it and polls.
\* `quien` is what the caller does with a failure.  Sends that wait when this
\* one leaves are those of the same segment, retransmitted from inside their
\* polls (see EnviosAnidados).  The timer is the last thing a poll does and each
\* of them looks at the cache right after its poll: they all go out with what
\* g_payload holds now, and no frame is handled in between.
EnviarIpv4(h, s, quien) ==
  /\ payload' = s
  /\ IF Salto(h) \in arp
     THEN salen' = salen \cup {s} /\ espera' = <<>>
     ELSE espera' = Append(espera, [salto |-> Salto(h), seg |-> s, quien |-> quien])
          /\ UNCHANGED salen

\* red_tcp_enviar_segmento_seq for the connection t.
Segmento(t, dat, fl, seq) ==
  [con |-> t.con, a |-> t.remota, fl |-> fl, seq |-> seq, ack |-> t.ack, dat |-> dat]

\* red_tcp_guardar_ultimo.
GuardarUltimo(t, dat, fl) ==
  [t EXCEPT !.seq_ultimo = t.seq, !.ultimo = dat, !.ultimo_flags = fl,
            !.reintentos = 0, !.ack_de_datos = 0]

\* The acknowledgement a handler sends.  A segment of the peer answers one that
\* left, so the hop is in the cache and the send does not poll (see
\* EnviosAnidados).  A peer that waits for it sends again, which any frame may
\* do anyway: bare acknowledgements are not kept in `salen`.
Acusa(t) == Segmento(t, <<>>, "A", t.seq)

-----------------------------------------------------------------------------
(* red_pila_sondeo: one frame.                                              *)

\* A call polls in its loops and while a send waits, not between them.
Sondea == pc \notin {"libre", "fin"} /\ (pc = "resolver" => espera # <<>>)

\* An ARP frame of h: its address enters the cache if there is room; a request
\* for our address is answered, which changes nothing else.
RecibirArp(h) ==
  /\ Sondea /\ h \in Lan \ arp
  /\ arp' = IF Cardinality(arp) < MaxArp THEN arp \cup {h} ELSE arp
  /\ UNCHANGED <<cfg, dhcp, dns, ping, tcp, payload, espera, pc, red, par>>

\* An echo reply counts only for the request under way.
RecibirEco(f) ==
  /\ Sondea /\ f \in llegan /\ f.fl = "eco"
  /\ ping.activo = 1 /\ f.con = ping.id /\ f.seq = ping.secuencia
  /\ ping' = [ping EXCEPT !.respuestas = @ + 1, !.activo = 0]
  /\ UNCHANGED <<cfg, arp, dhcp, dns, tcp, payload, espera, pc, red, par>>

\* Mutation: the number of the exchange is not looked at.
EsperadaDeCualquiera(f) == f.seq = dhcp.esperado

\* The answer belongs to this exchange and is of the kind expected.
Esperada(f) == f.con = dhcp.xid /\ f.seq = dhcp.esperado

\* red_procesar_dhcp.  Options a server leaves out (Nadie) keep the value of an
\* earlier answer.
RecibirDhcp(f) ==
  /\ Sondea /\ f \in llegan /\ f.fl = "dhcp" /\ Esperada(f)
  /\ LET o == f.dat[1]
         Opcion(nueva, vieja) == IF nueva = Nadie THEN vieja ELSE nueva
     IN dhcp' = [dhcp EXCEPT !.recibido = 1, !.ip = o.ip,
                             !.puerta = Opcion(o.puerta, @),
                             !.dns = Opcion(o.dns, @),
                             !.servidor = Opcion(o.servidor, @)]
  /\ UNCHANGED <<cfg, arp, dns, ping, tcp, payload, espera, pc, red, par>>

\* red_procesar_dns.
RecibirDns(f) ==
  /\ Sondea /\ f \in llegan /\ f.fl = "dns" /\ f.con = dns.id
  /\ dns' = [dns EXCEPT !.recibido = 1]
  /\ UNCHANGED <<cfg, arp, dhcp, ping, tcp, payload, espera, pc, red, par>>

\* Mutation: any acknowledgement counts for the last segment.
AcuseCualquiera(t, f) == f.fl # "R" /\ t.estado >= 2

\* Stop and wait: only the exact acknowledgement of the last segment counts.
AcuseExacto(t, f) ==
  /\ t.estado >= 2
  /\ f.ack = Mas(t.seq_ultimo, Len(t.ultimo) + IF t.ultimo_flags \in {"S", "FA"} THEN 1 ELSE 0)

\* Mutation: data out of order is taken as the next.
ConDatosSinOrden(t, f) ==
  IF f.dat = <<>> THEN t
  ELSE [t EXCEPT !.rx = @ \o f.dat, !.ack = Mas(f.seq, Len(f.dat))]

\* Data in order is copied as far as the buffer goes, and acknowledged whole.
ConDatos(t, f) ==
  IF f.dat = <<>> \/ f.seq # t.ack THEN t
  ELSE LET cabe == t.rx_capacidad - Len(t.rx)
           n == IF Len(f.dat) < cabe THEN Len(f.dat) ELSE cabe
       IN [t EXCEPT !.rx = @ \o SubSeq(f.dat, 1, n),
                    !.rx_desbordado = IF n < Len(f.dat) THEN 1 ELSE @,
                    !.ack = Mas(@, Len(f.dat))]

\* The FIN counts once everything before it has been received.
ConFin(t, f) ==
  IF f.fl = "FA" /\ Mas(f.seq, Len(f.dat)) = t.ack /\ t.fin_recibido = 0
  THEN [t EXCEPT !.ack = Mas(@, 1), !.fin_recibido = 1, !.estado = 4]
  ELSE t

\* red_procesar_tcp for a segment of the connection.  Ports and address are
\* the number of the connection.
RecibirTcp(f) ==
  /\ Sondea /\ f \in llegan
  /\ tcp.activa = 1 /\ f.fl \in {"R", "SA", "A", "FA"} /\ f.con = tcp.con
  /\ CASE f.fl = "R" ->
            tcp' = [tcp EXCEPT !.estado = 0, !.activa = 0] /\ UNCHANGED payload
       [] f.fl = "SA" ->
            /\ tcp.estado = 1 /\ f.ack = Mas(Isn, 1)
            /\ tcp' = [tcp EXCEPT !.ack = Mas(f.seq, 1), !.seq = Mas(Isn, 1),
                                  !.estado = 2, !.ack_de_datos = 1]
            /\ payload' = Acusa(tcp')
       [] OTHER ->
            LET t1 == IF AcuseExacto(tcp, f) THEN [tcp EXCEPT !.ack_de_datos = 1] ELSE tcp
                t2 == ConDatos(t1, f)
                t3 == ConFin(t2, f)
            IN /\ tcp' = t3
               /\ payload' = IF f.dat # <<>> \/ t3 # t2 THEN Acusa(t3) ELSE payload
  /\ UNCHANGED <<cfg, arp, dhcp, dns, ping, espera, pc, red, par>>

-----------------------------------------------------------------------------
(* red_tcp_temporizador, at the end of a poll, a second after the last send. *)

VenceReenvio == Sondea /\ tcp.activa = 1 /\ tcp.ack_de_datos = 0 /\ tcp.estado # 0

\* Mutation: the retry is counted once the segment has left.
ReenviarContandoTarde ==
  /\ VenceReenvio /\ tcp.reintentos < Reintentos
  /\ tcp' = IF Salto(tcp.remota) \in arp THEN [tcp EXCEPT !.reintentos = @ + 1] ELSE tcp
  /\ EnviarIpv4(tcp.remota, Segmento(tcp, tcp.ultimo, tcp.ultimo_flags, tcp.seq_ultimo), "nadie")
  /\ UNCHANGED <<cfg, arp, dhcp, dns, ping, pc, llegan, par>>

Reenviar ==
  /\ VenceReenvio /\ tcp.reintentos < Reintentos
  /\ tcp' = [tcp EXCEPT !.reintentos = @ + 1]
  /\ EnviarIpv4(tcp.remota, Segmento(tcp, tcp.ultimo, tcp.ultimo_flags, tcp.seq_ultimo), "nadie")
  /\ UNCHANGED <<cfg, arp, dhcp, dns, ping, pc, llegan, par>>

Abandonar ==
  /\ VenceReenvio /\ tcp.reintentos >= Reintentos
  /\ tcp' = [tcp EXCEPT !.estado = 0, !.activa = 0]
  /\ UNCHANGED <<cfg, arp, dhcp, dns, ping, payload, espera, pc, red, par>>

-----------------------------------------------------------------------------
(* The innermost red_arp_resolver.                                          *)

\* The hop is in the cache: the frame goes out with what g_payload holds now,
\* and so do those of the sends around it, as in EnviarIpv4.
ArpResuelto ==
  /\ espera # <<>> /\ Last(espera).salto \in arp
  /\ salen' = IF Last(espera).quien = "resolver" THEN salen ELSE salen \cup {payload}
  /\ espera' = <<>>
  /\ UNCHANGED <<cfg, arp, dhcp, dns, ping, tcp, payload, llegan, par>>

\* Two seconds without an answer: the send fails.
ArpVence ==
  /\ espera # <<>> /\ Last(espera).salto \notin arp
  /\ espera' = Front(espera)
  /\ UNCHANGED <<cfg, arp, dhcp, dns, payload, par>>

\* Frames the kernel would not discard by their port or number, once the
\* connection and the queries are over.
Vigentes == {f \in llegan : f.fl = "dhcp"}

\* A loop polls only when it is the innermost.
Bucle(p) == pc = p /\ espera = <<>>
=============================================================================
