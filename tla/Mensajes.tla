------------------------------ MODULE Mensajes ------------------------------
(***************************************************************************)
(* The blocking calls of the network, on top of Pila: DHCP, ping, name     *)
(* resolution and HTTP of pila.c, red_tcp_intercambiar, the LAN messages   *)
(* of mensajes.c and the log upload of telemetria.c.  One call is under    *)
(* way at a time: the terminal makes them, the locks g_ocupada and         *)
(* g_tcp_ocupada are never found taken.                                    *)
(*                                                                         *)
(* The peers are external: hosts with a correct TCP, DHCP servers, and the *)
(* receiver of docs/red/MENSAJES_LAN.md, which keeps the head of its queue *)
(* until it is confirmed and accepts the last confirmation again.          *)
(***************************************************************************)
EXTENDS Pila

CONSTANTS
  Guiones,     \* bound: the sequences of calls the terminal makes
  MaxTextos,   \* bound: messages in the receiver
  Intentos,    \* attempts of a ping
  PuertaDe,    \* gateway each DHCP server announces
  DnsDe        \* name server each DHCP server announces

ASSUME ReceptorAssumption == /\ MaxTextos \in Nat /\ PuertaDe \in [ServidoresDhcp -> {Puerta, Nadie}]
                             /\ DnsDe \in [ServidoresDhcp -> Lan \cup {Fuera, Nadie}]

VARIABLES
  op,          \* the exchange under way: [tipo, dst, req, k, cap, ok]
  pendiente, id_pendiente,   \* g_pendiente and the message it guards
  destino,     \* g_destino
  secuencia,   \* g_secuencia of the telemetry
  guion,       \* the calls of this session
  llamadas, resultado,   \* calls made, what the last one returned
  entregados, descartados,   \* messages shown to the user; dropped by a change of receiver
  entrantes, cola, ultimo_ack, expedientes   \* the receiver

usuario == <<llamadas, resultado, entregados, descartados>>

mensajes == <<pendiente, id_pendiente, destino, secuencia>>
receptor == <<entrantes, cola, ultimo_ack, expedientes>>
vars == <<pila, pc, red, par, op, mensajes, usuario, receptor, guion>>

U(k, v) == [k |-> k, v |-> v]
Nada == [tipo |-> "", dst |-> Nadie, req |-> <<>>, k |-> 0, cap |-> 0, ok |-> 0]

\* What somebody has written in the receiver for TAEK.
Escritos == [i \in 1..MaxTextos |-> i]

Init ==
  /\ InitPila
  /\ op = Nada /\ pendiente = 0 /\ id_pendiente = 0 /\ destino = Pc /\ secuencia = 0
  /\ guion \in Guiones /\ llamadas = 0 /\ resultado = "ok" /\ entregados = <<>> /\ descartados = {}
  /\ entrantes = <<>> /\ cola \in {<<>>, Escritos} /\ ultimo_ack = 0 /\ expedientes = {}

Libre(t) == pc = "libre" /\ llamadas < Len(guion) /\ guion[llamadas + 1] = t

\* Once a call is over, the frames that still matter: to the kernel, those it
\* would not discard by their port or number; to the peer, data of a request
\* that it has not taken yet.
Olvida ==
  /\ salen' = {f \in salen : /\ f.fl = "PA" /\ par[f.con].est = "abierta"
                             /\ Len(par[f.con].datos) < Mas(f.seq, 1 + Modulo - Mas(Isn, 1))}
  /\ llegan' = Vigentes

\* The call under way returns r to the terminal.
Vuelve(r) ==
  /\ pc' = "libre" /\ op' = Nada /\ Olvida
  /\ llamadas' = llamadas + 1 /\ resultado' = r

-----------------------------------------------------------------------------
(* Configuration.                                                           *)

\* red_dhcp_emitir: the frame goes out and then the answer to wait for is set.
EmitirDhcp(tipo, ofrecida, esperado) ==
  /\ payload' = [con |-> dhcp'.xid, a |-> Nadie, fl |-> "dhcp?", seq |-> tipo, ack |-> 0,
                 dat |-> ofrecida]
  /\ salen' = salen \cup {payload'}
  /\ dhcp'.esperado = esperado /\ dhcp'.recibido = 0

Descubrir ==
  /\ Libre("dhcp") /\ dhcp.xid < MaxIds
  /\ dhcp' = [dhcp EXCEPT !.xid = @ + 1, !.esperado = 2, !.recibido = 0]
  /\ EmitirDhcp(1, <<>>, 2)
  /\ pc' = "oferta"
  /\ UNCHANGED <<cfg, arp, dns, ping, tcp, espera, llegan, par, op, mensajes, usuario, receptor>>

Pedir ==
  /\ Bucle("oferta") /\ dhcp.recibido = 1
  /\ dhcp' = [dhcp EXCEPT !.esperado = 5, !.recibido = 0]
  /\ EmitirDhcp(3, <<[ip |-> dhcp.ip, servidor |-> dhcp.servidor]>>, 5)
  /\ pc' = "concesion"
  /\ UNCHANGED <<cfg, arp, dns, ping, tcp, espera, llegan, par, op, mensajes, usuario, receptor>>

Conceder ==
  /\ Bucle("concesion") /\ dhcp.recibido = 1
  /\ cfg' = [configurada |-> 1, por_dhcp |-> 1, ip |-> dhcp.ip, puerta |-> dhcp.puerta,
             dns |-> dhcp.dns, servidor |-> dhcp.servidor]
  /\ arp' = {} /\ Vuelve("ok")
  /\ UNCHANGED <<dhcp, dns, ping, tcp, payload, espera, par, mensajes,
                 entregados, descartados, receptor>>

DhcpVence ==
  /\ (Bucle("oferta") \/ Bucle("concesion")) /\ dhcp.recibido = 0
  /\ Vuelve("error")
  /\ UNCHANGED <<pila, par, mensajes, entregados, descartados, receptor>>

\* red_ip_estatica, and red_configurar_vacia.
Estatica ==
  /\ Libre("ip")
  /\ cfg' \in {[c EXCEPT !.servidor = cfg.servidor] : c \in CfgEstaticas} \cup {CfgVacia}
  /\ arp' = {} /\ Vuelve("ok")
  /\ UNCHANGED <<dhcp, dns, ping, tcp, payload, espera, par, mensajes,
                 entregados, descartados, receptor>>

-----------------------------------------------------------------------------
(* red_ping.                                                                *)

EnviarEco(h, id, n) ==
  /\ ping' = [id |-> id, secuencia |-> n, activo |-> 1,
              respuestas |-> IF n = 1 THEN 0 ELSE ping.respuestas]
  /\ EnviarIpv4(h, [con |-> id, a |-> h, fl |-> "eco?", seq |-> n, ack |-> 0, dat |-> <<>>], "ping")

Ping(h) ==
  /\ Libre("ping") /\ cfg.configurada = 1 /\ ping.id < MaxIds
  /\ EnviarEco(h, ping.id + 1, 1)
  /\ pc' = "ping" /\ op' = [Nada EXCEPT !.tipo = "ping", !.dst = h]
  /\ UNCHANGED <<cfg, arp, dhcp, dns, tcp, llegan, par, mensajes, usuario, receptor>>

\* An answer or the timeout ends the attempt.
OtroEco ==
  /\ Bucle("ping")
  /\ IF ping.secuencia < Intentos
     THEN EnviarEco(op.dst, ping.id, ping.secuencia + 1) /\ UNCHANGED <<pc, op, usuario, llegan>>
     ELSE /\ ping' = [ping EXCEPT !.activo = 0]
          /\ Vuelve("ok") /\ UNCHANGED <<payload, espera, entregados, descartados>>
  /\ UNCHANGED <<cfg, arp, dhcp, dns, tcp, par, mensajes, receptor>>

-----------------------------------------------------------------------------
(* red_http_obtener_interno: resolve the name, connect, send, read to the end. *)

\* red_resolver_nombre fails: there is no network, or a name and no name server.
HttpSinRed ==
  /\ Libre("http") /\ (cfg.configurada = 0 \/ cfg.dns = Nadie)
  /\ Vuelve("error")
  /\ UNCHANGED <<pila, par, mensajes, entregados, descartados, receptor>>

\* A name is asked of the name server; an address needs no question.
Http(dst) ==
  /\ Libre("http") /\ cfg.configurada = 1 /\ tcp.con < MaxConexiones
  /\ op' = [tipo |-> "http", dst |-> dst, req |-> <<U("get", 0)>>, k |-> 0, cap |-> 2, ok |-> 0]
  /\ \/ /\ cfg.dns # Nadie /\ dns.id < MaxIds
        /\ dns' = [id |-> dns.id + 1, recibido |-> 0]
        /\ EnviarIpv4(cfg.dns, [con |-> dns.id + 1, a |-> cfg.dns, fl |-> "dns?", seq |-> 0,
                                ack |-> 0, dat |-> <<>>], "dns")
        /\ pc' = "dns"
     \/ pc' = "resolver" /\ UNCHANGED <<dns, payload, salen, espera>>
  /\ UNCHANGED <<cfg, arp, dhcp, ping, tcp, llegan, par, mensajes, usuario, receptor>>

DnsVence ==
  /\ Bucle("dns") /\ dns.recibido = 0
  /\ Vuelve("error")
  /\ UNCHANGED <<pila, par, mensajes, entregados, descartados, receptor>>

-----------------------------------------------------------------------------
(* red_tcp_intercambiar: resolve, connect, send header and data, read.      *)

\* The address is resolved before the connection is prepared.
Intercambiar(tipo, dst, req, cap) ==
  /\ cfg.configurada = 1 /\ dst \in Lan /\ tcp.con < MaxConexiones
  /\ op' = [tipo |-> tipo, dst |-> dst, req |-> req, k |-> 0, cap |-> cap, ok |-> 0]
  /\ pc' = "resolver"
  /\ espera' = IF dst \in arp THEN <<>> ELSE <<[salto |-> dst, seg |-> payload, quien |-> "resolver"]>>

\* red_tcp_conectar.
Conectar ==
  /\ Bucle("resolver") \/ (Bucle("dns") /\ dns.recibido = 1)
  /\ tcp' = GuardarUltimo([TcpCero EXCEPT !.con = tcp.con + 1, !.remota = op.dst, !.seq = Isn,
                                          !.estado = 1, !.activa = 1], <<>>, "S")
  /\ EnviarIpv4(op.dst, Segmento(tcp', <<>>, "S", Isn), "syn")
  /\ pc' = "conectar"
  /\ UNCHANGED <<cfg, arp, dhcp, dns, ping, llegan, par, op, mensajes, usuario, receptor>>

\* red_tcp_cerrar for the connection t: a FIN, or nothing to say.
Cerrar(t) ==
  IF t.activa = 1 /\ t.estado \in {2, 4}
  THEN /\ tcp' = [GuardarUltimo(t, <<>>, "FA") EXCEPT !.seq = Mas(@, 1), !.estado = 3]
       /\ EnviarIpv4(t.remota, Segmento(t, <<>>, "FA", t.seq), "nadie")
       /\ pc' = "cerrar"
  ELSE /\ tcp' = IF t.activa = 1 THEN [t EXCEPT !.activa = 0, !.estado = 0] ELSE t
       /\ pc' = "fin" /\ UNCHANGED <<payload, salen, espera>>

\* red_tcp_enviar of the next segment of the request on the connection t.
EnviarDatos(t) ==
  IF t.activa = 1 /\ t.estado = 2
  THEN LET g == GuardarUltimo(t, <<op.req[op.k + 1]>>, "PA")
       IN /\ tcp' = [g EXCEPT !.seq = Mas(@, 1)]
          /\ EnviarIpv4(t.remota, Segmento(t, <<op.req[op.k + 1]>>, "PA", g.seq_ultimo), "nadie")
          /\ pc' = "enviar" /\ op' = [op EXCEPT !.k = @ + 1]
  ELSE Cerrar(t) /\ UNCHANGED op

\* The connection is established: the buffer is set and the first segment
\* sent, if there is time left.
Conectado ==
  /\ Bucle("conectar") /\ tcp.estado = 2
  /\ LET t == [tcp EXCEPT !.rx_capacidad = op.cap]
     IN EnviarDatos(t) \/ (op.tipo # "http" /\ Cerrar(t) /\ UNCHANGED op)
  /\ UNCHANGED <<cfg, arp, dhcp, dns, ping, llegan, par, mensajes, usuario, receptor>>

NoConecta ==
  /\ Bucle("conectar") /\ tcp.estado # 2
  /\ tcp' = [tcp EXCEPT !.activa = 0, !.estado = 0]
  /\ pc' = "fin"
  /\ UNCHANGED <<cfg, arp, dhcp, dns, ping, payload, espera, red, par, op, mensajes, usuario, receptor>>

\* red_tcp_cond_ack and what follows it: not acknowledged, more segments, or
\* the answer.  Without time left the connection is closed.
Enviado ==
  /\ Bucle("enviar") /\ (tcp.ack_de_datos = 1 \/ tcp.estado \in {0, 4})
  /\ \/ tcp.ack_de_datos = 1 /\ op.k < Len(op.req) /\ EnviarDatos(tcp)
     \/ /\ tcp.ack_de_datos = 1 /\ op.k = Len(op.req)
        /\ pc' = "respuesta" /\ UNCHANGED <<tcp, payload, salen, espera, op>>
     \/ (tcp.ack_de_datos = 0 \/ op.tipo # "http") /\ Cerrar(tcp) /\ UNCHANGED op
  /\ UNCHANGED <<cfg, arp, dhcp, dns, ping, llegan, par, mensajes, usuario, receptor>>

\* red_tcp_cond_respuesta; HTTP waits for the end, red_tcp_cond_cerrado.
Completa ==
  IF op.tipo = "http" THEN tcp.estado \in {0, 4}
  ELSE Len(tcp.rx) = tcp.rx_capacidad \/ tcp.rx_desbordado = 1 \/ tcp.activa = 0 \/ tcp.estado = 4

\* The answer is good only if it is complete and did not overflow.
Acepta == Completa /\ Len(tcp.rx) = tcp.rx_capacidad /\ tcp.rx_desbordado = 0

\* The wait for the answer, and that for the acknowledgement, end in any
\* case after their time.
Respondido ==
  /\ Bucle("respuesta") \/ (Bucle("enviar") /\ tcp.ack_de_datos = 0 /\ tcp.estado \notin {0, 4})
  /\ op' = [op EXCEPT !.ok = IF pc = "respuesta" /\ (op.tipo = "http" \/ Acepta) THEN 1 ELSE 0]
  /\ Cerrar(tcp)
  /\ UNCHANGED <<cfg, arp, dhcp, dns, ping, llegan, par, mensajes, usuario, receptor>>

\* The wait of red_tcp_cerrar ends with the peer's FIN or after 500 ms.
Cerrado ==
  /\ Bucle("cerrar")
  /\ tcp' = [tcp EXCEPT !.activa = 0, !.estado = 0]
  /\ pc' = "fin"
  /\ UNCHANGED <<cfg, arp, dhcp, dns, ping, payload, espera, red, par, op, mensajes, usuario, receptor>>

\* A send gets its address and goes on where it was.
SigueArp ==
  /\ ArpResuelto
  /\ UNCHANGED <<pc, op, mensajes, usuario, receptor>>

\* A send fails: the one of a retransmission is ignored, the others end the call.
FallaArp ==
  /\ ArpVence
  /\ CASE Last(espera).quien = "nadie" -> UNCHANGED <<tcp, ping, pc, op, usuario, red>>
       [] Last(espera).quien = "syn" ->
            /\ tcp' = [tcp EXCEPT !.activa = 0]
            /\ pc' = "fin" /\ UNCHANGED <<ping, op, usuario, red>>
       [] Last(espera).quien = "resolver" -> pc' = "fin" /\ UNCHANGED <<tcp, ping, op, usuario, red>>
       [] OTHER ->
            /\ ping' = IF Last(espera).quien = "ping" THEN [ping EXCEPT !.activo = 0] ELSE ping
            /\ Vuelve("error") /\ UNCHANGED <<tcp, entregados, descartados>>
  /\ UNCHANGED <<mensajes, receptor>>

FinHttp ==
  /\ pc = "fin" /\ op.tipo = "http"
  /\ Vuelve(IF op.ok = 1 THEN "ok" ELSE "error")
  /\ UNCHANGED <<pila, par, mensajes, entregados, descartados, receptor>>

-----------------------------------------------------------------------------
(* mensajes.c.                                                              *)

\* red_mensajes_destino.
Destino(h) ==
  /\ Libre("destino") /\ h # destino
  /\ destino' = h /\ pendiente' = 0
  /\ descartados' = IF pendiente = 1 THEN descartados \cup {id_pendiente} ELSE descartados
  /\ llamadas' = llamadas + 1 /\ resultado' = "ok"
  /\ UNCHANGED <<pila, pc, red, par, op, id_pendiente, secuencia, entregados, receptor>>

\* red_mensaje_transmitir: the text of the n-th call is n.
Transmitir ==
  /\ Libre("transmitir")
  /\ Intercambiar("transmitir", destino, <<U("enviar", 0), U("texto", llamadas + 1)>>, 2)
  /\ UNCHANGED <<cfg, arp, dhcp, dns, ping, tcp, payload, red, par, mensajes, usuario, receptor>>

FinTransmitir ==
  /\ pc = "fin" /\ op.tipo = "transmitir"
  /\ Vuelve(IF op.ok = 1 /\ tcp.rx[1] = U("recibido", 0) THEN "ok" ELSE "error")
  /\ UNCHANGED <<pila, par, mensajes, entregados, descartados, receptor>>

Confirma(id) == Intercambiar("confirmar", destino, <<U("confirmar", id), U("texto", 0)>>, 2)

\* red_mensaje_recibir: a text whose confirmation was lost is confirmed again
\* before another is asked for.
Recibir ==
  /\ Libre("recibir")
  /\ IF pendiente = 1 THEN Confirma(id_pendiente)
     ELSE Intercambiar("consultar", destino, <<U("consultar", 0), U("texto", 0)>>, 2)
  /\ UNCHANGED <<cfg, arp, dhcp, dns, ping, tcp, payload, red, par, mensajes, usuario, receptor>>

\* The answer to the query: a failure, an empty queue, or a text to confirm.
FinConsultar ==
  /\ pc = "fin" /\ op.tipo = "consultar"
  /\ IF op.ok = 1 /\ tcp.rx[1].k = "mensaje"
     THEN /\ id_pendiente' = tcp.rx[1].v /\ pendiente' = 1
          /\ IF tcp.con < MaxConexiones
             THEN Confirma(tcp.rx[1].v) /\ Olvida /\ UNCHANGED usuario
             ELSE Vuelve("error") /\ UNCHANGED <<espera, entregados, descartados>>
     ELSE /\ Vuelve(IF op.ok = 1 /\ tcp.rx[1].k = "vacio" THEN "vacio" ELSE "error")
          /\ UNCHANGED <<pendiente, id_pendiente, espera, entregados, descartados>>
  /\ UNCHANGED <<cfg, arp, dhcp, dns, ping, tcp, payload, par, destino, secuencia, receptor>>

\* Mutation: the text is shown whether or not the receiver confirmed.
ConfirmadoSiempre == TRUE

\* The receiver confirms this very message.
Confirmado == op.ok = 1 /\ tcp.rx[1] = U("confirmado", id_pendiente)

FinConfirmar ==
  /\ pc = "fin" /\ op.tipo = "confirmar"
  /\ IF Confirmado
     THEN /\ entregados' = Append(entregados, id_pendiente)
          /\ pendiente' = 0 /\ Vuelve("ok")
     ELSE Vuelve("error") /\ UNCHANGED <<entregados, pendiente>>
  /\ UNCHANGED <<pila, par, id_pendiente, destino, secuencia, descartados, receptor>>

-----------------------------------------------------------------------------
(* telemetria.c: a copy of the log in several segments, with a sequence     *)
(* number and a sum that the receiver must echo.                            *)

Telemetria ==
  /\ Libre("telemetria")
  /\ secuencia' = secuencia + 1
  /\ Intercambiar("telemetria", Pc,
                  <<U("log", secuencia'), U("bloque", 1), U("bloque", 2)>>, 1)
  /\ UNCHANGED <<cfg, arp, dhcp, dns, ping, tcp, payload, red, par, pendiente, id_pendiente,
                 destino, usuario, receptor>>

FinTelemetria ==
  /\ pc = "fin" /\ op.tipo = "telemetria"
  /\ Vuelve(IF op.ok = 1 /\ tcp.rx[1] = U("ack", secuencia) THEN "ok" ELSE "error")
  /\ UNCHANGED <<pila, par, mensajes, entregados, descartados, receptor>>

-----------------------------------------------------------------------------
(* External: the other hosts.                                               *)

ajenos == <<pila, pc, salen, op, mensajes, usuario>>

\* DHCP servers offer an address of their own, perhaps without a gateway or a
\* name server, and grant the one they offered.
ParDhcp(f, s) ==
  /\ f \in salen /\ f.fl = "dhcp?"
  /\ f.seq = 3 => f.dat[1].servidor = s /\ f.dat[1].ip = s
  /\ llegan' = llegan \cup {[con |-> f.con, fl |-> "dhcp", seq |-> IF f.seq = 1 THEN 2 ELSE 5,
                              ack |-> 0, dat |-> <<[ip |-> s, puerta |-> PuertaDe[s], dns |-> DnsDe[s],
                                          servidor |-> s]>>]}
  /\ UNCHANGED <<ajenos, par, receptor>>

\* Echo and DNS.
ParContesta(f) ==
  /\ f \in salen /\ f.fl \in {"eco?", "dns?"}
  /\ llegan' = llegan \cup {[con |-> f.con, fl |-> IF f.fl = "eco?" THEN "eco" ELSE "dns",
                             seq |-> f.seq, ack |-> 0, dat |-> <<>>]}
  /\ UNCHANGED <<ajenos, par, receptor>>

Acuse(c, p, fl) == [con |-> c, fl |-> fl, seq |-> Mas(IsnPar, 1 + Len(p.resp)), ack |-> p.rcv, dat |-> <<>>]

\* A connection is accepted.
ParSyn(f) ==
  /\ f \in salen /\ f.fl = "S" /\ f.a \in {Pc, Fuera} /\ par[f.con].est = "nada"
  /\ par' = [par EXCEPT ![f.con] = [ParCero EXCEPT !.est = "abierta", !.rcv = Mas(f.seq, 1)]]
  /\ llegan' = llegan \cup {[con |-> f.con, fl |-> "SA", seq |-> IsnPar, ack |-> Mas(f.seq, 1),
                             dat |-> <<>>]}
  /\ UNCHANGED <<ajenos, receptor>>

\* Segments are taken in order; any segment is answered with what was received.
ParSegmento(f) ==
  /\ f \in salen /\ f.fl \in {"PA", "FA"} /\ par[f.con].est = "abierta"
  /\ LET p == par[f.con]
         q == IF f.seq = p.rcv
              THEN [p EXCEPT !.datos = @ \o f.dat,
                             !.rcv = Mas(@, Len(f.dat) + IF f.fl = "FA" THEN 1 ELSE 0)]
              ELSE p
     IN par' = [par EXCEPT ![f.con] = q] /\ llegan' = llegan \cup {Acuse(f.con, q, "A")}
  /\ UNCHANGED <<ajenos, receptor>>

\* The receiver gives up on a connection: RST.
ParAborta(c) ==
  /\ par[c].est = "abierta" /\ par[c].hecho = 0
  /\ par' = [par EXCEPT ![c].est = "abortada"]
  /\ llegan' = llegan \cup {Acuse(c, par[c], "R")}
  /\ UNCHANGED <<ajenos, receptor>>

\* The answer leaves in one segment with the FIN, or in two without it.
ParEnvia(c, resp) ==
  /\ par' = [par EXCEPT ![c].hecho = 1, ![c].resp = resp]
  /\ \E corte \in 0..(Len(resp) - 1) :
       LET fin == IF corte = 0 THEN "FA" ELSE "A"
           S(fl, i, j) == [con |-> c, fl |-> fl, seq |-> Mas(IsnPar, i), ack |-> par[c].rcv,
                           dat |-> SubSeq(resp, i, j)]
       IN llegan' = llegan \cup {S(fin, corte + 1, Len(resp))}
                           \cup (IF corte > 0 THEN {S("A", 1, corte)} ELSE {})
  /\ UNCHANGED ajenos

Pedido(c) == par[c].est = "abierta" /\ par[c].hecho = 0 /\ par[c].datos # <<>>

\* The receiver of MENSAJES_LAN.md, the one of the telemetry and a web server.
ParMensaje(c) ==
  /\ Pedido(c) /\ Len(par[c].datos) = 2
  /\ LET h == par[c].datos[1]
     IN CASE h.k = "enviar" ->
               /\ entrantes' = Append(entrantes, par[c].datos[2].v)
               /\ ParEnvia(c, <<U("recibido", 0), U("texto", 0)>>)
               /\ UNCHANGED <<cola, ultimo_ack>>
          [] h.k = "consultar" ->
               /\ ParEnvia(c, IF cola = <<>> THEN <<U("vacio", 0), U("texto", 0)>>
                              ELSE <<U("mensaje", Head(cola)), U("texto", Head(cola))>>)
               /\ UNCHANGED <<entrantes, cola, ultimo_ack>>
          [] h.k = "confirmar" ->
               IF cola # <<>> /\ Head(cola) = h.v
               THEN /\ cola' = Tail(cola) /\ ultimo_ack' = h.v
                    /\ ParEnvia(c, <<U("confirmado", h.v), U("texto", 0)>>)
                    /\ UNCHANGED entrantes
               ELSE /\ ParEnvia(c, <<IF ultimo_ack = h.v THEN U("confirmado", h.v) ELSE U("error", 0),
                                     U("texto", 0)>>)
                    /\ UNCHANGED <<entrantes, cola, ultimo_ack>>
          [] OTHER -> FALSE
  /\ UNCHANGED expedientes

ParLog(c) ==
  /\ Pedido(c) /\ Len(par[c].datos) = 3 /\ par[c].datos[1].k = "log"
  /\ expedientes' = expedientes \cup {par[c].datos}
  /\ ParEnvia(c, <<U("ack", par[c].datos[1].v)>>)
  /\ UNCHANGED <<entrantes, cola, ultimo_ack>>

ParWeb(c) ==
  /\ Pedido(c) /\ par[c].datos[1].k = "get"
  /\ \E n \in {1, 3} : ParEnvia(c, [i \in 1..n |-> U("html", i)])
  /\ UNCHANGED receptor

-----------------------------------------------------------------------------
Sondeo ==
  \/ \E h \in Lan : RecibirArp(h)
  \/ \E f \in llegan : RecibirEco(f) \/ RecibirDhcp(f) \/ RecibirDns(f) \/ RecibirTcp(f)
  \/ Reenviar \/ Abandonar

Llamada ==
  \/ Descubrir \/ Estatica \/ \E h \in {Puerta, Fuera} : Ping(h)
  \/ HttpSinRed \/ \E dst \in {Pc, Fuera} : Http(dst)
  \/ Transmitir \/ Recibir \/ Telemetria \/ \E h \in {Pc, Puerta} : Destino(h)

Avance ==
  \/ Pedir \/ Conceder \/ DhcpVence \/ OtroEco \/ DnsVence \/ Conectar
  \/ Conectado \/ NoConecta \/ Enviado \/ Respondido \/ Cerrado \/ SigueArp \/ FallaArp
  \/ FinHttp \/ FinTransmitir \/ FinConsultar \/ FinConfirmar \/ FinTelemetria

Pares ==
  \/ \E f \in salen : \/ \E s \in ServidoresDhcp : ParDhcp(f, s)
                      \/ ParContesta(f) \/ ParSyn(f) \/ ParSegmento(f)
  \/ \E c \in 1..MaxConexiones : ParAborta(c) \/ ParMensaje(c) \/ ParLog(c) \/ ParWeb(c)

Next ==
  /\ (Sondeo /\ UNCHANGED <<op, mensajes, usuario, receptor>>) \/ Llamada \/ Avance \/ Pares
  /\ UNCHANGED guion

Spec == Init /\ [][Next]_vars

-----------------------------------------------------------------------------
\* Polls nest only as deep as there are retransmissions of one segment.  All the
\* sends that wait do so for the same hop, and each finds its own segment in the
\* buffer they share when its turn comes: only so may they all go out at once.
EnviosAnidados ==
  /\ Len(espera) <= Reintentos + 1
  /\ \A i \in 1..Len(espera) :
       /\ espera[i].salto = espera[1].salto
       /\ espera[i].quien # "resolver" => espera[i].seg = payload
  /\ tcp.activa = 1 /\ tcp.estado >= 2 => Salto(tcp.remota) \in arp

\* Whatever the network loses, repeats or reorders: what a peer has taken is a
\* beginning of the request, what the kernel has taken is a beginning of the
\* answer, and a segment counts as delivered only if the peer has it.
FlujoFiel ==
  tcp.activa = 1 =>
    LET p == par[tcp.con]
    IN /\ IsPrefix(p.datos, op.req) /\ IsPrefix(tcp.rx, p.resp)
       /\ tcp.estado >= 2 /\ tcp.ack_de_datos = 1 =>
            Len(p.datos) >= op.k

\* The last call was of kind t and reported success.
Informa(t) == pc = "libre" /\ llamadas > 0 /\ resultado = "ok" /\ guion[llamadas] = t

\* Results tell the truth.  A message reported as sent is with the receiver
\* exactly once, and never more than once; a log reported as sent is stored
\* whole.  Messages of the receiver are shown in order, none twice, and one
\* that left its queue is shown, kept, or dropped by a change of receiver.
MensajesExactos ==
  /\ \A i \in 1..Len(entrantes), j \in 1..Len(entrantes) : i # j => entrantes[i] # entrantes[j]
  /\ Informa("transmitir") => llamadas \in Range(entrantes)
  /\ Informa("telemetria") => \E e \in expedientes : Len(e) = 3 /\ e[1].v = secuencia
  /\ \A i \in 1..Len(entregados), j \in 1..Len(entregados) : i < j => entregados[i] < entregados[j]
  /\ \A id \in 1..ultimo_ack :
       id \in Range(entregados) \/ id \in descartados \/ (pendiente = 1 /\ id = id_pendiente)

\* A server has granted the address ip in the DHCP exchange x.
Concedida(x, ip) ==
  \E f \in llegan : f.fl = "dhcp" /\ f.con = x /\ f.seq = 5 /\ f.dat[1].ip = ip

\* red_dhcp reports success only when a server granted the address it installs
\* in this very exchange, whatever other servers offer and whatever is left of
\* earlier exchanges; and an installed address stays one that was granted, with
\* the server that granted it.
ConcesionConfirmada ==
  /\ cfg.por_dhcp = 1 =>
       cfg.ip = cfg.servidor /\ \E x \in 1..dhcp.xid : Concedida(x, cfg.ip)
  /\ Informa("dhcp") => cfg.por_dhcp = 1 /\ Concedida(dhcp.xid, cfg.ip)
=============================================================================
