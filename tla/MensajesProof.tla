---------------------------- MODULE MensajesProof ----------------------------
(***************************************************************************)
(* Proofs about Mensajes, for every session of calls, every number of      *)
(* connections and retransmissions and every width of the sequence         *)
(* numbers.  What a peer or the kernel may receive is any frame that ever  *)
(* left, so the invariant says of every frame what its numbers stand for.  *)
(* The request each connection was opened for is not kept by the program   *)
(* once the call is over; the invariant holds for some function `P` of     *)
(* requests, which grows with the connections.                             *)
(***************************************************************************)
EXTENDS Mensajes, TLAPS

-----------------------------------------------------------------------------
(* Types.                                                                   *)

Direcciones == Lan \cup {Fuera, Nadie} \cup ServidoresDhcp
Puertas == {Puerta, Nadie}
Puntos == {"libre", "oferta", "concesion", "ping", "dns", "resolver",
           "conectar", "enviar", "respuesta", "cerrar", "fin"}
Claves == {"enviar", "texto", "consultar", "confirmar", "log", "bloque", "get", "recibido",
           "vacio", "mensaje", "confirmado", "error", "ack", "html"}
Unidades == [k : Claves, v : Nat]

CfgTipo == [configurada : {0, 1}, por_dhcp : {0, 1}, ip : Direcciones, puerta : Puertas,
            dns : Lan \cup {Fuera, Nadie}, servidor : Direcciones]
DhcpTipo == [xid : Nat, esperado : {0, 2, 5}, recibido : {0, 1}, ip : Direcciones,
             puerta : Puertas, dns : Lan \cup {Fuera, Nadie}, servidor : Direcciones]
TcpTipo == [activa : {0, 1}, con : Nat, remota : Direcciones, seq : Nat, ack : Nat, estado : 0..4,
            ack_de_datos : {0, 1}, fin_recibido : {0, 1}, seq_ultimo : Nat,
            ultimo : Seq(Unidades), ultimo_flags : {"", "S", "PA", "FA"}, reintentos : Nat,
            rx : Seq(Unidades), rx_capacidad : Nat, rx_desbordado : {0, 1}]
ParTipo == [est : {"nada", "abierta", "abortada"}, rcv : Nat, datos : Seq(Unidades),
            resp : Seq(Unidades), hecho : {0, 1}]
OpTipo == [tipo : {"", "ping", "http", "transmitir", "consultar", "confirmar", "telemetria"},
           dst : Direcciones, req : Seq(Unidades), k : Nat, cap : Nat, ok : {0, 1}]

TipoCon == tcp \in TcpTipo /\ par \in [1..MaxConexiones -> ParTipo] /\ op \in OpTipo
TipoRed == cfg \in CfgTipo /\ dhcp \in DhcpTipo /\ arp \subseteq Lan /\ pc \in Puntos

-----------------------------------------------------------------------------
(* DHCP: what a grant that was received says, and where it came from.       *)

OfertaPropia(f) ==
  /\ f.dat[1].ip = f.dat[1].servidor /\ f.dat[1].servidor \in ServidoresDhcp
  /\ f.dat[1].puerta \in Puertas /\ f.dat[1].dns \in Lan \cup {Fuera, Nadie}

\* Only the calls of red_dhcp report the success of one.
SinDhcp == pc \notin {"libre", "oferta", "concesion"} => guion[llamadas + 1] # "dhcp"

EnConcesion ==
  pc = "concesion" =>
    /\ dhcp.esperado = 5 /\ dhcp.xid > 0
    /\ dhcp.recibido = 1 => dhcp.ip = dhcp.servidor /\ Concedida(dhcp.xid, dhcp.ip)

IDhcp ==
  /\ \A f \in llegan : f.fl = "dhcp" => OfertaPropia(f)
  /\ pc = "oferta" => dhcp.xid > 0
  /\ EnConcesion /\ SinDhcp /\ ConcesionConfirmada

-----------------------------------------------------------------------------
(* Sends that wait.                                                         *)

EnConexion == {"conectar", "enviar", "respuesta", "cerrar"}
EnCon == pc \in EnConexion

\* What waits at each point of a call, and what is in the shared buffer.
Aguarda(salto, quien) == [salto |-> salto, seg |-> payload, quien |-> quien]
Pila2(a, b, n) == [i \in 1..n |-> IF i = 1 THEN a ELSE b]
Apilados(n) == Pila2(Aguarda(Salto(tcp.remota), "syn"), Aguarda(Salto(tcp.remota), "nadie"), n)

EsperaVacia == pc \notin {"ping", "dns", "resolver", "conectar"} => espera = <<>>
EsperaPing == pc = "ping" =>
  espera = <<>> \/ (espera = <<Aguarda(Salto(op.dst), "ping")>> /\ payload.fl = "eco?")
EsperaDns == pc = "dns" =>
  espera = <<>> \/ (espera = <<Aguarda(Salto(cfg.dns), "dns")>> /\ payload.fl = "dns?")
EsperaResolver == pc = "resolver" =>
  espera = <<>> \/ espera = <<Aguarda(op.dst, "resolver")>>

\* A SYN that waits has not left, so nothing of its connection arrives, and what
\* waits above are retransmissions of it.
SynEspera ==
  /\ pc = "conectar" /\ tcp.estado < 2 /\ tcp.con >= 1
  /\ \E n \in 1..(tcp.reintentos + 1) : espera = Apilados(n)
  /\ payload = Segmento(tcp, tcp.ultimo, tcp.ultimo_flags, tcp.seq_ultimo)
EsperaConectar == pc = "conectar" =>
  SynEspera \/ (espera = <<>> /\ (tcp.activa = 1 => Salto(tcp.remota) \in arp))

\* A segment of the connection was exchanged only if its hop is in the cache
\* and its SYN no longer waits.
Segmental(f) == f.fl \in {"S", "PA", "FA", "SA", "A", "R"}
Enlace(c) ==
  /\ c \in 1..tcp.con
  /\ c = tcp.con => /\ tcp.activa = 1 => Salto(tcp.remota) \in arp
                    /\ pc = "conectar" => espera = <<>>
Enlazados ==
  /\ \A c \in 1..MaxConexiones : par[c].est # "nada" => Enlace(c)
  /\ \A f \in salen \cup llegan : Segmental(f) => Enlace(f.con)

Activa ==
  /\ tcp.con <= MaxConexiones /\ tcp.reintentos <= Reintentos
  /\ pc \in {"dns", "resolver"} => tcp.con < MaxConexiones
  /\ tcp.activa = 1 =>
       EnCon /\ tcp.con >= 1 /\ (pc # "conectar" => tcp.estado >= 2 /\ Salto(tcp.remota) \in arp)

IEnvio ==
  /\ EsperaVacia /\ EsperaPing /\ EsperaDns /\ EsperaResolver /\ EsperaConectar
  /\ Enlazados /\ Activa

-----------------------------------------------------------------------------
(* The connections.  P[c] is the request connection c was opened for.       *)

Actual(c) == EnCon /\ c = tcp.con

TipoPedidos(P) ==
  /\ P \in [1..MaxConexiones -> Seq(Unidades)]
  /\ \A c \in 1..MaxConexiones : Len(P[c]) <= 3
PedidoActual(P) ==
  EnCon => tcp.con \in 1..MaxConexiones /\ P[tcp.con] = op.req /\ op.k <= Len(op.req)

\* What the frames that left stand for: the j-th unit of a request has the
\* j-th number of its connection, the FIN the one after the last unit sent.
Hasta(c, n) ==
  \A g \in salen : g.fl = "PA" /\ g.con = c => \E j \in 1..n : g.seq = Mas(Isn, j)
SaleSyn ==
  \A f \in salen : f.fl = "S" => f.con = tcp.con /\ f.seq = Isn /\ pc \in EnConexion \cup {"fin"}
Unidad(P, f, j) == f.seq = Mas(Isn, j) /\ f.dat = <<P[f.con][j]>> /\ (Actual(f.con) => j <= op.k)
SaleDatos(P) ==
  \A f \in salen : f.fl = "PA" =>
    f.con \in 1..MaxConexiones /\ \E j \in 1..Len(P[f.con]) : Unidad(P, f, j)
Fin(f, k) ==
  /\ f.seq = Mas(Isn, k + 1) /\ Hasta(f.con, k) /\ Len(par[f.con].datos) <= k
  /\ par[f.con].est # "nada" /\ par[f.con].rcv = Mas(Isn, 2 + Len(par[f.con].datos)) =>
       Len(par[f.con].datos) = k
  /\ pc = "cerrar" => k = op.k
SaleFin(P) ==
  /\ \A f \in salen : f.fl = "FA" =>
       /\ f.con = tcp.con /\ pc \in {"cerrar", "fin"} /\ f.dat = <<>>
       /\ \E k \in 0..Len(P[f.con]) : Fin(f, k)
  /\ \A f \in salen, g \in salen : f.fl = "FA" /\ g.fl = "FA" => f.seq = g.seq

\* The end of a peer: a beginning of the request, and after the FIN all that
\* was sent of it.
FinTomado(c) ==
  /\ par[c].rcv = Mas(Isn, 2 + Len(par[c].datos)) /\ Hasta(c, Len(par[c].datos))
  /\ Actual(c) => pc = "cerrar" /\ Len(par[c].datos) = op.k
Tomado(P, c) ==
  /\ par[c].est = "nada" => par[c] = ParCero
  /\ par[c].est # "nada" => par[c].rcv = Mas(Isn, 1 + Len(par[c].datos)) \/ FinTomado(c)
  /\ IsPrefix(par[c].datos, P[c])
  /\ Actual(c) => Len(par[c].datos) <= op.k
  /\ par[c].hecho = 0 => par[c].resp = <<>>
  /\ par[c].hecho = 1 => Len(par[c].resp) \in 1..3 /\ par[c].datos # <<>>
Tomados(P) == \A c \in 1..MaxConexiones : Tomado(P, c)

\* What the segments of the peers stand for: an acknowledgement tells what was
\* taken, data are a part of the answer at its place, the FIN goes with the end.
AcuseDe(p, ack) ==
  \E m \in 0..(Len(p.datos) + 1) :
    ack = Mas(Isn, 1 + m) /\ (m = Len(p.datos) + 1 => p.rcv = Mas(Isn, 2 + Len(p.datos)))
Parte(p, f) ==
  \E i \in 1..Len(p.resp), j \in 1..Len(p.resp) :
    i <= j /\ f.dat = SubSeq(p.resp, i, j) /\ f.seq = Mas(IsnPar, i) /\ (f.fl = "FA" => j = Len(p.resp))
LlegaSyn == \A f \in llegan : f.fl = "SA" => f.seq = IsnPar /\ f.dat = <<>>
LlegaDatos ==
  \A f \in llegan : f.fl \in {"A", "FA"} =>
    /\ f.con \in 1..MaxConexiones /\ par[f.con].est # "nada" /\ AcuseDe(par[f.con], f.ack)
    /\ Actual(f.con) => pc # "conectar"
    /\ (f.dat = <<>> /\ f.fl = "A") \/ (par[f.con].hecho = 1 /\ Parte(par[f.con], f))

\* g_tcp at each point of the exchange: what the last segment was.
Emisor ==
  /\ EnCon => (tcp.activa = 0 => tcp.estado = 0)
  /\ pc \in {"dns", "resolver", "conectar"} => op.k = 0
  /\ pc = "conectar" =>
       /\ tcp.seq_ultimo = Isn /\ tcp.ultimo = <<>> /\ tcp.ultimo_flags = "S"
       /\ tcp.estado \in {0, 1, 2}
       /\ tcp.estado = 2 => tcp.seq = Mas(Isn, 1) /\ tcp.ack = Mas(IsnPar, 1)
       /\ tcp.rx = <<>> /\ tcp.fin_recibido = 0
  /\ pc \in {"enviar", "respuesta"} =>
       /\ op.k \in 1..Len(op.req) /\ tcp.seq_ultimo = Mas(Isn, op.k)
       /\ tcp.ultimo = <<op.req[op.k]>> /\ tcp.ultimo_flags = "PA"
       /\ tcp.seq = Mas(Isn, op.k + 1) /\ tcp.estado \in {0, 2, 4}
  /\ pc = "cerrar" =>
       /\ tcp.seq_ultimo = Mas(Isn, op.k + 1) /\ tcp.ultimo = <<>> /\ tcp.ultimo_flags = "FA"
       /\ tcp.estado \in {0, 3, 4}
Entregado ==
  EnCon /\ tcp.estado >= 2 /\ tcp.ack_de_datos = 1 => Len(par[tcp.con].datos) >= op.k

\* What was taken of the answer: R units, of which those that fit are kept.
Recibido(t, p, R) ==
  /\ t.ack = Mas(IsnPar, 1 + R + t.fin_recibido)
  /\ t.fin_recibido = 1 => p.hecho = 1 /\ R = Len(p.resp)
  /\ Len(t.rx) = R \/ (Len(t.rx) <= R /\ Len(t.rx) = t.rx_capacidad)
Toma(t) ==
  /\ IsPrefix(t.rx, par[t.con].resp) /\ Len(t.rx) <= t.rx_capacidad
  /\ t.estado >= 2 => \E R \in 0..Len(par[t.con].resp) : Recibido(t, par[t.con], R)
Receptor == EnCon => Toma(tcp) /\ (pc # "conectar" => tcp.rx_capacidad = op.cap)

ISegmentos(P) ==
  /\ TipoPedidos(P) /\ PedidoActual(P) /\ SaleSyn /\ SaleDatos(P) /\ SaleFin(P) /\ Tomados(P)
  /\ LlegaSyn /\ LlegaDatos
IFlujo(P) == ISegmentos(P) /\ Emisor /\ Entregado /\ Receptor

-----------------------------------------------------------------------------
(* The messages.                                                            *)

TipoMensajes ==
  /\ llamadas \in Nat /\ secuencia \in Nat
  /\ pendiente \in {0, 1} /\ id_pendiente \in Nat /\ ultimo_ack \in Nat /\ cola \in Seq(Nat)
  /\ entrantes \in Seq(Nat) /\ entregados \in Seq(Nat) /\ destino \in Lan

EnIntercambio == pc \in EnConexion \cup {"dns", "resolver", "fin"}

\* What the call under way is, and what it has asked for.
Pedida ==
  /\ op.tipo = "http" => guion[llamadas + 1] = "http" /\ op.req = <<U("get", 0)>>
  /\ op.tipo = "transmitir" =>
       guion[llamadas + 1] = "transmitir" /\ op.req = <<U("enviar", 0), U("texto", llamadas + 1)>>
  /\ op.tipo = "consultar" =>
       guion[llamadas + 1] = "recibir" /\ op.req = <<U("consultar", 0), U("texto", 0)>> /\ pendiente = 0
  /\ op.tipo = "confirmar" =>
       /\ guion[llamadas + 1] = "recibir" /\ pendiente = 1
       /\ op.req = <<U("confirmar", id_pendiente), U("texto", 0)>>
  /\ op.tipo = "telemetria" =>
       /\ guion[llamadas + 1] = "telemetria"
       /\ op.req = <<U("log", secuencia), U("bloque", 1), U("bloque", 2)>>
Sesion ==
  /\ pc \in {"oferta", "concesion"} => guion[llamadas + 1] = "dhcp"
  /\ pc = "ping" => guion[llamadas + 1] = "ping"
  /\ EnIntercambio =>
       /\ Pedida /\ op.tipo \notin {"", "ping"} /\ op.cap >= 1 /\ Len(op.req) \in 1..3
  /\ pc = "dns" => op.tipo = "http"

\* A good answer is the one of the connection under way.
EnCurso == EnCon \/ (pc = "fin" /\ op.ok = 1)
Respuesta(P) ==
  op.ok = 1 =>
    /\ pc \in {"cerrar", "fin"} /\ tcp.con \in 1..MaxConexiones /\ P[tcp.con] = op.req
    /\ IsPrefix(tcp.rx, par[tcp.con].resp) /\ (op.tipo # "http" => Len(tcp.rx) >= 1)

\* Texts are those of different calls, each with the receiver at most once.
Pide(P, c, k) == c \in 1..tcp.con /\ P[c] # <<>> /\ P[c][1].k = k
EnviandoTexto == pc \in EnConexion \cup {"fin"} /\ op.tipo = "transmitir"
TextosDeLlamadas(P) ==
  /\ \A c \in 1..MaxConexiones : Pide(P, c, "enviar") =>
       /\ Len(P[c]) = 2
       /\ P[c][2].v <= llamadas \/ (EnviandoTexto /\ P[c][2].v = llamadas + 1)
  /\ \A c \in 1..MaxConexiones, d \in 1..MaxConexiones :
       c < d /\ Pide(P, c, "enviar") /\ Pide(P, d, "enviar") => P[c][2].v < P[d][2].v
EntrantesDe(P) ==
  \A i \in 1..Len(entrantes) : \E c \in 1..MaxConexiones :
    Pide(P, c, "enviar") /\ par[c].hecho = 1 /\ entrantes[i] = P[c][2].v
EntrantesDistintos ==
  \A i \in 1..Len(entrantes), j \in 1..Len(entrantes) : i # j => entrantes[i] # entrantes[j]

\* What an answer of the receiver stands for.
Dice(c, k) == par[c].hecho = 1 /\ par[c].resp[1].k = k
RespuestaDe(P, c) ==
  /\ Dice(c, "recibido") => \E i \in 1..Len(entrantes) : entrantes[i] = P[c][2].v
  /\ Dice(c, "ack") => \E e \in expedientes : Len(e) = 3 /\ e[1].v = par[c].resp[1].v
  /\ Dice(c, "confirmado") => par[c].resp[1].v <= ultimo_ack
  /\ Dice(c, "mensaje") /\ c = tcp.con /\ EnCurso /\ op.tipo = "consultar" =>
       \A i \in 1..Len(entregados) : entregados[i] < par[c].resp[1].v
Respuestas(P) == \A c \in 1..MaxConexiones : RespuestaDe(P, c)

Atendido(id) ==
  \/ \E i \in 1..Len(entregados) : entregados[i] = id
  \/ id \in descartados
  \/ pendiente = 1 /\ id = id_pendiente

\* Only what was shown, dropped or kept is ever confirmed.
ColaSigue == \A i \in 1..Len(cola) : cola[i] = ultimo_ack + i
ConfirmaAtendidos(P) ==
  \A c \in 1..MaxConexiones : Pide(P, c, "confirmar") => Atendido(P[c][1].v)
Confirmados == \A id \in 1..ultimo_ack : Atendido(id)
EntregadosEnOrden ==
  /\ \A i \in 1..Len(entregados), j \in 1..Len(entregados) : i < j => entregados[i] < entregados[j]
  /\ \A i \in 1..Len(entregados) :
       entregados[i] <= ultimo_ack /\ (pendiente = 1 => entregados[i] < id_pendiente)
Informes ==
  /\ Informa("transmitir") => \E i \in 1..Len(entrantes) : entrantes[i] = llamadas
  /\ Informa("telemetria") => \E e \in expedientes : Len(e) = 3 /\ e[1].v = secuencia

IMensajes(P) ==
  /\ TipoMensajes /\ Sesion /\ Respuesta(P) /\ TextosDeLlamadas(P) /\ EntrantesDe(P)
  /\ EntrantesDistintos /\ Respuestas(P) /\ ColaSigue /\ ConfirmaAtendidos(P) /\ Confirmados
  /\ EntregadosEnOrden /\ Informes

Inv(P) == TipoCon /\ TipoRed /\ IDhcp /\ IEnvio /\ IFlujo(P) /\ IMensajes(P)

-----------------------------------------------------------------------------
(* Sequence numbers.                                                        *)

LEMMA RestoUnico ==
    ASSUME NEW d \in Nat \ {0}, NEW r \in 0 .. (d - 1)
    PROVE  r % d = r /\ (r + d) % d = r
<1>1. (d * 0 + r) % d = r BY SMT
<1>2. (d * 1 + r) % d = r BY SMT
<1>3. d * 0 + r = r /\ d * 1 + r = r + d OBVIOUS
<1> QED BY <1>1, <1>2, <1>3

\* A number less than Modulo away from a wraps at most once.
LEMMA MasValor ==
    ASSUME NEW a \in 0..(Modulo - 1), NEW n \in 0..7
    PROVE  /\ a + n < Modulo => Mas(a, n) = a + n
           /\ a + n >= Modulo => Mas(a, n) = a + n - Modulo
<1>1. Modulo \in Nat \ {0} /\ Modulo > 7 BY ModuloAssumption
<1>2. CASE a + n < Modulo
  <2>1. a + n \in 0 .. (Modulo - 1) BY <1>1, <1>2
  <2>2. (a + n) % Modulo = a + n BY <1>1, <2>1, RestoUnico
  <2> QED BY <1>2, <2>2, <1>1 DEF Mas
<1>3. CASE a + n >= Modulo
  <2>1. a + n - Modulo \in 0 .. (Modulo - 1) BY <1>1, <1>3
  <2>2. PICK r \in 0 .. (Modulo - 1) : r = a + n - Modulo BY <2>1
  <2>3. (r + Modulo) % Modulo = r BY <1>1, RestoUnico
  <2>4. r + Modulo = a + n BY <2>2, <1>1
  <2> QED BY <1>3, <2>2, <2>3, <2>4, <1>1 DEF Mas
<1> QED BY <1>1, <1>2, <1>3

LEMMA MasTipo ==
    ASSUME NEW a \in 0..(Modulo - 1), NEW n \in 0..7
    PROVE  Mas(a, n) \in 0..(Modulo - 1) /\ Mas(a, n) \in Nat
BY MasValor, ModuloAssumption

\* The numbers of one connection are all different.
LEMMA MasUnico ==
    ASSUME NEW a \in 0..(Modulo - 1), NEW m \in 0..7, NEW n \in 0..7, Mas(a, m) = Mas(a, n)
    PROVE  m = n
BY MasValor, ModuloAssumption

LEMMA MasSuma ==
    ASSUME NEW a \in 0..(Modulo - 1), NEW m \in 0..7, NEW n \in 0..7, m + n <= 7
    PROVE  Mas(Mas(a, m), n) = Mas(a, m + n)
<1>1. m + n \in 0..7 OBVIOUS
<1>2. PICK b \in 0..(Modulo - 1) : b = Mas(a, m) BY MasTipo
<1>3. Modulo \in Nat /\ Modulo > 7 BY ModuloAssumption
<1>4. /\ a + m < Modulo => b = a + m
      /\ a + m >= Modulo => b = a + m - Modulo BY <1>2, MasValor
<1>5. /\ b + n < Modulo => Mas(b, n) = b + n
      /\ b + n >= Modulo => Mas(b, n) = b + n - Modulo BY MasValor
<1>6. /\ a + (m + n) < Modulo => Mas(a, m + n) = a + (m + n)
      /\ a + (m + n) >= Modulo => Mas(a, m + n) = a + (m + n) - Modulo BY <1>1, MasValor
<1>7. Mas(b, n) = Mas(a, m + n) BY <1>3, <1>4, <1>5, <1>6
<1> QED BY <1>2, <1>7

-----------------------------------------------------------------------------
(* Beginnings of a sequence.                                                *)

LEMMA SeqIgual ==
    ASSUME NEW S, NEW s \in Seq(S), NEW t \in Seq(S), Len(s) = Len(t),
           \A i \in 1..Len(s) : s[i] = t[i]
    PROVE  s = t
OBVIOUS

LEMMA Prefijo ==
    ASSUME NEW S, NEW s \in Seq(S), NEW t \in Seq(S)
    PROVE  IsPrefix(s, t) <=> Len(s) <= Len(t) /\ \A i \in 1..Len(s) : s[i] = t[i]
<1>1. Len(s) \in Nat /\ Len(t) \in Nat OBVIOUS
<1>2. SubSeq(s, 1, Len(s)) = s OBVIOUS
<1>3. ASSUME Len(s) <= Len(t)
      PROVE  SubSeq(t, 1, Len(s)) = s <=> \A i \in 1..Len(s) : s[i] = t[i]
  <2> DEFINE u == SubSeq(t, 1, Len(s))
  <2>1. u \in Seq(S) /\ Len(u) = Len(s) /\ \A i \in 1..Len(s) : u[i] = t[i] BY <1>1, <1>3
  <2> HIDE DEF u
  <2>2. ASSUME \A i \in 1..Len(s) : s[i] = t[i] PROVE u = s BY <2>1, <2>2, <1>1, SeqIgual
  <2> QED BY <2>1, <2>2 DEF u
<1> QED BY <1>2, <1>3 DEF IsPrefix

-----------------------------------------------------------------------------
(* DHCP.                                                                    *)

\* What most steps leave as it is.
QuietoDhcp ==
  /\ UNCHANGED <<cfg, dhcp>> /\ arp' \subseteq Lan /\ pc' \in Puntos
  /\ pc' = "concesion" => pc = "concesion"
  /\ pc' = "oferta" => pc = "oferta"
  /\ \A f : f.fl = "dhcp" => (f \in llegan' <=> f \in llegan)
  /\ SinDhcp' /\ (Informa("dhcp")' => Informa("dhcp"))

LEMMA QuietoDhcpBasta ==
    ASSUME TipoRed, IDhcp, QuietoDhcp PROVE TipoRed' /\ IDhcp'
<1>1. TipoRed' BY DEF TipoRed, QuietoDhcp
<1>2. \A x, ip : Concedida(x, ip) => Concedida(x, ip)' BY DEF Concedida, QuietoDhcp
<1>3. ConcesionConfirmada' BY <1>2 DEF IDhcp, QuietoDhcp, ConcesionConfirmada, Concedida
<1>4. (\A f \in llegan : f.fl = "dhcp" => OfertaPropia(f))' BY DEF IDhcp, QuietoDhcp, OfertaPropia
<1>5. EnConcesion' BY <1>2 DEF IDhcp, EnConcesion, QuietoDhcp, Concedida
<1> QED BY <1>1, <1>3, <1>4, <1>5 DEF IDhcp, QuietoDhcp

\* A step inside a call, the return of a call that is not red_dhcp, and the
\* beginning of one.
LEMMA DentroDhcp ==
    ASSUME SinDhcp, UNCHANGED <<guion, llamadas>>, pc' # "libre",
           pc' \in {"oferta", "concesion"} \/ pc \notin {"libre", "oferta", "concesion"}
    PROVE  SinDhcp' /\ (Informa("dhcp")' => Informa("dhcp"))
BY DEF SinDhcp, Informa

LEMMA VuelveDhcp ==
    ASSUME SinDhcp, UNCHANGED guion, NEW r, Vuelve(r),
           r # "ok" \/ pc \notin {"libre", "oferta", "concesion"}
             \/ (pc = "libre" /\ guion[llamadas + 1] # "dhcp")
    PROVE  SinDhcp' /\ ~Informa("dhcp")'
BY DEF SinDhcp, Informa, Vuelve

LEMMA EmpiezaDhcp ==
    ASSUME UNCHANGED <<guion, llamadas>>, pc = "libre", pc' # "libre", guion[llamadas + 1] # "dhcp"
    PROVE  SinDhcp' /\ (Informa("dhcp")' => Informa("dhcp"))
BY DEF SinDhcp, Informa

LEMMA IgualDhcp ==
    ASSUME SinDhcp, UNCHANGED <<guion, llamadas, resultado, pc>>
    PROVE  SinDhcp' /\ (Informa("dhcp")' => Informa("dhcp"))
BY DEF SinDhcp, Informa

LEMMA OlvidaDhcp ==
    ASSUME Olvida PROVE \A f : f.fl = "dhcp" => (f \in llegan' <=> f \in llegan)
BY DEF Olvida, Vigentes

(* Polling, except for the answers of DHCP. *)
LEMMA SondeoQuietoDhcp ==
    ASSUME TipoRed, SinDhcp, UNCHANGED <<guion, usuario>>, Sondeo, ~\E f \in llegan : RecibirDhcp(f)
    PROVE  QuietoDhcp
<1>0. UNCHANGED <<guion, llamadas, resultado>> BY DEF usuario
<1>1. UNCHANGED pc => SinDhcp' /\ (Informa("dhcp")' => Informa("dhcp")) BY <1>0, IgualDhcp
<1>2. CASE \E h \in Lan : RecibirArp(h)
  BY <1>1, <1>2 DEF QuietoDhcp, TipoRed, Puntos, RecibirArp, red
<1>3. CASE \E f \in llegan : RecibirEco(f)
  BY <1>1, <1>3 DEF QuietoDhcp, TipoRed, Puntos, RecibirEco, red
<1>4. CASE \E f \in llegan : RecibirDns(f)
  BY <1>1, <1>4 DEF QuietoDhcp, TipoRed, Puntos, RecibirDns, red
<1>5. CASE \E f \in llegan : RecibirTcp(f)
  BY <1>1, <1>5 DEF QuietoDhcp, TipoRed, Puntos, RecibirTcp, red
<1>6. CASE Reenviar
  BY <1>1, <1>6 DEF QuietoDhcp, TipoRed, Puntos, Reenviar, EnviarIpv4, red
<1>7. CASE Abandonar
  BY <1>1, <1>7 DEF QuietoDhcp, TipoRed, Puntos, Abandonar, red
<1> QED BY <1>2, <1>3, <1>4, <1>5, <1>6, <1>7 DEF Sondeo

LEMMA LlamadaQuietaDhcp ==
    ASSUME TipoRed, SinDhcp, UNCHANGED guion, Llamada, ~Descubrir, ~Estatica PROVE QuietoDhcp
<1>1. CASE \E h \in {Puerta, Fuera} : Ping(h)
  <2>1. SinDhcp' /\ (Informa("dhcp")' => Informa("dhcp"))
    BY <1>1, EmpiezaDhcp DEF Ping, Libre, usuario
  <2> QED BY <1>1, <2>1 DEF QuietoDhcp, TipoRed, Puntos, Ping, EnviarEco, EnviarIpv4, red
<1>2. CASE \E dst \in {Pc, Fuera} : Http(dst)
  <2>1. SinDhcp' /\ (Informa("dhcp")' => Informa("dhcp"))
    BY <1>2, EmpiezaDhcp DEF Http, Libre, usuario
  <2> QED BY <1>2, <2>1 DEF QuietoDhcp, TipoRed, Puntos, Http, EnviarIpv4, red
<1>3. CASE Transmitir
  <2>1. SinDhcp' /\ (Informa("dhcp")' => Informa("dhcp"))
    BY <1>3, EmpiezaDhcp DEF Transmitir, Intercambiar, Libre, usuario
  <2> QED BY <1>3, <2>1 DEF QuietoDhcp, TipoRed, Puntos, Transmitir, Intercambiar, red
<1>4. CASE Recibir
  <2>1. SinDhcp' /\ (Informa("dhcp")' => Informa("dhcp"))
    BY <1>4, EmpiezaDhcp DEF Recibir, Confirma, Intercambiar, Libre, usuario
  <2> QED BY <1>4, <2>1 DEF QuietoDhcp, TipoRed, Puntos, Recibir, Confirma, Intercambiar, red
<1>5. CASE Telemetria
  <2>1. SinDhcp' /\ (Informa("dhcp")' => Informa("dhcp"))
    BY <1>5, EmpiezaDhcp DEF Telemetria, Intercambiar, Libre, usuario
  <2> QED BY <1>5, <2>1 DEF QuietoDhcp, TipoRed, Puntos, Telemetria, Intercambiar, red
<1>6. CASE \E h \in {Pc, Puerta} : Destino(h)
  <2>1. SinDhcp' /\ ~Informa("dhcp")' BY <1>6 DEF Destino, Libre, SinDhcp, Informa
  <2> QED BY <1>6, <2>1 DEF QuietoDhcp, TipoRed, Puntos, Destino, pila, red
<1>7. CASE HttpSinRed
  <2>1. SinDhcp' /\ ~Informa("dhcp")' BY <1>7, VuelveDhcp DEF HttpSinRed
  <2> QED BY <1>7, <2>1, OlvidaDhcp DEF QuietoDhcp, TipoRed, Puntos, HttpSinRed, Vuelve, pila
<1> QED BY <1>1, <1>2, <1>3, <1>4, <1>5, <1>6, <1>7 DEF Llamada

LEMMA AvanceQuietoDhcp ==
    ASSUME TipoRed, EsperaVacia, SinDhcp, UNCHANGED guion, Avance, ~Pedir, ~Conceder PROVE QuietoDhcp
<1>1. CASE DhcpVence
  <2>1. SinDhcp' /\ ~Informa("dhcp")' BY <1>1, VuelveDhcp DEF DhcpVence
  <2> QED BY <1>1, <2>1, OlvidaDhcp DEF QuietoDhcp, TipoRed, Puntos, DhcpVence, Vuelve, pila
<1>2. CASE DnsVence
  <2>1. SinDhcp' /\ ~Informa("dhcp")' BY <1>2, VuelveDhcp DEF DnsVence, Bucle
  <2> QED BY <1>2, <2>1, OlvidaDhcp DEF QuietoDhcp, TipoRed, Puntos, DnsVence, Vuelve, pila
<1>3. CASE Conectar
  <2>1. SinDhcp' /\ (Informa("dhcp")' => Informa("dhcp")) BY <1>3, DentroDhcp DEF Conectar, Bucle, usuario
  <2> QED BY <1>3, <2>1 DEF QuietoDhcp, TipoRed, Puntos, Conectar, EnviarIpv4
<1>4. CASE Conectado
  <2>1. SinDhcp' /\ (Informa("dhcp")' => Informa("dhcp")) BY <1>4, DentroDhcp DEF Conectado, Bucle, usuario, EnviarDatos, Cerrar
  <2> QED BY <1>4, <2>1 DEF QuietoDhcp, TipoRed, Puntos, Conectado, EnviarDatos, Cerrar, EnviarIpv4, red
<1>5. CASE NoConecta
  <2>1. SinDhcp' /\ (Informa("dhcp")' => Informa("dhcp")) BY <1>5, DentroDhcp DEF NoConecta, Bucle, usuario
  <2> QED BY <1>5, <2>1 DEF QuietoDhcp, TipoRed, Puntos, NoConecta, red
<1>6. CASE Enviado
  <2>1. SinDhcp' /\ (Informa("dhcp")' => Informa("dhcp")) BY <1>6, DentroDhcp DEF Enviado, Bucle, usuario, EnviarDatos, Cerrar
  <2> QED BY <1>6, <2>1 DEF QuietoDhcp, TipoRed, Puntos, Enviado, EnviarDatos, Cerrar, EnviarIpv4, red
<1>7. CASE Respondido
  <2>1. SinDhcp' /\ (Informa("dhcp")' => Informa("dhcp")) BY <1>7, DentroDhcp DEF Respondido, Bucle, usuario, Cerrar
  <2> QED BY <1>7, <2>1 DEF QuietoDhcp, TipoRed, Puntos, Respondido, Cerrar, EnviarIpv4, red
<1>8. CASE Cerrado
  <2>1. SinDhcp' /\ (Informa("dhcp")' => Informa("dhcp")) BY <1>8, DentroDhcp DEF Cerrado, Bucle, usuario
  <2> QED BY <1>8, <2>1 DEF QuietoDhcp, TipoRed, Puntos, Cerrado, red
<1>9. CASE FinHttp
  <2>1. SinDhcp' /\ ~Informa("dhcp")' BY <1>9, VuelveDhcp DEF FinHttp
  <2> QED BY <1>9, <2>1, OlvidaDhcp DEF QuietoDhcp, TipoRed, Puntos, FinHttp, Vuelve, pila
<1>10. CASE FinTransmitir
  <2>1. SinDhcp' /\ ~Informa("dhcp")' BY <1>10, VuelveDhcp DEF FinTransmitir
  <2> QED BY <1>10, <2>1, OlvidaDhcp DEF QuietoDhcp, TipoRed, Puntos, FinTransmitir, Vuelve, pila
<1>11. CASE FinConfirmar
  <2>1. SinDhcp' /\ ~Informa("dhcp")' BY <1>11, VuelveDhcp DEF FinConfirmar
  <2> QED BY <1>11, <2>1, OlvidaDhcp DEF QuietoDhcp, TipoRed, Puntos, FinConfirmar, Vuelve, pila
<1>12. CASE FinTelemetria
  <2>1. SinDhcp' /\ ~Informa("dhcp")' BY <1>12, VuelveDhcp DEF FinTelemetria
  <2> QED BY <1>12, <2>1, OlvidaDhcp DEF QuietoDhcp, TipoRed, Puntos, FinTelemetria, Vuelve, pila
<1>13. CASE OtroEco
  <2>1. CASE ping.secuencia < Intentos
    <3>1. UNCHANGED <<guion, llamadas, resultado, pc>> BY <1>13, <2>1 DEF OtroEco, usuario
    <3>2. SinDhcp' /\ (Informa("dhcp")' => Informa("dhcp")) BY <3>1, IgualDhcp
    <3> QED BY <1>13, <2>1, <3>2
         DEF QuietoDhcp, TipoRed, Puntos, OtroEco, EnviarEco, EnviarIpv4
  <2>2. CASE ~(ping.secuencia < Intentos)
    <3>1. SinDhcp' /\ ~Informa("dhcp")' BY <1>13, <2>2, VuelveDhcp DEF OtroEco, Bucle
    <3> QED BY <1>13, <2>2, <3>1, OlvidaDhcp DEF QuietoDhcp, TipoRed, Puntos, OtroEco, Vuelve
  <2> QED BY <2>1, <2>2
<1>14. CASE SigueArp
  <2>1. SinDhcp' /\ (Informa("dhcp")' => Informa("dhcp")) BY <1>14, IgualDhcp DEF SigueArp, usuario
  <2> QED BY <1>14, <2>1 DEF QuietoDhcp, TipoRed, Puntos, SigueArp, ArpResuelto
<1>15. CASE FallaArp
  <2> DEFINE q == Last(espera).quien
  <2>1. UNCHANGED <<cfg, dhcp, arp>> BY <1>15 DEF FallaArp, ArpVence
  <2>2. CASE q = "nadie"
    <3>1. UNCHANGED <<guion, llamadas, resultado, pc, llegan>> BY <1>15, <2>2 DEF FallaArp, usuario, red
    <3>2. SinDhcp' /\ (Informa("dhcp")' => Informa("dhcp")) BY <3>1, IgualDhcp
    <3> QED BY <2>1, <3>1, <3>2 DEF QuietoDhcp, TipoRed, Puntos
  <2>3. CASE q \in {"syn", "resolver"}
    <3>1. UNCHANGED <<guion, llamadas, resultado, llegan>> /\ pc' = "fin"
      BY <1>15, <2>3 DEF FallaArp, usuario, red
    <3>2. pc \notin {"libre", "oferta", "concesion"}
      BY <1>15, <2>1 DEF FallaArp, ArpVence, EsperaVacia
    <3>3. SinDhcp' /\ (Informa("dhcp")' => Informa("dhcp")) BY <3>1, <3>2, DentroDhcp
    <3> QED BY <2>1, <3>1, <3>3 DEF QuietoDhcp, TipoRed, Puntos
  <2>4. CASE q \notin {"nadie", "syn", "resolver"}
    <3>1. Vuelve("error") BY <1>15, <2>4 DEF FallaArp
    <3>2. SinDhcp' /\ ~Informa("dhcp")' BY <3>1, VuelveDhcp
    <3> QED BY <2>1, <3>1, <3>2, OlvidaDhcp DEF QuietoDhcp, TipoRed, Puntos, Vuelve
  <2> QED BY <2>2, <2>3, <2>4
<1>16. CASE FinConsultar
  <2>1. pc = "fin" /\ UNCHANGED <<cfg, dhcp, arp>> BY <1>16 DEF FinConsultar
  <2>2. CASE \E r : Vuelve(r)
    <3>1. SinDhcp' /\ ~Informa("dhcp")' BY <2>1, <2>2, VuelveDhcp
    <3> QED BY <2>1, <2>2, <3>1, OlvidaDhcp DEF QuietoDhcp, TipoRed, Puntos, Vuelve
  <2>3. CASE ~\E r : Vuelve(r)
    <3>1. /\ UNCHANGED <<llamadas, resultado>> /\ Olvida /\ pc' = "resolver"
      BY <1>16, <2>3 DEF FinConsultar, Confirma, Intercambiar, usuario
    <3>2. SinDhcp' /\ (Informa("dhcp")' => Informa("dhcp")) BY <2>1, <3>1, DentroDhcp
    <3> QED BY <2>1, <3>1, <3>2, OlvidaDhcp DEF QuietoDhcp, TipoRed, Puntos
  <2> QED BY <2>2, <2>3
<1> QED BY <1>1, <1>2, <1>3, <1>4, <1>5, <1>6, <1>7, <1>8, <1>9, <1>10, <1>11, <1>12, <1>13, <1>14,
            <1>15, <1>16 DEF Avance

LEMMA EnviaDhcp ==
    ASSUME NEW c, NEW resp, ParEnvia(c, resp)
    PROVE  UNCHANGED <<cfg, dhcp, arp, pc>> /\ \A f : f.fl = "dhcp" => (f \in llegan' <=> f \in llegan)
BY DEF ParEnvia, ajenos, pila

LEMMA ParesQuietosDhcp ==
    ASSUME TipoRed, SinDhcp, UNCHANGED guion, Pares, ~\E f \in salen, s \in ServidoresDhcp : ParDhcp(f, s)
    PROVE  QuietoDhcp
<1>0. UNCHANGED <<llamadas, resultado, pc>>
  BY DEF Pares, ParDhcp, ParContesta, ParSyn, ParSegmento, ParAborta, ParMensaje, ParLog, ParWeb,
         ParEnvia, ajenos, usuario
<1>10. SinDhcp' /\ (Informa("dhcp")' => Informa("dhcp")) BY <1>0, IgualDhcp
<1>1. CASE \E f \in salen : ParContesta(f)
  BY <1>1, <1>10 DEF QuietoDhcp, TipoRed, Puntos, ParContesta, ajenos, pila
<1>2. CASE \E f \in salen : ParSyn(f)
  BY <1>2, <1>10 DEF QuietoDhcp, TipoRed, Puntos, ParSyn, ajenos, pila
<1>3. CASE \E f \in salen : ParSegmento(f)
  <2>1. PICK f \in salen : ParSegmento(f) BY <1>3
  <2>2. PICK q : llegan' = llegan \cup {Acuse(f.con, q, "A")} BY <2>1 DEF ParSegmento
  <2>3. \A g : g.fl = "dhcp" => (g \in llegan' <=> g \in llegan) BY <2>2 DEF Acuse
  <2> QED BY <1>10, <2>1, <2>3 DEF QuietoDhcp, TipoRed, Puntos, ParSegmento, ajenos, pila
<1>4. CASE \E c \in 1..MaxConexiones : ParAborta(c)
  BY <1>4, <1>10 DEF QuietoDhcp, TipoRed, Puntos, ParAborta, Acuse, ajenos, pila
<1>5. CASE \E c \in 1..MaxConexiones : ParMensaje(c)
  BY <1>5, <1>10, EnviaDhcp DEF QuietoDhcp, TipoRed, Puntos, ParMensaje
<1>6. CASE \E c \in 1..MaxConexiones : ParLog(c)
  BY <1>6, <1>10, EnviaDhcp DEF QuietoDhcp, TipoRed, Puntos, ParLog
<1>7. CASE \E c \in 1..MaxConexiones : ParWeb(c)
  BY <1>7, <1>10, EnviaDhcp DEF QuietoDhcp, TipoRed, Puntos, ParWeb
<1> QED BY <1>1, <1>2, <1>3, <1>4, <1>5, <1>6, <1>7 DEF Pares

LEMMA DescubrirDhcp ==
    ASSUME TipoRed, IDhcp, Descubrir, UNCHANGED guion PROVE TipoRed' /\ IDhcp'
<1>1. /\ UNCHANGED <<cfg, arp, llegan, llamadas>> /\ pc' = "oferta"
      /\ dhcp' = [dhcp EXCEPT !.xid = @ + 1, !.esperado = 2, !.recibido = 0]
  BY DEF Descubrir, usuario
<1>2. dhcp \in DhcpTipo /\ dhcp.xid \in Nat /\ dhcp.xid + 1 \in Nat BY DEF TipoRed, DhcpTipo
<1>3. dhcp' \in DhcpTipo BY <1>1, <1>2 DEF DhcpTipo
<1>4. TipoRed' BY <1>1, <1>3 DEF TipoRed, Puntos
<1>5. dhcp'.xid = dhcp.xid + 1 BY <1>1, <1>2 DEF DhcpTipo
<1>6. \A x, ip : Concedida(x, ip) => Concedida(x, ip)' BY <1>1 DEF Concedida
<1>7. \A x \in 1..dhcp.xid : x \in 1..dhcp'.xid BY <1>2, <1>5
<1>8. ConcesionConfirmada'
  <2>1. ~Informa("dhcp")' BY <1>1 DEF Informa
  <2>2. PICK ip : ip = cfg.ip OBVIOUS
  <2>3. ASSUME cfg.por_dhcp = 1
        PROVE  cfg.ip = cfg.servidor /\ \E x \in 1..dhcp'.xid : Concedida(x, ip)'
    <3>1. PICK x \in 1..dhcp.xid : Concedida(x, ip) BY <2>2, <2>3 DEF IDhcp, ConcesionConfirmada
    <3>2. x \in 1..dhcp'.xid /\ Concedida(x, ip)' BY <1>6, <1>7, <3>1
    <3> QED BY <2>3, <3>2 DEF IDhcp, ConcesionConfirmada
  <2> QED BY <1>1, <2>1, <2>2, <2>3 DEF ConcesionConfirmada, Concedida
<1>9. (\A f \in llegan : f.fl = "dhcp" => OfertaPropia(f))' BY <1>1 DEF IDhcp, OfertaPropia
<1>10. SinDhcp' BY <1>1 DEF SinDhcp
<1>11. dhcp'.xid > 0 BY <1>2, <1>5
<1> QED BY <1>1, <1>4, <1>8, <1>9, <1>10, <1>11 DEF IDhcp, EnConcesion

LEMMA PedirDhcp ==
    ASSUME TipoRed, IDhcp, Pedir, UNCHANGED guion PROVE TipoRed' /\ IDhcp'
<1>1. /\ UNCHANGED <<cfg, arp, llegan, llamadas>> /\ pc' = "concesion" /\ pc = "oferta"
      /\ dhcp' = [dhcp EXCEPT !.esperado = 5, !.recibido = 0]
  BY DEF Pedir, Bucle, usuario
<1>2. TipoRed' BY <1>1 DEF TipoRed, DhcpTipo, Puntos
<1>3. dhcp'.esperado = 5 /\ dhcp'.recibido = 0 /\ dhcp'.xid = dhcp.xid BY <1>1 DEF TipoRed, DhcpTipo
<1>4. ~Informa("dhcp")' BY <1>1 DEF Informa
<1>5. ConcesionConfirmada' BY <1>1, <1>3, <1>4 DEF IDhcp, ConcesionConfirmada, Concedida
<1>6. EnConcesion' BY <1>1, <1>3 DEF IDhcp, EnConcesion
<1> QED BY <1>1, <1>2, <1>5, <1>6 DEF IDhcp, OfertaPropia, SinDhcp

\* The answer that is taken carries a server, so of an earlier answer only a
\* gateway or a name server may be kept.
LEMMA RecibirDhcpDhcp ==
    ASSUME TipoRed, IDhcp, NEW f \in llegan, RecibirDhcp(f), UNCHANGED <<guion, usuario>>
    PROVE  TipoRed' /\ IDhcp'
<1> DEFINE o == f.dat[1]
<1>1. UNCHANGED <<cfg, arp, llegan, pc, guion, llamadas, resultado>> BY DEF RecibirDhcp, red, usuario
<1>2. f.fl = "dhcp" /\ f.seq = dhcp.esperado /\ f.con = dhcp.xid BY DEF RecibirDhcp, Esperada
<1>3. OfertaPropia(f) BY <1>2 DEF IDhcp
<1>4. /\ o.servidor # Nadie /\ o.servidor \in Direcciones /\ o.ip = o.servidor
      /\ o.puerta \in Puertas /\ o.dns \in Lan \cup {Fuera, Nadie}
  BY <1>3, DireccionesAssumption DEF OfertaPropia, Direcciones
<1>5. \E g \in {o.puerta, dhcp.puerta}, d \in {o.dns, dhcp.dns} :
        dhcp' = [dhcp EXCEPT !.recibido = 1, !.ip = o.ip, !.puerta = g, !.dns = d,
                             !.servidor = o.servidor]
  BY <1>4 DEF RecibirDhcp
<1>6. dhcp' \in DhcpTipo BY <1>4, <1>5 DEF TipoRed, DhcpTipo
<1>7. /\ dhcp'.ip = o.ip /\ dhcp'.servidor = o.servidor /\ dhcp'.esperado = dhcp.esperado
      /\ dhcp'.xid = dhcp.xid
  BY <1>5 DEF TipoRed, DhcpTipo
<1>8. TipoRed' BY <1>1, <1>6 DEF TipoRed
<1>9. pc = "concesion" => dhcp.esperado = 5 /\ dhcp.xid > 0 BY DEF IDhcp, EnConcesion
<1> HIDE DEF o
<1>10. EnConcesion' BY <1>1, <1>2, <1>4, <1>7, <1>9 DEF EnConcesion, Concedida, o
<1>11. SinDhcp' /\ (Informa("dhcp")' => Informa("dhcp")) BY <1>1, IgualDhcp DEF IDhcp
<1>12. ConcesionConfirmada' BY <1>1, <1>7, <1>11 DEF IDhcp, ConcesionConfirmada, Concedida
<1> QED BY <1>1, <1>7, <1>8, <1>10, <1>11, <1>12 DEF IDhcp, OfertaPropia

LEMMA ConcederDhcp ==
    ASSUME TipoRed, IDhcp, Conceder PROVE TipoRed' /\ IDhcp'
<1>1. /\ pc = "concesion" /\ dhcp.recibido = 1 /\ UNCHANGED dhcp /\ arp' = {} /\ Olvida /\ pc' = "libre"
      /\ cfg' = [configurada |-> 1, por_dhcp |-> 1, ip |-> dhcp.ip, puerta |-> dhcp.puerta,
                 dns |-> dhcp.dns, servidor |-> dhcp.servidor]
  BY DEF Conceder, Bucle, Vuelve
<1>2. dhcp.ip = dhcp.servidor /\ Concedida(dhcp.xid, dhcp.ip) /\ dhcp.xid > 0
  BY <1>1 DEF IDhcp, EnConcesion
<1>3. \A f : f.fl = "dhcp" => (f \in llegan' <=> f \in llegan) BY <1>1, OlvidaDhcp
<1>4. TipoRed' BY <1>1 DEF TipoRed, CfgTipo, DhcpTipo, Puntos
<1>5. dhcp.xid \in Nat /\ dhcp.xid \in 1..dhcp.xid BY <1>2 DEF TipoRed, DhcpTipo
<1>6. Concedida(dhcp.xid, dhcp.ip)' BY <1>1, <1>2, <1>3 DEF Concedida
<1>7. ConcesionConfirmada' BY <1>1, <1>2, <1>5, <1>6 DEF ConcesionConfirmada, Concedida
<1>8. (\A f \in llegan : f.fl = "dhcp" => OfertaPropia(f))' BY <1>3 DEF IDhcp, OfertaPropia
<1> QED BY <1>1, <1>4, <1>7, <1>8 DEF IDhcp, EnConcesion, SinDhcp

LEMMA EstaticaDhcp ==
    ASSUME TipoRed, IDhcp, Estatica, UNCHANGED guion PROVE TipoRed' /\ IDhcp'
<1>1. /\ UNCHANGED dhcp /\ arp' = {} /\ Olvida /\ pc' = "libre"
      /\ cfg' \in {[c EXCEPT !.servidor = cfg.servidor] : c \in CfgEstaticas} \cup {CfgVacia}
  BY DEF Estatica, Vuelve
<1>2. \A f : f.fl = "dhcp" => (f \in llegan' <=> f \in llegan) BY <1>1, OlvidaDhcp
<1>3. cfg.servidor \in Direcciones BY DEF TipoRed, CfgTipo
<1>4. CfgVacia \in CfgTipo /\ CfgVacia.por_dhcp = 0 BY DEF CfgTipo, CfgVacia, Direcciones, Puertas
<1>5. ASSUME NEW c \in CfgEstaticas, cfg' = [c EXCEPT !.servidor = cfg.servidor]
      PROVE  cfg' \in CfgTipo /\ cfg'.por_dhcp = 0
  BY <1>3, <1>5 DEF CfgTipo, CfgEstaticas, Direcciones, Puertas, Lan
<1>6. cfg' \in CfgTipo /\ cfg'.por_dhcp = 0 BY <1>1, <1>4, <1>5
<1>7. TipoRed' BY <1>1, <1>6 DEF TipoRed, Puntos
<1>8. (\A f \in llegan : f.fl = "dhcp" => OfertaPropia(f))' BY <1>2 DEF IDhcp, OfertaPropia
<1>9. ~Informa("dhcp")' BY DEF Informa, Estatica, Libre, Vuelve
<1> QED BY <1>1, <1>6, <1>7, <1>8, <1>9 DEF IDhcp, EnConcesion, SinDhcp, ConcesionConfirmada

LEMMA ParDhcpDhcp ==
    ASSUME TipoRed, IDhcp, NEW f \in salen, NEW s \in ServidoresDhcp, ParDhcp(f, s), UNCHANGED guion
    PROVE  TipoRed' /\ IDhcp'
<1> DEFINE g == [con |-> f.con, fl |-> "dhcp", seq |-> IF f.seq = 1 THEN 2 ELSE 5, ack |-> 0,
                 dat |-> <<[ip |-> s, puerta |-> PuertaDe[s], dns |-> DnsDe[s], servidor |-> s]>>]
<1>1. UNCHANGED <<cfg, arp, dhcp, pc, guion, llamadas, resultado>> /\ llegan' = llegan \cup {g}
  BY DEF ParDhcp, ajenos, pila, usuario
<1>2. TipoRed' BY <1>1 DEF TipoRed
<1>3. OfertaPropia(g) BY ReceptorAssumption DEF OfertaPropia, Puertas
<1> HIDE DEF g
<1>4. (\A h \in llegan : h.fl = "dhcp" => OfertaPropia(h))' BY <1>1, <1>3 DEF IDhcp, OfertaPropia
<1>5. \A x, ip : Concedida(x, ip) => Concedida(x, ip)' BY <1>1 DEF Concedida
<1>6. SinDhcp' /\ (Informa("dhcp")' => Informa("dhcp")) BY <1>1, IgualDhcp DEF IDhcp
<1>7. ConcesionConfirmada' BY <1>1, <1>5, <1>6 DEF IDhcp, ConcesionConfirmada, Concedida
<1>8. EnConcesion' BY <1>1, <1>5 DEF IDhcp, EnConcesion, Concedida
<1> QED BY <1>1, <1>2, <1>4, <1>6, <1>7, <1>8 DEF IDhcp

LEMMA DhcpPaso ==
    ASSUME TipoRed, EsperaVacia, IDhcp, [Next]_vars PROVE TipoRed' /\ IDhcp'
<1>0. SinDhcp BY DEF IDhcp
<1>1. CASE Sondeo /\ UNCHANGED <<guion, usuario>>
  <2>1. CASE \E f \in llegan : RecibirDhcp(f) BY <1>1, <2>1, RecibirDhcpDhcp
  <2>2. CASE ~\E f \in llegan : RecibirDhcp(f)
    BY <1>0, <1>1, <2>2, SondeoQuietoDhcp, QuietoDhcpBasta
  <2> QED BY <2>1, <2>2
<1>2. CASE Llamada /\ UNCHANGED guion
  <2>1. CASE ~Descubrir /\ ~Estatica BY <1>0, <1>2, <2>1, LlamadaQuietaDhcp, QuietoDhcpBasta
  <2> QED BY <1>2, <2>1, DescubrirDhcp, EstaticaDhcp
<1>3. CASE Avance /\ UNCHANGED guion
  <2>1. CASE ~Pedir /\ ~Conceder BY <1>0, <1>3, <2>1, AvanceQuietoDhcp, QuietoDhcpBasta
  <2> QED BY <1>3, <2>1, PedirDhcp, ConcederDhcp
<1>4. CASE Pares /\ UNCHANGED guion
  <2>1. CASE \E f \in salen, s \in ServidoresDhcp : ParDhcp(f, s) BY <1>4, <2>1, ParDhcpDhcp
  <2>2. CASE ~\E f \in salen, s \in ServidoresDhcp : ParDhcp(f, s)
    BY <1>0, <1>4, <2>2, ParesQuietosDhcp, QuietoDhcpBasta
  <2> QED BY <2>1, <2>2
<1>5. CASE UNCHANGED vars
  <2>1. UNCHANGED <<guion, llamadas, resultado, pc>> BY <1>5 DEF vars, usuario
  <2>2. SinDhcp' /\ (Informa("dhcp")' => Informa("dhcp")) BY <1>0, <2>1, IgualDhcp
  <2>3. QuietoDhcp BY <1>5, <2>2 DEF vars, pila, red, QuietoDhcp, TipoRed
  <2> QED BY <2>3, QuietoDhcpBasta
<1> QED BY <1>1, <1>2, <1>3, <1>4, <1>5 DEF Next

LEMMA DhcpInicio == Init => TipoRed /\ IDhcp
<1> SUFFICES ASSUME Init PROVE TipoRed /\ IDhcp OBVIOUS
<1>1. /\ cfg \in {CfgVacia} \cup CfgEstaticas /\ arp = {} /\ pc = "libre" /\ llegan = {}
      /\ llamadas = 0
  BY DEF Init, InitPila
<1>2. dhcp = [xid |-> 0, esperado |-> 0, recibido |-> 0, ip |-> Nadie, puerta |-> Nadie,
              dns |-> Nadie, servidor |-> Nadie]
  BY DEF Init, InitPila
<1>3. dhcp \in DhcpTipo BY <1>2 DEF DhcpTipo, Direcciones, Puertas
<1>4. cfg \in CfgTipo /\ cfg.por_dhcp = 0
  BY <1>1 DEF CfgTipo, CfgVacia, CfgEstaticas, Direcciones, Puertas, Lan
<1>5. ~Informa("dhcp") BY <1>1 DEF Informa
<1> QED BY <1>1, <1>3, <1>4, <1>5 DEF TipoRed, Puntos, IDhcp, EnConcesion, SinDhcp, ConcesionConfirmada

-----------------------------------------------------------------------------
(* Sends that wait.                                                         *)

\* A step that adds no segment of a connection whose hop is not known or whose
\* SYN goes on waiting.
EnlacesQuedan ==
  /\ \A c \in 1..MaxConexiones : par'[c].est # "nada" => par[c].est # "nada" \/ Enlace(c)
  /\ \A f \in salen' \cup llegan' : Segmental(f) =>
       f \in salen \cup llegan \/ Enlace(f.con) \/ Enlace(f.con)'

MismaConexion ==
  /\ tcp'.con = tcp.con /\ tcp'.remota = tcp.remota /\ (tcp'.activa = 1 => tcp.activa = 1)
  /\ UNCHANGED cfg /\ arp \subseteq arp'
  /\ pc' = "conectar" => pc = "conectar" /\ (espera' = <<>> \/ espera # <<>>)

LEMMA EnlazadosSiguen ==
    ASSUME Enlazados, EnlacesQuedan, MismaConexion PROVE Enlazados'
<1>1. Salto(tcp.remota)' = Salto(tcp.remota) BY DEF MismaConexion, Salto
<1>2. \A c : Enlace(c) => Enlace(c)' BY <1>1 DEF Enlace, MismaConexion
<1>3. \A c \in 1..MaxConexiones : par'[c].est # "nada" => Enlace(c)
  BY DEF EnlacesQuedan, Enlazados
<1>4. \A f \in salen' \cup llegan' : Segmental(f) => Enlace(f.con) \/ Enlace(f.con)'
  BY DEF EnlacesQuedan, Enlazados
<1>5. \A f \in salen' \cup llegan' : Segmental(f) => Enlace(f.con)' BY <1>2, <1>4
<1> QED BY <1>2, <1>3, <1>5 DEF Enlazados, Segmental

\* A step of the peers, or a frame that is not for the connection.
QuietoEnvio ==
  /\ EnlacesQuedan /\ UNCHANGED <<cfg, pc, espera, payload, tcp, op>>
  /\ arp \subseteq arp' /\ arp' \subseteq Lan

LEMMA QuietoEnvioBasta ==
    ASSUME IEnvio, QuietoEnvio PROVE IEnvio'
<1>1. /\ UNCHANGED <<cfg, pc, espera, payload, tcp, op>> /\ arp \subseteq arp'
      /\ Salto(tcp.remota)' = Salto(tcp.remota) /\ Salto(op.dst)' = Salto(op.dst)
      /\ Salto(cfg.dns)' = Salto(cfg.dns)
  BY DEF QuietoEnvio, Salto
<1>2. Enlazados' BY EnlazadosSiguen DEF IEnvio, QuietoEnvio, MismaConexion
<1>3. \A s, q : Aguarda(s, q)' = Aguarda(s, q) BY <1>1 DEF Aguarda
<1>4. \A n : Apilados(n)' = Apilados(n) BY <1>1, <1>3 DEF Apilados
<1>5. SynEspera => SynEspera' BY <1>1, <1>4 DEF SynEspera, Segmento
<1>6. EsperaConectar' BY <1>1, <1>5 DEF IEnvio, EsperaConectar
<1>7. EsperaVacia' /\ EsperaPing' /\ EsperaDns' /\ EsperaResolver'
  BY <1>1, <1>3 DEF IEnvio, EsperaVacia, EsperaPing, EsperaDns, EsperaResolver
<1>8. Activa' BY <1>1 DEF IEnvio, Activa, EnCon
<1> QED BY <1>2, <1>6, <1>7, <1>8 DEF IEnvio

\* Outside a connection only the sends that wait matter.
SinConexion ==
  /\ UNCHANGED <<tcp, par>> /\ ~EnCon /\ pc' \notin EnConexion
  /\ \A f \in salen' \cup llegan' : Segmental(f) => f \in salen \cup llegan
  /\ pc' \in {"dns", "resolver"} => tcp.con < MaxConexiones

LEMMA SinConexionBasta ==
    ASSUME IEnvio, SinConexion, EsperaVacia', EsperaPing', EsperaDns', EsperaResolver'
    PROVE  IEnvio'
<1>1. tcp.activa # 1 BY DEF SinConexion, IEnvio, Activa
<1>2. Enlazados' BY <1>1 DEF IEnvio, SinConexion, Enlazados, Enlace, Segmental, EnConexion
<1>3. EsperaConectar' BY DEF SinConexion, EsperaConectar, EnConexion
<1>4. Activa' BY <1>1 DEF IEnvio, Activa, SinConexion
<1> QED BY <1>2, <1>3, <1>4 DEF IEnvio

LEMMA SondeoQuietoEnvio ==
    ASSUME TipoRed, TipoCon, IEnvio,
           (\E h \in Lan : RecibirArp(h))
             \/ (\E f \in llegan : RecibirEco(f) \/ RecibirDhcp(f) \/ RecibirDns(f)),
           UNCHANGED op
    PROVE  QuietoEnvio
<1>1. UNCHANGED <<cfg, pc, espera, payload, tcp, salen, llegan, par>>
  BY DEF RecibirArp, RecibirEco, RecibirDhcp, RecibirDns, red
<1>2. arp \subseteq arp' /\ arp' \subseteq Lan
  BY DEF RecibirArp, RecibirEco, RecibirDhcp, RecibirDns, TipoRed
<1> QED BY <1>1, <1>2 DEF QuietoEnvio, EnlacesQuedan

\* A step of the peers about connection c.
LEMMA EnviaEnlaza ==
    ASSUME NEW c \in 1..MaxConexiones, NEW resp, Enlace(c), par \in [1..MaxConexiones -> ParTipo],
           ParEnvia(c, resp)
    PROVE  EnlacesQuedan /\ UNCHANGED <<cfg, arp, pc, espera, payload, tcp, op>>
<1>1. \A d \in 1..MaxConexiones : par'[d].est = par[d].est BY DEF ParEnvia, ParTipo
<1>2. salen' = salen /\ \A f \in llegan' : f \in llegan \/ f.con = c BY DEF ParEnvia, ajenos
<1>3. EnlacesQuedan BY <1>1, <1>2 DEF EnlacesQuedan
<1> QED BY <1>3 DEF ParEnvia, ajenos, pila

LEMMA ParesQuietosEnvio ==
    ASSUME TipoRed, TipoCon, IEnvio, Pares PROVE QuietoEnvio
<1>1. /\ \A f \in salen : Segmental(f) => Enlace(f.con)
      /\ \A c \in 1..MaxConexiones : par[c].est # "nada" => Enlace(c)
  BY DEF IEnvio, Enlazados
<1>2. par \in [1..MaxConexiones -> ParTipo] BY DEF TipoCon
<1>3. arp' = arp => arp \subseteq arp' /\ arp' \subseteq Lan BY DEF TipoRed
<1>4. ASSUME NEW f \in salen, NEW s \in ServidoresDhcp, ParDhcp(f, s) PROVE QuietoEnvio
  <2>1. salen' = salen /\ par' = par /\ \A g \in llegan' : g \in llegan \/ g.fl = "dhcp"
    BY <1>4 DEF ParDhcp, ajenos
  <2>2. EnlacesQuedan BY <2>1 DEF EnlacesQuedan, Segmental
  <2> QED BY <1>3, <1>4, <2>2 DEF ParDhcp, QuietoEnvio, ajenos, pila
<1>5. ASSUME NEW f \in salen, ParContesta(f) PROVE QuietoEnvio
  <2>1. salen' = salen /\ par' = par /\ \A g \in llegan' : g \in llegan \/ g.fl \in {"eco", "dns"}
    BY <1>5 DEF ParContesta, ajenos
  <2>2. EnlacesQuedan BY <2>1 DEF EnlacesQuedan, Segmental
  <2> QED BY <1>3, <1>5, <2>2 DEF ParContesta, QuietoEnvio, ajenos, pila
<1>6. ASSUME NEW f \in salen, ParSyn(f) PROVE QuietoEnvio
  <2>1. Enlace(f.con) BY <1>1, <1>6 DEF ParSyn, Segmental
  <2>2. salen' = salen /\ \A g \in llegan' : g \in llegan \/ g.con = f.con BY <1>6 DEF ParSyn, ajenos
  <2>3. \A d \in 1..MaxConexiones : d # f.con => par'[d] = par[d] BY <1>2, <1>6 DEF ParSyn
  <2>4. EnlacesQuedan BY <2>1, <2>2, <2>3 DEF EnlacesQuedan
  <2> QED BY <1>3, <1>6, <2>4 DEF ParSyn, QuietoEnvio, ajenos, pila
<1>7. ASSUME NEW f \in salen, ParSegmento(f) PROVE QuietoEnvio
  <2>1. Enlace(f.con) BY <1>1, <1>7 DEF ParSegmento, Segmental
  <2>2. PICK q : par' = [par EXCEPT ![f.con] = q] /\ llegan' = llegan \cup {Acuse(f.con, q, "A")}
    BY <1>7 DEF ParSegmento
  <2>3. salen' = salen BY <1>7 DEF ParSegmento, ajenos
  <2>6. \A g \in llegan' : g \in llegan \/ g.con = f.con BY <2>2 DEF Acuse
  <2>4. \A d \in 1..MaxConexiones : d # f.con => par'[d] = par[d] BY <1>2, <2>2
  <2>5. EnlacesQuedan BY <2>1, <2>3, <2>4, <2>6 DEF EnlacesQuedan
  <2> QED BY <1>3, <1>7, <2>5 DEF ParSegmento, QuietoEnvio, ajenos, pila
<1>8. ASSUME NEW c \in 1..MaxConexiones, ParAborta(c) PROVE QuietoEnvio
  <2>1. Enlace(c) BY <1>1, <1>8 DEF ParAborta
  <2>2. salen' = salen /\ \A g \in llegan' : g \in llegan \/ g.con = c
    BY <1>8 DEF ParAborta, ajenos, Acuse
  <2>3. \A d \in 1..MaxConexiones : d # c => par'[d] = par[d] BY <1>2, <1>8 DEF ParAborta
  <2>4. EnlacesQuedan BY <2>1, <2>2, <2>3 DEF EnlacesQuedan
  <2> QED BY <1>3, <1>8, <2>4 DEF ParAborta, QuietoEnvio, ajenos, pila
<1>9. ASSUME NEW c \in 1..MaxConexiones, ParMensaje(c) \/ ParLog(c) \/ ParWeb(c) PROVE QuietoEnvio
  <2>1. par[c].est = "abierta" BY <1>9 DEF ParMensaje, ParLog, ParWeb, Pedido
  <2>2. Enlace(c) BY <1>1, <2>1
  <2>3. \E resp : ParEnvia(c, resp)
    <3>1. CASE ParMensaje(c)
      <4> DEFINE h == par[c].datos[1]
      <4>1. h.k \in {"enviar", "consultar", "confirmar"} BY <3>1 DEF ParMensaje
      <4> QED BY <3>1, <4>1 DEF ParMensaje
    <3>2. CASE ParLog(c) \/ ParWeb(c) BY <3>2 DEF ParLog, ParWeb
    <3> QED BY <1>9, <3>1, <3>2
  <2> QED BY <1>2, <1>3, <2>2, <2>3, EnviaEnlaza DEF QuietoEnvio
<1> QED BY <1>4, <1>5, <1>6, <1>7, <1>8, <1>9 DEF Pares

\* The call returns.
LEMMA VuelveEnvio ==
    ASSUME IEnvio, pc \notin EnConexion, UNCHANGED <<tcp, par>>, Olvida, pc' = "libre", espera' = <<>>
    PROVE  IEnvio'
<1>1. salen' \subseteq salen /\ llegan' \subseteq llegan BY DEF Olvida, Vigentes
<1>2. SinConexion BY <1>1 DEF SinConexion, EnCon, EnConexion
<1>3. EsperaVacia' /\ EsperaPing' /\ EsperaDns' /\ EsperaResolver'
  BY DEF EsperaVacia, EsperaPing, EsperaDns, EsperaResolver
<1> QED BY <1>2, <1>3, SinConexionBasta

LEMMA RetornosEnvio ==
    ASSUME IEnvio,
           \/ Conceder \/ DhcpVence \/ Estatica \/ HttpSinRed \/ DnsVence \/ FinHttp \/ FinTransmitir
           \/ FinConfirmar \/ FinTelemetria
    PROVE  IEnvio'
<1>1. UNCHANGED <<tcp, par, espera>> /\ Olvida /\ pc' = "libre"
  BY DEF Conceder, DhcpVence, Estatica, HttpSinRed, DnsVence, FinHttp, FinTransmitir, FinConfirmar,
         FinTelemetria, Vuelve, pila
<1>2. pc \in {"oferta", "concesion", "dns", "libre", "fin"} /\ (pc = "dns" => espera = <<>>)
  BY DEF Conceder, DhcpVence, Estatica, HttpSinRed, DnsVence, FinHttp, FinTransmitir, FinConfirmar,
         FinTelemetria, Bucle, Libre
<1>3. espera = <<>> BY <1>2 DEF IEnvio, EsperaVacia
<1> QED BY <1>1, <1>2, <1>3, VuelveEnvio DEF EnConexion

LEMMA DhcpEnvio == ASSUME IEnvio, Descubrir \/ Pedir PROVE IEnvio'
<1>1. /\ UNCHANGED <<tcp, par, espera, llegan>> /\ pc' \in {"oferta", "concesion"}
      /\ salen' = salen \cup {payload'} /\ payload'.fl = "dhcp?"
  BY DEF Descubrir, Pedir, EmitirDhcp
<1>2. pc \in {"libre", "oferta"} /\ espera = <<>>
  BY DEF Descubrir, Pedir, Libre, Bucle, IEnvio, EsperaVacia
<1>3. SinConexion BY <1>1, <1>2 DEF SinConexion, EnCon, EnConexion, Segmental
<1>4. EsperaVacia' /\ EsperaPing' /\ EsperaDns' /\ EsperaResolver'
  BY <1>1, <1>2 DEF EsperaVacia, EsperaPing, EsperaDns, EsperaResolver
<1> QED BY <1>3, <1>4, SinConexionBasta

\* A send of a call that is not a connection waits alone or leaves.
LEMMA EnviaSolo ==
    ASSUME NEW h, NEW s, NEW q, EnviarIpv4(h, s, q), espera = <<>>
    PROVE  /\ payload' = s
           /\ \/ Salto(h) \in arp /\ espera' = <<>> /\ salen' = salen \cup {s}
              \/ Salto(h) \notin arp /\ salen' = salen
                 /\ espera' = <<[salto |-> Salto(h), seg |-> s, quien |-> q]>>
BY DEF EnviarIpv4

LEMMA EcoEnvio ==
    ASSUME IEnvio, espera = <<>>, pc \notin EnConexion, NEW h, NEW id, NEW n, EnviarEco(h, id, n),
           UNCHANGED <<cfg, arp, tcp, par, llegan>>, pc' = "ping", op'.dst = h
    PROVE  IEnvio'
<1> DEFINE s == [con |-> id, a |-> h, fl |-> "eco?", seq |-> n, ack |-> 0, dat |-> <<>>]
<1>1. EnviarIpv4(h, s, "ping") BY DEF EnviarEco
<1>2. s.fl = "eco?" OBVIOUS
<1> HIDE DEF s
<1>3. payload' = s /\ (\A f \in salen' : f \in salen \/ f = s)
      /\ (espera' = <<>> \/ espera' = <<[salto |-> Salto(h), seg |-> s, quien |-> "ping"]>>)
  BY <1>1, EnviaSolo
<1>4. Salto(op.dst)' = Salto(h) BY DEF Salto
<1>5. EsperaPing' BY <1>2, <1>3, <1>4 DEF EsperaPing, Aguarda
<1>6. SinConexion BY <1>2, <1>3 DEF SinConexion, EnCon, EnConexion, Segmental
<1>7. EsperaVacia' /\ EsperaDns' /\ EsperaResolver' BY DEF EsperaVacia, EsperaDns, EsperaResolver
<1> QED BY <1>5, <1>6, <1>7, SinConexionBasta

LEMMA PingEnvio ==
    ASSUME IEnvio, op \in OpTipo, (\E h \in {Puerta, Fuera} : Ping(h)) \/ OtroEco PROVE IEnvio'
<1>1. CASE \E h \in {Puerta, Fuera} : Ping(h)
  <2>1. PICK h \in {Puerta, Fuera} : Ping(h) BY <1>1
  <2>2. EnviarEco(h, ping.id + 1, 1) /\ UNCHANGED <<cfg, arp, tcp, par, llegan>> /\ pc' = "ping"
    BY <2>1 DEF Ping
  <2>3. pc = "libre" /\ espera = <<>> /\ op'.dst = h
    BY <2>1 DEF Ping, Libre, IEnvio, EsperaVacia, Nada
  <2> QED BY <2>2, <2>3, EcoEnvio DEF EnConexion
<1>2. CASE OtroEco
  <2>1. pc = "ping" /\ espera = <<>> /\ UNCHANGED <<cfg, arp, tcp, par>> BY <1>2 DEF OtroEco, Bucle
  <2>2. CASE ping.secuencia < Intentos
    BY <1>2, <2>1, <2>2, EcoEnvio DEF OtroEco, EnConexion
  <2>3. CASE ~(ping.secuencia < Intentos)
    <3>1. Olvida /\ pc' = "libre" /\ espera' = <<>> BY <1>2, <2>1, <2>3 DEF OtroEco, Vuelve
    <3> QED BY <2>1, <3>1, VuelveEnvio DEF EnConexion
  <2> QED BY <2>2, <2>3
<1> QED BY <1>1, <1>2

LEMMA HttpEnvio == ASSUME IEnvio, NEW dst, Http(dst) PROVE IEnvio'
<1>1. /\ UNCHANGED <<cfg, arp, tcp, par, llegan>> /\ tcp.con < MaxConexiones /\ pc = "libre"
      /\ op'.dst = dst
  BY DEF Http, Libre
<1>2. espera = <<>> BY <1>1 DEF IEnvio, EsperaVacia
<1>3. CASE pc' = "resolver" /\ UNCHANGED <<dns, payload, salen, espera>>
  <2>1. SinConexion BY <1>1, <1>3 DEF SinConexion, EnCon, EnConexion
  <2>2. EsperaVacia' /\ EsperaPing' /\ EsperaDns' /\ EsperaResolver'
    BY <1>2, <1>3 DEF EsperaVacia, EsperaPing, EsperaDns, EsperaResolver
  <2> QED BY <2>1, <2>2, SinConexionBasta
<1>4. CASE ~(pc' = "resolver" /\ UNCHANGED <<dns, payload, salen, espera>>)
  <2> DEFINE s == [con |-> dns.id + 1, a |-> cfg.dns, fl |-> "dns?", seq |-> 0, ack |-> 0, dat |-> <<>>]
  <2>1. EnviarIpv4(cfg.dns, s, "dns") /\ pc' = "dns" BY <1>4 DEF Http
  <2>2. s.fl = "dns?" OBVIOUS
  <2> HIDE DEF s
  <2>3. payload' = s /\ (\A f \in salen' : f \in salen \/ f = s)
        /\ (espera' = <<>> \/ espera' = <<[salto |-> Salto(cfg.dns), seg |-> s, quien |-> "dns"]>>)
    BY <1>2, <2>1, EnviaSolo
  <2>4. Salto(cfg.dns)' = Salto(cfg.dns) BY <1>1 DEF Salto
  <2>5. EsperaDns' BY <2>2, <2>3, <2>4 DEF EsperaDns, Aguarda
  <2>6. SinConexion BY <1>1, <2>1, <2>2, <2>3 DEF SinConexion, EnCon, EnConexion, Segmental
  <2>7. EsperaVacia' /\ EsperaPing' /\ EsperaResolver'
    BY <2>1 DEF EsperaVacia, EsperaPing, EsperaResolver
  <2> QED BY <2>5, <2>6, <2>7, SinConexionBasta
<1> QED BY <1>3, <1>4

\* red_tcp_intercambiar begins with the address of its peer.
LEMMA IntercambiarEnvio ==
    ASSUME IEnvio, pc \notin EnConexion, UNCHANGED <<arp, tcp, par, payload>>,
           salen' \subseteq salen, llegan' \subseteq llegan,
           NEW t, NEW dst, NEW req, NEW cap, Intercambiar(t, dst, req, cap)
    PROVE  IEnvio'
<1>1. /\ dst \in Lan /\ tcp.con < MaxConexiones /\ op'.dst = dst /\ pc' = "resolver"
      /\ espera' = IF dst \in arp THEN <<>> ELSE <<[salto |-> dst, seg |-> payload, quien |-> "resolver"]>>
  BY DEF Intercambiar
<1>2. SinConexion BY <1>1 DEF SinConexion, EnCon, EnConexion
<1>3. EsperaResolver' BY <1>1 DEF EsperaResolver, Aguarda
<1>4. EsperaVacia' /\ EsperaPing' /\ EsperaDns' BY <1>1 DEF EsperaVacia, EsperaPing, EsperaDns
<1> QED BY <1>2, <1>3, <1>4, SinConexionBasta

LEMMA IntercambiosEnvio ==
    ASSUME IEnvio, Transmitir \/ Recibir \/ Telemetria \/ FinConsultar PROVE IEnvio'
<1>1. pc \notin EnConexion /\ (pc = "libre" \/ pc = "fin")
  BY DEF Transmitir, Recibir, Telemetria, FinConsultar, Libre, EnConexion
<1>2. CASE Transmitir \/ Recibir \/ Telemetria
  <2>1. UNCHANGED <<arp, tcp, par, payload, salen, llegan>>
    BY <1>2 DEF Transmitir, Recibir, Telemetria, red
  <2>2. \E t, dst, req, cap : Intercambiar(t, dst, req, cap)
    BY <1>2 DEF Transmitir, Recibir, Telemetria, Confirma
  <2> QED BY <1>1, <2>1, <2>2, IntercambiarEnvio
<1>3. CASE FinConsultar
  <2>1. UNCHANGED <<arp, tcp, par, payload>> /\ Olvida /\ espera = <<>>
    BY <1>1, <1>3 DEF FinConsultar, Vuelve, IEnvio, EsperaVacia
  <2>2. salen' \subseteq salen /\ llegan' \subseteq llegan BY <2>1 DEF Olvida, Vigentes
  <2>3. (\E t, dst, req, cap : Intercambiar(t, dst, req, cap)) \/ (pc' = "libre" /\ espera' = espera)
    BY <1>3 DEF FinConsultar, Confirma, Vuelve
  <2> QED BY <1>1, <2>1, <2>2, <2>3, IntercambiarEnvio, VuelveEnvio
<1> QED BY <1>2, <1>3

LEMMA DestinoEnvio == ASSUME IEnvio, NEW h, Destino(h) PROVE IEnvio'
<1>1. UNCHANGED <<cfg, arp, pc, espera, payload, tcp, op, salen, llegan, par>> /\ pc = "libre"
  BY DEF Destino, pila, red, Libre
<1>2. SinConexion BY <1>1 DEF SinConexion, EnCon, EnConexion
<1>3. EsperaVacia' /\ EsperaPing' /\ EsperaDns' /\ EsperaResolver'
  BY <1>1 DEF IEnvio, EsperaVacia, EsperaPing, EsperaDns, EsperaResolver
<1> QED BY <1>2, <1>3, SinConexionBasta

\* The stack of sends.
LEMMA PilaUno == ASSUME NEW a PROVE Front(<<a>>) = <<>> /\ Last(<<a>>) = a
BY DEF Front, Last

LEMMA PilaTipo ==
    ASSUME NEW S, NEW a \in S, NEW b \in S, NEW n \in Nat
    PROVE  /\ Pila2(a, b, n) \in Seq(S) /\ Len(Pila2(a, b, n)) = n
           /\ (n > 0 => Pila2(a, b, n)[1] = a) /\ \A i \in 2..n : Pila2(a, b, n)[i] = b
BY DEF Pila2

LEMMA SeqMas ==
    ASSUME NEW S, NEW u \in Seq(S), NEW x \in S
    PROVE  /\ Append(u, x) \in Seq(S) /\ Len(Append(u, x)) = Len(u) + 1
           /\ Append(u, x)[Len(u) + 1] = x /\ \A i \in 1..Len(u) : Append(u, x)[i] = u[i]
OBVIOUS

LEMMA SeqParte ==
    ASSUME NEW S, NEW u \in Seq(S), NEW n \in Nat, n <= Len(u)
    PROVE  /\ SubSeq(u, 1, n) \in Seq(S) /\ Len(SubSeq(u, 1, n)) = n
           /\ \A i \in 1..n : SubSeq(u, 1, n)[i] = u[i]
OBVIOUS

LEMMA PilaSube ==
    ASSUME NEW S, NEW a \in S, NEW b \in S, NEW n \in Nat, n > 0
    PROVE  Append(Pila2(a, b, n), b) = Pila2(a, b, n + 1)
<1> DEFINE u == Pila2(a, b, n)
           v == Append(u, b)
           w == Pila2(a, b, n + 1)
<1>1. u \in Seq(S) /\ Len(u) = n /\ u[1] = a /\ \A i \in 2..n : u[i] = b BY PilaTipo
<1>2. w \in Seq(S) /\ Len(w) = n + 1 /\ w[1] = a /\ \A i \in 2..(n + 1) : w[i] = b
  BY n + 1 \in Nat /\ n + 1 > 0, PilaTipo
<1> HIDE DEF u, w
<1>3. v \in Seq(S) /\ Len(v) = n + 1 /\ v[n + 1] = b /\ \A i \in 1..n : v[i] = u[i]
  BY <1>1, SeqMas
<1> HIDE DEF v
<1>4. \A i \in 1..(n + 1) : v[i] = w[i] BY <1>1, <1>2, <1>3
<1>5. v = w BY <1>2, <1>3, <1>4, SeqIgual
<1> QED BY <1>5 DEF u, v, w

LEMMA PilaBaja ==
    ASSUME NEW S, NEW a \in S, NEW b \in S, NEW n \in Nat
    PROVE  /\ Front(Pila2(a, b, n + 1)) = Pila2(a, b, n)
           /\ n = 0 => Last(Pila2(a, b, n + 1)) = a
           /\ n # 0 => Last(Pila2(a, b, n + 1)) = b
<1> DEFINE u == Pila2(a, b, n + 1)
           v == SubSeq(u, 1, n)
           w == Pila2(a, b, n)
<1>1. u \in Seq(S) /\ Len(u) = n + 1 /\ u[1] = a /\ \A i \in 2..(n + 1) : u[i] = b
  BY n + 1 \in Nat /\ n + 1 > 0, PilaTipo
<1>2. w \in Seq(S) /\ Len(w) = n /\ (n > 0 => w[1] = a) /\ \A i \in 2..n : w[i] = b BY PilaTipo
<1> HIDE DEF u, w
<1>3. v \in Seq(S) /\ Len(v) = n /\ \A i \in 1..n : v[i] = u[i] BY <1>1, SeqParte
<1> HIDE DEF v
<1>4. \A i \in 1..n : v[i] = w[i] BY <1>1, <1>2, <1>3
<1>5. v = w BY <1>2, <1>3, <1>4, SeqIgual
<1>6. Front(u) = v /\ Last(u) = u[n + 1] BY <1>1 DEF Front, Last, v
<1> QED BY <1>1, <1>5, <1>6 DEF u, w

\* What waits in a call that is not a connection is one send.
LEMMA EsperaSola ==
    ASSUME IEnvio, TipoRed, espera # <<>>, ~SynEspera
    PROVE  \/ pc = "ping" /\ payload.fl = "eco?" /\ espera = <<Aguarda(Salto(op.dst), "ping")>>
           \/ pc = "dns" /\ payload.fl = "dns?" /\ espera = <<Aguarda(Salto(cfg.dns), "dns")>>
           \/ pc = "resolver" /\ espera = <<Aguarda(op.dst, "resolver")>>
BY DEF IEnvio, EsperaVacia, EsperaPing, EsperaDns, EsperaResolver, EsperaConectar

LEMMA SynEsperaUltimo ==
    ASSUME TipoCon, SynEspera
    PROVE  /\ espera # <<>> /\ Last(espera).salto = Salto(tcp.remota)
           /\ \E n \in 0..tcp.reintentos :
                /\ espera = Apilados(n + 1) /\ Front(espera) = Apilados(n)
                /\ (n = 0 => Last(espera).quien = "syn") /\ (n # 0 => Last(espera).quien = "nadie")
<1>1. tcp.reintentos \in Nat BY DEF TipoCon, TcpTipo
<1>2. PICK m \in 1..(tcp.reintentos + 1) : espera = Apilados(m) BY DEF SynEspera
<1>3. PICK n \in 0..tcp.reintentos : m = n + 1 BY <1>1
<1> DEFINE a == Aguarda(Salto(tcp.remota), "syn")
           b == Aguarda(Salto(tcp.remota), "nadie")
<1>4. espera = Pila2(a, b, n + 1) /\ Apilados(n) = Pila2(a, b, n) BY <1>2, <1>3 DEF Apilados
<1>5. /\ a.salto = Salto(tcp.remota) /\ b.salto = Salto(tcp.remota)
      /\ a.quien = "syn" /\ b.quien = "nadie" BY DEF Aguarda
<1> HIDE DEF a, b
<1> DEFINE S == {a, b}
<1>6. a \in S /\ b \in S /\ n \in Nat /\ n + 1 \in Nat BY <1>1
<1>7. /\ Front(espera) = Apilados(n)
      /\ (n = 0 => Last(espera) = a) /\ (n # 0 => Last(espera) = b)
  <2> HIDE DEF S
  <2>1. /\ Front(Pila2(a, b, n + 1)) = Pila2(a, b, n)
        /\ n = 0 => Last(Pila2(a, b, n + 1)) = a
        /\ n # 0 => Last(Pila2(a, b, n + 1)) = b
    BY <1>6, PilaBaja
  <2> QED BY <1>4, <2>1
<1>8. Len(espera) = n + 1 BY <1>4, <1>6, PilaTipo
<1>9. espera # <<>> BY <1>6, <1>8
<1> QED BY <1>2, <1>3, <1>5, <1>7, <1>9

\* A step of the connection when nothing waits.
EnConexionSigue ==
  /\ MismaConexion /\ UNCHANGED arp /\ EnlacesQuedan /\ espera' = <<>>
  /\ pc' \in EnConexion \cup {"fin"} /\ tcp'.reintentos <= Reintentos
  /\ tcp'.activa = 1 => /\ pc' \in EnConexion /\ Salto(tcp.remota) \in arp
                        /\ pc' # "conectar" => tcp'.estado >= 2

LEMMA EnConexionBasta == ASSUME IEnvio, EnConexionSigue PROVE IEnvio'
<1>1. Salto(tcp.remota)' = Salto(tcp.remota) BY DEF EnConexionSigue, MismaConexion, Salto
<1>2. Enlazados' BY EnlazadosSiguen DEF IEnvio, EnConexionSigue
<1>3. EsperaVacia' /\ EsperaPing' /\ EsperaDns' /\ EsperaResolver'
  BY DEF EnConexionSigue, EnConexion, EsperaVacia, EsperaPing, EsperaDns, EsperaResolver
<1>4. EsperaConectar' BY <1>1 DEF EnConexionSigue, EsperaConectar
<1>5. Activa'
  BY <1>1 DEF EnConexionSigue, MismaConexion, EnCon, EnConexion, IEnvio, Activa
<1> QED BY <1>2, <1>3, <1>4, <1>5 DEF IEnvio

LEMMA SigueArpEnvio ==
    ASSUME TipoRed, TipoCon, IEnvio, SigueArp PROVE IEnvio'
<1>1. /\ espera # <<>> /\ Last(espera).salto \in arp /\ espera' = <<>>
      /\ salen' = IF Last(espera).quien = "resolver" THEN salen ELSE salen \cup {payload}
      /\ UNCHANGED <<cfg, arp, tcp, payload, llegan, par, pc, op>>
  BY DEF SigueArp, ArpResuelto
<1>2. CASE SynEspera
  <2>1. pc = "conectar" /\ tcp.con >= 1 /\ tcp.con \in Nat BY <1>2 DEF SynEspera, TipoCon, TcpTipo
  <2>2. payload.con = tcp.con BY <1>2 DEF SynEspera, Segmento
  <2>3. Salto(tcp.remota) \in arp BY <1>1, <1>2, SynEsperaUltimo
  <2>4. ASSUME NEW c, c = tcp.con PROVE Enlace(c)'
    BY <1>1, <2>1, <2>3, <2>4 DEF Enlace, Salto
  <2>5. \A f \in salen' \cup llegan' : f \in salen \cup llegan \/ f.con = tcp.con BY <1>1, <2>2
  <2>6. EnlacesQuedan BY <1>1, <2>4, <2>5 DEF EnlacesQuedan
  <2>7. MismaConexion BY <1>1 DEF MismaConexion
  <2>8. tcp.reintentos <= Reintentos BY DEF IEnvio, Activa
  <2>9. EnConexionSigue BY <1>1, <2>1, <2>3, <2>6, <2>7, <2>8 DEF EnConexionSigue, EnConexion
  <2> QED BY <2>9, EnConexionBasta
<1>3. CASE ~SynEspera
  <2>1. \/ pc = "ping" /\ payload.fl = "eco?" /\ espera = <<Aguarda(Salto(op.dst), "ping")>>
        \/ pc = "dns" /\ payload.fl = "dns?" /\ espera = <<Aguarda(Salto(cfg.dns), "dns")>>
        \/ pc = "resolver" /\ espera = <<Aguarda(op.dst, "resolver")>>
    BY <1>1, <1>3, EsperaSola
  <2>2. pc = "resolver" => salen' = salen BY <1>1, <2>1, PilaUno DEF Aguarda
  <2>3. \A f \in salen' \cup llegan' : Segmental(f) => f \in salen \cup llegan
    BY <1>1, <2>1, <2>2 DEF Segmental
  <2>4. SinConexion BY <1>1, <2>1, <2>3 DEF SinConexion, EnCon, EnConexion, IEnvio, Activa
  <2>5. EsperaVacia' /\ EsperaPing' /\ EsperaDns' /\ EsperaResolver'
    BY <1>1 DEF EsperaVacia, EsperaPing, EsperaDns, EsperaResolver
  <2> QED BY <2>4, <2>5, SinConexionBasta
<1> QED BY <1>2, <1>3

\* A segment of a connection that is reachable leaves at once.
LEMMA SegmentoSale ==
    ASSUME IEnvio, tcp.con \in Nat, tcp.activa = 1, Salto(tcp.remota) \in arp, UNCHANGED <<llegan, par>>,
           espera = <<>>, NEW t, NEW dat, NEW fl, NEW seq, t.con = tcp.con,
           EnviarIpv4(tcp.remota, Segmento(t, dat, fl, seq), "nadie")
    PROVE  /\ EnlacesQuedan /\ espera' = espera /\ payload' = Segmento(t, dat, fl, seq)
           /\ salen' = salen \cup {Segmento(t, dat, fl, seq)}
<1>1. /\ espera' = espera /\ payload' = Segmento(t, dat, fl, seq)
      /\ salen' = salen \cup {Segmento(t, dat, fl, seq)}
  BY DEF EnviarIpv4
<1>2. Segmento(t, dat, fl, seq).con = tcp.con BY DEF Segmento
<1>3. Enlace(tcp.con) BY DEF Enlace, IEnvio, Activa
<1> QED BY <1>1, <1>2, <1>3 DEF EnlacesQuedan

\* The connection t is g_tcp, perhaps with its buffer.
Copia(t) ==
  /\ t \in TcpTipo /\ t.con = tcp.con /\ t.remota = tcp.remota /\ t.activa = tcp.activa
  /\ t.estado = tcp.estado /\ t.reintentos = tcp.reintentos

LEMMA GuardarTipo ==
    ASSUME NEW t \in TcpTipo, NEW dat \in Seq(Unidades), NEW fl \in {"S", "PA", "FA"}
    PROVE  LET g == GuardarUltimo(t, dat, fl)
           IN  /\ g \in TcpTipo /\ g.con = t.con /\ g.remota = t.remota /\ g.activa = t.activa
               /\ g.seq = t.seq /\ g.ack = t.ack /\ g.estado = t.estado /\ g.ack_de_datos = 0
               /\ g.fin_recibido = t.fin_recibido /\ g.seq_ultimo = t.seq /\ g.ultimo = dat
               /\ g.ultimo_flags = fl /\ g.reintentos = 0 /\ g.rx = t.rx
               /\ g.rx_capacidad = t.rx_capacidad /\ g.rx_desbordado = t.rx_desbordado
BY DEF GuardarUltimo, TcpTipo

LEMMA TcpEstado ==
    ASSUME NEW t \in TcpTipo, NEW a \in {0, 1}, NEW n \in 0..4
    PROVE  /\ [t EXCEPT !.activa = a, !.estado = n] \in TcpTipo
           /\ [t EXCEPT !.activa = a] \in TcpTipo
BY DEF TcpTipo

LEMMA TcpNumero ==
    ASSUME NEW t \in TcpTipo, NEW m \in Nat, NEW n \in 0..4
    PROVE  [t EXCEPT !.seq = m, !.estado = n] \in TcpTipo
BY DEF TcpTipo

\* red_tcp_cerrar: a FIN leaves, or there is nothing to say.
LEMMA CerrarCasos ==
    ASSUME NEW t \in TcpTipo, t.seq \in 0..(Modulo - 1), Cerrar(t)
    PROVE  \/ /\ t.activa = 1 /\ t.estado \in {2, 4} /\ pc' = "cerrar" /\ tcp' \in TcpTipo
              /\ tcp'.con = t.con /\ tcp'.remota = t.remota /\ tcp'.activa = 1 /\ tcp'.estado = 3
              /\ tcp'.seq = Mas(t.seq, 1) /\ tcp'.ack = t.ack /\ tcp'.ack_de_datos = 0
              /\ tcp'.fin_recibido = t.fin_recibido /\ tcp'.seq_ultimo = t.seq /\ tcp'.ultimo = <<>>
              /\ tcp'.ultimo_flags = "FA" /\ tcp'.reintentos = 0 /\ tcp'.rx = t.rx
              /\ tcp'.rx_capacidad = t.rx_capacidad
              /\ EnviarIpv4(t.remota, Segmento(t, <<>>, "FA", t.seq), "nadie")
           \/ /\ pc' = "fin" /\ UNCHANGED <<payload, salen, espera>> /\ tcp' \in TcpTipo
              /\ tcp'.con = t.con /\ tcp'.remota = t.remota /\ tcp'.reintentos = t.reintentos
              /\ tcp'.rx = t.rx
              /\ tcp'.activa = 0
<1>1. CASE t.activa = 1 /\ t.estado \in {2, 4}
  <2> DEFINE g == GuardarUltimo(t, <<>>, "FA")
  <2>1. <<>> \in Seq(Unidades) /\ "FA" \in {"S", "PA", "FA"} OBVIOUS
  <2>2. /\ g \in TcpTipo /\ g.con = t.con /\ g.remota = t.remota /\ g.activa = t.activa
        /\ g.seq = t.seq /\ g.ack = t.ack /\ g.estado = t.estado /\ g.ack_de_datos = 0
        /\ g.fin_recibido = t.fin_recibido /\ g.seq_ultimo = t.seq /\ g.ultimo = <<>>
        /\ g.ultimo_flags = "FA" /\ g.reintentos = 0 /\ g.rx = t.rx
        /\ g.rx_capacidad = t.rx_capacidad
    <3>1. PICK h : h = g OBVIOUS
    <3>2. h = GuardarUltimo(t, <<>>, "FA") BY <3>1
    <3> HIDE DEF g
    <3>3. /\ h \in TcpTipo /\ h.con = t.con /\ h.remota = t.remota /\ h.activa = t.activa
          /\ h.seq = t.seq /\ h.ack = t.ack /\ h.estado = t.estado /\ h.ack_de_datos = 0
          /\ h.fin_recibido = t.fin_recibido /\ h.seq_ultimo = t.seq /\ h.ultimo = <<>>
          /\ h.ultimo_flags = "FA" /\ h.reintentos = 0 /\ h.rx = t.rx
          /\ h.rx_capacidad = t.rx_capacidad
      BY <2>1, <3>2, GuardarTipo
    <3> QED BY <3>1, <3>3
  <2>3. /\ tcp' = [g EXCEPT !.seq = Mas(g.seq, 1), !.estado = 3] /\ pc' = "cerrar"
        /\ EnviarIpv4(t.remota, Segmento(t, <<>>, "FA", t.seq), "nadie")
    BY <1>1 DEF Cerrar
  <2> HIDE DEF g
  <2>4. Mas(g.seq, 1) \in Nat BY <2>2, MasTipo
  <2>5. tcp' \in TcpTipo
    <3>1. 3 \in 0..4 OBVIOUS
    <3> QED BY <2>2, <2>3, <2>4, <3>1, TcpNumero
  <2>6. /\ tcp'.con = g.con /\ tcp'.remota = g.remota /\ tcp'.activa = g.activa /\ tcp'.estado = 3
        /\ tcp'.seq = Mas(g.seq, 1) /\ tcp'.ack = g.ack /\ tcp'.ack_de_datos = g.ack_de_datos
        /\ tcp'.fin_recibido = g.fin_recibido /\ tcp'.seq_ultimo = g.seq_ultimo
        /\ tcp'.ultimo = g.ultimo /\ tcp'.ultimo_flags = g.ultimo_flags
        /\ tcp'.reintentos = g.reintentos /\ tcp'.rx = g.rx /\ tcp'.rx_capacidad = g.rx_capacidad
    BY <2>2, <2>3 DEF TcpTipo
  <2> QED BY <1>1, <2>2, <2>3, <2>5, <2>6
<1>2. CASE ~(t.activa = 1 /\ t.estado \in {2, 4})
  <2>1. /\ tcp' = (IF t.activa = 1 THEN [t EXCEPT !.activa = 0, !.estado = 0] ELSE t)
        /\ pc' = "fin" /\ UNCHANGED <<payload, salen, espera>>
    BY <1>2 DEF Cerrar
  <2>2. CASE t.activa = 1
    <3>1. tcp' = [t EXCEPT !.activa = 0, !.estado = 0] BY <2>1, <2>2
    <3>2. tcp' \in TcpTipo
      <4>1. 0 \in {0, 1} /\ 0 \in 0..4 OBVIOUS
      <4> QED BY <3>1, <4>1, TcpEstado
    <3>3. /\ tcp'.con = t.con /\ tcp'.remota = t.remota /\ tcp'.reintentos = t.reintentos
          /\ tcp'.rx = t.rx /\ tcp'.activa = 0
      BY <3>1 DEF TcpTipo
    <3> QED BY <2>1, <3>2, <3>3
  <2>3. CASE t.activa # 1 BY <2>1, <2>3 DEF TcpTipo
  <2> QED BY <2>2, <2>3
<1> QED BY <1>1, <1>2

\* red_tcp_enviar: the next segment leaves, or the connection is closed.
LEMMA EnviarDatosCasos ==
    ASSUME NEW t \in TcpTipo, t.seq \in 0..(Modulo - 1), op \in OpTipo, op.k + 1 \in 1..Len(op.req),
           EnviarDatos(t)
    PROVE  \/ /\ t.activa = 1 /\ t.estado = 2 /\ pc' = "enviar" /\ tcp' \in TcpTipo
              /\ op' = [op EXCEPT !.k = op.k + 1]
              /\ tcp'.con = t.con /\ tcp'.remota = t.remota /\ tcp'.activa = 1 /\ tcp'.estado = 2
              /\ tcp'.seq = Mas(t.seq, 1) /\ tcp'.ack = t.ack /\ tcp'.ack_de_datos = 0
              /\ tcp'.fin_recibido = t.fin_recibido /\ tcp'.seq_ultimo = t.seq
              /\ tcp'.ultimo = <<op.req[op.k + 1]>>
              /\ tcp'.ultimo_flags = "PA" /\ tcp'.reintentos = 0 /\ tcp'.rx = t.rx
              /\ tcp'.rx_capacidad = t.rx_capacidad
              /\ EnviarIpv4(t.remota, Segmento(t, <<op.req[op.k + 1]>>, "PA", t.seq), "nadie")
           \/ Cerrar(t) /\ op' = op
<1>1. CASE t.activa = 1 /\ t.estado = 2
  <2> DEFINE d == <<op.req[op.k + 1]>>
             g == GuardarUltimo(t, d, "PA")
  <2>1. op.req \in Seq(Unidades) BY DEF OpTipo
  <2>2. op.req[op.k + 1] \in Unidades BY <2>1
  <2>3. d \in Seq(Unidades) /\ "PA" \in {"S", "PA", "FA"} BY <2>2
  <2> HIDE DEF d
  <2>4. /\ g \in TcpTipo /\ g.con = t.con /\ g.remota = t.remota /\ g.activa = t.activa
        /\ g.seq = t.seq /\ g.ack = t.ack /\ g.estado = t.estado /\ g.ack_de_datos = 0
        /\ g.fin_recibido = t.fin_recibido /\ g.seq_ultimo = t.seq /\ g.ultimo = d
        /\ g.ultimo_flags = "PA" /\ g.reintentos = 0 /\ g.rx = t.rx
        /\ g.rx_capacidad = t.rx_capacidad
    BY <2>3, GuardarTipo
  <2>5. /\ tcp' = [g EXCEPT !.seq = Mas(g.seq, 1)] /\ pc' = "enviar"
        /\ op' = [op EXCEPT !.k = op.k + 1]
        /\ EnviarIpv4(t.remota, Segmento(t, d, "PA", g.seq_ultimo), "nadie")
    BY <1>1 DEF EnviarDatos, d
  <2> HIDE DEF g
  <2>6. Mas(g.seq, 1) \in Nat BY <2>4, MasTipo
  <2>7. tcp' \in TcpTipo BY <2>4, <2>5, <2>6 DEF TcpTipo
  <2>8. /\ tcp'.con = g.con /\ tcp'.remota = g.remota /\ tcp'.activa = g.activa
        /\ tcp'.estado = g.estado
        /\ tcp'.seq = Mas(g.seq, 1) /\ tcp'.ack = g.ack /\ tcp'.ack_de_datos = g.ack_de_datos
        /\ tcp'.fin_recibido = g.fin_recibido /\ tcp'.seq_ultimo = g.seq_ultimo
        /\ tcp'.ultimo = g.ultimo /\ tcp'.ultimo_flags = g.ultimo_flags
        /\ tcp'.reintentos = g.reintentos /\ tcp'.rx = g.rx /\ tcp'.rx_capacidad = g.rx_capacidad
    BY <2>4, <2>5 DEF TcpTipo
  <2> QED BY <1>1, <2>4, <2>5, <2>7, <2>8 DEF d
<1>2. CASE ~(t.activa = 1 /\ t.estado = 2) BY <1>2 DEF EnviarDatos
<1> QED BY <1>1, <1>2

LEMMA CerrarEnvio ==
    ASSUME TipoCon, IEnvio, EnCon, espera = <<>>, tcp.activa = 1 => Salto(tcp.remota) \in arp,
           UNCHANGED <<cfg, arp, llegan, par>>, NEW t, Copia(t), t.seq \in 0..(Modulo - 1), Cerrar(t)
    PROVE  IEnvio'
<1>1. /\ t \in TcpTipo /\ t.con = tcp.con /\ t.remota = tcp.remota /\ t.activa = tcp.activa
      /\ t.estado = tcp.estado /\ t.reintentos = tcp.reintentos
  BY DEF Copia
<1>2. tcp.con \in Nat /\ tcp.reintentos <= Reintentos /\ 0 <= Reintentos
  <2>1. tcp.con \in Nat BY DEF TipoCon, TcpTipo
  <2>2. 0 <= Reintentos BY LimitesAssumption
  <2>3. tcp.reintentos <= Reintentos BY DEF IEnvio, Activa
  <2> QED BY <2>1, <2>2, <2>3
<1>3. \/ /\ t.activa = 1 /\ pc' = "cerrar" /\ tcp'.con = t.con /\ tcp'.remota = t.remota
         /\ tcp'.activa = 1 /\ tcp'.estado = 3 /\ tcp'.reintentos = 0
         /\ EnviarIpv4(tcp.remota, Segmento(t, <<>>, "FA", t.seq), "nadie")
      \/ /\ pc' = "fin" /\ UNCHANGED <<payload, salen, espera>> /\ tcp'.con = t.con
         /\ tcp'.remota = t.remota /\ tcp'.reintentos = t.reintentos /\ tcp'.activa = 0
  BY <1>1, CerrarCasos
<1>4. EnlacesQuedan /\ espera' = espera
  <2>1. CASE pc' = "fin" BY <1>3, <2>1 DEF EnlacesQuedan
  <2>2. CASE pc' # "fin" BY <1>1, <1>2, <1>3, <2>2, SegmentoSale
  <2> QED BY <2>1, <2>2
<1>5. MismaConexion BY <1>1, <1>3 DEF MismaConexion
<1>6. EnConexionSigue BY <1>1, <1>2, <1>3, <1>4, <1>5 DEF EnConexionSigue, EnConexion
<1> QED BY <1>6, EnConexionBasta

LEMMA EnviarDatosEnvio ==
    ASSUME TipoCon, IEnvio, EnCon, espera = <<>>, tcp.activa = 1 => Salto(tcp.remota) \in arp,
           UNCHANGED <<cfg, arp, llegan, par>>, NEW t, Copia(t), t.seq \in 0..(Modulo - 1),
           op.k + 1 \in 1..Len(op.req), EnviarDatos(t)
    PROVE  IEnvio'
<1>1. /\ t \in TcpTipo /\ t.con = tcp.con /\ t.remota = tcp.remota /\ t.activa = tcp.activa
      /\ t.estado = tcp.estado /\ t.reintentos = tcp.reintentos
  BY DEF Copia
<1>2. tcp.con \in Nat /\ tcp.reintentos <= Reintentos /\ 0 <= Reintentos
  <2>1. tcp.con \in Nat BY DEF TipoCon, TcpTipo
  <2>2. 0 <= Reintentos BY LimitesAssumption
  <2>3. tcp.reintentos <= Reintentos BY DEF IEnvio, Activa
  <2> QED BY <2>1, <2>2, <2>3
<1> DEFINE d == <<op.req[op.k + 1]>>
<1>3. \/ /\ t.activa = 1 /\ pc' = "enviar" /\ tcp'.con = t.con /\ tcp'.remota = t.remota
         /\ tcp'.activa = 1 /\ tcp'.estado = 2 /\ tcp'.reintentos = 0
         /\ EnviarIpv4(tcp.remota, Segmento(t, d, "PA", t.seq), "nadie")
      \/ Cerrar(t)
  BY <1>1, EnviarDatosCasos DEF TipoCon
<1> HIDE DEF d
<1>4. CASE Cerrar(t) BY <1>4, CerrarEnvio
<1>5. CASE ~Cerrar(t)
  <2>1. EnlacesQuedan /\ espera' = espera BY <1>1, <1>2, <1>3, <1>5, SegmentoSale
  <2>2. MismaConexion BY <1>1, <1>3, <1>5 DEF MismaConexion
  <2>3. EnConexionSigue BY <1>1, <1>2, <1>3, <1>5, <2>1, <2>2 DEF EnConexionSigue, EnConexion
  <2> QED BY <2>3, EnConexionBasta
<1> QED BY <1>4, <1>5

\* In a connection nothing waits, but for a SYN that cannot leave.
LEMMA ConexionLibre ==
    ASSUME TipoCon, TipoRed, IEnvio, EnCon
    PROVE  /\ espera = <<>> => (tcp.activa = 1 => Salto(tcp.remota) \in arp)
           /\ ~SynEspera => espera = <<>>
           /\ Enlace(tcp.con) => espera = <<>>
           /\ tcp.estado >= 2 => espera = <<>>
<1>1. SynEspera => espera # <<>> /\ ~Enlace(tcp.con) /\ tcp.estado < 2
  BY SynEsperaUltimo DEF SynEspera, Enlace
<1>2. CASE pc = "conectar"
  <2>1. SynEspera \/ (espera = <<>> /\ (tcp.activa = 1 => Salto(tcp.remota) \in arp))
    BY <1>2 DEF IEnvio, EsperaConectar
  <2>2. tcp.estado \in 0..4 BY DEF TipoCon, TcpTipo
  <2> QED BY <1>1, <2>1, <2>2
<1>3. CASE pc # "conectar"
  <2>1. espera = <<>> BY <1>3 DEF IEnvio, EsperaVacia, EnCon, EnConexion
  <2>2. tcp.activa = 1 => Salto(tcp.remota) \in arp BY <1>3 DEF IEnvio, Activa
  <2> QED BY <2>1, <2>2
<1> QED BY <1>2, <1>3

\* The buffer of the answer is set when the connection is made.
LEMMA CopiaTcp ==
    ASSUME TipoCon
    PROVE  /\ Copia(tcp) /\ Copia([tcp EXCEPT !.rx_capacidad = op.cap])
           /\ [tcp EXCEPT !.rx_capacidad = op.cap].seq = tcp.seq
<1>1. tcp \in TcpTipo /\ op.cap \in Nat BY DEF TipoCon, OpTipo
<1>2. ASSUME NEW n \in Nat PROVE [tcp EXCEPT !.rx_capacidad = n] \in TcpTipo BY <1>1 DEF TcpTipo
<1>3. Copia(tcp) BY <1>1 DEF Copia
<1>4. [tcp EXCEPT !.rx_capacidad = op.cap] \in TcpTipo BY <1>1, <1>2
<1> QED BY <1>1, <1>3, <1>4 DEF Copia, TcpTipo

LEMMA ConectadoEnvio ==
    ASSUME TipoCon, TipoRed, IEnvio, Emisor, Sesion, Conectado PROVE IEnvio'
<1> DEFINE t == [tcp EXCEPT !.rx_capacidad = op.cap]
<1>1. /\ pc = "conectar" /\ espera = <<>> /\ tcp.estado = 2 /\ UNCHANGED <<cfg, arp, llegan, par>>
      /\ EnviarDatos(t) \/ Cerrar(t)
  BY DEF Conectado, Bucle
<1>2. EnCon /\ (tcp.activa = 1 => Salto(tcp.remota) \in arp)
  BY <1>1, ConexionLibre DEF EnCon, EnConexion
<1>3. Copia(t) /\ t.seq = tcp.seq BY CopiaTcp
<1>4. tcp.seq \in 0..(Modulo - 1) BY <1>1, MasTipo, ModuloAssumption DEF Emisor
<1>5. op.k + 1 \in 1..Len(op.req)
  <2>1. op.k = 0 BY <1>1 DEF Emisor
  <2>2. Len(op.req) \in 1..3 BY <1>1 DEF Sesion, EnIntercambio, EnConexion
  <2>3. op.k + 1 = 1 BY <2>1
  <2>4. PICK m \in 1..3 : Len(op.req) = m BY <2>2
  <2>5. 1 \in 1..m OBVIOUS
  <2> QED BY <2>3, <2>4, <2>5
<1> HIDE DEF t
<1> QED BY <1>1, <1>2, <1>3, <1>4, <1>5, CerrarEnvio, EnviarDatosEnvio

LEMMA EnviadoEnvio ==
    ASSUME TipoCon, TipoRed, IEnvio, Emisor, Len(op.req) <= 3, Enviado PROVE IEnvio'
<1>1. pc = "enviar" /\ espera = <<>> /\ UNCHANGED <<cfg, arp, llegan, par>>
  BY DEF Enviado, Bucle
<1>2. EnCon /\ (tcp.activa = 1 => Salto(tcp.remota) \in arp)
  BY <1>1, ConexionLibre DEF EnCon, EnConexion
<1>3. Copia(tcp) BY CopiaTcp
<1>4. op.k \in 1..Len(op.req) /\ tcp.seq = Mas(Isn, op.k + 1) BY <1>1 DEF Emisor
<1>5. Len(op.req) \in Nat
  <2>1. op.req \in Seq(Unidades) BY DEF TipoCon, OpTipo
  <2> QED BY <2>1
<1>6. tcp.seq \in 0..(Modulo - 1)
  <2>1. op.k + 1 \in 0..7 BY <1>4, <1>5
  <2> QED BY <1>4, <2>1, MasTipo, ModuloAssumption
<1>7. CASE Cerrar(tcp) BY <1>1, <1>2, <1>3, <1>6, <1>7, CerrarEnvio
<1>8. CASE op.k < Len(op.req) /\ EnviarDatos(tcp)
  <2>1. op.k + 1 \in 1..Len(op.req) BY <1>4, <1>5, <1>8
  <2> QED BY <1>1, <1>2, <1>3, <1>6, <1>8, <2>1, EnviarDatosEnvio
<1>9. CASE pc' = "respuesta" /\ UNCHANGED <<tcp, payload, salen, espera, op>>
  <2>1. EnlacesQuedan BY <1>1, <1>9 DEF EnlacesQuedan
  <2>2. MismaConexion BY <1>1, <1>9 DEF MismaConexion
  <2>3. tcp.activa = 1 => tcp.estado >= 2 BY <1>1 DEF IEnvio, Activa
  <2>4. tcp.reintentos <= Reintentos BY DEF IEnvio, Activa
  <2>5. EnConexionSigue BY <1>1, <1>2, <1>9, <2>1, <2>2, <2>3, <2>4 DEF EnConexionSigue, EnConexion
  <2> QED BY <2>5, EnConexionBasta
<1> QED BY <1>7, <1>8, <1>9 DEF Enviado

LEMMA RespondidoEnvio ==
    ASSUME TipoCon, TipoRed, IEnvio, Emisor, Len(op.req) <= 3, Respondido PROVE IEnvio'
<1>1. pc \in {"enviar", "respuesta"} /\ espera = <<>> /\ UNCHANGED <<cfg, arp, llegan, par>> /\ Cerrar(tcp)
  BY DEF Respondido, Bucle
<1>2. EnCon /\ (tcp.activa = 1 => Salto(tcp.remota) \in arp)
  BY <1>1, ConexionLibre DEF EnCon, EnConexion
<1>3. Copia(tcp) BY CopiaTcp
<1>4. op.k \in 1..Len(op.req) /\ tcp.seq = Mas(Isn, op.k + 1) BY <1>1 DEF Emisor
<1>5. Len(op.req) \in Nat
  <2>1. op.req \in Seq(Unidades) BY DEF TipoCon, OpTipo
  <2> QED BY <2>1
<1>6. tcp.seq \in 0..(Modulo - 1)
  <2>1. op.k + 1 \in 0..7 BY <1>4, <1>5
  <2> QED BY <1>4, <2>1, MasTipo, ModuloAssumption
<1> QED BY <1>1, <1>2, <1>3, <1>6, CerrarEnvio

LEMMA NoConectaEnvio ==
    ASSUME TipoCon, TipoRed, IEnvio, NoConecta \/ Cerrado PROVE IEnvio'
<1>1. /\ pc \in EnConexion /\ espera = <<>> /\ UNCHANGED <<cfg, arp, espera, salen, llegan, par>>
      /\ pc' = "fin" /\ tcp' = [tcp EXCEPT !.activa = 0, !.estado = 0]
  BY DEF NoConecta, Cerrado, Bucle, EnConexion, red
<1>2. tcp'.con = tcp.con /\ tcp'.remota = tcp.remota /\ tcp'.activa = 0 /\ tcp'.reintentos = tcp.reintentos
  BY <1>1 DEF TipoCon, TcpTipo
<1>3. EnlacesQuedan BY <1>1 DEF EnlacesQuedan
<1>4. MismaConexion BY <1>1, <1>2 DEF MismaConexion
<1>5. tcp.reintentos <= Reintentos BY DEF IEnvio, Activa
<1>6. EnConexionSigue BY <1>1, <1>2, <1>3, <1>4, <1>5 DEF EnConexionSigue
<1> QED BY <1>6, EnConexionBasta

\* What a segment of the peer leaves as it is.
LEMMA RecibirTcpCampos ==
    ASSUME tcp \in TcpTipo, NEW f, RecibirTcp(f)
    PROVE  /\ tcp'.con = tcp.con /\ tcp'.remota = tcp.remota /\ tcp'.reintentos = tcp.reintentos
           /\ tcp.activa = 1 /\ (tcp'.activa = 1 => tcp'.estado \in {2, 4, tcp.estado})
<1>1. CASE f.fl = "R"
  <2>1. tcp' = [tcp EXCEPT !.estado = 0, !.activa = 0] BY <1>1 DEF RecibirTcp
  <2>2. tcp.activa = 1 BY DEF RecibirTcp
  <2> QED BY <2>1, <2>2 DEF TcpTipo
<1>2. CASE f.fl = "SA"
  <2>1. tcp' = [tcp EXCEPT !.ack = Mas(f.seq, 1), !.seq = Mas(Isn, 1), !.estado = 2, !.ack_de_datos = 1]
        /\ tcp.activa = 1
    BY <1>2 DEF RecibirTcp
  <2> QED BY <2>1 DEF TcpTipo
<1>3. CASE f.fl \in {"A", "FA"}
  <2> DEFINE t1 == IF AcuseExacto(tcp, f) THEN [tcp EXCEPT !.ack_de_datos = 1] ELSE tcp
             t2 == ConDatos(t1, f)
  <2>1. tcp' = ConFin(t2, f) BY <1>3 DEF RecibirTcp
  <2>2. \E a \in {0, 1} : t1 = [tcp EXCEPT !.ack_de_datos = a] BY DEF TcpTipo
  <2>3. /\ t1 \in TcpTipo /\ t1.con = tcp.con /\ t1.remota = tcp.remota /\ t1.estado = tcp.estado
        /\ t1.activa = tcp.activa /\ t1.reintentos = tcp.reintentos
    BY <2>2 DEF TcpTipo
  <2> HIDE DEF t1
  <2>4. /\ t2.con = t1.con /\ t2.remota = t1.remota /\ t2.estado = t1.estado
        /\ t2.activa = t1.activa /\ t2.reintentos = t1.reintentos
        /\ DOMAIN t2 = DOMAIN t1
    BY <2>3 DEF ConDatos, TcpTipo
  <2> HIDE DEF t2
  <2>5. /\ tcp'.con = t2.con /\ tcp'.remota = t2.remota /\ tcp'.estado \in {4, t2.estado}
        /\ tcp'.activa = t2.activa /\ tcp'.reintentos = t2.reintentos
    BY <2>1, <2>3, <2>4 DEF ConFin, TcpTipo
  <2> QED BY <1>3, <2>3, <2>4, <2>5 DEF RecibirTcp
<1> QED BY <1>1, <1>2, <1>3 DEF RecibirTcp

LEMMA RecibirTcpEnvio ==
    ASSUME TipoCon, TipoRed, IEnvio, NEW f, RecibirTcp(f) PROVE IEnvio'
<1>1. /\ f \in llegan /\ f.con = tcp.con /\ f.fl \in {"R", "SA", "A", "FA"}
      /\ UNCHANGED <<cfg, arp, espera, pc, salen, llegan, par>>
  BY DEF RecibirTcp, red
<1>2. /\ tcp'.con = tcp.con /\ tcp'.remota = tcp.remota /\ tcp'.reintentos = tcp.reintentos
      /\ tcp.activa = 1 /\ (tcp'.activa = 1 => tcp'.estado \in {2, 4, tcp.estado})
  BY RecibirTcpCampos DEF TipoCon
<1>3. Enlace(tcp.con) BY <1>1 DEF IEnvio, Enlazados, Segmental
<1>4. Salto(tcp.remota) \in arp BY <1>2, <1>3 DEF Enlace
<1>5. EnCon /\ (pc # "conectar" => tcp.estado >= 2) BY <1>2 DEF IEnvio, Activa
<1>6. espera = <<>> BY <1>3, <1>5, ConexionLibre
<1>7. EnlacesQuedan BY <1>1 DEF EnlacesQuedan
<1>8. MismaConexion BY <1>1, <1>2 DEF MismaConexion
<1>9. tcp.reintentos <= Reintentos BY DEF IEnvio, Activa
<1>10. EnConexionSigue BY <1>1, <1>2, <1>4, <1>5, <1>6, <1>7, <1>8, <1>9 DEF EnConexionSigue, EnCon
<1> QED BY <1>10, EnConexionBasta

\* A step of the timer while the SYN waits.
SynSigue ==
  /\ MismaConexion /\ UNCHANGED <<arp, salen, llegan, par>> /\ pc = "conectar" /\ pc' = "conectar"
  /\ tcp'.reintentos <= Reintentos /\ SynEspera'

LEMMA SynBasta == ASSUME IEnvio, SynSigue PROVE IEnvio'
<1>1. EnlacesQuedan BY DEF SynSigue, EnlacesQuedan
<1>2. Enlazados' BY <1>1, EnlazadosSiguen DEF IEnvio, SynSigue
<1>3. EsperaVacia' /\ EsperaPing' /\ EsperaDns' /\ EsperaResolver' /\ EsperaConectar'
  BY DEF SynSigue, EsperaVacia, EsperaPing, EsperaDns, EsperaResolver, EsperaConectar
<1>4. Activa' BY DEF SynSigue, MismaConexion, EnCon, EnConexion, IEnvio, Activa
<1> QED BY <1>2, <1>3, <1>4 DEF IEnvio

LEMMA ReenviarEnvio ==
    ASSUME TipoCon, TipoRed, IEnvio, Reenviar PROVE IEnvio'
<1> DEFINE s == Segmento(tcp, tcp.ultimo, tcp.ultimo_flags, tcp.seq_ultimo)
<1>1. /\ tcp.activa = 1 /\ tcp.reintentos < Reintentos /\ tcp' = [tcp EXCEPT !.reintentos = @ + 1]
      /\ EnviarIpv4(tcp.remota, s, "nadie") /\ UNCHANGED <<cfg, arp, pc, llegan, par>>
  BY DEF Reenviar, VenceReenvio
<1>2. /\ tcp'.con = tcp.con /\ tcp'.remota = tcp.remota /\ tcp'.activa = tcp.activa
      /\ tcp'.estado = tcp.estado /\ tcp'.reintentos = tcp.reintentos + 1
      /\ tcp'.ultimo = tcp.ultimo /\ tcp'.ultimo_flags = tcp.ultimo_flags
      /\ tcp'.seq_ultimo = tcp.seq_ultimo /\ tcp'.ack = tcp.ack
  BY <1>1 DEF TipoCon, TcpTipo
<1>3. tcp.reintentos \in Nat /\ tcp.con \in Nat BY DEF TipoCon, TcpTipo
<1>4. tcp'.reintentos <= Reintentos BY <1>1, <1>2, <1>3, LimitesAssumption
<1>6. s' = s BY <1>2 DEF Segmento
<1>7. EnCon /\ (pc # "conectar" => tcp.estado >= 2) BY <1>1 DEF IEnvio, Activa
<1>8. CASE SynEspera /\ Salto(tcp.remota) \notin arp
  <2>1. /\ pc = "conectar" /\ tcp.estado < 2 /\ tcp.con >= 1 /\ payload = s
    BY <1>1, <1>8 DEF SynEspera
  <2>2. PICK n \in 1..(tcp.reintentos + 1) : espera = Apilados(n) BY <1>8 DEF SynEspera
  <2> DEFINE a == Aguarda(Salto(tcp.remota), "syn")
             b == Aguarda(Salto(tcp.remota), "nadie")
  <2>3. Salto(tcp.remota) \notin arp BY <1>8
  <2>4. /\ payload' = s /\ salen' = salen
        /\ espera' = Append(espera, [salto |-> Salto(tcp.remota), seg |-> s, quien |-> "nadie"])
    BY <1>1, <2>3 DEF EnviarIpv4
  <2>5. espera' = Append(Pila2(a, b, n), b) BY <2>1, <2>2, <2>4 DEF Aguarda, Apilados
  <2>6. Salto(tcp.remota)' = Salto(tcp.remota) /\ payload' = payload BY <1>1, <1>2, <2>1, <2>4 DEF Salto
  <2>7. \A m : Apilados(m)' = Pila2(a, b, m) BY <2>6 DEF Apilados, Aguarda
  <2> HIDE DEF a, b
  <2>8. Append(Pila2(a, b, n), b) = Pila2(a, b, n + 1)
    <3> DEFINE S == {a, b}
    <3>1. a \in S /\ b \in S OBVIOUS
    <3>2. n \in Nat /\ n > 0 BY <1>3
    <3> HIDE DEF S
    <3> QED BY <3>1, <3>2, PilaSube
  <2>9. espera' = Apilados(n + 1)' BY <2>5, <2>7, <2>8
  <2>10. n + 1 \in 1..(tcp'.reintentos + 1) BY <1>2, <1>3
  <2>11. SynEspera' BY <1>1, <1>2, <1>6, <2>1, <2>4, <2>6, <2>9, <2>10 DEF SynEspera
  <2>13. espera # <<>> BY <1>8, SynEsperaUltimo
  <2>14. MismaConexion BY <1>1, <1>2, <2>1, <2>13 DEF MismaConexion
  <2>12. SynSigue BY <1>1, <1>4, <2>1, <2>4, <2>11, <2>14 DEF SynSigue
  <2> QED BY <2>12, SynBasta
<1>10. CASE SynEspera /\ Salto(tcp.remota) \in arp
  <2>1. pc = "conectar" /\ tcp.con >= 1 BY <1>10 DEF SynEspera
  <2>2. espera' = <<>> /\ salen' = salen \cup {s} BY <1>1, <1>10 DEF EnviarIpv4
  <2>3. s.con = tcp.con BY DEF Segmento
  <2>4. Enlace(tcp.con)' BY <1>1, <1>2, <1>3, <1>10, <2>1, <2>2 DEF Enlace, Salto
  <2> HIDE DEF s
  <2>5. EnlacesQuedan
    <3>1. \A c : c = tcp.con => Enlace(c)'
      <4>1. tcp'.con = tcp.con BY <1>2
      <4> QED BY <2>4, <4>1
    <3>2. \A f \in salen' \cup llegan' : f \in salen \cup llegan \/ f.con = tcp.con
      BY <1>1, <2>2, <2>3
    <3> QED BY <1>1, <3>1, <3>2 DEF EnlacesQuedan
  <2>6. MismaConexion BY <1>1, <1>2, <2>1, <2>2 DEF MismaConexion
  <2>7. EnConexionSigue
    BY <1>1, <1>2, <1>4, <1>7, <1>10, <2>1, <2>2, <2>5, <2>6 DEF EnConexionSigue, EnCon
  <2> QED BY <2>7, EnConexionBasta
<1>9. CASE ~SynEspera
  <2>1. espera = <<>> /\ Salto(tcp.remota) \in arp BY <1>1, <1>7, <1>9, ConexionLibre
  <2> HIDE DEF s
  <2>2. EnlacesQuedan /\ espera' = espera BY <1>1, <1>3, <2>1, SegmentoSale DEF s
  <2>3. MismaConexion BY <1>1, <1>2, <2>1, <2>2 DEF MismaConexion
  <2>4. EnConexionSigue BY <1>1, <1>2, <1>4, <1>7, <2>1, <2>2, <2>3 DEF EnConexionSigue, EnCon
  <2> QED BY <2>4, EnConexionBasta
<1> QED BY <1>8, <1>9, <1>10

LEMMA AbandonarEnvio ==
    ASSUME TipoCon, TipoRed, IEnvio, Abandonar PROVE IEnvio'
<1>1. /\ tcp.activa = 1 /\ tcp' = [tcp EXCEPT !.estado = 0, !.activa = 0]
      /\ UNCHANGED <<cfg, arp, espera, payload, pc, salen, llegan, par>>
  BY DEF Abandonar, VenceReenvio, red
<1>2. /\ tcp'.con = tcp.con /\ tcp'.remota = tcp.remota /\ tcp'.activa = 0 /\ tcp'.estado = 0
      /\ tcp'.reintentos = tcp.reintentos /\ tcp'.ultimo = tcp.ultimo /\ tcp'.ack = tcp.ack
      /\ tcp'.ultimo_flags = tcp.ultimo_flags /\ tcp'.seq_ultimo = tcp.seq_ultimo
  BY <1>1 DEF TipoCon, TcpTipo
<1>3. tcp.reintentos <= Reintentos BY DEF IEnvio, Activa
<1>4. MismaConexion BY <1>1, <1>2 DEF MismaConexion
<1>5. EnCon BY <1>1 DEF IEnvio, Activa
<1>6. CASE SynEspera
  <2>1. /\ pc = "conectar" /\ tcp.con >= 1
        /\ payload = Segmento(tcp, tcp.ultimo, tcp.ultimo_flags, tcp.seq_ultimo)
    BY <1>6 DEF SynEspera
  <2>2. PICK n \in 1..(tcp.reintentos + 1) : espera = Apilados(n) BY <1>6 DEF SynEspera
  <2>3. Salto(tcp.remota)' = Salto(tcp.remota) BY <1>1, <1>2 DEF Salto
  <2>4. Apilados(n)' = Apilados(n) BY <1>1, <2>3 DEF Apilados, Aguarda
  <2>5. SynEspera' BY <1>1, <1>2, <2>1, <2>2, <2>3, <2>4 DEF SynEspera, Segmento
  <2>6. SynSigue BY <1>1, <1>2, <1>3, <1>4, <2>1, <2>5 DEF SynSigue
  <2> QED BY <2>6, SynBasta
<1>7. CASE ~SynEspera
  <2>1. espera = <<>> BY <1>5, <1>7, ConexionLibre
  <2>2. EnlacesQuedan BY <1>1 DEF EnlacesQuedan
  <2>3. EnConexionSigue BY <1>1, <1>2, <1>3, <1>4, <1>5, <2>1, <2>2 DEF EnConexionSigue, EnCon
  <2> QED BY <2>3, EnConexionBasta
<1> QED BY <1>6, <1>7

LEMMA FallaArpEnvio ==
    ASSUME TipoCon, TipoRed, IEnvio, FallaArp PROVE IEnvio'
<1>1. espera # <<>> /\ espera' = Front(espera) /\ UNCHANGED <<cfg, arp, payload, par>>
  BY DEF FallaArp, ArpVence
<1>2. CASE SynEspera
  <2>1. PICK n \in 0..tcp.reintentos :
          /\ espera = Apilados(n + 1) /\ Front(espera) = Apilados(n)
          /\ (n = 0 => Last(espera).quien = "syn") /\ (n # 0 => Last(espera).quien = "nadie")
    BY <1>2, SynEsperaUltimo
  <2>2. /\ pc = "conectar" /\ tcp.estado < 2 /\ tcp.con >= 1
        /\ payload = Segmento(tcp, tcp.ultimo, tcp.ultimo_flags, tcp.seq_ultimo)
    BY <1>2 DEF SynEspera
  <2>3. tcp.reintentos \in Nat /\ tcp.reintentos <= Reintentos BY DEF TipoCon, TcpTipo, IEnvio, Activa
  <2>4. CASE n # 0
    <3>1. Last(espera).quien = "nadie" BY <2>1, <2>4
    <3>2. UNCHANGED <<tcp, pc, salen, llegan>> BY <3>1 DEF FallaArp, red
    <3>3. Salto(tcp.remota)' = Salto(tcp.remota) BY <1>1, <3>2 DEF Salto
    <3>4. Apilados(n)' = Apilados(n) BY <1>1, <3>2, <3>3 DEF Apilados, Aguarda
    <3>5. n \in 1..(tcp.reintentos + 1) BY <2>3, <2>4
    <3>6. SynEspera' BY <1>1, <2>1, <2>2, <3>2, <3>3, <3>4, <3>5 DEF SynEspera, Segmento
    <3>7. MismaConexion BY <1>1, <3>2 DEF MismaConexion
    <3>8. SynSigue BY <1>1, <2>2, <2>3, <3>2, <3>6, <3>7 DEF SynSigue
    <3> QED BY <3>8, SynBasta
  <2>5. CASE n = 0
    <3>1. Last(espera).quien = "syn" BY <2>1, <2>5
    <3>2. tcp' = [tcp EXCEPT !.activa = 0] /\ pc' = "fin" /\ UNCHANGED <<salen, llegan>>
      BY <3>1 DEF FallaArp, red
    <3>3. espera' = <<>>
      <4>1. Apilados(0) = <<>> BY DEF Apilados, Pila2
      <4> QED BY <1>1, <2>1, <2>5, <4>1
    <3>4. /\ tcp'.con = tcp.con /\ tcp'.remota = tcp.remota /\ tcp'.activa = 0
          /\ tcp'.reintentos = tcp.reintentos
      BY <3>2 DEF TipoCon, TcpTipo
    <3>5. EnlacesQuedan BY <1>1, <3>2 DEF EnlacesQuedan
    <3>6. MismaConexion BY <1>1, <3>2, <3>4 DEF MismaConexion
    <3>7. EnConexionSigue BY <1>1, <2>3, <3>2, <3>3, <3>4, <3>5, <3>6 DEF EnConexionSigue
    <3> QED BY <3>7, EnConexionBasta
  <2> QED BY <2>4, <2>5
<1>3. CASE ~SynEspera
  <2>1. \/ pc = "ping" /\ payload.fl = "eco?" /\ espera = <<Aguarda(Salto(op.dst), "ping")>>
        \/ pc = "dns" /\ payload.fl = "dns?" /\ espera = <<Aguarda(Salto(cfg.dns), "dns")>>
        \/ pc = "resolver" /\ espera = <<Aguarda(op.dst, "resolver")>>
    BY <1>1, <1>3, EsperaSola
  <2>2. espera' = <<>> /\ Last(espera).quien = pc BY <1>1, <2>1, PilaUno DEF Aguarda
  <2>3. CASE pc = "resolver"
    <3>1. pc' = "fin" /\ UNCHANGED <<tcp, salen, llegan>> BY <2>2, <2>3 DEF FallaArp, red
    <3>2. SinConexion BY <1>1, <2>3, <3>1 DEF SinConexion, EnCon, EnConexion
    <3>3. EsperaVacia' /\ EsperaPing' /\ EsperaDns' /\ EsperaResolver'
      BY <3>1, <2>2 DEF EsperaVacia, EsperaPing, EsperaDns, EsperaResolver
    <3> QED BY <3>2, <3>3, SinConexionBasta
  <2>4. CASE pc \in {"ping", "dns"}
    <3>1. Vuelve("error") /\ UNCHANGED tcp BY <2>2, <2>4 DEF FallaArp
    <3> QED BY <1>1, <2>2, <2>4, <3>1, VuelveEnvio DEF Vuelve, EnConexion
  <2> QED BY <2>1, <2>3, <2>4
<1> QED BY <1>2, <1>3

\* g_tcp for a new connection.
TcpDe(c, d, m) == [TcpCero EXCEPT !.con = c, !.remota = d, !.seq = m, !.estado = 1, !.activa = 1]

LEMMA TcpNuevo ==
    ASSUME NEW c \in Nat, NEW d \in Direcciones, NEW m \in Nat
    PROVE  LET t == TcpDe(c, d, m)
           IN  /\ t \in TcpTipo /\ t.con = c /\ t.remota = d /\ t.seq = m /\ t.estado = 1
               /\ t.activa = 1 /\ t.ack = 0 /\ t.fin_recibido = 0 /\ t.rx = <<>>
               /\ t.rx_capacidad = 0
<1>1. TcpCero \in TcpTipo
  <2>1. Nadie \in Direcciones /\ <<>> \in Seq(Unidades) BY DEF Direcciones
  <2> QED BY <2>1 DEF TcpCero, TcpTipo
<1>2. TcpCero.ack = 0 /\ TcpCero.fin_recibido = 0 /\ TcpCero.rx = <<>> /\ TcpCero.rx_capacidad = 0
  BY DEF TcpCero
<1>3. PICK n \in 0..4 : n = 1 OBVIOUS
<1>4. PICK a \in {0, 1} : a = 1 OBVIOUS
<1> DEFINE t == [TcpCero EXCEPT !.con = c, !.remota = d, !.seq = m, !.estado = n, !.activa = a]
<1>5. /\ t \in TcpTipo /\ t.con = c /\ t.remota = d /\ t.seq = m /\ t.estado = n
      /\ t.activa = a /\ t.ack = 0 /\ t.fin_recibido = 0 /\ t.rx = <<>>
      /\ t.rx_capacidad = 0
  BY <1>1, <1>2 DEF TcpTipo
<1>6. TcpDe(c, d, m) = t BY <1>3, <1>4 DEF TcpDe
<1> QED BY <1>3, <1>4, <1>5, <1>6

LEMMA ConectarCasos ==
    ASSUME TipoCon, TipoRed, IEnvio, Conectar
    PROVE  /\ pc \in {"resolver", "dns"} /\ pc' = "conectar" /\ espera = <<>>
           /\ UNCHANGED <<cfg, arp, llegan, par, op>>
           /\ tcp' \in TcpTipo /\ tcp'.con = tcp.con + 1 /\ tcp'.remota = op.dst /\ tcp'.activa = 1
           /\ tcp'.estado = 1 /\ tcp'.seq = Isn /\ tcp'.ack = 0 /\ tcp'.ack_de_datos = 0
           /\ tcp'.fin_recibido = 0 /\ tcp'.seq_ultimo = Isn /\ tcp'.ultimo = <<>>
           /\ tcp'.ultimo_flags = "S" /\ tcp'.reintentos = 0 /\ tcp'.rx = <<>>
           /\ tcp'.rx_capacidad = 0
           /\ tcp.con + 1 \in 1..MaxConexiones
           /\ EnviarIpv4(op.dst, Segmento(tcp', <<>>, "S", Isn), "syn")
<1> DEFINE t == TcpDe(tcp.con + 1, op.dst, Isn)
<1>1. /\ pc \in {"resolver", "dns"} /\ pc' = "conectar" /\ espera = <<>>
      /\ UNCHANGED <<cfg, arp, llegan, par, op>> /\ tcp' = GuardarUltimo(t, <<>>, "S")
      /\ EnviarIpv4(op.dst, Segmento(tcp', <<>>, "S", Isn), "syn")
  BY DEF Conectar, Bucle, TcpDe
<1>2. tcp.con \in Nat /\ tcp.con < MaxConexiones BY <1>1 DEF TipoCon, TcpTipo, IEnvio, Activa
<1>3. tcp.con + 1 \in Nat /\ op.dst \in Direcciones /\ Isn \in Nat
  <2>1. tcp.con + 1 \in Nat BY <1>2
  <2>2. op.dst \in Direcciones BY DEF TipoCon, OpTipo
  <2>3. Isn \in Nat BY ModuloAssumption
  <2> QED BY <2>1, <2>2, <2>3
<1>4. /\ t \in TcpTipo /\ t.con = tcp.con + 1 /\ t.remota = op.dst /\ t.seq = Isn /\ t.estado = 1
      /\ t.activa = 1 /\ t.ack = 0 /\ t.fin_recibido = 0 /\ t.rx = <<>> /\ t.rx_capacidad = 0
  BY <1>3, TcpNuevo
<1> HIDE DEF t
<1>5. <<>> \in Seq(Unidades) /\ "S" \in {"S", "PA", "FA"} OBVIOUS
<1>6. tcp.con + 1 \in 1..MaxConexiones BY <1>2, LimitesAssumption
<1> QED BY <1>1, <1>4, <1>5, <1>6, GuardarTipo

LEMMA ConectarEnvio ==
    ASSUME TipoCon, TipoRed, IEnvio, Conectar PROVE IEnvio'
<1> DEFINE s == Segmento(tcp', <<>>, "S", Isn)
<1>1. /\ pc \in {"resolver", "dns"} /\ pc' = "conectar" /\ espera = <<>>
      /\ UNCHANGED <<cfg, arp, llegan, par>>
      /\ tcp'.con = tcp.con + 1 /\ tcp'.remota = op.dst /\ tcp'.activa = 1
      /\ tcp'.estado = 1 /\ tcp'.seq_ultimo = Isn /\ tcp'.ultimo = <<>>
      /\ tcp'.ultimo_flags = "S" /\ tcp'.reintentos = 0 /\ tcp.con + 1 \in 1..MaxConexiones
      /\ EnviarIpv4(op.dst, s, "syn")
  BY ConectarCasos
<1>2. payload' = s /\ s.con = tcp.con + 1 BY <1>1 DEF EnviarIpv4, Segmento
<1>3. /\ Salto(tcp.remota)' = Salto(op.dst)
      /\ s = (Segmento(tcp, tcp.ultimo, tcp.ultimo_flags, tcp.seq_ultimo))'
  BY <1>1 DEF Salto
<1>4. \/ Salto(op.dst) \in arp /\ espera' = <<>> /\ salen' = salen \cup {s}
      \/ /\ Salto(op.dst) \notin arp /\ salen' = salen
         /\ espera' = <<[salto |-> Salto(op.dst), seg |-> s, quien |-> "syn"]>>
  BY <1>1 DEF EnviarIpv4
<1>5. tcp.con + 1 >= 1 BY <1>1
<1>6. EsperaConectar'
  <2>1. CASE Salto(op.dst) \in arp
    <3>1. espera' = <<>> /\ Salto(tcp.remota)' \in arp' BY <1>1, <1>3, <1>4, <2>1
    <3> QED BY <3>1 DEF EsperaConectar
  <2>2. CASE Salto(op.dst) \notin arp
    <3>1. espera' = <<Aguarda(Salto(tcp.remota), "syn")>>' BY <1>2, <1>3, <1>4, <2>2 DEF Aguarda
    <3>2. \A x, y : Pila2(x, y, 1) = <<x>> BY DEF Pila2
    <3>3. espera' = Apilados(1)' BY <3>1, <3>2 DEF Apilados
    <3>4. 1 \in 1..(tcp'.reintentos + 1) BY <1>1
    <3>5. SynEspera' BY <1>1, <1>2, <1>3, <1>5, <2>2, <3>3, <3>4 DEF SynEspera
    <3> QED BY <3>5 DEF EsperaConectar
  <2> QED BY <2>1, <2>2
<1>7. tcp.con \in Nat BY DEF TipoCon, TcpTipo
<1>8. Enlazados'
  <2> PICK c \in 1..MaxConexiones : c = tcp.con + 1 BY <1>1
  <2>1. \A d : Enlace(d) => Enlace(d)' BY <1>1, <1>7 DEF Enlace
  <2>2. s.con = c /\ s \notin salen /\ Segmental(s)
    <3>1. Segmental(s) BY DEF Segmental, Segmento
    <3>2. s \in salen => Enlace(s.con) BY <3>1 DEF IEnvio, Enlazados
    <3> QED BY <1>2, <1>7, <3>1, <3>2 DEF Enlace
  <2>3. s \in salen' => Enlace(c)'
    <3>1. s \in salen' => Salto(tcp.remota)' \in arp' /\ espera' = <<>> BY <1>1, <1>3, <1>4, <2>2
    <3>2. Salto(tcp.remota)' \in arp' /\ espera' = <<>> => Enlace(c)' BY <1>1, <1>7 DEF Enlace
    <3> QED BY <3>1, <3>2
  <2> HIDE DEF s
  <2>4. (\A d \in 1..MaxConexiones : par[d].est # "nada" => Enlace(d))'
    BY <1>1, <2>1 DEF IEnvio, Enlazados
  <2>5. \A f \in salen' \cup llegan' : f \in salen \cup llegan \/ (f = s /\ s \in salen')
    BY <1>1, <1>4
  <2>6. \A f \in salen' \cup llegan' : Segmental(f) => Enlace(f.con)'
    <3> TAKE f \in salen' \cup llegan'
    <3>1. CASE f \in salen \cup llegan BY <2>1, <3>1 DEF IEnvio, Enlazados
    <3>2. CASE f = s /\ s \in salen' BY <2>2, <2>3, <3>2
    <3> QED BY <2>5, <3>1, <3>2
  <2> QED BY <2>4, <2>6 DEF Enlazados, Segmental
<1>9. EsperaVacia' /\ EsperaPing' /\ EsperaDns' /\ EsperaResolver'
  BY <1>1 DEF EsperaVacia, EsperaPing, EsperaDns, EsperaResolver
<1>10. Activa'
  <2>1. tcp'.con <= MaxConexiones /\ tcp'.con >= 1 /\ tcp'.reintentos <= Reintentos
    BY <1>1, <1>7, LimitesAssumption
  <2> QED BY <1>1, <2>1 DEF Activa, EnCon, EnConexion
<1> QED BY <1>6, <1>8, <1>9, <1>10 DEF IEnvio

LEMMA EnvioPaso ==
    ASSUME TipoCon, TipoRed, IEnvio, Emisor, Sesion, EnCon => Len(op.req) <= 3, [Next]_vars
    PROVE  IEnvio'
<1> op \in OpTipo BY DEF TipoCon
<1>1. CASE Sondeo /\ UNCHANGED op
  <2>1. CASE (\E h \in Lan : RecibirArp(h))
               \/ (\E f \in llegan : RecibirEco(f) \/ RecibirDhcp(f) \/ RecibirDns(f))
    BY <1>1, <2>1, SondeoQuietoEnvio, QuietoEnvioBasta
  <2> QED BY <1>1, <2>1, RecibirTcpEnvio, ReenviarEnvio, AbandonarEnvio DEF Sondeo
<1>2. CASE Llamada
  BY <1>2, DhcpEnvio, RetornosEnvio, PingEnvio, HttpEnvio, IntercambiosEnvio, DestinoEnvio DEF Llamada
<1>3. CASE Avance
  <2>1. Enviado \/ Respondido => Len(op.req) <= 3
    BY DEF Enviado, Respondido, Bucle, EnCon, EnConexion
  <2> QED
    BY <1>3, <2>1, DhcpEnvio, RetornosEnvio, PingEnvio, ConectarEnvio, ConectadoEnvio, NoConectaEnvio,
       EnviadoEnvio, RespondidoEnvio, SigueArpEnvio, FallaArpEnvio, IntercambiosEnvio DEF Avance
<1>4. CASE Pares BY <1>4, ParesQuietosEnvio, QuietoEnvioBasta
<1>5. CASE UNCHANGED vars
  <2>1. QuietoEnvio BY <1>5 DEF vars, pila, red, QuietoEnvio, EnlacesQuedan, TipoRed
  <2> QED BY <2>1, QuietoEnvioBasta
<1> QED BY <1>1, <1>2, <1>3, <1>4, <1>5 DEF Next

-----------------------------------------------------------------------------
(* The connections.                                                         *)

LEMMA PrefijoVacio ==
    ASSUME NEW S, NEW t \in Seq(S) PROVE IsPrefix(<<>>, t)
<1>1. <<>> \in Seq(S) OBVIOUS
<1>2. PICK s \in Seq(S) : s = <<>> BY <1>1
<1>3. Len(s) = 0 /\ Len(t) \in Nat BY <1>2
<1>4. Len(s) <= Len(t) /\ \A i \in 1..Len(s) : s[i] = t[i] BY <1>3
<1> QED BY <1>2, <1>4, Prefijo

\* A beginning that takes n units more of what follows it.
LEMMA PrefijoTramo ==
    ASSUME NEW S, NEW s \in Seq(S), NEW t \in Seq(S), IsPrefix(s, t), NEW j \in 0..Len(t),
           NEW n \in 0..(j - Len(s)), Len(s) < j
    PROVE  LET u == s \o SubSeq(SubSeq(t, Len(s) + 1, j), 1, n)
           IN  u \in Seq(S) /\ Len(u) = Len(s) + n /\ IsPrefix(u, t)
<1> DEFINE d == SubSeq(t, Len(s) + 1, j)
           e == SubSeq(d, 1, n)
           u == s \o e
<1>1. Len(s) \in Nat /\ Len(t) \in Nat /\ Len(s) <= Len(t) /\ \A i \in 1..Len(s) : s[i] = t[i]
  BY Prefijo
<1>2. d \in Seq(S) /\ Len(d) = j - Len(s) /\ \A i \in 1..(j - Len(s)) : d[i] = t[Len(s) + i]
  BY <1>1
<1> HIDE DEF d
<1>3. e \in Seq(S) /\ Len(e) = n /\ \A i \in 1..n : e[i] = d[i]
  <2>1. n \in Nat /\ n <= Len(d) BY <1>1, <1>2
  <2> QED BY <1>2, <2>1, SeqParte
<1> HIDE DEF e
<1>4. u \in Seq(S) /\ Len(u) = Len(s) + n
  BY <1>3
<1>5. \A i \in 1..Len(u) : u[i] = IF i <= Len(s) THEN s[i] ELSE e[i - Len(s)]
  <2>1. Len(s) \in Nat /\ Len(e) = n /\ Len(u) = Len(s) + n BY <1>3, <1>4
  <2>2. \A i \in 1..(Len(s) + Len(e)) : u[i] = IF i <= Len(s) THEN s[i] ELSE e[i - Len(s)]
    BY <1>3, <2>1
  <2> QED BY <2>1, <2>2
<1> HIDE DEF u
<1>6. ASSUME NEW i \in 1..Len(u) PROVE u[i] = t[i]
  <2>1. CASE i <= Len(s) BY <1>1, <1>5, <2>1
  <2>2. CASE ~(i <= Len(s))
    <3>1. i - Len(s) \in 1..n /\ i - Len(s) \in 1..(j - Len(s)) BY <1>1, <1>4, <2>2
    <3>2. u[i] = t[Len(s) + (i - Len(s))] BY <1>2, <1>3, <1>5, <2>2, <3>1
    <3>3. Len(s) + (i - Len(s)) = i BY <1>1
    <3> QED BY <3>2, <3>3
  <2> QED BY <2>1, <2>2
<1>7. Len(u) <= Len(t) BY <1>1, <1>4
<1> QED BY <1>4, <1>6, <1>7, Prefijo DEF u, e, d

\* A step that is not one of a connection.
Aparte ==
  /\ UNCHANGED <<tcp, par>> /\ op' \in OpTipo
  /\ \A f \in salen' : f.fl \in {"S", "PA", "FA"} => f \in salen
  /\ \A f \in llegan' : f.fl \in {"SA", "A", "FA"} => f \in llegan
  /\ \/ UNCHANGED <<pc, op>>
     \/ /\ ~EnCon /\ pc' \notin EnConexion
        /\ pc = "fin" => \A f \in salen' : f.fl \notin {"S", "FA"}
        /\ pc' \in {"dns", "resolver"} => op'.k = 0

LEMMA AparteActual ==
    ASSUME Aparte
    PROVE  \A c : Actual(c)' => Actual(c) /\ op' = op /\ pc' = pc
BY DEF Aparte, Actual, EnCon

LEMMA AparteBasta ==
    ASSUME NEW P, TipoCon, IFlujo(P), Aparte PROVE TipoCon' /\ IFlujo(P)'
<1>1. UNCHANGED <<tcp, par>> /\ op' \in OpTipo
      /\ (\A f \in salen' : f.fl \in {"S", "PA", "FA"} => f \in salen)
      /\ (\A f \in llegan' : f.fl \in {"SA", "A", "FA"} => f \in llegan)
  BY DEF Aparte
<1>2. EnCon' => EnCon /\ UNCHANGED <<pc, op>> BY DEF Aparte, EnCon
<1>3. \A c : Actual(c)' => Actual(c) /\ UNCHANGED <<pc, op>> BY AparteActual
<1>4. TipoCon' BY <1>1 DEF TipoCon
<1>5. TipoPedidos(P)' BY DEF IFlujo, ISegmentos, TipoPedidos
<1>6. PedidoActual(P)' BY <1>1, <1>2 DEF IFlujo, ISegmentos, PedidoActual
<1>7. SaleSyn' BY <1>1 DEF IFlujo, ISegmentos, SaleSyn, Aparte, EnConexion, EnCon
<1>8. SaleDatos(P)'
  <2>1. \A f, j : Unidad(P, f, j) => Unidad(P, f, j)' BY <1>3 DEF Unidad
  <2> QED BY <1>1, <2>1 DEF IFlujo, ISegmentos, SaleDatos
<1>9. \A c, n : Hasta(c, n) => Hasta(c, n)' BY <1>1 DEF Hasta
<1>10. SaleFin(P)'
  <2>1. ASSUME NEW f \in salen', f.fl = "FA"
        PROVE  (pc' = "cerrar" => pc = "cerrar" /\ op' = op) /\ pc' \in {"cerrar", "fin"}
    BY <1>1, <2>1 DEF IFlujo, ISegmentos, SaleFin, Aparte, EnCon, EnConexion
  <2>2. ASSUME NEW f \in salen', f.fl = "FA", NEW k, Fin(f, k) PROVE Fin(f, k)'
    BY <1>1, <1>9, <2>1, <2>2 DEF Fin
  <2> QED BY <1>1, <2>1, <2>2 DEF IFlujo, ISegmentos, SaleFin
<1>11. Tomados(P)'
  <2>1. \A c : FinTomado(c) => FinTomado(c)' BY <1>1, <1>3, <1>9 DEF FinTomado
  <2> QED BY <1>1, <1>3, <2>1 DEF IFlujo, ISegmentos, Tomados, Tomado
<1>12. LlegaSyn' BY <1>1 DEF IFlujo, ISegmentos, LlegaSyn
<1>13. LlegaDatos' BY <1>1, <1>3 DEF IFlujo, ISegmentos, LlegaDatos
<1>14. Emisor' BY <1>1 DEF IFlujo, ISegmentos, Emisor, Aparte, EnCon, EnConexion
<1>15. Entregado' BY <1>1, <1>2 DEF IFlujo, ISegmentos, Entregado
<1>16. Receptor' BY <1>1, <1>2 DEF IFlujo, ISegmentos, Receptor, Toma
<1> QED BY <1>4, <1>5, <1>6, <1>7, <1>8, <1>10, <1>11, <1>12, <1>13, <1>14, <1>15, <1>16 DEF IFlujo, ISegmentos

LEMMA UnidadTipo ==
    ASSUME NEW k \in Claves, NEW v \in Nat PROVE U(k, v) \in Unidades /\ U(k, v).k = k /\ U(k, v).v = v
BY DEF U, Unidades

LEMMA UnidadesSeq ==
    ASSUME NEW a \in Unidades, NEW b \in Unidades, NEW c \in Unidades
    PROVE  /\ <<a>> \in Seq(Unidades) /\ Len(<<a>>) = 1
           /\ <<a, b>> \in Seq(Unidades) /\ Len(<<a, b>>) = 2
           /\ <<a, b, c>> \in Seq(Unidades) /\ Len(<<a, b, c>>) = 3
OBVIOUS

LEMMA OpTipoDe ==
    ASSUME NEW t \in {"", "ping", "http", "transmitir", "consultar", "confirmar", "telemetria"},
           NEW d \in Direcciones, NEW r \in Seq(Unidades), NEW k \in Nat, NEW c \in Nat, NEW o \in {0, 1}
    PROVE  [tipo |-> t, dst |-> d, req |-> r, k |-> k, cap |-> c, ok |-> o] \in OpTipo
BY DEF OpTipo

LEMMA OpTipoK ==
    ASSUME NEW o \in OpTipo, NEW m \in Nat
    PROVE  LET q == [o EXCEPT !.k = m]
           IN  q \in OpTipo /\ q.req = o.req /\ q.k = m /\ q.cap = o.cap
BY DEF OpTipo

LEMMA NadaTipo == Nada \in OpTipo
<1>1. Nadie \in Direcciones /\ <<>> \in Seq(Unidades) BY DEF Direcciones
<1> QED BY <1>1 DEF Nada, OpTipo

\* The end of a call leaves no segment of its connection but data.
LEMMA OlvidaAparte ==
    ASSUME Olvida
    PROVE  /\ \A f \in salen' : f \in salen /\ f.fl \notin {"S", "FA"}
           /\ \A f \in llegan' : f \in llegan /\ f.fl \notin {"SA", "A", "FA"}
BY DEF Olvida, Vigentes

LEMMA VuelveAparte ==
    ASSUME NEW r, Vuelve(r), UNCHANGED <<tcp, par>>, ~EnCon PROVE Aparte
<1>1. Olvida /\ pc' = "libre" /\ op' = Nada BY DEF Vuelve
<1>2. op' \in OpTipo BY <1>1, NadaTipo
<1> QED BY <1>1, <1>2, OlvidaAparte DEF Aparte, EnConexion

LEMMA RetornosAparte ==
    ASSUME \/ Conceder \/ DhcpVence \/ Estatica \/ HttpSinRed \/ DnsVence \/ FinHttp \/ FinTransmitir
           \/ FinConfirmar \/ FinTelemetria
    PROVE  Aparte
<1>1. UNCHANGED <<tcp, par>> /\ \E r : Vuelve(r)
  BY DEF Conceder, DhcpVence, Estatica, HttpSinRed, DnsVence, FinHttp, FinTransmitir, FinConfirmar,
         FinTelemetria, pila
<1>2. ~EnCon
  BY DEF Conceder, DhcpVence, Estatica, HttpSinRed, DnsVence, FinHttp, FinTransmitir, FinConfirmar, FinTelemetria,
         Bucle, Libre, EnCon, EnConexion
<1> QED BY <1>1, <1>2, VuelveAparte

\* An exchange begins after the previous call, or in it after the answer.
LEMMA IntercambiarAparte ==
    ASSUME ~EnCon, UNCHANGED <<tcp, par>>,
           \A f \in salen' : f \in salen, \A f \in llegan' : f \in llegan,
           pc = "fin" => \A f \in salen' : f.fl \notin {"S", "FA"},
           NEW t \in {"transmitir", "consultar", "confirmar", "telemetria"}, NEW dst,
           NEW req \in Seq(Unidades), NEW cap \in Nat, Intercambiar(t, dst, req, cap)
    PROVE  Aparte
<1>1. dst \in Lan /\ pc' = "resolver"
      /\ op' = [tipo |-> t, dst |-> dst, req |-> req, k |-> 0, cap |-> cap, ok |-> 0]
  BY DEF Intercambiar
<1>2. op' \in OpTipo /\ op'.k = 0
  <2>1. dst \in Direcciones BY <1>1 DEF Direcciones
  <2>2. PICK z \in Nat : z = 0 OBVIOUS
  <2>3. PICK o \in {0, 1} : o = 0 OBVIOUS
  <2> QED BY <1>1, <2>1, <2>2, <2>3, OpTipoDe
<1> QED BY <1>1, <1>2 DEF Aparte, EnConexion

LEMMA IntercambiosAparte ==
    ASSUME TipoMensajes, Transmitir \/ Recibir \/ Telemetria PROVE Aparte
<1>1. /\ pc = "libre" /\ UNCHANGED <<tcp, par, salen, llegan>> /\ ~EnCon
  BY DEF Transmitir, Recibir, Telemetria, red, Libre, EnCon, EnConexion
<1>2. llamadas + 1 \in Nat /\ id_pendiente \in Nat /\ secuencia + 1 \in Nat /\ 0 \in Nat /\ 1 \in Nat
      /\ 2 \in Nat
  BY DEF TipoMensajes
<1>3. {"enviar", "texto", "consultar", "confirmar", "log", "bloque"} \subseteq Claves BY DEF Claves
<1>4. \A k \in Claves, v \in Nat : U(k, v) \in Unidades BY UnidadTipo
<1> HIDE DEF Claves
<1>5. CASE Transmitir
  <2>1. <<U("enviar", 0), U("texto", llamadas + 1)>> \in Seq(Unidades)
    <3>1. U("enviar", 0) \in Unidades /\ U("texto", llamadas + 1) \in Unidades BY <1>2, <1>3, <1>4
    <3> QED BY <3>1, UnidadesSeq
  <2>2. Intercambiar("transmitir", destino, <<U("enviar", 0), U("texto", llamadas + 1)>>, 2)
    BY <1>5 DEF Transmitir
  <2> QED BY <1>1, <1>2, <2>1, <2>2, IntercambiarAparte
<1>6. CASE Recibir
  <2>1. /\ <<U("confirmar", id_pendiente), U("texto", 0)>> \in Seq(Unidades)
        /\ <<U("consultar", 0), U("texto", 0)>> \in Seq(Unidades)
    <3>1. U("confirmar", id_pendiente) \in Unidades /\ U("consultar", 0) \in Unidades
          /\ U("texto", 0) \in Unidades
      BY <1>2, <1>3, <1>4
    <3> QED BY <3>1, UnidadesSeq
  <2>2. \/ Intercambiar("confirmar", destino, <<U("confirmar", id_pendiente), U("texto", 0)>>, 2)
        \/ Intercambiar("consultar", destino, <<U("consultar", 0), U("texto", 0)>>, 2)
    BY <1>6 DEF Recibir, Confirma
  <2> QED BY <1>1, <1>2, <2>1, <2>2, IntercambiarAparte
<1>7. CASE Telemetria
  <2>1. <<U("log", secuencia + 1), U("bloque", 1), U("bloque", 2)>> \in Seq(Unidades)
    <3>1. U("log", secuencia + 1) \in Unidades /\ U("bloque", 1) \in Unidades
          /\ U("bloque", 2) \in Unidades
      BY <1>2, <1>3, <1>4
    <3> QED BY <3>1, UnidadesSeq
  <2>2. Intercambiar("telemetria", Pc, <<U("log", secuencia + 1), U("bloque", 1), U("bloque", 2)>>, 1)
    BY <1>7 DEF Telemetria
  <2> QED BY <1>1, <1>2, <2>1, <2>2, IntercambiarAparte
<1> QED BY <1>5, <1>6, <1>7

LEMMA FinConsultarAparte ==
    ASSUME NEW P, TipoCon, TipoMensajes, Sesion, Respuesta(P), FinConsultar PROVE Aparte
<1>1. /\ pc = "fin" /\ op.tipo = "consultar" /\ UNCHANGED <<tcp, par>> /\ ~EnCon
  BY DEF FinConsultar, EnCon, EnConexion
<1>2. CASE op.ok = 1 /\ tcp.rx[1].k = "mensaje" /\ tcp.con < MaxConexiones
  <2>1. tcp.rx[1] \in Unidades
    <3>1. Len(tcp.rx) >= 1 BY <1>1, <1>2 DEF Respuesta
    <3>2. tcp.rx \in Seq(Unidades) BY DEF TipoCon, TcpTipo
    <3> QED BY <3>1, <3>2
  <2>2. <<U("confirmar", tcp.rx[1].v), U("texto", 0)>> \in Seq(Unidades)
    <3>1. tcp.rx[1].v \in Nat /\ 0 \in Nat BY <2>1 DEF Unidades
    <3>2. "confirmar" \in Claves /\ "texto" \in Claves BY DEF Claves
    <3>3. U("confirmar", tcp.rx[1].v) \in Unidades /\ U("texto", 0) \in Unidades
      BY <3>1, <3>2, UnidadTipo
    <3> QED BY <3>3, UnidadesSeq
  <2>3. Intercambiar("confirmar", destino, <<U("confirmar", tcp.rx[1].v), U("texto", 0)>>, 2) /\ Olvida
    BY <1>2 DEF FinConsultar, Confirma
  <2>4. (\A f \in salen' : f \in salen) /\ (\A f \in llegan' : f \in llegan)
        /\ \A f \in salen' : f.fl \notin {"S", "FA"}
    BY <2>3, OlvidaAparte
  <2> HIDE DEF EnCon
  <2> QED BY <1>1, <2>2, <2>3, <2>4, IntercambiarAparte
<1>3. CASE ~(op.ok = 1 /\ tcp.rx[1].k = "mensaje" /\ tcp.con < MaxConexiones)
  <2>1. \E r : Vuelve(r) BY <1>3 DEF FinConsultar
  <2> QED BY <1>1, <2>1, VuelveAparte
<1> QED BY <1>2, <1>3

LEMMA DhcpAparte == ASSUME op \in OpTipo, Descubrir \/ Pedir PROVE Aparte
<1>1. /\ UNCHANGED <<tcp, par, llegan, op>> /\ pc' \in {"oferta", "concesion"} /\ pc \in {"libre", "oferta"}
      /\ salen' = salen \cup {payload'} /\ payload'.fl = "dhcp?"
  BY DEF Descubrir, Pedir, EmitirDhcp, Libre, Bucle
<1> QED BY <1>1 DEF Aparte, EnCon, EnConexion

\* A send of ping or of a query adds no segment.
LEMMA EnviaAparte ==
    ASSUME NEW h, NEW s, NEW q, EnviarIpv4(h, s, q), s.fl \notin {"S", "PA", "FA"}
    PROVE  \A f \in salen' : f.fl \in {"S", "PA", "FA"} => f \in salen
BY DEF EnviarIpv4

LEMMA PingAparte ==
    ASSUME op \in OpTipo, (\E h \in {Puerta, Fuera} : Ping(h)) \/ OtroEco PROVE Aparte
<1>1. ASSUME NEW h, NEW id, NEW n, EnviarEco(h, id, n)
      PROVE  \A f \in salen' : f.fl \in {"S", "PA", "FA"} => f \in salen
  BY <1>1, EnviaAparte DEF EnviarEco
<1>2. CASE \E h \in {Puerta, Fuera} : Ping(h)
  <2>1. PICK h \in {Puerta, Fuera} : Ping(h) BY <1>2
  <2>2. /\ EnviarEco(h, ping.id + 1, 1) /\ UNCHANGED <<tcp, par, llegan>> /\ pc' = "ping"
        /\ pc = "libre" /\ op' = [Nada EXCEPT !.tipo = "ping", !.dst = h]
    BY <2>1 DEF Ping, Libre
  <2>3. op' \in OpTipo
    <3>1. h \in Direcciones BY DEF Direcciones, Lan
    <3>2. PICK t \in {"", "ping", "http", "transmitir", "consultar", "confirmar", "telemetria"} : t = "ping"
      OBVIOUS
    <3>3. op' = [Nada EXCEPT !.tipo = t, !.dst = h] BY <2>2, <3>2
    <3> QED BY <3>1, <3>3, NadaTipo DEF OpTipo
  <2> QED BY <1>1, <2>2, <2>3 DEF Aparte, EnCon, EnConexion
<1>3. CASE OtroEco
  <2>1. UNCHANGED <<tcp, par>> /\ pc = "ping" BY <1>3 DEF OtroEco, Bucle
  <2>2. CASE ping.secuencia < Intentos
    <3>1. EnviarEco(op.dst, ping.id, ping.secuencia + 1) /\ UNCHANGED <<pc, op, llegan>>
      BY <1>3, <2>2 DEF OtroEco
    <3> QED BY <1>1, <2>1, <3>1 DEF Aparte
  <2>3. CASE ~(ping.secuencia < Intentos)
    <3>1. Vuelve("ok") BY <1>3, <2>3 DEF OtroEco
    <3> QED BY <2>1, <3>1, VuelveAparte DEF EnCon, EnConexion
  <2> QED BY <2>2, <2>3
<1> QED BY <1>2, <1>3

LEMMA HttpAparte == ASSUME NEW dst \in {Pc, Fuera}, Http(dst) PROVE Aparte
<1>1. /\ UNCHANGED <<tcp, par, llegan>> /\ pc = "libre"
      /\ op' = [tipo |-> "http", dst |-> dst, req |-> <<U("get", 0)>>, k |-> 0, cap |-> 2, ok |-> 0]
      /\ (\E id : EnviarIpv4(cfg.dns, [con |-> id, a |-> cfg.dns, fl |-> "dns?", seq |-> 0,
                                       ack |-> 0, dat |-> <<>>], "dns") /\ pc' = "dns")
         \/ (pc' = "resolver" /\ UNCHANGED salen)
  BY DEF Http, Libre
<1>2. \A f \in salen' : f.fl \in {"S", "PA", "FA"} => f \in salen
  <2>1. ASSUME NEW id, EnviarIpv4(cfg.dns, [con |-> id, a |-> cfg.dns, fl |-> "dns?", seq |-> 0,
                                            ack |-> 0, dat |-> <<>>], "dns")
        PROVE  \A f \in salen' : f.fl \in {"S", "PA", "FA"} => f \in salen
    BY <2>1, EnviaAparte
  <2> QED BY <1>1, <2>1
<1>3. op' \in OpTipo /\ op'.k = 0
  <2>1. dst \in Direcciones BY DEF Direcciones, Lan
  <2>2. <<U("get", 0)>> \in Seq(Unidades)
    <3>1. "get" \in Claves /\ 0 \in Nat BY DEF Claves
    <3>2. U("get", 0) \in Unidades BY <3>1, UnidadTipo
    <3> QED BY <3>2, UnidadesSeq
  <2>3. PICK z \in Nat : z = 0 OBVIOUS
  <2>4. PICK o \in {0, 1} : o = 0 OBVIOUS
  <2>5. PICK c \in Nat : c = 2 OBVIOUS
  <2>6. PICK t \in {"", "ping", "http", "transmitir", "consultar", "confirmar", "telemetria"} : t = "http"
    OBVIOUS
  <2>7. op' = [tipo |-> t, dst |-> dst, req |-> <<U("get", 0)>>, k |-> z, cap |-> c, ok |-> o]
    BY <1>1, <2>3, <2>4, <2>5, <2>6
  <2> QED BY <2>1, <2>2, <2>3, <2>7, OpTipoDe
<1> QED BY <1>1, <1>2, <1>3 DEF Aparte, EnCon, EnConexion

LEMMA SondeoAparte ==
    ASSUME op \in OpTipo, UNCHANGED op,
           (\E h \in Lan : RecibirArp(h))
             \/ (\E f \in llegan : RecibirEco(f) \/ RecibirDhcp(f) \/ RecibirDns(f))
    PROVE  Aparte
BY DEF Aparte, RecibirArp, RecibirEco, RecibirDhcp, RecibirDns, red

LEMMA DestinoAparte == ASSUME op \in OpTipo, NEW h, Destino(h) PROVE Aparte
BY DEF Aparte, Destino, pila, red

LEMMA ParesAparte ==
    ASSUME op \in OpTipo,
           \E f \in salen : ParContesta(f) \/ \E s \in ServidoresDhcp : ParDhcp(f, s)
    PROVE  Aparte
<1>1. /\ UNCHANGED <<tcp, par, salen, pc, op>>
      /\ \A g \in llegan' : g \in llegan \/ g.fl \in {"eco", "dns", "dhcp"}
  BY DEF ParContesta, ParDhcp, ajenos, pila
<1> QED BY <1>1 DEF Aparte

\* What waits outside a connection is no segment.
LEMMA SigueArpAparte ==
    ASSUME TipoRed, TipoCon, IEnvio, ~SynEspera, SigueArp PROVE Aparte
<1>1. /\ espera # <<>> /\ Last(espera).salto \in arp
      /\ salen' = IF Last(espera).quien = "resolver" THEN salen ELSE salen \cup {payload}
      /\ UNCHANGED <<tcp, llegan, par, pc, op>>
  BY DEF SigueArp, ArpResuelto
<1>2. \/ pc = "ping" /\ payload.fl = "eco?"
      \/ pc = "dns" /\ payload.fl = "dns?"
      \/ pc = "resolver" /\ espera = <<Aguarda(op.dst, "resolver")>>
  BY <1>1, EsperaSola
<1>3. \A f \in salen' : f.fl \in {"S", "PA", "FA"} => f \in salen
  BY <1>1, <1>2, PilaUno DEF Aguarda
<1>4. op \in OpTipo BY DEF TipoCon
<1> QED BY <1>1, <1>3, <1>4 DEF Aparte

\* A send that fails is apart from the connection, but for the SYN itself.
LEMMA FallaArpCasos ==
    ASSUME TipoRed, TipoCon, IEnvio, FallaArp
    PROVE  \/ Aparte
           \/ /\ pc = "conectar" /\ pc' = "fin" /\ UNCHANGED <<par, op, salen, llegan>>
              /\ tcp' = [tcp EXCEPT !.activa = 0]
<1>1. espera # <<>> /\ UNCHANGED par BY DEF FallaArp, ArpVence
<1>2. op \in OpTipo BY DEF TipoCon
<1>3. CASE SynEspera
  <2>1. pc = "conectar" BY <1>3 DEF SynEspera
  <2>2. Last(espera).quien \in {"syn", "nadie"} BY <1>3, SynEsperaUltimo
  <2>3. CASE Last(espera).quien = "nadie"
    <3>1. UNCHANGED <<tcp, pc, op, salen, llegan>> BY <2>3 DEF FallaArp, red
    <3> QED BY <1>1, <1>2, <3>1 DEF Aparte
  <2>4. CASE Last(espera).quien = "syn"
    <3>1. tcp' = [tcp EXCEPT !.activa = 0] /\ pc' = "fin" /\ UNCHANGED <<op, salen, llegan>>
      BY <2>4 DEF FallaArp, red
    <3> QED BY <1>1, <2>1, <3>1
  <2> QED BY <2>2, <2>3, <2>4
<1>4. CASE ~SynEspera
  <2>1. \/ pc = "ping" /\ espera = <<Aguarda(Salto(op.dst), "ping")>>
        \/ pc = "dns" /\ espera = <<Aguarda(Salto(cfg.dns), "dns")>>
        \/ pc = "resolver" /\ espera = <<Aguarda(op.dst, "resolver")>>
    BY <1>1, <1>4, EsperaSola
  <2>2. Last(espera).quien = pc /\ ~EnCon BY <2>1, PilaUno DEF Aguarda, EnCon, EnConexion
  <2>3. CASE pc = "resolver"
    <3>1. pc' = "fin" /\ UNCHANGED <<tcp, op, salen, llegan>> BY <2>2, <2>3 DEF FallaArp, red
    <3> QED BY <1>1, <1>2, <2>2, <2>3, <3>1 DEF Aparte, EnConexion
  <2>4. CASE pc \in {"ping", "dns"}
    <3>1. Vuelve("error") /\ UNCHANGED tcp BY <2>2, <2>4 DEF FallaArp
    <3> QED BY <1>1, <2>2, <3>1, VuelveAparte
  <2> QED BY <2>1, <2>3, <2>4
<1> QED BY <1>3, <1>4

\* A connection that is left: g_tcp may change, its number does not.
Termina ==
  EnCon /\ pc' = "fin" /\ UNCHANGED <<par, salen, llegan>> /\ tcp'.con = tcp.con

LEMMA TerminaBasta ==
    ASSUME NEW P, IFlujo(P), Termina PROVE IFlujo(P)'
<1>1. UNCHANGED <<par, salen, llegan>> /\ tcp'.con = tcp.con /\ pc' = "fin" /\ ~EnCon'
  BY DEF Termina, EnCon, EnConexion
<1>2. \A c : ~Actual(c)' BY <1>1 DEF Actual
<1>3. TipoPedidos(P)' /\ PedidoActual(P)' BY <1>1 DEF IFlujo, ISegmentos, TipoPedidos, PedidoActual
<1>4. SaleSyn' BY <1>1 DEF IFlujo, ISegmentos, SaleSyn
<1>5. SaleDatos(P)'
  <2>1. \A f, j : Unidad(P, f, j) => Unidad(P, f, j)' BY <1>2 DEF Unidad
  <2> QED BY <1>1, <2>1 DEF IFlujo, ISegmentos, SaleDatos
<1>6. \A c, n : Hasta(c, n)' <=> Hasta(c, n) BY <1>1 DEF Hasta
<1>7. SaleFin(P)'
  <2>1. \A f, k : Fin(f, k) => Fin(f, k)' BY <1>1, <1>6 DEF Fin
  <2> QED BY <1>1, <2>1 DEF IFlujo, ISegmentos, SaleFin
<1>8. Tomados(P)'
  <2>1. \A c : FinTomado(c) => FinTomado(c)' BY <1>1, <1>2, <1>6 DEF FinTomado
  <2> QED BY <1>1, <1>2, <2>1 DEF IFlujo, ISegmentos, Tomados, Tomado
<1>9. LlegaSyn' /\ LlegaDatos' BY <1>1, <1>2 DEF IFlujo, ISegmentos, LlegaSyn, LlegaDatos
<1>10. Emisor' /\ Entregado' /\ Receptor'
  BY <1>1 DEF Emisor, Entregado, Receptor, EnCon, EnConexion
<1> QED BY <1>3, <1>4, <1>5, <1>7, <1>8, <1>9, <1>10 DEF IFlujo, ISegmentos

\* A step in the connection that sends nothing.
SinEnvio ==
  /\ EnCon /\ UNCHANGED <<par, salen, llegan, op>> /\ tcp'.con = tcp.con
  /\ pc' = pc \/ (pc = "enviar" /\ pc' = "respuesta")

LEMMA SinEnvioBasta ==
    ASSUME NEW P, ISegmentos(P), SinEnvio PROVE ISegmentos(P)'
<1>1. /\ UNCHANGED <<par, salen, llegan, op>> /\ tcp'.con = tcp.con
      /\ pc' = pc \/ (pc = "enviar" /\ pc' = "respuesta")
      /\ EnCon /\ EnCon'
  BY DEF SinEnvio, EnCon, EnConexion
<1>2. \A c : Actual(c)' <=> Actual(c) BY <1>1 DEF Actual
<1>3. TipoPedidos(P)' /\ PedidoActual(P)' BY <1>1 DEF ISegmentos, TipoPedidos, PedidoActual
<1>4. SaleSyn' BY <1>1 DEF ISegmentos, SaleSyn, EnConexion
<1>5. SaleDatos(P)'
  <2>1. \A f, j : Unidad(P, f, j) => Unidad(P, f, j)' BY <1>1, <1>2 DEF Unidad
  <2> QED BY <1>1, <2>1 DEF ISegmentos, SaleDatos
<1>6. \A c, n : Hasta(c, n)' <=> Hasta(c, n) BY <1>1 DEF Hasta
<1>7. SaleFin(P)'
  <2>1. \A f, k : Fin(f, k) => Fin(f, k)' BY <1>1, <1>6 DEF Fin
  <2> QED BY <1>1, <2>1 DEF ISegmentos, SaleFin
<1>8. Tomados(P)'
  <2>1. \A c : FinTomado(c) => FinTomado(c)' BY <1>1, <1>2, <1>6 DEF FinTomado
  <2> QED BY <1>1, <1>2, <2>1 DEF ISegmentos, Tomados, Tomado
<1>9. LlegaSyn' /\ LlegaDatos' BY <1>1, <1>2 DEF ISegmentos, LlegaSyn, LlegaDatos
<1> QED BY <1>3, <1>4, <1>5, <1>7, <1>8, <1>9 DEF ISegmentos

\* Until the FIN, what the peer has taken of the connection under way is what
\* its numbers say, and all the data that left are of the units sent.
LEMMA EnCursoSinFin ==
    ASSUME NEW P, TipoCon, ISegmentos(P), EnCon
    PROVE  /\ tcp.con \in 1..MaxConexiones /\ P[tcp.con] = op.req /\ op.k \in Nat /\ op.k <= Len(op.req)
           /\ op.req \in Seq(Unidades) /\ Len(op.req) \in 0..3
           /\ Len(par[tcp.con].datos) <= op.k /\ Hasta(tcp.con, op.k)
           /\ pc # "cerrar" => ~FinTomado(tcp.con)
           /\ pc # "cerrar" /\ par[tcp.con].est # "nada" =>
                par[tcp.con].rcv = Mas(Isn, 1 + Len(par[tcp.con].datos))
<1> DEFINE c == tcp.con
<1>1. c \in 1..MaxConexiones /\ P[c] = op.req /\ op.k <= Len(op.req)
  BY DEF ISegmentos, PedidoActual
<1>2. op.k \in Nat /\ op.req \in Seq(Unidades) BY DEF TipoCon, OpTipo
<1>3. Len(op.req) \in 0..3
  <2>1. Len(P[c]) <= 3 BY <1>1 DEF ISegmentos, TipoPedidos
  <2>2. Len(op.req) \in Nat BY <1>2
  <2>3. PICK n \in Nat : n = Len(op.req) BY <2>2
  <2>4. n <= 3 BY <1>1, <2>1, <2>3
  <2>5. n \in 0..3 BY <2>4
  <2> QED BY <2>3, <2>5
<1>4. Actual(c) BY DEF Actual
<1>5. Tomado(P, c) BY <1>1 DEF ISegmentos, Tomados
<1>6. Len(par[c].datos) <= op.k BY <1>4, <1>5 DEF Tomado
<1>7. pc # "cerrar" => ~FinTomado(c) BY <1>4 DEF FinTomado
<1>8. pc # "cerrar" /\ par[c].est # "nada" => par[c].rcv = Mas(Isn, 1 + Len(par[c].datos))
  BY <1>5, <1>7 DEF Tomado
<1>9. Hasta(c, op.k)
  <2>1. ASSUME NEW g \in salen, g.fl = "PA", g.con = c PROVE \E j \in 1..op.k : g.seq = Mas(Isn, j)
    <3>1. PICK j \in 1..Len(P[g.con]) : Unidad(P, g, j) BY <2>1 DEF ISegmentos, SaleDatos
    <3>2. g.seq = Mas(Isn, j) /\ j <= op.k BY <1>4, <2>1, <3>1 DEF Unidad
    <3>3. j \in 1..op.k BY <1>1, <1>2, <1>3, <2>1, <3>1, <3>2
    <3> QED BY <3>2, <3>3
  <2> QED BY <2>1 DEF Hasta
<1> QED BY <1>1, <1>2, <1>3, <1>6, <1>7, <1>8, <1>9

LEMMA Cortos ==
    ASSUME NEW P, TipoCon, ISegmentos(P), NEW c \in 1..MaxConexiones
    PROVE  /\ par[c] \in ParTipo /\ P[c] \in Seq(Unidades) /\ Len(P[c]) \in 0..3
           /\ par[c].datos \in Seq(Unidades) /\ Len(par[c].datos) \in 0..Len(P[c])
           /\ Len(par[c].datos) \in 0..3
           /\ par[c].resp \in Seq(Unidades) /\ Len(par[c].resp) \in 0..3
<1>1. par[c] \in ParTipo BY DEF TipoCon
<1>2. par[c].datos \in Seq(Unidades) /\ par[c].resp \in Seq(Unidades) /\ par[c].hecho \in {0, 1}
  BY <1>1 DEF ParTipo
<1>3. P[c] \in Seq(Unidades) /\ Len(P[c]) <= 3 BY DEF ISegmentos, TipoPedidos
<1>4. Len(P[c]) \in Nat /\ Len(par[c].datos) \in Nat /\ Len(par[c].resp) \in Nat BY <1>2, <1>3
<1>9. Len(P[c]) \in 0..3
  <2>1. PICK n \in Nat : n = Len(P[c]) BY <1>4
  <2>2. n <= 3 BY <1>3, <2>1
  <2>3. n \in 0..3 BY <2>2
  <2> QED BY <2>1, <2>3
<1>5. Tomado(P, c) BY DEF ISegmentos, Tomados
<1>6. IsPrefix(par[c].datos, P[c]) /\ (par[c].hecho = 0 => par[c].resp = <<>>)
      /\ (par[c].hecho = 1 => Len(par[c].resp) \in 1..3)
  BY <1>5 DEF Tomado
<1>7. Len(par[c].datos) <= Len(P[c]) BY <1>2, <1>3, <1>6, Prefijo
<1>8. Len(par[c].resp) \in 0..3 BY <1>2, <1>6
<1>10. Len(par[c].datos) \in 0..Len(P[c]) /\ Len(par[c].datos) \in 0..3
  <2>1. PICK n \in 0..3 : n = Len(P[c]) BY <1>9
  <2>2. PICK m \in Nat : m = Len(par[c].datos) BY <1>4
  <2>3. m <= n BY <1>7, <2>1, <2>2
  <2>4. m \in 0..n /\ m \in 0..3 BY ONLY <2>3, m \in Nat, n \in 0..3
  <2> QED BY <2>1, <2>2, <2>4
<1> QED BY <1>1, <1>2, <1>3, <1>8, <1>9, <1>10

\* A step in the connection that sends at most the segment f.
Envio(f) ==
  /\ EnCon /\ pc' \in EnConexion /\ (pc' = pc \/ pc' # "conectar") /\ UNCHANGED <<par, llegan>>
  /\ tcp'.con = tcp.con /\ op'.req = op.req /\ op'.k \in op.k..Len(op.req)
  /\ salen' \subseteq salen \cup {f} /\ f.con = tcp.con

\* What a segment of any kind leaves as it is.
LEMMA EnvioFijo ==
    ASSUME NEW P, TipoCon, ISegmentos(P), NEW f, Envio(f)
    PROVE  /\ TipoPedidos(P)' /\ PedidoActual(P)' /\ LlegaSyn' /\ LlegaDatos'
           /\ \A c : Actual(c)' <=> Actual(c)
           /\ \A g \in salen : g.fl = "PA" => g.con \in 1..MaxConexiones
                                              /\ \E j \in 1..Len(P[g.con]) : Unidad(P, g, j)'
<1>1. /\ EnCon /\ pc' \in EnConexion /\ (pc' = pc \/ pc' # "conectar") /\ UNCHANGED <<par, llegan>>
      /\ tcp'.con = tcp.con /\ op'.req = op.req /\ op'.k \in op.k..Len(op.req)
  BY DEF Envio
<1>2. \A c : Actual(c)' <=> Actual(c) BY <1>1 DEF Actual, EnCon
<1>3. op.k \in Nat /\ Len(op.req) \in 0..3 /\ tcp.con \in 1..MaxConexiones /\ P[tcp.con] = op.req
  BY <1>1, EnCursoSinFin
<1>4. op'.k \in Int /\ op.k <= op'.k /\ op'.k <= Len(op.req) BY <1>1, <1>3
<1>5. TipoPedidos(P)' /\ PedidoActual(P)'
  BY <1>1, <1>3, <1>4 DEF ISegmentos, TipoPedidos, PedidoActual
<1>6. LlegaSyn' /\ LlegaDatos' BY <1>1, <1>2 DEF ISegmentos, LlegaSyn, LlegaDatos
<1>7. ASSUME NEW g \in salen, g.fl = "PA", NEW j \in 1..Len(P[g.con]), Unidad(P, g, j)
      PROVE  Unidad(P, g, j)'
  <2>1. Actual(g.con) => j \in Int /\ j <= op.k BY <1>3, <1>7 DEF Unidad, Actual
  <2>2. Actual(g.con)' => j <= op'.k BY <1>2, <1>3, <1>4, <2>1
  <2> QED BY <1>7, <2>2 DEF Unidad
<1> QED BY <1>2, <1>5, <1>6, <1>7 DEF ISegmentos, SaleDatos

LEMMA EnvioTomados ==
    ASSUME NEW P, TipoCon, ISegmentos(P), NEW f, Envio(f),
           pc = "cerrar" => f.fl # "PA" /\ pc' = "cerrar" /\ op'.k = op.k
    PROVE  Tomados(P)'
<1>1. /\ UNCHANGED par /\ salen' \subseteq salen \cup {f} /\ f.con = tcp.con /\ EnCon
      /\ op'.k \in op.k..Len(op.req)
  BY DEF Envio
<1>2. \A c : Actual(c)' <=> Actual(c) BY EnvioFijo
<1>3. /\ op.k \in Nat /\ Len(op.req) \in 0..3
      /\ Len(par[tcp.con].datos) <= op.k /\ (pc # "cerrar" => ~FinTomado(tcp.con))
  BY <1>1, EnCursoSinFin
<1>4. op'.k \in Int /\ op.k <= op'.k BY <1>1, <1>3
<1>5. ASSUME NEW c \in 1..MaxConexiones, FinTomado(c) PROVE FinTomado(c)'
  <2>1. c = tcp.con => pc = "cerrar" BY <1>3, <1>5
  <2>2. \A n : Hasta(c, n) => Hasta(c, n)' BY <1>1, <2>1 DEF Hasta
  <2>3. Actual(c)' => pc' = "cerrar" /\ op'.k = op.k BY <1>2, <2>1 DEF Actual
  <2> QED BY <1>1, <1>2, <1>5, <2>2, <2>3 DEF FinTomado
<1>6. ASSUME NEW c \in 1..MaxConexiones, Actual(c)' PROVE Len(par[c].datos) <= op'.k
  <2>1. c = tcp.con BY <1>2, <1>6 DEF Actual
  <2>2. Len(par[c].datos) \in Nat BY Cortos
  <2> QED BY <1>3, <1>4, <2>1, <2>2
<1>7. ASSUME NEW c \in 1..MaxConexiones PROVE Tomado(P, c)'
  <2>1. Tomado(P, c) BY DEF ISegmentos, Tomados
  <2> QED BY <1>1, <1>5, <1>6, <2>1 DEF Tomado
<1> QED BY <1>7 DEF Tomados

LEMMA EnvioSyn ==
    ASSUME NEW P, TipoCon, ISegmentos(P), NEW f, Envio(f), pc = "conectar", pc' = "conectar",
           f.fl = "S", f.seq = Isn
    PROVE  ISegmentos(P)'
<1>1. salen' \subseteq salen \cup {f} /\ f.con = tcp.con /\ tcp'.con = tcp.con BY DEF Envio
<1>2. SaleSyn' BY <1>1 DEF ISegmentos, SaleSyn, EnConexion
<1>3. SaleDatos(P)'
  <2>1. \A g \in salen' : g.fl = "PA" => g \in salen BY <1>1
  <2> QED BY <2>1, EnvioFijo DEF SaleDatos
<1>4. SaleFin(P)' BY <1>1 DEF ISegmentos, SaleFin
<1> QED BY <1>2, <1>3, <1>4, EnvioFijo, EnvioTomados DEF ISegmentos

LEMMA EnvioDatos ==
    ASSUME NEW P, TipoCon, ISegmentos(P), NEW f, Envio(f), pc \in {"conectar", "enviar", "respuesta"},
           pc' \in {"enviar", "respuesta"}, op'.k >= 1,
           f.fl = "PA", f.seq = Mas(Isn, op'.k), f.dat = <<op.req[op'.k]>>
    PROVE  ISegmentos(P)'
<1>1. /\ salen' \subseteq salen \cup {f} /\ f.con = tcp.con /\ tcp'.con = tcp.con /\ EnCon
      /\ op'.k \in op.k..Len(op.req)
  BY DEF Envio
<1>2. SaleSyn' BY <1>1 DEF ISegmentos, SaleSyn, EnConexion
<1>3. SaleDatos(P)'
  <2>1. /\ tcp.con \in 1..MaxConexiones /\ P[tcp.con] = op.req /\ op.k \in Nat
        /\ Len(op.req) \in 0..3
    BY <1>1, EnCursoSinFin
  <2>2. PICK j \in 1..Len(op.req) : j = op'.k BY <1>1, <2>1
  <2>3. Unidad(P, f, j)' BY <1>1, <2>1, <2>2 DEF Unidad
  <2>4. f.con \in 1..MaxConexiones /\ j \in 1..Len(P[f.con]) BY <1>1, <2>1
  <2>5. \A g \in salen' : g.fl = "PA" => g \in salen \/ g = f BY <1>1
  <2>6. \A g \in salen : g.fl = "PA" =>
          g.con \in 1..MaxConexiones /\ \E i \in 1..Len(P[g.con]) : Unidad(P, g, i)'
    BY EnvioFijo
  <2>7. \A g \in salen' : g.fl = "PA" =>
          g.con \in 1..MaxConexiones /\ \E i \in 1..Len(P[g.con]) : Unidad(P, g, i)'
    BY <2>3, <2>4, <2>5, <2>6
  <2> QED BY <2>7 DEF SaleDatos
<1>4. SaleFin(P)' BY <1>1 DEF ISegmentos, SaleFin
<1> QED BY <1>2, <1>3, <1>4, EnvioFijo, EnvioTomados DEF ISegmentos

\* The FIN has the number after the units that were sent.
LEMMA FinNuevo ==
    ASSUME NEW P, TipoCon, ISegmentos(P), EnCon, NEW f, f.con = tcp.con, f.seq = Mas(Isn, op.k + 1)
    PROVE  Fin(f, op.k)
<1> DEFINE c == tcp.con
           n == Len(par[c].datos)
<1>1. /\ c \in 1..MaxConexiones /\ op.k \in Nat /\ n <= op.k /\ Hasta(c, op.k)
      /\ pc # "cerrar" => ~FinTomado(c)
  BY EnCursoSinFin
<1>2. Tomado(P, c) BY <1>1 DEF ISegmentos, Tomados
<1>3. n \in 0..3 BY <1>1, Cortos
<1>4. Actual(c) BY DEF Actual
<1>5. ASSUME par[c].est # "nada", par[c].rcv = Mas(Isn, 2 + n) PROVE n = op.k
  <2>1. CASE FinTomado(c) BY <1>4, <2>1 DEF FinTomado
  <2>2. CASE ~FinTomado(c)
    <3>1. par[c].rcv = Mas(Isn, 1 + n) BY <1>2, <1>5, <2>2 DEF Tomado
    <3>2. PICK m \in 0..3 : m = n BY <1>3
    <3>3. 1 + m \in 0..7 /\ 2 + m \in 0..7 OBVIOUS
    <3>4. 1 + m = 2 + m BY <1>5, <3>1, <3>2, <3>3, MasUnico, ModuloAssumption
    <3> QED BY <3>2, <3>4
  <2> QED BY <2>1, <2>2
<1> QED BY <1>1, <1>5 DEF Fin

LEMMA EnvioFin ==
    ASSUME NEW P, TipoCon, ISegmentos(P), NEW f, Envio(f), pc # "conectar" \/ op.k = 0,
           pc' = "cerrar", op'.k = op.k, f.fl = "FA", f.dat = <<>>, f.seq = Mas(Isn, op.k + 1)
    PROVE  ISegmentos(P)'
<1>1. /\ salen' \subseteq salen \cup {f} /\ f.con = tcp.con /\ tcp'.con = tcp.con /\ EnCon
      /\ UNCHANGED par
  BY DEF Envio
<1>2. SaleSyn' BY <1>1 DEF ISegmentos, SaleSyn, EnConexion
<1>3. SaleDatos(P)'
  <2>1. \A g \in salen' : g.fl = "PA" => g \in salen BY <1>1
  <2> QED BY <2>1, EnvioFijo DEF SaleDatos
<1>4. SaleFin(P)'
  <2>1. /\ op.k \in Nat /\ P[tcp.con] = op.req /\ op.k <= Len(op.req) /\ Len(op.req) \in 0..3
        /\ tcp.con \in 1..MaxConexiones
    BY <1>1, EnCursoSinFin
  <2>2. \A c, n : Hasta(c, n) => Hasta(c, n)' BY <1>1 DEF Hasta
  <2>3. ASSUME NEW g, Fin(g, op.k) PROVE Fin(g, op.k)'
    BY <1>1, <2>2, <2>3 DEF Fin
  <2>4. ASSUME NEW g \in salen, g.fl = "FA"
        PROVE  g.con = tcp.con /\ g.dat = <<>> /\ g.seq = Mas(Isn, op.k + 1) /\ Fin(g, op.k)'
    <3>1. g.con = tcp.con /\ pc \in {"cerrar", "fin"} /\ g.dat = <<>>
          /\ \E k \in 0..Len(P[g.con]) : Fin(g, k)
      BY <2>4 DEF ISegmentos, SaleFin
    <3>2. pc = "cerrar" BY <1>1, <3>1 DEF EnCon, EnConexion
    <3>3. Fin(g, op.k) BY <3>1, <3>2 DEF Fin
    <3>4. g.seq = Mas(Isn, op.k + 1) BY <3>3 DEF Fin
    <3> QED BY <2>3, <3>1, <3>3, <3>4
  <2>5. Fin(f, op.k)' BY <1>1, <2>3, FinNuevo
  <2>6. \A g \in salen' : g.fl = "FA" =>
          g.con = tcp.con /\ g.dat = <<>> /\ g.seq = Mas(Isn, op.k + 1) /\ Fin(g, op.k)'
    BY <1>1, <2>4, <2>5
  <2>7. op.k \in 0..Len(P[tcp.con]) BY <2>1
  <2> QED BY <1>1, <2>6, <2>7 DEF SaleFin
<1> QED BY <1>2, <1>3, <1>4, EnvioFijo, EnvioTomados DEF ISegmentos

\* What was taken of the answer is kept.
TomaIgual(t) ==
  /\ UNCHANGED par /\ tcp'.con = t.con /\ tcp'.rx = t.rx /\ tcp'.ack = t.ack
  /\ tcp'.fin_recibido = t.fin_recibido /\ tcp'.rx_capacidad = t.rx_capacidad
  /\ tcp'.estado >= 2 => t.estado >= 2

LEMMA TomaSigue == ASSUME NEW t, Toma(t), TomaIgual(t) PROVE Toma(tcp)'
<1>1. \A p, R : Recibido(t, p, R) => Recibido(tcp', p, R) BY DEF TomaIgual, Recibido
<1> QED BY <1>1 DEF Toma, TomaIgual

\* The connection t, which is g_tcp with its buffer, ready for the next segment.
Lista(t) ==
  /\ Copia(t) /\ Toma(t) /\ t.rx_capacidad = op.cap /\ t.seq \in 0..(Modulo - 1)
  /\ t.activa = 1 /\ t.estado \in {2, 4} => t.seq = Mas(Isn, op.k + 1)

LEMMA CerrarFlujo ==
    ASSUME NEW P, TipoCon, IEnvio, IFlujo(P), EnCon, tcp.activa = 1 => Salto(tcp.remota) \in arp,
           UNCHANGED <<llegan, par>>, NEW t, Lista(t), Cerrar(t),
           op' \in OpTipo, op'.req = op.req, op'.k = op.k, op'.cap = op.cap
    PROVE  TipoCon' /\ IFlujo(P)'
<1>1. /\ t \in TcpTipo /\ t.con = tcp.con /\ t.remota = tcp.remota /\ t.activa = tcp.activa
      /\ t.estado = tcp.estado /\ t.seq \in 0..(Modulo - 1) /\ t.rx_capacidad = op.cap
  BY DEF Lista, Copia
<1>2. tcp' \in TcpTipo BY <1>1, CerrarCasos
<1>3. TipoCon' BY <1>2 DEF TipoCon
<1>4. CASE pc' = "fin"
  <2>1. tcp'.con = t.con /\ UNCHANGED salen BY <1>1, <1>4, CerrarCasos
  <2>2. Termina BY <1>1, <1>4, <2>1 DEF Termina
  <2> QED BY <1>3, <2>2, TerminaBasta
<1>5. CASE pc' # "fin"
  <2> DEFINE f == Segmento(t, <<>>, "FA", t.seq)
  <2>1. /\ t.activa = 1 /\ t.estado \in {2, 4} /\ pc' = "cerrar"
        /\ tcp'.con = t.con /\ tcp'.remota = t.remota /\ tcp'.activa = 1 /\ tcp'.estado = 3
        /\ tcp'.ack = t.ack /\ tcp'.ack_de_datos = 0
        /\ tcp'.fin_recibido = t.fin_recibido /\ tcp'.seq_ultimo = t.seq /\ tcp'.ultimo = <<>>
        /\ tcp'.ultimo_flags = "FA" /\ tcp'.rx = t.rx /\ tcp'.rx_capacidad = t.rx_capacidad
        /\ EnviarIpv4(tcp.remota, f, "nadie")
    BY <1>1, <1>5, CerrarCasos
  <2>2. t.seq = Mas(Isn, op.k + 1) BY <2>1 DEF Lista
  <2>3. salen' \subseteq salen \cup {f} BY <2>1 DEF EnviarIpv4
  <2>4. f.con = tcp.con /\ f.fl = "FA" /\ f.dat = <<>> /\ f.seq = Mas(Isn, op.k + 1)
    BY <1>1, <2>2 DEF Segmento
  <2> HIDE DEF f
  <2>5. op'.k \in op.k..Len(op.req)
    <3>1. op.k \in Nat /\ op.k <= Len(op.req) /\ Len(op.req) \in 0..3
      BY EnCursoSinFin DEF IFlujo
    <3> QED BY <3>1
  <2>6. Envio(f) BY <1>1, <2>1, <2>3, <2>4, <2>5 DEF Envio, EnConexion
  <2>7. pc # "conectar" \/ op.k = 0 BY DEF IFlujo, Emisor
  <2>8. ISegmentos(P)' BY <2>1, <2>4, <2>6, <2>7, EnvioFin DEF IFlujo
  <2>9. Emisor' BY <2>1, <2>2 DEF Emisor
  <2>10. Entregado' BY <2>1 DEF Entregado
  <2>11. TomaIgual(t) BY <2>1 DEF TomaIgual
  <2>12. Receptor' BY <1>1, <2>1, <2>11, TomaSigue DEF Receptor, Lista
  <2> QED BY <1>3, <2>8, <2>9, <2>10, <2>12 DEF IFlujo
<1> QED BY <1>4, <1>5

LEMMA EnviarDatosFlujo ==
    ASSUME NEW P, TipoCon, IEnvio, IFlujo(P), pc \in {"conectar", "enviar"},
           tcp.activa = 1 => Salto(tcp.remota) \in arp,
           UNCHANGED <<llegan, par>>, NEW t, Lista(t), EnviarDatos(t), op.k + 1 \in 1..Len(op.req)
    PROVE  TipoCon' /\ IFlujo(P)'
<1> DEFINE d == <<op.req[op.k + 1]>>
           f == Segmento(t, d, "PA", t.seq)
<1>1. /\ t \in TcpTipo /\ t.con = tcp.con /\ t.remota = tcp.remota /\ t.activa = tcp.activa
      /\ t.estado = tcp.estado /\ t.seq \in 0..(Modulo - 1) /\ t.rx_capacidad = op.cap
      /\ op \in OpTipo
  BY DEF Lista, Copia, TipoCon
<1>2. EnCon BY DEF EnCon, EnConexion
<1>3. CASE Cerrar(t) /\ op' = op BY <1>1, <1>2, <1>3, CerrarFlujo
<1>4. CASE ~(Cerrar(t) /\ op' = op)
  <2>1. /\ t.activa = 1 /\ t.estado = 2 /\ pc' = "enviar" /\ tcp' \in TcpTipo
        /\ op' = [op EXCEPT !.k = op.k + 1]
        /\ tcp'.con = t.con /\ tcp'.remota = t.remota /\ tcp'.activa = 1 /\ tcp'.estado = 2
        /\ tcp'.seq = Mas(t.seq, 1) /\ tcp'.ack = t.ack /\ tcp'.ack_de_datos = 0
        /\ tcp'.fin_recibido = t.fin_recibido /\ tcp'.seq_ultimo = t.seq /\ tcp'.ultimo = d
        /\ tcp'.ultimo_flags = "PA" /\ tcp'.rx = t.rx /\ tcp'.rx_capacidad = t.rx_capacidad
        /\ EnviarIpv4(tcp.remota, f, "nadie")
    BY <1>1, <1>4, EnviarDatosCasos
  <2>2. op.k \in Nat /\ op.k <= Len(op.req) /\ Len(op.req) \in 0..3
    BY <1>2, EnCursoSinFin DEF IFlujo
  <2>3. op' \in OpTipo /\ op'.req = op.req /\ op'.k = op.k + 1 /\ op'.cap = op.cap
    <3>1. PICK m \in Nat : m = op.k + 1 BY <2>2
    <3> QED BY <1>1, <2>1, <3>1, OpTipoK
  <2>4. TipoCon' BY <2>1, <2>3 DEF TipoCon
  <2>5. t.seq = Mas(Isn, op.k + 1) BY <2>1 DEF Lista
  <2>6. salen' \subseteq salen \cup {f} BY <2>1 DEF EnviarIpv4
  <2>7. f.con = tcp.con /\ f.fl = "PA" /\ f.dat = <<op.req[op'.k]>> /\ f.seq = Mas(Isn, op'.k)
    BY <1>1, <2>3, <2>5 DEF Segmento
  <2> HIDE DEF f
  <2>8. op'.k \in op.k..Len(op.req) /\ op'.k >= 1 BY <2>2, <2>3
  <2>9. Envio(f) BY <1>1, <1>2, <2>1, <2>3, <2>6, <2>7, <2>8 DEF Envio, EnConexion
  <2>10. ISegmentos(P)' BY <2>1, <2>7, <2>8, <2>9, EnvioDatos DEF IFlujo
  <2>11. Emisor'
    <3>1. tcp'.seq = Mas(Isn, op'.k + 1)
      <4>1. PICK n \in 0..3 : n = op.k
        <5>1. PICK l \in 0..3 : l = Len(op.req) BY <2>2
        <5>2. op.k <= l BY <2>2, <5>1
        <5>3. op.k \in 0..3 BY <2>2, <5>2
        <5> QED BY <5>3
      <4>2. n + 1 \in 0..7 /\ n + 1 + 1 <= 7 /\ 1 \in 0..7 OBVIOUS
      <4>3. Mas(Mas(Isn, n + 1), 1) = Mas(Isn, n + 1 + 1) BY <4>2, MasSuma, ModuloAssumption
      <4> QED BY <2>1, <2>3, <2>5, <4>1, <4>3
    <3>2. op'.k \in 1..Len(op'.req) BY <2>2, <2>3, <2>8
    <3> QED BY <2>1, <2>3, <2>5, <3>1, <3>2 DEF Emisor
  <2>12. Entregado' BY <2>1 DEF Entregado
  <2>13. TomaIgual(t) BY <2>1 DEF TomaIgual
  <2>14. Receptor' BY <1>1, <2>1, <2>3, <2>13, TomaSigue DEF Receptor, Lista
  <2> QED BY <2>4, <2>10, <2>11, <2>12, <2>14 DEF IFlujo
<1> QED BY <1>3, <1>4

LEMMA OpTipoOk ==
    ASSUME NEW o \in OpTipo, NEW b \in {0, 1}
    PROVE  LET q == [o EXCEPT !.ok = b]
           IN  q \in OpTipo /\ q.req = o.req /\ q.k = o.k /\ q.cap = o.cap /\ q.tipo = o.tipo /\ q.ok = b
BY DEF OpTipo

\* Once the connection is made g_tcp is ready for the first segment, and then
\* for each of those that follow.
LEMMA ListaPrimera ==
    ASSUME NEW P, TipoCon, IFlujo(P), pc = "conectar", tcp.estado = 2
    PROVE  Lista([tcp EXCEPT !.rx_capacidad = op.cap])
<1> DEFINE t == [tcp EXCEPT !.rx_capacidad = op.cap]
<1>1. Copia(t) /\ t.seq = tcp.seq BY CopiaTcp
<1>2. tcp \in TcpTipo /\ op.cap \in Nat BY DEF TipoCon, OpTipo
<1>3. t.rx = tcp.rx /\ t.ack = tcp.ack /\ t.fin_recibido = tcp.fin_recibido /\ t.rx_capacidad = op.cap
  BY <1>2 DEF TcpTipo
<1> HIDE DEF t
<1>4. op.k = 0 /\ tcp.seq = Mas(Isn, 1) /\ tcp.ack = Mas(IsnPar, 1) /\ tcp.rx = <<>>
      /\ tcp.fin_recibido = 0
  BY DEF IFlujo, Emisor
<1>5. EnCon BY DEF EnCon, EnConexion
<1>6. tcp.con \in 1..MaxConexiones /\ t.con = tcp.con BY <1>1, <1>5, EnCursoSinFin DEF IFlujo, Copia
<1>7. par[t.con].resp \in Seq(Unidades) /\ Len(par[t.con].resp) \in 0..3 BY <1>6, Cortos DEF IFlujo
<1>8. Toma(t)
  <2>1. IsPrefix(t.rx, par[t.con].resp) BY <1>3, <1>4, <1>7, PrefijoVacio
  <2>2. Len(t.rx) = 0 /\ Len(t.rx) <= t.rx_capacidad BY <1>2, <1>3, <1>4
  <2>3. 0 \in 0..Len(par[t.con].resp) BY <1>7
  <2>4. t.ack = Mas(IsnPar, 1 + 0 + t.fin_recibido)
    <3>1. 1 + 0 + 0 = 1 OBVIOUS
    <3> QED BY <1>3, <1>4, <3>1
  <2>5. Recibido(t, par[t.con], 0) BY <1>3, <1>4, <2>2, <2>4 DEF Recibido
  <2> QED BY <2>1, <2>2, <2>3, <2>5 DEF Toma
<1>9. t.seq \in 0..(Modulo - 1) /\ t.seq = Mas(Isn, op.k + 1)
  <2>1. op.k + 1 = 1 /\ 1 \in 0..7 BY <1>4
  <2>2. Mas(Isn, 1) \in 0..(Modulo - 1) BY <2>1, MasTipo, ModuloAssumption
  <2> QED BY <1>1, <1>4, <2>1, <2>2
<1>10. Lista(t) BY <1>1, <1>3, <1>8, <1>9 DEF Lista
<1> QED BY <1>10 DEF t

LEMMA ListaSiguiente ==
    ASSUME NEW P, TipoCon, IFlujo(P), pc \in {"enviar", "respuesta"}
    PROVE  Lista(tcp) /\ op.k \in 1..Len(op.req) /\ op.k \in 0..3 /\ Len(op.req) \in 0..3
<1>1. EnCon BY DEF EnCon, EnConexion
<1>2. op.k \in 1..Len(op.req) /\ tcp.seq = Mas(Isn, op.k + 1) BY DEF IFlujo, Emisor
<1>3. PICK l \in 0..3 : l = Len(op.req) BY <1>1, EnCursoSinFin DEF IFlujo
<1>9. op.k \in 1..l BY <1>2, <1>3
<1>10. op.k \in 0..3 BY <1>9
<1>4. PICK n \in 0..3 : n = op.k BY <1>10
<1>5. n + 1 \in 0..7 OBVIOUS
<1>6. tcp.seq \in 0..(Modulo - 1) BY <1>2, <1>4, <1>5, MasTipo, ModuloAssumption
<1>7. Toma(tcp) /\ tcp.rx_capacidad = op.cap BY <1>1 DEF IFlujo, Receptor
<1>8. Lista(tcp) BY <1>2, <1>6, <1>7, CopiaTcp DEF Lista
<1> QED BY <1>2, <1>3, <1>4, <1>8

LEMMA ConectadoFlujo ==
    ASSUME NEW P, TipoCon, TipoRed, IEnvio, IFlujo(P), Sesion, Conectado
    PROVE  TipoCon' /\ IFlujo(P)'
<1> DEFINE t == [tcp EXCEPT !.rx_capacidad = op.cap]
<1>1. /\ pc = "conectar" /\ espera = <<>> /\ tcp.estado = 2 /\ UNCHANGED <<llegan, par>>
      /\ EnviarDatos(t) \/ (Cerrar(t) /\ UNCHANGED op)
  BY DEF Conectado, Bucle
<1>2. EnCon /\ (tcp.activa = 1 => Salto(tcp.remota) \in arp)
  BY <1>1, ConexionLibre DEF EnCon, EnConexion
<1>3. Lista(t) BY <1>1, ListaPrimera
<1>4. op.k + 1 \in 1..Len(op.req)
  <2>1. op.k = 0 BY <1>1 DEF IFlujo, Emisor
  <2>2. Len(op.req) \in 1..3 BY <1>1 DEF Sesion, EnIntercambio, EnConexion
  <2>3. op.k + 1 = 1 BY <2>1
  <2>4. PICK m \in 1..3 : Len(op.req) = m BY <2>2
  <2>5. 1 \in 1..m OBVIOUS
  <2> QED BY <2>3, <2>4, <2>5
<1>5. op \in OpTipo BY DEF TipoCon
<1> HIDE DEF t
<1>6. CASE EnviarDatos(t) BY <1>1, <1>2, <1>3, <1>4, <1>6, EnviarDatosFlujo
<1>7. CASE Cerrar(t) /\ UNCHANGED op BY <1>1, <1>2, <1>3, <1>5, <1>7, CerrarFlujo
<1> QED BY <1>1, <1>6, <1>7

LEMMA EnviadoFlujo ==
    ASSUME NEW P, TipoCon, TipoRed, IEnvio, IFlujo(P), Enviado PROVE TipoCon' /\ IFlujo(P)'
<1>1. pc = "enviar" /\ espera = <<>> /\ UNCHANGED <<llegan, par>> BY DEF Enviado, Bucle
<1>2. EnCon /\ (tcp.activa = 1 => Salto(tcp.remota) \in arp)
  BY <1>1, ConexionLibre DEF EnCon, EnConexion
<1>3. Lista(tcp) /\ op.k \in 1..Len(op.req) /\ op.k \in 0..3 /\ Len(op.req) \in 0..3
  BY <1>1, ListaSiguiente
<1>4. op \in OpTipo BY DEF TipoCon
<1>5. CASE op.k < Len(op.req) /\ EnviarDatos(tcp)
  <2>1. op.k + 1 \in 1..Len(op.req) BY <1>3, <1>5
  <2> QED BY <1>1, <1>2, <1>3, <1>5, <2>1, EnviarDatosFlujo
<1>6. CASE Cerrar(tcp) /\ UNCHANGED op BY <1>1, <1>2, <1>3, <1>4, <1>6, CerrarFlujo
<1>7. CASE pc' = "respuesta" /\ UNCHANGED <<tcp, salen, op>>
  <2>1. SinEnvio BY <1>1, <1>2, <1>7 DEF SinEnvio
  <2>2. ISegmentos(P)' BY <2>1, SinEnvioBasta DEF IFlujo
  <2>3. EnCon' BY <1>7 DEF EnCon, EnConexion
  <2>4. TipoCon' BY <1>1, <1>7 DEF TipoCon
  <2>5. Emisor' BY <1>1, <1>2, <1>7 DEF IFlujo, Emisor
  <2>6. Entregado' BY <1>1, <1>2, <1>7 DEF IFlujo, Entregado
  <2>7. Receptor' BY <1>1, <1>2, <1>7 DEF IFlujo, Receptor, Toma
  <2> QED BY <2>2, <2>4, <2>5, <2>6, <2>7 DEF IFlujo
<1> QED BY <1>5, <1>6, <1>7 DEF Enviado

LEMMA RespondidoFlujo ==
    ASSUME NEW P, TipoCon, TipoRed, IEnvio, IFlujo(P), Respondido PROVE TipoCon' /\ IFlujo(P)'
<1>1. /\ pc \in {"enviar", "respuesta"} /\ espera = <<>> /\ UNCHANGED <<llegan, par>> /\ Cerrar(tcp)
      /\ \E b \in {0, 1} : op' = [op EXCEPT !.ok = b]
  BY DEF Respondido, Bucle
<1>2. EnCon /\ (tcp.activa = 1 => Salto(tcp.remota) \in arp)
  BY <1>1, ConexionLibre DEF EnCon, EnConexion
<1>3. Lista(tcp) BY <1>1, ListaSiguiente
<1>4. op' \in OpTipo /\ op'.req = op.req /\ op'.k = op.k /\ op'.cap = op.cap
  <2>1. PICK b \in {0, 1} : op' = [op EXCEPT !.ok = b] BY <1>1
  <2>2. op \in OpTipo BY DEF TipoCon
  <2> QED BY <2>1, <2>2, OpTipoOk
<1> QED BY <1>1, <1>2, <1>3, <1>4, CerrarFlujo

\* The connection is given up in the middle of a call.
LEMMA AbandonosFlujo ==
    ASSUME NEW P, TipoCon, TipoRed, IEnvio, IFlujo(P), NoConecta \/ Cerrado \/ FallaArp
    PROVE  TipoCon' /\ IFlujo(P)'
<1>1. tcp \in TcpTipo /\ op \in OpTipo BY DEF TipoCon
<1>2. CASE NoConecta \/ Cerrado
  <2>1. EnCon /\ pc' = "fin" /\ UNCHANGED <<par, salen, llegan, op>>
        /\ tcp' = [tcp EXCEPT !.activa = 0, !.estado = 0]
    BY <1>2 DEF NoConecta, Cerrado, Bucle, red, EnCon, EnConexion
  <2>2. tcp' \in TcpTipo /\ tcp'.con = tcp.con
    <3>1. 0 \in {0, 1} /\ 0 \in 0..4 OBVIOUS
    <3>2. [tcp EXCEPT !.activa = 0, !.estado = 0] \in TcpTipo BY <1>1, <3>1, TcpEstado
    <3> QED BY <1>1, <2>1, <3>2 DEF TcpTipo
  <2>3. TipoCon' BY <2>1, <2>2 DEF TipoCon
  <2> QED BY <2>1, <2>2, <2>3, TerminaBasta DEF Termina
<1>3. CASE FallaArp
  <2>1. CASE Aparte BY <2>1, AparteBasta
  <2>2. CASE /\ pc = "conectar" /\ pc' = "fin" /\ UNCHANGED <<par, op, salen, llegan>>
             /\ tcp' = [tcp EXCEPT !.activa = 0]
    <3>1. EnCon BY <2>2 DEF EnCon, EnConexion
    <3>2. tcp' \in TcpTipo /\ tcp'.con = tcp.con
      <4>1. 0 \in {0, 1} /\ 0 \in 0..4 OBVIOUS
      <4>2. [tcp EXCEPT !.activa = 0] \in TcpTipo BY <1>1, <4>1, TcpEstado
      <4> QED BY <1>1, <2>2, <4>2 DEF TcpTipo
    <3>3. TipoCon' BY <2>2, <3>2 DEF TipoCon
    <3> QED BY <2>2, <3>1, <3>2, <3>3, TerminaBasta DEF Termina
  <2> QED BY <1>3, <2>1, <2>2, FallaArpCasos
<1> QED BY <1>2, <1>3

\* Only the state of g_tcp changes, and it keeps what it was told.
LEMMA CortaFlujo ==
    ASSUME NEW P, TipoCon, IFlujo(P), EnCon, UNCHANGED <<par, salen, llegan, op, pc>>,
           tcp' = [tcp EXCEPT !.estado = 0, !.activa = 0]
    PROVE  TipoCon' /\ IFlujo(P)'
<1>1. tcp \in TcpTipo BY DEF TipoCon
<1>2. tcp' = [tcp EXCEPT !.activa = 0, !.estado = 0] BY <1>1 DEF TcpTipo
<1>3. tcp' \in TcpTipo
  <2>1. 0 \in {0, 1} /\ 0 \in 0..4 OBVIOUS
  <2> QED BY <1>1, <1>2, <2>1, TcpEstado
<1>4. /\ tcp'.con = tcp.con /\ tcp'.estado = 0 /\ tcp'.activa = 0 /\ tcp'.rx = tcp.rx
      /\ tcp'.seq_ultimo = tcp.seq_ultimo /\ tcp'.ultimo = tcp.ultimo /\ tcp'.seq = tcp.seq
      /\ tcp'.ultimo_flags = tcp.ultimo_flags /\ tcp'.fin_recibido = tcp.fin_recibido
      /\ tcp'.ack = tcp.ack /\ tcp'.rx_capacidad = tcp.rx_capacidad
  BY <1>1 DEF TcpTipo
<1>5. TipoCon' BY <1>3 DEF TipoCon
<1>6. EnCon' BY DEF EnCon
<1>7. ISegmentos(P)' BY <1>4, SinEnvioBasta DEF SinEnvio, IFlujo
<1>8. Emisor' BY <1>4, <1>6 DEF IFlujo, Emisor
<1>9. Entregado' BY <1>4 DEF Entregado
<1>10. TomaIgual(tcp) BY <1>4 DEF TomaIgual
<1>11. Receptor' BY <1>4, <1>10, TomaSigue DEF IFlujo, Receptor
<1> QED BY <1>5, <1>7, <1>8, <1>9, <1>11 DEF IFlujo

LEMMA AbandonarFlujo ==
    ASSUME NEW P, TipoCon, IEnvio, IFlujo(P), Abandonar, UNCHANGED op PROVE TipoCon' /\ IFlujo(P)'
<1>1. /\ tcp.activa = 1 /\ tcp' = [tcp EXCEPT !.estado = 0, !.activa = 0]
      /\ UNCHANGED <<pc, salen, llegan, par>>
  BY DEF Abandonar, VenceReenvio, red
<1>2. EnCon BY <1>1 DEF IEnvio, Activa
<1> QED BY <1>1, <1>2, CortaFlujo

\* What is sent again is the last segment, whichever it was.
LEMMA ReenviarFlujo ==
    ASSUME NEW P, TipoCon, TipoRed, IEnvio, IFlujo(P), Reenviar, UNCHANGED op
    PROVE  TipoCon' /\ IFlujo(P)'
<1> DEFINE s == Segmento(tcp, tcp.ultimo, tcp.ultimo_flags, tcp.seq_ultimo)
<1>1. /\ tcp.activa = 1 /\ tcp' = [tcp EXCEPT !.reintentos = @ + 1] /\ tcp.ack_de_datos = 0
      /\ EnviarIpv4(tcp.remota, s, "nadie") /\ UNCHANGED <<cfg, arp, pc, llegan, par>>
  BY DEF Reenviar, VenceReenvio
<1>2. /\ tcp' \in TcpTipo /\ tcp'.con = tcp.con /\ tcp'.activa = tcp.activa
      /\ tcp'.estado = tcp.estado /\ tcp'.seq = tcp.seq
      /\ tcp'.ultimo = tcp.ultimo /\ tcp'.ultimo_flags = tcp.ultimo_flags
      /\ tcp'.seq_ultimo = tcp.seq_ultimo /\ tcp'.ack = tcp.ack /\ tcp'.rx = tcp.rx
      /\ tcp'.fin_recibido = tcp.fin_recibido /\ tcp'.rx_capacidad = tcp.rx_capacidad
      /\ tcp'.ack_de_datos = 0
  <2>1. tcp \in TcpTipo BY DEF TipoCon
  <2>5. tcp.reintentos \in Nat BY <2>1 DEF TcpTipo
  <2>2. PICK n \in Nat : n = tcp.reintentos + 1 BY <2>5
  <2>3. tcp' = [tcp EXCEPT !.reintentos = n] BY <1>1, <2>1, <2>2 DEF TcpTipo
  <2>4. tcp' \in TcpTipo BY <2>1, <2>3 DEF TcpTipo
  <2> QED BY <1>1, <2>1, <2>3, <2>4 DEF TcpTipo
<1>3. EnCon /\ EnCon' BY <1>1 DEF IEnvio, Activa, EnCon
<1>4. TipoCon' BY <1>1, <1>2 DEF TipoCon
<1>5. Emisor' BY <1>1, <1>2, <1>3 DEF IFlujo, Emisor
<1>6. Entregado' BY <1>2 DEF Entregado
<1>7. TomaIgual(tcp) BY <1>1, <1>2 DEF TomaIgual
<1>8. Receptor' BY <1>1, <1>2, <1>3, <1>7, TomaSigue DEF IFlujo, Receptor
<1>9. ISegmentos(P)'
  <2>1. salen' \subseteq salen \cup {s} BY <1>1 DEF EnviarIpv4
  <2>2. s.con = tcp.con /\ s.fl = tcp.ultimo_flags /\ s.seq = tcp.seq_ultimo /\ s.dat = tcp.ultimo
    BY DEF Segmento
  <2> HIDE DEF s
  <2>3. op'.k \in op.k..Len(op.req)
    <3>1. op.k \in Nat /\ op.k <= Len(op.req) /\ Len(op.req) \in 0..3
      BY <1>3, EnCursoSinFin DEF IFlujo
    <3> QED BY <3>1
  <2>4. Envio(s) BY <1>1, <1>2, <1>3, <2>1, <2>2, <2>3 DEF Envio, EnCon
  <2>5. CASE pc = "conectar"
    <3>1. s.fl = "S" /\ s.seq = Isn BY <2>2, <2>5 DEF IFlujo, Emisor
    <3> QED BY <1>1, <2>4, <2>5, <3>1, EnvioSyn DEF IFlujo
  <2>6. CASE pc \in {"enviar", "respuesta"}
    <3>1. s.fl = "PA" /\ s.seq = Mas(Isn, op.k) /\ s.dat = <<op.req[op.k]>> /\ op.k \in 1..Len(op.req)
      BY <2>2, <2>6 DEF IFlujo, Emisor
    <3>2. op.k >= 1 BY <3>1
    <3> QED BY <1>1, <2>4, <2>6, <3>1, <3>2, EnvioDatos DEF IFlujo
  <2>7. CASE pc = "cerrar"
    <3>1. s.fl = "FA" /\ s.seq = Mas(Isn, op.k + 1) /\ s.dat = <<>> BY <2>2, <2>7 DEF IFlujo, Emisor
    <3> QED BY <1>1, <2>4, <2>7, <3>1, EnvioFin DEF IFlujo
  <2> QED BY <1>3, <2>5, <2>6, <2>7 DEF EnCon, EnConexion
<1> QED BY <1>4, <1>5, <1>6, <1>8, <1>9 DEF IFlujo

\* The SYN that waited leaves; what waits outside a connection is no segment.
LEMMA SigueArpFlujo ==
    ASSUME NEW P, TipoCon, TipoRed, IEnvio, IFlujo(P), SigueArp PROVE TipoCon' /\ IFlujo(P)'
<1>1. /\ espera # <<>> /\ UNCHANGED <<tcp, llegan, par, pc, op>>
      /\ salen' = IF Last(espera).quien = "resolver" THEN salen ELSE salen \cup {payload}
  BY DEF SigueArp, ArpResuelto
<1>2. CASE ~SynEspera BY <1>2, SigueArpAparte, AparteBasta
<1>3. CASE SynEspera
  <2>1. pc = "conectar" /\ payload = Segmento(tcp, tcp.ultimo, tcp.ultimo_flags, tcp.seq_ultimo)
    BY <1>3 DEF SynEspera
  <2>2. payload.con = tcp.con /\ payload.fl = "S" /\ payload.seq = Isn
    BY <2>1 DEF Segmento, IFlujo, Emisor
  <2>3. EnCon BY <2>1 DEF EnCon, EnConexion
  <2>4. op.k \in op.k..Len(op.req)
    <3>1. op.k \in Nat /\ op.k <= Len(op.req) /\ Len(op.req) \in 0..3
      BY <2>3, EnCursoSinFin DEF IFlujo
    <3> QED BY <3>1
  <2>5. Envio(payload) BY <1>1, <2>1, <2>2, <2>3, <2>4 DEF Envio, EnConexion
  <2>6. ISegmentos(P)' BY <1>1, <2>1, <2>2, <2>5, EnvioSyn DEF IFlujo
  <2>7. Emisor' /\ Entregado' /\ Receptor'
    BY <1>1 DEF IFlujo, Emisor, Entregado, Receptor, Toma, EnCon
  <2>8. TipoCon' BY <1>1 DEF TipoCon
  <2> QED BY <2>6, <2>7, <2>8 DEF IFlujo
<1> QED BY <1>2, <1>3

\* A new connection has a number no segment has, and a peer that knows nothing of it.
LEMMA ConectarFlujo ==
    ASSUME NEW P, TipoCon, TipoRed, IEnvio, IFlujo(P), Sesion, Conectar,
           NEW Q, Q = [P EXCEPT ![tcp.con + 1] = op.req]
    PROVE  TipoCon' /\ IFlujo(Q)'
<1> DEFINE s == Segmento(tcp', <<>>, "S", Isn)
<1>1. /\ pc \in {"resolver", "dns"} /\ pc' = "conectar" /\ UNCHANGED <<llegan, par, op>>
      /\ tcp' \in TcpTipo /\ tcp'.con = tcp.con + 1 /\ tcp'.activa = 1
      /\ tcp'.estado = 1 /\ tcp'.fin_recibido = 0 /\ tcp'.seq_ultimo = Isn /\ tcp'.ultimo = <<>>
      /\ tcp'.ultimo_flags = "S" /\ tcp'.rx = <<>> /\ tcp'.rx_capacidad = 0
      /\ tcp.con + 1 \in 1..MaxConexiones /\ EnviarIpv4(op.dst, s, "syn")
  BY ConectarCasos
<1>2. PICK c \in 1..MaxConexiones : c = tcp.con + 1 BY <1>1
<1>3. s.con = c /\ s.fl = "S" /\ s.seq = Isn BY <1>1, <1>2 DEF Segmento
<1> HIDE DEF s
<1>4. \A f \in salen' : f \in salen \/ f = s BY <1>1 DEF EnviarIpv4
<1>5. tcp.con \in Nat /\ op \in OpTipo /\ op.req \in Seq(Unidades) BY DEF TipoCon, TcpTipo, OpTipo
<1>6. op.k = 0 BY <1>1 DEF IFlujo, Emisor
<1>7. \A d : Enlace(d) => d # c BY <1>2, <1>5 DEF Enlace
<1>8. par[c] = ParCero
  <2>1. par[c].est = "nada" BY <1>7 DEF IEnvio, Enlazados
  <2> QED BY <2>1 DEF IFlujo, ISegmentos, Tomados, Tomado
<1>9. \A f \in salen \cup llegan : Segmental(f) => f.con # c BY <1>7 DEF IEnvio, Enlazados
<1>10. (\A f \in salen : f.fl = "PA" => f.con # c) /\ (\A f \in llegan : f.fl \in {"A", "FA"} => f.con # c)
       /\ (\A f \in salen : f.fl \notin {"S", "FA"})
  <2>1. \A f \in salen : f.fl = "PA" => f.con # c BY <1>9 DEF Segmental
  <2>2. \A f \in llegan : f.fl = "A" => f.con # c BY <1>9 DEF Segmental
  <2>3. \A f \in llegan : f.fl = "FA" => f.con # c BY <1>9 DEF Segmental
  <2>4. \A f \in salen : f.fl \notin {"S", "FA"}
    BY <1>1 DEF IFlujo, ISegmentos, SaleSyn, SaleFin, EnConexion
  <2> QED BY <2>1, <2>2, <2>3, <2>4
<1>11. EnCon' /\ \A d : Actual(d)' <=> d = c BY <1>1, <1>2 DEF EnCon, EnConexion, Actual
<1>12. P \in [1..MaxConexiones -> Seq(Unidades)] /\ \A d \in 1..MaxConexiones : Len(P[d]) <= 3
  BY DEF IFlujo, ISegmentos, TipoPedidos
<1>13. Q[c] = op.req /\ Q \in [1..MaxConexiones -> Seq(Unidades)]
       /\ \A d \in 1..MaxConexiones : d # c => Q[d] = P[d]
  BY <1>2, <1>5, <1>12
<1>14. Len(op.req) \in 1..3 BY <1>1 DEF Sesion, EnIntercambio
<1>15. TipoPedidos(Q)'
  <2>1. Len(op.req) <= 3
    <3>1. PICK n \in 1..3 : n = Len(op.req) BY <1>14
    <3>2. n <= 3 OBVIOUS
    <3> QED BY <3>1, <3>2
  <2>2. \A d \in 1..MaxConexiones : Len(Q[d]) <= 3 BY <1>12, <1>13, <2>1
  <2> QED BY <1>13, <2>2 DEF TipoPedidos
<1>16. PedidoActual(Q)'
  <2>1. 0 <= Len(op.req) BY <1>14
  <2> QED BY <1>1, <1>2, <1>6, <1>13, <2>1 DEF PedidoActual
<1>17. SaleSyn' BY <1>1, <1>2, <1>3, <1>4, <1>10 DEF SaleSyn, EnConexion
<1>18. SaleDatos(Q)'
  <2>1. ASSUME NEW f \in salen', f.fl = "PA"
        PROVE  f.con \in 1..MaxConexiones /\ \E j \in 1..Len(Q[f.con]) : Unidad(Q, f, j)'
    <3>1. f \in salen /\ f.con # c BY <1>3, <1>4, <1>10, <2>1
    <3>2. f.con \in 1..MaxConexiones /\ \E j \in 1..Len(P[f.con]) : Unidad(P, f, j)
      BY <2>1, <3>1 DEF IFlujo, ISegmentos, SaleDatos
    <3>3. Q[f.con] = P[f.con] BY <1>13, <3>1, <3>2
    <3> QED BY <1>11, <3>1, <3>2, <3>3 DEF Unidad
  <2> QED BY <2>1 DEF SaleDatos
<1>19. SaleFin(Q)' BY <1>3, <1>4, <1>10 DEF SaleFin
<1>20. Tomados(Q)'
  <2>1. ASSUME NEW d \in 1..MaxConexiones, d # c PROVE Tomado(Q, d)'
    <3>1. Tomado(P, d) /\ Q[d] = P[d] /\ ~Actual(d)'
      BY <1>11, <1>13, <2>1 DEF IFlujo, ISegmentos, Tomados
    <3>2. \A n : Hasta(d, n) => Hasta(d, n)' BY <1>3, <1>4 DEF Hasta
    <3>3. FinTomado(d) => FinTomado(d)' BY <1>1, <3>1, <3>2 DEF FinTomado
    <3> QED BY <1>1, <3>1, <3>3 DEF Tomado
  <2>2. Tomado(Q, c)'
    <3>1. par'[c] = ParCero BY <1>1, <1>8
    <3>2. /\ ParCero.est = "nada" /\ ParCero.datos = <<>> /\ ParCero.resp = <<>> /\ ParCero.hecho = 0
          /\ Len(ParCero.datos) = 0
      BY DEF ParCero
    <3>3. IsPrefix(ParCero.datos, Q[c]) BY <1>13, <3>2, PrefijoVacio
    <3>4. Len(ParCero.datos) <= op'.k BY <1>1, <1>6, <3>2
    <3> QED BY <3>1, <3>2, <3>3, <3>4 DEF Tomado
  <2> QED BY <2>1, <2>2 DEF Tomados
<1>21. LlegaSyn' BY <1>1 DEF IFlujo, ISegmentos, LlegaSyn
<1>22. LlegaDatos' BY <1>1, <1>10, <1>11 DEF IFlujo, ISegmentos, LlegaDatos
<1>23. Emisor' BY <1>1, <1>6 DEF Emisor
<1>24. Entregado' BY <1>1 DEF Entregado
<1>25. Receptor'
  <2>1. par[c].resp = <<>> BY <1>8 DEF ParCero
  <2>2. <<>> \in Seq(Unidades) OBVIOUS
  <2>3. IsPrefix(<<>>, par[c].resp) BY <2>1, <2>2, PrefijoVacio
  <2>4. Toma(tcp)' BY <1>1, <1>2, <2>3 DEF Toma
  <2> QED BY <1>1, <2>4 DEF Receptor
<1>26. TipoCon' BY <1>1, <1>5 DEF TipoCon
<1> QED BY <1>15, <1>16, <1>17, <1>18, <1>19, <1>20, <1>21, <1>22, <1>23, <1>24, <1>25, <1>26
        DEF IFlujo, ISegmentos

\* What a segment of the peer leaves as it is in g_tcp.
Fijo(t, u) ==
  /\ u.con = t.con /\ u.activa = t.activa /\ u.seq = t.seq /\ u.ack_de_datos = t.ack_de_datos
  /\ u.seq_ultimo = t.seq_ultimo /\ u.ultimo = t.ultimo /\ u.ultimo_flags = t.ultimo_flags
  /\ u.rx_capacidad = t.rx_capacidad

Tomando(t, p, R) ==
  R \in 0..Len(p.resp) /\ IsPrefix(t.rx, p.resp) /\ Len(t.rx) <= t.rx_capacidad /\ Recibido(t, p, R)

ConRx(t, r, d, a) == [t EXCEPT !.rx = r, !.rx_desbordado = d, !.ack = a]
ConCierre(t, a) == [t EXCEPT !.ack = a, !.fin_recibido = 1, !.estado = 4]

LEMMA TcpDatos ==
    ASSUME NEW t \in TcpTipo, NEW r \in Seq(Unidades), NEW d \in {0, 1}, NEW a \in Nat,
           NEW u, u = ConRx(t, r, d, a)
    PROVE  u \in TcpTipo /\ Fijo(t, u)
BY DEF TcpTipo, Fijo, ConRx

LEMMA TcpFin ==
    ASSUME NEW t \in TcpTipo, NEW a \in Nat
    PROVE  LET u == ConCierre(t, a)
           IN  /\ u \in TcpTipo /\ Fijo(t, u) /\ u.rx = t.rx /\ u.ack = a /\ u.estado = 4
               /\ u.fin_recibido = 1
<1>1. ASSUME NEW b \in {0, 1}, NEW e \in 0..4
      PROVE  LET u == [t EXCEPT !.ack = a, !.fin_recibido = b, !.estado = e]
             IN  /\ u \in TcpTipo /\ Fijo(t, u) /\ u.rx = t.rx /\ u.ack = a /\ u.estado = e
                 /\ u.fin_recibido = b
  BY DEF TcpTipo, Fijo
<1>2. 1 \in {0, 1} /\ 4 \in 0..4 OBVIOUS
<1> QED BY <1>1, <1>2 DEF ConCierre

\* The part of an answer from its i-th unit to the j-th, where the next one is.
LEMMA ParteEnOrden ==
    ASSUME NEW p, p.resp \in Seq(Unidades), Len(p.resp) \in 0..3, NEW t \in TcpTipo,
           NEW R \in 0..Len(p.resp), Recibido(t, p, R), NEW i \in 1..Len(p.resp), t.ack = Mas(IsnPar, i)
    PROVE  i = R + 1 /\ t.fin_recibido = 0
<1>1. PICK n \in 0..3 : n = Len(p.resp) OBVIOUS
<1>9. R \in 0..n /\ i \in 1..n BY <1>1
<1>2. R \in 0..3 /\ i \in 1..3 /\ R <= n /\ i <= n BY <1>9
<1>3. PICK b \in {0, 1} : b = t.fin_recibido BY DEF TcpTipo
<1>4. 1 + R + b \in 0..7 /\ i \in 0..7 BY <1>2, <1>3
<1>5. Mas(IsnPar, i) = Mas(IsnPar, 1 + R + b) BY <1>3 DEF Recibido
<1>6. i = 1 + R + b BY <1>4, <1>5, MasUnico, ModuloAssumption
<1>7. b = 1 => R = n BY <1>1, <1>3 DEF Recibido
<1>8. b = 0 BY <1>2, <1>3, <1>6, <1>7
<1> QED BY <1>2, <1>3, <1>6, <1>8

LEMMA SeqNada ==
    ASSUME NEW S, NEW s \in Seq(S), NEW t \in Seq(S) PROVE s \o SubSeq(t, 1, 0) = s
<1>1. SubSeq(t, 1, 0) = <<>> OBVIOUS
<1>2. s \o <<>> = s OBVIOUS
<1> QED BY <1>1, <1>2

LEMMA SeqTramo ==
    ASSUME NEW S, NEW t \in Seq(S), NEW i \in 1..Len(t), NEW j \in 1..Len(t), i <= j
    PROVE  SubSeq(t, i, j) \in Seq(S) /\ Len(SubSeq(t, i, j)) = j - i + 1
OBVIOUS

\* Data in order extend what was taken; what does not fit is counted, not kept.
LEMMA ConDatosToma ==
    ASSUME NEW p, p.resp \in Seq(Unidades), Len(p.resp) \in 0..3, NEW t \in TcpTipo,
           NEW R, Tomando(t, p, R), NEW f, f.dat = <<>> \/ Parte(p, f)
    PROVE  LET u == ConDatos(t, f)
           IN  /\ u \in TcpTipo /\ Fijo(t, u) /\ u.estado = t.estado /\ u.fin_recibido = t.fin_recibido
               /\ \E m : Tomando(u, p, m)
<1>1. CASE f.dat = <<>> \/ f.seq # t.ack
  <2>1. ConDatos(t, f) = t BY <1>1 DEF ConDatos
  <2> QED BY <2>1 DEF Fijo
<1>2. CASE f.dat # <<>> /\ f.seq = t.ack
  <2>1. PICK i \in 1..Len(p.resp), j \in 1..Len(p.resp) :
          i <= j /\ f.dat = SubSeq(p.resp, i, j) /\ f.seq = Mas(IsnPar, i)
    BY <1>2 DEF Parte
  <2>2. R \in 0..Len(p.resp) /\ IsPrefix(t.rx, p.resp) /\ Len(t.rx) <= t.rx_capacidad /\ Recibido(t, p, R)
    BY DEF Tomando
  <2>3. i = R + 1 /\ t.fin_recibido = 0 BY <1>2, <2>1, <2>2, ParteEnOrden
  <2>4. f.dat \in Seq(Unidades) /\ Len(f.dat) = j - i + 1 BY <2>1, SeqTramo
  <2>5. PICK l \in 0..3 : l = Len(p.resp) OBVIOUS
  <2>6. R \in Nat /\ j \in 1..3 /\ R + 1 <= j /\ Len(f.dat) = j - R /\ j <= l
    BY <2>1, <2>2, <2>3, <2>4, <2>5
  <2>7. t.rx \in Seq(Unidades) /\ t.rx_capacidad \in Nat BY DEF TcpTipo
  <2>8. PICK k \in Nat : k = Len(t.rx) BY <2>7
  <2>9. PICK q \in Nat : q = t.rx_capacidad BY <2>7
  <2>10. k <= q /\ (k = R \/ (k <= R /\ k = q)) BY <2>2, <2>8, <2>9 DEF Recibido
  <2>11. PICK n \in Nat : n = (IF j - R < q - k THEN j - R ELSE q - k)
    <3>1. j - R \in Nat /\ q - k \in Nat BY <2>6, <2>10
    <3> QED BY <3>1
  <2> DEFINE r == t.rx \o SubSeq(f.dat, 1, n)
             d == IF n < Len(f.dat) THEN 1 ELSE t.rx_desbordado
             a == Mas(t.ack, Len(f.dat))
  <2>12. r \in Seq(Unidades) /\ Len(r) = k + n /\ IsPrefix(r, p.resp)
    <3>1. CASE k = R
      <4>1. n \in 0..(j - k) /\ k < j /\ j \in 0..l BY <2>6, <2>10, <2>11, <3>1
      <4>2. r = t.rx \o SubSeq(SubSeq(p.resp, Len(t.rx) + 1, j), 1, n) BY <2>1, <2>3, <2>8, <3>1
      <4>3. n \in 0..(j - Len(t.rx)) /\ Len(t.rx) < j /\ j \in 0..Len(p.resp) BY <2>5, <2>8, <4>1
      <4> HIDE DEF r
      <4>4. r \in Seq(Unidades) /\ Len(r) = Len(t.rx) + n /\ IsPrefix(r, p.resp)
        BY <2>2, <2>7, <4>2, <4>3, PrefijoTramo
      <4> QED BY <2>8, <4>4
    <3>2. CASE k # R
      <4>1. n = 0 BY <2>6, <2>10, <2>11, <3>2
      <4>2. r = t.rx BY <2>4, <2>7, <4>1, SeqNada
      <4>3. k + n = k BY <4>1
      <4> HIDE DEF r
      <4> QED BY <2>2, <2>7, <2>8, <4>2, <4>3
    <3> QED BY <3>1, <3>2
  <2>13. d \in {0, 1} BY DEF TcpTipo
  <2>14. a = Mas(IsnPar, 1 + j + 0) /\ a \in Nat
    <3>1. 1 + R + 0 \in 0..7 /\ j - R \in 0..7 /\ 1 + R + 0 + (j - R) <= 7 /\ 1 + j + 0 \in 0..7
          /\ 1 + R + 0 + (j - R) = 1 + j + 0
      BY <2>6
    <3>2. t.ack = Mas(IsnPar, 1 + R + 0) BY <2>2, <2>3 DEF Recibido
    <3>3. a = Mas(IsnPar, 1 + j + 0) BY <2>6, <3>1, <3>2, MasSuma, ModuloAssumption
    <3> QED BY <3>1, <3>3, MasTipo, ModuloAssumption
  <2>15. ConDatos(t, f) = ConRx(t, r, d, a)
    BY <1>2, <2>6, <2>8, <2>9, <2>11 DEF ConDatos, ConRx
  <2> HIDE DEF r, d, a
  <2> DEFINE u == ConRx(t, r, d, a)
  <2>16. /\ u \in TcpTipo /\ Fijo(t, u) /\ u.rx = r /\ u.ack = a /\ u.estado = t.estado
         /\ u.fin_recibido = t.fin_recibido
    <3>1. r \in Seq(Unidades) /\ d \in {0, 1} /\ a \in Nat BY <2>12, <2>13, <2>14
    <3>2. PICK v \in Seq(Unidades), e \in {0, 1}, z \in Nat : v = r /\ e = d /\ z = a BY <3>1
    <3>3. u = ConRx(t, v, e, z) BY <3>2
    <3> HIDE DEF u
    <3>4. /\ u \in TcpTipo /\ Fijo(t, u) /\ u.rx = v /\ u.ack = z /\ u.estado = t.estado
          /\ u.fin_recibido = t.fin_recibido
      <4>1. u \in TcpTipo BY <3>3, TcpDatos
      <4>2. Fijo(t, u) BY <3>3, TcpDatos
      <4>3. /\ u.rx = v /\ u.ack = z /\ u.estado = t.estado
            /\ u.fin_recibido = t.fin_recibido
        BY <3>3 DEF ConRx, TcpTipo
      <4> QED BY <4>1, <4>2, <4>3
    <3> QED BY <3>2, <3>4
  <2> HIDE DEF u
  <2>17. Tomando(u, p, j)
    <3>1. k + n = j \/ (k + n <= j /\ k + n = q) BY <2>6, <2>10, <2>11
    <3>2. k + n <= q BY <2>6, <2>10, <2>11
    <3>3. u.rx_capacidad = q BY <2>9, <2>16 DEF Fijo
    <3>4. u.fin_recibido = 0 BY <2>3, <2>16
    <3>5. Recibido(u, p, j) BY <2>12, <2>14, <2>16, <3>1, <3>3, <3>4 DEF Recibido
    <3>6. j \in 0..Len(p.resp) BY <2>5, <2>6
    <3> QED BY <2>12, <2>16, <3>2, <3>3, <3>5, <3>6 DEF Tomando
  <2> QED BY <2>15, <2>16, <2>17 DEF u
<1> QED BY <1>1, <1>2

\* The FIN is taken only after all of the answer.
LEMMA ConFinToma ==
    ASSUME NEW p, p.resp \in Seq(Unidades), Len(p.resp) \in 0..3, NEW t \in TcpTipo,
           NEW R, Tomando(t, p, R), NEW f, f.fl = "FA" => p.hecho = 1 /\ Parte(p, f)
    PROVE  LET u == ConFin(t, f)
           IN  /\ u \in TcpTipo /\ Fijo(t, u) /\ u.estado \in {t.estado, 4}
               /\ \E m : Tomando(u, p, m)
<1>1. CASE ~(f.fl = "FA" /\ Mas(f.seq, Len(f.dat)) = t.ack /\ t.fin_recibido = 0)
  <2>1. ConFin(t, f) = t BY <1>1 DEF ConFin
  <2> QED BY <2>1 DEF Fijo
<1>2. CASE f.fl = "FA" /\ Mas(f.seq, Len(f.dat)) = t.ack /\ t.fin_recibido = 0
  <2>1. PICK i \in 1..Len(p.resp) :
          f.dat = SubSeq(p.resp, i, Len(p.resp)) /\ f.seq = Mas(IsnPar, i)
    BY <1>2 DEF Parte
  <2>2. PICK l \in 0..3 : l = Len(p.resp) OBVIOUS
  <2>3. i \in 1..3 /\ i <= l /\ l \in 1..l BY <2>1, <2>2
  <2>4. Len(f.dat) = l - i + 1 BY <2>1, <2>2, <2>3, SeqTramo
  <2>5. R \in 0..Len(p.resp) /\ IsPrefix(t.rx, p.resp) /\ Len(t.rx) <= t.rx_capacidad /\ Recibido(t, p, R)
    BY DEF Tomando
  <2>6. PICK m \in 0..l : m = R BY <2>2, <2>5
  <2>7. t.ack = Mas(IsnPar, 1 + m + 0) BY <1>2, <2>5, <2>6 DEF Recibido
  <2>8. t.ack = Mas(IsnPar, l + 1)
    <3>1. i \in 0..7 /\ l - i + 1 \in 0..7 /\ i + (l - i + 1) <= 7 /\ i + (l - i + 1) = l + 1
      BY <2>3
    <3> QED BY <1>2, <2>1, <2>4, <3>1, MasSuma, ModuloAssumption
  <2>9. m = l
    <3>1. 1 + m + 0 \in 0..7 /\ l + 1 \in 0..7 OBVIOUS
    <3>2. 1 + m + 0 = l + 1 BY <2>7, <2>8, <3>1, MasUnico, ModuloAssumption
    <3> QED BY <3>2
  <2> DEFINE a == Mas(t.ack, 1)
  <2>10. a = Mas(IsnPar, 1 + m + 1) /\ a \in Nat
    <3>1. 1 + m + 0 \in 0..7 /\ 1 \in 0..7 /\ 1 + m + 0 + 1 <= 7 /\ 1 + m + 0 + 1 = 1 + m + 1
          /\ 1 + m + 1 \in 0..7
      OBVIOUS
    <3>2. a = Mas(IsnPar, 1 + m + 1) BY <2>7, <3>1, MasSuma, ModuloAssumption
    <3> QED BY <3>1, <3>2, MasTipo, ModuloAssumption
  <2>11. ConFin(t, f) = ConCierre(t, a) BY <1>2 DEF ConFin, ConCierre
  <2> HIDE DEF a
  <2> DEFINE u == ConCierre(t, a)
  <2>13. /\ u \in TcpTipo /\ Fijo(t, u) /\ u.rx = t.rx /\ u.ack = a /\ u.estado = 4
         /\ u.fin_recibido = 1
    BY <2>10, TcpFin
  <2> HIDE DEF u
  <2>14. Tomando(u, p, m)
    <3>1. Recibido(u, p, m)
      BY <1>2, <2>2, <2>5, <2>6, <2>9, <2>10, <2>13 DEF Recibido, Fijo
    <3> QED BY <2>5, <2>6, <2>13, <3>1 DEF Tomando, Fijo
  <2> QED BY <2>11, <2>13, <2>14 DEF u
<1> QED BY <1>1, <1>2

\* Only a peer that has all that was sent acknowledges the last segment.
LEMMA AcuseVale ==
    ASSUME NEW P, TipoCon, IFlujo(P), pc \in {"enviar", "respuesta", "cerrar"},
           NEW f \in llegan, f.fl \in {"A", "FA"}, f.con = tcp.con, AcuseExacto(tcp, f)
    PROVE  Len(par[tcp.con].datos) >= op.k
<1> DEFINE p == par[tcp.con]
<1>1. EnCon BY DEF EnCon, EnConexion
<1>2. /\ tcp.con \in 1..MaxConexiones /\ op.k \in Nat /\ op.k <= Len(op.req) /\ Len(op.req) \in 0..3
      /\ pc # "cerrar" /\ p.est # "nada" => p.rcv = Mas(Isn, 1 + Len(p.datos))
  BY <1>1, EnCursoSinFin DEF IFlujo
<1>3. Len(p.datos) \in 0..3 BY <1>2, Cortos DEF IFlujo
<1>4. PICK n \in 0..3 : n = Len(p.datos) BY <1>3
<1>5. PICK k \in 0..3 : k = op.k
  <2>1. PICK l \in 0..3 : l = Len(op.req) BY <1>2
  <2>2. op.k <= l BY <1>2, <2>1
  <2>3. op.k \in 0..3 BY <1>2, <2>2
  <2> QED BY <2>3
<1>6. p.est # "nada" /\ AcuseDe(p, f.ack) BY DEF IFlujo, ISegmentos, LlegaDatos
<1>7. PICK m \in 0..(n + 1) : f.ack = Mas(Isn, 1 + m) /\ (m = n + 1 => p.rcv = Mas(Isn, 2 + n))
  BY <1>4, <1>6 DEF AcuseDe
<1>8. 1 + m \in 0..7 /\ 2 + n \in 0..7 /\ 1 + n \in 0..7 /\ k + 1 \in 0..7 /\ k + 1 + 1 \in 0..7
  OBVIOUS
<1>9. CASE pc \in {"enviar", "respuesta"}
  <2>1. tcp.seq_ultimo = Mas(Isn, k) /\ tcp.ultimo = <<op.req[k]>> /\ tcp.ultimo_flags = "PA"
    BY <1>5, <1>9 DEF IFlujo, Emisor
  <2>2. f.ack = Mas(Mas(Isn, k), 1)
    <3>1. Len(tcp.ultimo) + (IF tcp.ultimo_flags \in {"S", "FA"} THEN 1 ELSE 0) = 1 BY <2>1
    <3> QED BY <2>1, <3>1 DEF AcuseExacto
  <2>3. f.ack = Mas(Isn, k + 1)
    <3>1. k \in 0..7 /\ 1 \in 0..7 /\ k + 1 <= 7 OBVIOUS
    <3> QED BY <2>2, <3>1, MasSuma, ModuloAssumption
  <2>4. 1 + m = k + 1 BY <1>7, <1>8, <2>3, MasUnico, ModuloAssumption
  <2>5. m # n + 1
    <3>1. ASSUME m = n + 1 PROVE FALSE
      <4>1. Mas(Isn, 1 + n) = Mas(Isn, 2 + n) BY <1>2, <1>4, <1>6, <1>7, <1>9, <3>1
      <4>2. 1 + n = 2 + n BY <1>8, <4>1, MasUnico, ModuloAssumption
      <4> QED BY <4>2
    <3> QED BY <3>1
  <2>6. n >= k BY <2>4, <2>5
  <2> QED BY <1>4, <1>5, <2>6
<1>10. CASE pc = "cerrar"
  <2>1. tcp.seq_ultimo = Mas(Isn, k + 1) /\ tcp.ultimo = <<>> /\ tcp.ultimo_flags = "FA"
    BY <1>5, <1>10 DEF IFlujo, Emisor
  <2>2. f.ack = Mas(Mas(Isn, k + 1), 1)
    <3>1. Len(tcp.ultimo) + (IF tcp.ultimo_flags \in {"S", "FA"} THEN 1 ELSE 0) = 1 BY <2>1
    <3> QED BY <2>1, <3>1 DEF AcuseExacto
  <2>3. f.ack = Mas(Isn, k + 1 + 1)
    <3>1. k + 1 \in 0..7 /\ 1 \in 0..7 /\ k + 1 + 1 <= 7 OBVIOUS
    <3> QED BY <2>2, <3>1, MasSuma, ModuloAssumption
  <2>4. 1 + m = k + 1 + 1 BY <1>7, <1>8, <2>3, MasUnico, ModuloAssumption
  <2>5. n >= k BY <2>4
  <2> QED BY <1>4, <1>5, <2>5
<1> QED BY <1>9, <1>10

LEMMA RecibirSynFlujo ==
    ASSUME NEW P, TipoCon, IEnvio, IFlujo(P), NEW f \in llegan, RecibirTcp(f), f.fl = "SA", UNCHANGED op
    PROVE  TipoCon' /\ IFlujo(P)'
<1>1. /\ tcp.activa = 1 /\ tcp.estado = 1 /\ UNCHANGED <<pc, salen, llegan, par>>
      /\ tcp' = [tcp EXCEPT !.ack = Mas(f.seq, 1), !.seq = Mas(Isn, 1), !.estado = 2, !.ack_de_datos = 1]
  BY DEF RecibirTcp, red
<1>2. pc = "conectar" /\ EnCon /\ EnCon' BY <1>1 DEF IEnvio, Activa, EnCon, EnConexion
<1>3. f.seq = IsnPar BY DEF IFlujo, ISegmentos, LlegaSyn
<1>4. Mas(IsnPar, 1) \in Nat /\ Mas(Isn, 1) \in Nat
  <2>1. 1 \in 0..7 OBVIOUS
  <2> QED BY <2>1, MasTipo, ModuloAssumption
<1>5. PICK a \in Nat, s \in Nat : a = Mas(IsnPar, 1) /\ s = Mas(Isn, 1) BY <1>4
<1>6. tcp \in TcpTipo /\ op \in OpTipo BY DEF TipoCon
<1>7. tcp' = [tcp EXCEPT !.ack = a, !.seq = s, !.estado = 2, !.ack_de_datos = 1] BY <1>1, <1>3, <1>5
<1>8. tcp' \in TcpTipo
  <2>1. ASSUME NEW e \in 0..4, NEW b \in {0, 1}
        PROVE  [tcp EXCEPT !.ack = a, !.seq = s, !.estado = e, !.ack_de_datos = b] \in TcpTipo
    BY <1>6 DEF TcpTipo
  <2>2. 2 \in 0..4 /\ 1 \in {0, 1} OBVIOUS
  <2> QED BY <1>7, <2>1, <2>2
<1>9. /\ tcp'.con = tcp.con /\ tcp'.activa = tcp.activa /\ tcp'.estado = 2 /\ tcp'.seq = s
      /\ tcp'.ack = a /\ tcp'.rx = tcp.rx /\ tcp'.fin_recibido = tcp.fin_recibido
      /\ tcp'.seq_ultimo = tcp.seq_ultimo /\ tcp'.ultimo = tcp.ultimo
      /\ tcp'.ultimo_flags = tcp.ultimo_flags /\ tcp'.rx_capacidad = tcp.rx_capacidad
  BY <1>6, <1>7 DEF TcpTipo
<1>10. op.k = 0 /\ tcp.rx = <<>> /\ tcp.fin_recibido = 0 BY <1>2 DEF IFlujo, Emisor
<1>11. tcp.con \in 1..MaxConexiones BY <1>2, EnCursoSinFin DEF IFlujo
<1>12. Len(par[tcp.con].datos) \in 0..3 /\ Len(par[tcp.con].resp) \in 0..3 BY <1>11, Cortos DEF IFlujo
<1>13. TipoCon' BY <1>1, <1>6, <1>8 DEF TipoCon
<1>14. ISegmentos(P)' BY <1>1, <1>2, <1>9, SinEnvioBasta DEF IFlujo, SinEnvio
<1>15. Emisor' BY <1>1, <1>2, <1>5, <1>9 DEF IFlujo, Emisor
<1>16. Entregado'
  <2>1. Len(par[tcp.con].datos) >= 0 BY <1>12
  <2> QED BY <1>1, <1>9, <1>10, <2>1 DEF Entregado
<1>17. Receptor'
  <2>1. IsPrefix(tcp.rx, par[tcp.con].resp) /\ Len(tcp.rx) <= tcp.rx_capacidad
    BY <1>2 DEF IFlujo, Receptor, Toma
  <2>2. Recibido(tcp', par[tcp.con], 0)
    <3>1. tcp'.ack = Mas(IsnPar, 1 + 0 + tcp'.fin_recibido)
      <4>1. 1 + 0 + 0 = 1 OBVIOUS
      <4> QED BY <1>5, <1>9, <1>10, <4>1
    <3>2. Len(tcp'.rx) = 0 BY <1>9, <1>10
    <3> QED BY <1>9, <1>10, <3>1, <3>2 DEF Recibido
  <2>3. 0 \in 0..Len(par[tcp.con].resp) BY <1>12
  <2>4. Toma(tcp)' BY <1>1, <1>9, <2>1, <2>2, <2>3 DEF Toma
  <2> QED BY <1>1, <1>2, <2>4 DEF Receptor
<1> QED BY <1>13, <1>14, <1>15, <1>16, <1>17 DEF IFlujo

LEMMA RecibirDatosFlujo ==
    ASSUME NEW P, TipoCon, IEnvio, IFlujo(P), NEW f \in llegan, RecibirTcp(f), f.fl \in {"A", "FA"},
           UNCHANGED op
    PROVE  TipoCon' /\ IFlujo(P)'
<1> DEFINE t1 == IF AcuseExacto(tcp, f) THEN [tcp EXCEPT !.ack_de_datos = 1] ELSE tcp
           p == par[tcp.con]
<1>1. /\ tcp.activa = 1 /\ f.con = tcp.con /\ UNCHANGED <<pc, salen, llegan, par>>
      /\ tcp' = ConFin(ConDatos(t1, f), f)
  BY DEF RecibirTcp, red
<1>2. EnCon /\ EnCon' BY <1>1 DEF IEnvio, Activa, EnCon
<1>3. tcp \in TcpTipo /\ op \in OpTipo BY DEF TipoCon
<1>4. tcp.con \in 1..MaxConexiones BY <1>2, EnCursoSinFin DEF IFlujo
<1>5. p.resp \in Seq(Unidades) /\ Len(p.resp) \in 0..3 BY <1>4, Cortos DEF IFlujo
<1>6. /\ pc # "conectar" /\ (f.dat = <<>> \/ Parte(p, f))
      /\ f.fl = "FA" => p.hecho = 1 /\ Parte(p, f)
  <2>1. Actual(f.con) BY <1>1, <1>2 DEF Actual
  <2> QED BY <1>1, <2>1 DEF IFlujo, ISegmentos, LlegaDatos
<1>7. pc \in {"enviar", "respuesta", "cerrar"} BY <1>2, <1>6 DEF EnCon, EnConexion
<1>8. tcp.estado >= 2 /\ tcp.estado \in {2, 3, 4}
  <2>1. tcp.estado \in 0..4 /\ tcp.estado >= 2 BY <1>1, <1>3, <1>6 DEF IEnvio, Activa, TcpTipo
  <2> QED BY <2>1
<1>9. /\ t1 \in TcpTipo /\ t1.con = tcp.con /\ t1.activa = 1 /\ t1.seq = tcp.seq /\ t1.estado = tcp.estado
      /\ t1.seq_ultimo = tcp.seq_ultimo /\ t1.ultimo = tcp.ultimo /\ t1.ultimo_flags = tcp.ultimo_flags
      /\ t1.rx_capacidad = tcp.rx_capacidad /\ t1.rx = tcp.rx /\ t1.ack = tcp.ack
      /\ t1.fin_recibido = tcp.fin_recibido
      /\ t1.ack_de_datos = 1 => AcuseExacto(tcp, f) \/ tcp.ack_de_datos = 1
  <2>1. CASE AcuseExacto(tcp, f)
    <3>1. ASSUME NEW b \in {0, 1} PROVE [tcp EXCEPT !.ack_de_datos = b] \in TcpTipo
      BY <1>3 DEF TcpTipo
    <3>2. t1 = [tcp EXCEPT !.ack_de_datos = 1] /\ 1 \in {0, 1} BY <2>1
    <3>3. t1 \in TcpTipo BY <3>1, <3>2
    <3> QED BY <1>1, <1>3, <2>1, <3>2, <3>3 DEF TcpTipo
  <2>2. CASE ~AcuseExacto(tcp, f) BY <1>1, <1>3, <2>2
  <2> QED BY <2>1, <2>2
<1> HIDE DEF t1
<1>10. \E R : Tomando(t1, p, R)
  <2>1. Toma(tcp) BY <1>2 DEF IFlujo, Receptor
  <2>2. PICK R \in 0..Len(p.resp) : Recibido(tcp, p, R) BY <1>8, <2>1 DEF Toma
  <2>3. Recibido(t1, p, R) BY <1>9, <2>2 DEF Recibido
  <2> QED BY <1>9, <2>1, <2>2, <2>3 DEF Tomando, Toma
<1> DEFINE t2 == ConDatos(t1, f)
<1>11. /\ t2 \in TcpTipo /\ Fijo(t1, t2) /\ t2.estado = t1.estado
       /\ \E R : Tomando(t2, p, R)
  BY <1>5, <1>6, <1>9, <1>10, ConDatosToma
<1> HIDE DEF t2
<1>12. /\ tcp' \in TcpTipo /\ Fijo(t2, tcp') /\ tcp'.estado \in {t2.estado, 4}
       /\ \E R : Tomando(tcp', p, R)
  <2>1. tcp' = ConFin(t2, f) BY <1>1 DEF t2
  <2> QED BY <1>5, <1>6, <1>11, <2>1, ConFinToma
<1>13. /\ tcp'.con = tcp.con /\ tcp'.activa = 1 /\ tcp'.seq = tcp.seq
       /\ tcp'.seq_ultimo = tcp.seq_ultimo /\ tcp'.ultimo = tcp.ultimo
       /\ tcp'.ultimo_flags = tcp.ultimo_flags /\ tcp'.rx_capacidad = tcp.rx_capacidad
       /\ tcp'.ack_de_datos = t1.ack_de_datos /\ tcp'.estado \in {tcp.estado, 4}
  BY <1>9, <1>11, <1>12 DEF Fijo
<1>14. TipoCon' BY <1>1, <1>3, <1>12 DEF TipoCon
<1>15. ISegmentos(P)' BY <1>1, <1>2, <1>13, SinEnvioBasta DEF IFlujo, SinEnvio
<1>16. Emisor' BY <1>1, <1>2, <1>7, <1>8, <1>13 DEF IFlujo, Emisor
<1>17. Entregado'
  <2>1. t1.ack_de_datos = 1 => Len(p.datos) >= op.k
    <3>1. AcuseExacto(tcp, f) => Len(p.datos) >= op.k BY <1>1, <1>7, AcuseVale
    <3>2. tcp.ack_de_datos = 1 => Len(p.datos) >= op.k BY <1>2, <1>8 DEF IFlujo, Entregado
    <3> QED BY <1>9, <3>1, <3>2
  <2> QED BY <1>1, <1>13, <2>1 DEF Entregado
<1>18. Receptor'
  <2>1. PICK R : Tomando(tcp', p, R) BY <1>12
  <2>2. Toma(tcp)' BY <1>1, <1>13, <2>1 DEF Toma, Tomando
  <2> QED BY <1>1, <1>2, <1>13, <2>2 DEF IFlujo, Receptor
<1> QED BY <1>14, <1>15, <1>16, <1>17, <1>18 DEF IFlujo

LEMMA RecibirTcpFlujo ==
    ASSUME NEW P, TipoCon, IEnvio, IFlujo(P), NEW f \in llegan, RecibirTcp(f), UNCHANGED op
    PROVE  TipoCon' /\ IFlujo(P)'
<1>1. f.fl \in {"R", "SA", "A", "FA"} BY DEF RecibirTcp
<1>2. CASE f.fl = "R"
  <2>1. tcp.activa = 1 /\ UNCHANGED <<pc, salen, llegan, par>>
        /\ tcp' = [tcp EXCEPT !.estado = 0, !.activa = 0]
    BY <1>2 DEF RecibirTcp, red
  <2>2. EnCon BY <2>1 DEF IEnvio, Activa
  <2> QED BY <2>1, <2>2, CortaFlujo
<1> QED BY <1>1, <1>2, RecibirSynFlujo, RecibirDatosFlujo

\* A step of the peer of the connection c, after which its end is q.
PasoPar(c, q) ==
  UNCHANGED <<pc, op, tcp, salen>> /\ par' = [par EXCEPT ![c] = q] /\ c \in 1..MaxConexiones /\ q \in ParTipo

\* What a segment of a peer says is true of its end.
DatoBien(f) ==
  /\ f.con \in 1..MaxConexiones /\ par[f.con].est # "nada" /\ AcuseDe(par[f.con], f.ack)
  /\ Actual(f.con) => pc # "conectar"
  /\ (f.dat = <<>> /\ f.fl = "A") \/ (par[f.con].hecho = 1 /\ Parte(par[f.con], f))

\* An end only takes more, and answers once.
Crece(p, q) ==
  /\ p.est # "nada" => q.est # "nada" /\ \A a : AcuseDe(p, a) => AcuseDe(q, a)
  /\ p.hecho = 1 => q.hecho = 1 /\ q.resp = p.resp
  /\ Len(p.datos) <= Len(q.datos)

LEMMA ParBasta ==
    ASSUME NEW P, TipoCon, IFlujo(P), NEW c, NEW q, PasoPar(c, q), Crece(par[c], q), Tomado(P, c)',
           \A g \in salen, k \in 0..Len(P[c]) : g.fl = "FA" /\ g.con = c /\ Fin(g, k) => Fin(g, k)',
           \A f \in llegan' : f \in llegan \/ (f.fl = "SA" => f.seq = IsnPar /\ f.dat = <<>>),
           \A f \in llegan' : f \in llegan \/ (f.fl \in {"A", "FA"} => DatoBien(f)'),
           q.resp = par[c].resp \/ (EnCon /\ c = tcp.con => Toma(tcp)')
    PROVE  TipoCon' /\ IFlujo(P)'
<1>1. UNCHANGED <<pc, op, tcp, salen>> /\ c \in 1..MaxConexiones /\ q \in ParTipo BY DEF PasoPar
<1>2. par' \in [1..MaxConexiones -> ParTipo] /\ par'[c] = q /\ \A d \in 1..MaxConexiones : d # c => par'[d] = par[d]
  BY <1>1 DEF PasoPar, TipoCon
<1>3. EnCon' <=> EnCon BY <1>1 DEF EnCon
<1>4. \A d : Actual(d)' <=> Actual(d) BY <1>1, <1>3 DEF Actual
<1>5. \A d, n : Hasta(d, n)' <=> Hasta(d, n) BY <1>1 DEF Hasta
<1>6. TipoCon' BY <1>1, <1>2 DEF TipoCon
<1>7. TipoPedidos(P)' /\ PedidoActual(P)' BY <1>1, <1>3 DEF IFlujo, ISegmentos, TipoPedidos, PedidoActual
<1>8. SaleSyn' BY <1>1 DEF IFlujo, ISegmentos, SaleSyn
<1>9. SaleDatos(P)'
  <2>1. \A f, j : Unidad(P, f, j) => Unidad(P, f, j)' BY <1>1, <1>4 DEF Unidad
  <2> QED BY <1>1, <2>1 DEF IFlujo, ISegmentos, SaleDatos
<1>10. SaleFin(P)'
  <2>1. ASSUME NEW f \in salen, f.fl = "FA", NEW k \in 0..Len(P[f.con]), Fin(f, k) PROVE Fin(f, k)'
    <3>1. CASE f.con = c BY <2>1, <3>1
    <3>2. CASE f.con # c
      <4>1. f.con \in 1..MaxConexiones => par'[f.con] = par[f.con] BY <1>2, <3>2
      <4>2. f.con = tcp.con /\ pc \in {"cerrar", "fin"} BY <2>1 DEF IFlujo, ISegmentos, SaleFin
      <4>3. par'[f.con] = par[f.con] BY <3>2, <1>1, <1>2 DEF PasoPar, TipoCon
      <4> QED BY <1>1, <1>5, <2>1, <4>3 DEF Fin
    <3> QED BY <3>1, <3>2
  <2>2. \A f \in salen : f.fl = "FA" =>
          /\ f.con = tcp.con /\ pc \in {"cerrar", "fin"} /\ f.dat = <<>>
          /\ \E k \in 0..Len(P[f.con]) : Fin(f, k)'
    BY <2>1 DEF IFlujo, ISegmentos, SaleFin
  <2>3. \A f \in salen, g \in salen : f.fl = "FA" /\ g.fl = "FA" => f.seq = g.seq
    BY DEF IFlujo, ISegmentos, SaleFin
  <2> QED BY <1>1, <2>2, <2>3 DEF SaleFin
<1>11. Tomados(P)'
  <2>1. ASSUME NEW d \in 1..MaxConexiones, d # c PROVE Tomado(P, d)'
    <3>1. par'[d] = par[d] BY <1>2, <2>1
    <3>2. FinTomado(d) => FinTomado(d)' BY <1>1, <1>4, <1>5, <3>1 DEF FinTomado
    <3>3. Tomado(P, d) BY DEF IFlujo, ISegmentos, Tomados
    <3> QED BY <1>1, <1>4, <3>1, <3>2, <3>3 DEF Tomado
  <2> QED BY <2>1 DEF Tomados
<1>12. LlegaSyn' BY DEF IFlujo, ISegmentos, LlegaSyn
<1>13. LlegaDatos'
  <2>1. ASSUME NEW f \in llegan, f.fl \in {"A", "FA"} PROVE DatoBien(f)'
    <3>1. DatoBien(f) BY <2>1 DEF IFlujo, ISegmentos, LlegaDatos, DatoBien
    <3>2. CASE f.con # c
      <4>1. par'[f.con] = par[f.con] BY <1>2, <3>1, <3>2 DEF DatoBien
      <4> QED BY <1>1, <1>4, <3>1, <4>1 DEF DatoBien
    <3>3. CASE f.con = c
      <4>1. q.est # "nada" /\ AcuseDe(q, f.ack) BY <3>1, <3>3 DEF Crece, DatoBien
      <4>2. (f.dat = <<>> /\ f.fl = "A") \/ (q.hecho = 1 /\ Parte(q, f))
        BY <3>1, <3>3 DEF Crece, DatoBien, Parte
      <4> QED BY <1>1, <1>2, <1>4, <3>1, <3>3, <4>1, <4>2 DEF DatoBien
    <3> QED BY <3>2, <3>3
  <2>2. \A f \in llegan' : f.fl \in {"A", "FA"} => DatoBien(f)' BY <2>1
  <2> QED BY <2>2 DEF LlegaDatos, DatoBien
<1>14. Emisor' BY <1>1, <1>3 DEF IFlujo, Emisor
<1>15. Entregado'
  <2>1. ASSUME EnCon, tcp.estado >= 2, tcp.ack_de_datos = 1 PROVE Len(par'[tcp.con].datos) >= op.k
    <3>1. tcp.con \in 1..MaxConexiones /\ op.k \in Nat BY <2>1, EnCursoSinFin DEF IFlujo
    <3>2. Len(par[tcp.con].datos) >= op.k BY <2>1 DEF IFlujo, Entregado
    <3>3. CASE tcp.con = c
      <4>1. Len(par[c].datos) \in Nat /\ Len(q.datos) \in Nat
        <5>1. par[c].datos \in Seq(Unidades) BY <1>1 DEF TipoCon, ParTipo
        <5>2. q.datos \in Seq(Unidades) BY <1>1 DEF ParTipo
        <5> QED BY <5>1, <5>2
      <4> QED BY <1>2, <3>1, <3>2, <3>3, <4>1 DEF Crece
    <3>4. CASE tcp.con # c BY <1>2, <3>1, <3>2, <3>4
    <3> QED BY <3>3, <3>4
  <2> QED BY <1>1, <1>3, <2>1 DEF Entregado
<1>16. Receptor'
  <2>1. ASSUME EnCon PROVE Toma(tcp)'
    <3>1. Toma(tcp) /\ tcp.con \in 1..MaxConexiones BY <2>1, EnCursoSinFin DEF IFlujo, Receptor
    <3>2. CASE tcp.con # c
      <4>1. par'[tcp.con] = par[tcp.con] BY <1>2, <3>1, <3>2
      <4> QED BY <1>1, <3>1, <4>1 DEF Toma
    <3>3. CASE tcp.con = c /\ q.resp = par[c].resp
      <4>1. par'[tcp.con].resp = par[tcp.con].resp
            /\ (par[tcp.con].hecho = 1 => par'[tcp.con].hecho = 1)
        BY <1>2, <3>3 DEF Crece
      <4>2. \A R : Recibido(tcp, par[tcp.con], R) => Recibido(tcp, par'[tcp.con], R)
        BY <4>1 DEF Recibido
      <4> QED BY <1>1, <3>1, <4>1, <4>2 DEF Toma
    <3> QED BY <2>1, <3>2, <3>3
  <2> QED BY <1>1, <1>3, <2>1 DEF IFlujo, Receptor
<1> QED BY <1>6, <1>7, <1>8, <1>9, <1>10, <1>11, <1>12, <1>13, <1>14, <1>15, <1>16 DEF IFlujo, ISegmentos

\* The number of a peer's end is that of what it has taken, with or without the FIN.
LEMMA AcuseCierto ==
    ASSUME NEW P, NEW c, Tomado(P, c), par[c].est # "nada", Len(par[c].datos) \in Nat
    PROVE  AcuseDe(par[c], par[c].rcv)
<1>1. PICK n \in Nat : n = Len(par[c].datos) OBVIOUS
<1>2. par[c].rcv = Mas(Isn, 1 + n) \/ par[c].rcv = Mas(Isn, 2 + n) BY <1>1 DEF Tomado, FinTomado
<1>3. CASE par[c].rcv = Mas(Isn, 1 + n)
  <2>1. n \in 0..(n + 1) /\ n # n + 1 OBVIOUS
  <2> QED BY <1>1, <1>3, <2>1 DEF AcuseDe
<1>4. CASE par[c].rcv = Mas(Isn, 2 + n)
  <2>1. n + 1 \in 0..(n + 1) /\ 1 + (n + 1) = 2 + n OBVIOUS
  <2> QED BY <1>1, <1>4, <2>1 DEF AcuseDe
<1> QED BY <1>2, <1>3, <1>4

LEMMA ParAbortaFlujo ==
    ASSUME NEW P, TipoCon, IFlujo(P), NEW c \in 1..MaxConexiones, ParAborta(c)
    PROVE  TipoCon' /\ IFlujo(P)'
<1>1. /\ par[c].est = "abierta" /\ par' = [par EXCEPT ![c].est = "abortada"]
      /\ llegan' = llegan \cup {Acuse(c, par[c], "R")} /\ UNCHANGED <<pc, op, tcp, salen>>
  BY DEF ParAborta, ajenos, pila
<1>2. par \in [1..MaxConexiones -> ParTipo] /\ par[c] \in ParTipo BY DEF TipoCon
<1> DEFINE q == [par[c] EXCEPT !.est = "abortada"]
<1>3. /\ q \in ParTipo /\ q.est = "abortada" /\ q.rcv = par[c].rcv /\ q.datos = par[c].datos
      /\ q.resp = par[c].resp /\ q.hecho = par[c].hecho
  BY <1>2 DEF ParTipo
<1>4. par' = [par EXCEPT ![c] = q] /\ par'[c] = q BY <1>1, <1>2
<1> HIDE DEF q
<1>5. PasoPar(c, q) BY <1>1, <1>3, <1>4 DEF PasoPar
<1>6. Crece(par[c], q)
  <2>1. Len(par[c].datos) \in Nat BY Cortos DEF IFlujo
  <2> QED BY <1>3, <2>1 DEF Crece, AcuseDe
<1>7. \A d, n : Hasta(d, n)' <=> Hasta(d, n) BY <1>1 DEF Hasta
<1>8. Tomado(P, c)'
  <2>1. Tomado(P, c) BY DEF IFlujo, ISegmentos, Tomados
  <2>2. Actual(c)' <=> Actual(c) BY <1>1 DEF Actual, EnCon
  <2>3. FinTomado(c) => FinTomado(c)' BY <1>1, <1>3, <1>4, <1>7, <2>2 DEF FinTomado
  <2> QED BY <1>1, <1>3, <1>4, <2>1, <2>2, <2>3 DEF Tomado
<1>9. \A g, k : g.con = c /\ Fin(g, k) => Fin(g, k)' BY <1>1, <1>3, <1>4, <1>7 DEF Fin
<1>10. \A f \in llegan' : f \in llegan \/ f.fl = "R" BY <1>1 DEF Acuse
<1> QED BY <1>3, <1>5, <1>6, <1>8, <1>9, <1>10, ParBasta

LEMMA ParSynFlujo ==
    ASSUME NEW P, TipoCon, IEnvio, IFlujo(P), NEW f \in salen, ParSyn(f) PROVE TipoCon' /\ IFlujo(P)'
<1> DEFINE c == f.con
           q == [ParCero EXCEPT !.est = "abierta", !.rcv = Mas(Isn, 1)]
<1>1. f.fl = "S" /\ f.seq = Isn /\ par[c].est = "nada" BY DEF ParSyn, IFlujo, ISegmentos, SaleSyn
<1>2. /\ par' = [par EXCEPT ![c] = q] /\ UNCHANGED <<pc, op, tcp, salen>>
      /\ \A g \in llegan' : g \in llegan \/ (g.fl = "SA" /\ g.seq = IsnPar /\ g.dat = <<>>)
  BY <1>1 DEF ParSyn, ajenos, pila
<1>3. c \in 1..MaxConexiones
  <2>1. Enlace(c) BY <1>1 DEF IEnvio, Enlazados, Segmental
  <2>2. tcp.con <= MaxConexiones /\ tcp.con \in Nat BY DEF IEnvio, Activa, TipoCon, TcpTipo
  <2> QED BY <2>1, <2>2, LimitesAssumption DEF Enlace
<1>4. par[c] = ParCero /\ Tomado(P, c) BY <1>1, <1>3 DEF IFlujo, ISegmentos, Tomados, Tomado
<1>5. Mas(Isn, 1) \in Nat
  <2>1. 1 \in 0..7 OBVIOUS
  <2> QED BY <2>1, MasTipo, ModuloAssumption
<1>6. q \in ParTipo
  <2>1. PICK r \in Nat : r = Mas(Isn, 1) BY <1>5
  <2>2. PICK e \in {"nada", "abierta", "abortada"} : e = "abierta" OBVIOUS
  <2>3. par[c] \in ParTipo BY <1>3 DEF TipoCon
  <2>4. q = [par[c] EXCEPT !.est = e, !.rcv = r] BY <1>4, <2>1, <2>2
  <2> QED BY <2>3, <2>4 DEF ParTipo
<1>7. q.est = "abierta" /\ q.rcv = Mas(Isn, 1) /\ q.datos = <<>> /\ q.resp = <<>> /\ q.hecho = 0
  BY DEF ParCero
<1>8. par'[c] = q BY <1>2, <1>3 DEF TipoCon
<1> HIDE DEF q
<1>9. PasoPar(c, q) BY <1>2, <1>3, <1>6 DEF PasoPar
<1>10. par[c].datos = <<>> /\ par[c].resp = <<>> /\ par[c].hecho = 0 /\ Len(par[c].datos) = 0 /\ Len(q.datos) = 0
  BY <1>4, <1>7 DEF ParCero
<1>11. Crece(par[c], q) BY <1>1, <1>10 DEF Crece
<1>12. Tomado(P, c)'
  <2>1. q.rcv = Mas(Isn, 1 + Len(q.datos))
    <3>1. 1 + 0 = 1 OBVIOUS
    <3> QED BY <1>7, <1>10, <3>1
  <2>2. Actual(c)' <=> Actual(c) BY <1>2 DEF Actual, EnCon
  <2> QED BY <1>2, <1>4, <1>7, <1>8, <1>10, <2>1, <2>2 DEF Tomado
<1>13. \A g, k : g.con = c /\ Fin(g, k) => Fin(g, k)'
  <2>1. q.rcv # Mas(Isn, 2 + Len(q.datos))
    <3>1. 1 \in 0..7 /\ 2 \in 0..7 /\ 2 + 0 = 2 /\ 1 # 2 OBVIOUS
    <3>2. Mas(Isn, 1) # Mas(Isn, 2) BY <3>1, MasUnico, ModuloAssumption
    <3> QED BY <1>7, <1>10, <3>1, <3>2
  <2>2. \A d, n : Hasta(d, n)' <=> Hasta(d, n) BY <1>2 DEF Hasta
  <2> QED BY <1>2, <1>8, <1>10, <2>1, <2>2 DEF Fin
<1>14. q.resp = par[c].resp BY <1>7, <1>10
<1> HIDE DEF c
<1> QED BY <1>2, <1>9, <1>11, <1>12, <1>13, <1>14, ParBasta DEF c

\* An answer leaves once, after a part of the request.
LEMMA ParEnviaFlujo ==
    ASSUME NEW P, TipoCon, IFlujo(P), NEW c \in 1..MaxConexiones, Pedido(c),
           NEW resp \in Seq(Unidades), Len(resp) \in 1..3, ParEnvia(c, resp)
    PROVE  /\ TipoCon' /\ IFlujo(P)' /\ par' = [par EXCEPT ![c] = par'[c]]
           /\ par'[c].hecho = 1 /\ par'[c].resp = resp /\ par'[c].datos = par[c].datos
<1> DEFINE q == [par[c] EXCEPT !.hecho = 1, !.resp = resp]
<1>1. par[c].est = "abierta" /\ par[c].hecho = 0 /\ par[c].datos # <<>> BY DEF Pedido
<1>2. par \in [1..MaxConexiones -> ParTipo] /\ par[c] \in ParTipo BY DEF TipoCon
<1>3. par' = [par EXCEPT ![c] = q] /\ UNCHANGED <<pc, op, tcp, salen>> /\ par'[c] = q
  BY <1>2 DEF ParEnvia, ajenos, pila
<1>4. q \in ParTipo
  <2>1. ASSUME NEW h \in {0, 1} PROVE [par[c] EXCEPT !.hecho = h, !.resp = resp] \in ParTipo
    BY <1>2 DEF ParTipo
  <2>2. 1 \in {0, 1} OBVIOUS
  <2> QED BY <2>1, <2>2
<1>5. q.hecho = 1 /\ q.resp = resp /\ q.datos = par[c].datos /\ q.est = par[c].est /\ q.rcv = par[c].rcv
  BY <1>2 DEF ParTipo
<1> HIDE DEF q
<1>6. PasoPar(c, q) BY <1>3, <1>4 DEF PasoPar
<1>7. Tomado(P, c) BY DEF IFlujo, ISegmentos, Tomados
<1>8. par[c].datos \in Seq(Unidades) /\ Len(par[c].datos) \in 0..3 BY Cortos DEF IFlujo
<1>9. Crece(par[c], q) BY <1>1, <1>5, <1>8 DEF Crece, AcuseDe
<1>10. Actual(c)' <=> Actual(c) BY <1>3 DEF Actual, EnCon
<1>11. \A d, n : Hasta(d, n)' <=> Hasta(d, n) BY <1>3 DEF Hasta
<1>12. Tomado(P, c)'
  <2>1. FinTomado(c) => FinTomado(c)' BY <1>3, <1>5, <1>10, <1>11 DEF FinTomado
  <2> QED BY <1>1, <1>3, <1>5, <1>7, <1>10, <2>1 DEF Tomado
<1>13. \A g, k : g.con = c /\ Fin(g, k) => Fin(g, k)' BY <1>3, <1>5, <1>11 DEF Fin
<1>14. ASSUME EnCon, c = tcp.con PROVE Toma(tcp)'
  <2>1. par[c].resp = <<>> BY <1>1, <1>7 DEF Tomado
  <2>2. Toma(tcp) BY <1>14 DEF IFlujo, Receptor
  <2>3. tcp.rx \in Seq(Unidades) /\ tcp.fin_recibido \in {0, 1} BY DEF TipoCon, TcpTipo
  <2>4. tcp.rx = <<>>
    <3>1. <<>> \in Seq(Unidades) /\ IsPrefix(tcp.rx, <<>>) BY <1>14, <2>1, <2>2 DEF Toma
    <3>2. PICK z \in Seq(Unidades) : z = <<>> BY <3>1
    <3>3. Len(tcp.rx) <= Len(z) /\ Len(z) = 0 BY <2>3, <3>1, <3>2, Prefijo
    <3> QED BY <2>3, <3>3
  <2>5. IsPrefix(tcp.rx, resp) BY <2>4, PrefijoVacio
  <2>6. ASSUME tcp.estado >= 2 PROVE Recibido(tcp, q, 0)
    <3>1. PICK R \in 0..Len(par[c].resp) : Recibido(tcp, par[c], R) BY <1>14, <2>2, <2>6 DEF Toma
    <3>2. R = 0 BY <2>1, <3>1
    <3>3. tcp.fin_recibido # 1 BY <1>1, <3>1 DEF Recibido
    <3> QED BY <3>1, <3>2, <3>3 DEF Recibido
  <2>7. 0 \in 0..Len(resp) OBVIOUS
  <2>8. tcp.estado >= 2 => \E R \in 0..Len(q.resp) : Recibido(tcp, q, R) BY <1>5, <2>6, <2>7
  <2> QED BY <1>3, <1>5, <1>14, <2>2, <2>5, <2>8 DEF Toma
<1>15. PICK corte \in 0..(Len(resp) - 1) :
         \A f \in llegan' : f \in llegan \/
           /\ f.con = c /\ f.fl \in {"A", "FA"} /\ f.ack = par[c].rcv
           /\ \/ f.seq = Mas(IsnPar, corte + 1) /\ f.dat = SubSeq(resp, corte + 1, Len(resp))
              \/ corte > 0 /\ f.fl = "A" /\ f.seq = Mas(IsnPar, 1) /\ f.dat = SubSeq(resp, 1, corte)
  BY DEF ParEnvia
<1>16. ASSUME NEW f \in llegan', f \notin llegan PROVE f.fl \in {"A", "FA"} /\ DatoBien(f)'
  <2>1. /\ f.con = c /\ f.fl \in {"A", "FA"} /\ f.ack = par[c].rcv
        /\ \/ f.seq = Mas(IsnPar, corte + 1) /\ f.dat = SubSeq(resp, corte + 1, Len(resp))
           \/ corte > 0 /\ f.fl = "A" /\ f.seq = Mas(IsnPar, 1) /\ f.dat = SubSeq(resp, 1, corte)
    BY <1>15, <1>16
  <2>2. PICK l \in 1..3 : l = Len(resp) OBVIOUS
  <2>3. corte \in 0..2 /\ corte + 1 \in 1..l /\ l \in 1..l /\ 1 \in 1..l BY <2>2
  <2>4. Parte(q, f)
    <3>1. CASE f.seq = Mas(IsnPar, corte + 1) /\ f.dat = SubSeq(resp, corte + 1, Len(resp))
      <4>1. corte + 1 <= l BY <2>3
      <4> QED BY <1>5, <2>2, <2>3, <3>1, <4>1 DEF Parte
    <3>2. CASE corte > 0 /\ f.fl = "A" /\ f.seq = Mas(IsnPar, 1) /\ f.dat = SubSeq(resp, 1, corte)
      <4>1. corte \in 1..l /\ 1 <= corte BY <2>3, <3>2
      <4> QED BY <1>5, <2>2, <2>3, <3>2, <4>1 DEF Parte
    <3> QED BY <2>1, <3>1, <3>2
  <2>5. AcuseDe(q, f.ack)
    <3>1. AcuseDe(par[c], par[c].rcv) BY <1>1, <1>7, <1>8, AcuseCierto
    <3> QED BY <1>5, <2>1, <3>1 DEF AcuseDe
  <2>6. Actual(c) => pc # "conectar"
    <3>1. Actual(c) => Len(par[c].datos) <= op.k BY <1>7 DEF Tomado
    <3>2. Len(par[c].datos) >= 1 BY <1>1, <1>8
    <3>3. pc = "conectar" => op.k = 0 BY DEF IFlujo, Emisor
    <3> QED BY <1>8, <3>1, <3>2, <3>3
  <2>7. q.hecho = 1 /\ q.est # "nada" /\ c \in 1..MaxConexiones /\ f.con = c BY <1>1, <1>5, <2>1
  <2>8. DatoBien(f)' BY <1>3, <1>10, <2>4, <2>5, <2>6, <2>7 DEF DatoBien
  <2> QED BY <2>1, <2>8
<1>17. TipoCon' /\ IFlujo(P)' BY <1>6, <1>9, <1>12, <1>13, <1>14, <1>16, ParBasta
<1> QED BY <1>3, <1>5, <1>17

\* What is to be shown of the end of a peer after a segment.
ParBien(P, c, p, q) ==
  /\ q \in ParTipo /\ Crece(p, q) /\ Tomado(P, c)' /\ q.est = "abierta" /\ q.resp = p.resp
  /\ \A g \in salen, k \in 0..Len(P[c]) : g.fl = "FA" /\ g.con = c /\ Fin(g, k) => Fin(g, k)'

\* A segment that is taken is the next of the request, or the FIN after the last.
LEMMA ParSegmentoFlujo ==
    ASSUME NEW P, TipoCon, IEnvio, IFlujo(P), NEW f \in salen, ParSegmento(f),
           NEW c, c = f.con, NEW p, p = par[c]
    PROVE  TipoCon' /\ IFlujo(P)'
<1>1. f.fl \in {"PA", "FA"} /\ p.est = "abierta" BY DEF ParSegmento
<1>2. c \in 1..MaxConexiones
  <2>1. Enlace(c) BY <1>1 DEF IEnvio, Enlazados, Segmental
  <2>2. tcp.con <= MaxConexiones /\ tcp.con \in Nat BY DEF IEnvio, Activa, TipoCon, TcpTipo
  <2> QED BY <2>1, <2>2, LimitesAssumption DEF Enlace
<1>3. par \in [1..MaxConexiones -> ParTipo] /\ p \in ParTipo BY <1>2 DEF TipoCon
<1>4. /\ P[c] \in Seq(Unidades) /\ Len(P[c]) \in 0..3 /\ p.datos \in Seq(Unidades)
      /\ Len(p.datos) \in 0..Len(P[c]) /\ Len(p.datos) \in 0..3
  BY <1>2, Cortos DEF IFlujo
<1>5. Tomado(P, c) BY <1>2 DEF IFlujo, ISegmentos, Tomados
<1> DEFINE m == Mas(p.rcv, Len(f.dat) + IF f.fl = "FA" THEN 1 ELSE 0)
           q == IF f.seq = p.rcv THEN [p EXCEPT !.datos = p.datos \o f.dat, !.rcv = m] ELSE p
<1>6. par' = [par EXCEPT ![c] = q] /\ llegan' = llegan \cup {Acuse(c, q, "A")}
      /\ UNCHANGED <<pc, op, tcp, salen>>
  BY DEF ParSegmento, ajenos, pila
<1>7. par'[c] = q BY <1>2, <1>3, <1>6
<1>8. \A d, n : Hasta(d, n)' <=> Hasta(d, n) BY <1>6 DEF Hasta
<1>9. Actual(c)' <=> Actual(c) BY <1>6 DEF Actual, EnCon
<1>10. PICK n \in 0..3 : n = Len(p.datos) BY <1>4
<1>11. 1 + n \in 0..7 /\ 2 + n \in 0..7 /\ 1 + n # 2 + n OBVIOUS
<1>12. p.rcv = Mas(Isn, 1 + n) \/ FinTomado(c) BY <1>1, <1>5, <1>10 DEF Tomado
<1>13. FinTomado(c) => p.rcv = Mas(Isn, 2 + n) /\ Hasta(c, n) BY <1>10 DEF FinTomado
<1>14. Mas(Isn, 1 + n) # Mas(Isn, 2 + n) BY <1>11, MasUnico, ModuloAssumption
<1> HIDE DEF m
<1>15. ASSUME f.seq # p.rcv PROVE ParBien(P, c, p, q)
  <2>1. q = p BY <1>15
  <2> HIDE DEF q
  <2>2. Crece(p, q) BY <2>1, <1>4 DEF Crece
  <2>3. FinTomado(c) => FinTomado(c)' BY <1>6, <1>7, <1>8, <1>9, <2>1 DEF FinTomado
  <2>4. Tomado(P, c)' BY <1>5, <1>6, <1>7, <1>9, <2>1, <2>3 DEF Tomado
  <2>5. \A g, k : g.con = c /\ Fin(g, k) => Fin(g, k)' BY <1>6, <1>7, <1>8, <2>1 DEF Fin
  <2> QED BY <1>1, <1>3, <2>1, <2>2, <2>4, <2>5 DEF ParBien
<1>16. ASSUME f.seq = p.rcv, f.fl = "PA" PROVE ParBien(P, c, p, q)
  <2>1. PICK j \in 1..Len(P[c]) : Unidad(P, f, j) BY <1>16 DEF IFlujo, ISegmentos, SaleDatos
  <2>2. f.seq = Mas(Isn, j) /\ f.dat = <<P[c][j]>> /\ (Actual(c) => j <= op.k) BY <2>1 DEF Unidad
  <2>3. PICK l \in 0..3 : l = Len(P[c]) BY <1>4
  <2>15. j \in 1..l BY <2>1, <2>3
  <2>4. j \in 1..3 /\ j <= l /\ j \in 0..7 BY <2>15
  <2>5. ASSUME NEW n2, Hasta(c, n2), NEW h \in 0..3, h = n2 PROVE j <= h
    <3>1. PICK i \in 1..h : f.seq = Mas(Isn, i) BY <1>16, <2>5 DEF Hasta
    <3>2. i \in 0..7 OBVIOUS
    <3>3. i = j BY <2>2, <2>4, <3>1, <3>2, MasUnico, ModuloAssumption
    <3> QED BY <3>1, <3>3
  <2>6. ~FinTomado(c)
    <3>1. ASSUME FinTomado(c) PROVE FALSE
      <4>1. j = 2 + n BY <1>11, <1>13, <1>16, <2>2, <2>4, <3>1, MasUnico, ModuloAssumption
      <4>2. j <= n BY <1>13, <2>5, <3>1
      <4> QED BY <4>1, <4>2
    <3> QED BY <3>1
  <2>7. p.rcv = Mas(Isn, 1 + n) BY <1>12, <2>6
  <2>8. j = n + 1
    <3>1. 1 + n = j BY <1>11, <1>16, <2>2, <2>4, <2>7, MasUnico, ModuloAssumption
    <3> QED BY <3>1
  <2>9. m = Mas(Isn, 2 + n) /\ m \in Nat
    <3>1. Len(f.dat) + (IF f.fl = "FA" THEN 1 ELSE 0) = 1 BY <1>16, <2>2
    <3>2. m = Mas(Mas(Isn, 1 + n), 1) BY <2>7, <3>1 DEF m
    <3>3. 1 \in 0..7 /\ 1 + n + 1 <= 7 /\ 1 + n + 1 = 2 + n OBVIOUS
    <3>4. m = Mas(Isn, 2 + n) BY <1>11, <3>2, <3>3, MasSuma, ModuloAssumption
    <3> QED BY <1>11, <3>4, MasTipo, ModuloAssumption
  <2> DEFINE d == p.datos \o f.dat
  <2>10. d \in Seq(Unidades) /\ Len(d) = n + 1 /\ d # <<>> /\ IsPrefix(d, P[c])
    <3>1. P[c][j] \in Unidades BY <1>4, <2>1
    <3>2. PICK x \in Unidades : x = P[c][j] BY <3>1
    <3>3. d = p.datos \o <<x>> BY <2>2, <3>2
    <3> HIDE DEF d
    <3>4. d \in Seq(Unidades) /\ Len(d) = n + 1 /\ d[n + 1] = x /\ \A i \in 1..n : d[i] = p.datos[i]
      BY <1>4, <1>10, <3>3
    <3>5. \A i \in 1..n : p.datos[i] = P[c][i]
      <4>1. IsPrefix(p.datos, P[c]) BY <1>5 DEF Tomado
      <4> QED BY <1>4, <1>10, <4>1, Prefijo
    <3>6. ASSUME NEW i \in 1..Len(d) PROVE d[i] = P[c][i]
      <4>1. i \in 1..n \/ i = n + 1 BY <3>4
      <4>2. CASE i \in 1..n BY <3>4, <3>5, <4>2
      <4>3. CASE i = n + 1 BY <2>8, <3>2, <3>4, <4>3
      <4> QED BY <4>1, <4>2, <4>3
    <3>7. Len(d) <= Len(P[c]) BY <2>3, <2>4, <2>8, <3>4
    <3>8. IsPrefix(d, P[c]) BY <1>4, <3>4, <3>6, <3>7, Prefijo
    <3>9. d # <<>> BY <3>4
    <3> QED BY <3>4, <3>8, <3>9
  <2> HIDE DEF d
  <2>11. q \in ParTipo /\ q.datos = d /\ q.rcv = m /\ q.est = "abierta" /\ q.resp = p.resp /\ q.hecho = p.hecho
    <3>1. q = [p EXCEPT !.datos = d, !.rcv = m] BY <1>16 DEF d
    <3> HIDE DEF q
    <3> QED BY <1>1, <1>3, <2>9, <2>10, <3>1 DEF ParTipo
  <2> HIDE DEF q
  <2>12. Crece(p, q)
    <3>1. ASSUME NEW a, AcuseDe(p, a) PROVE AcuseDe(q, a)
      <4>1. PICK i \in 0..(n + 1) : a = Mas(Isn, 1 + i) /\ (i = n + 1 => p.rcv = Mas(Isn, 2 + n))
        BY <1>10, <3>1 DEF AcuseDe
      <4>2. i # n + 1 BY <1>14, <2>7, <4>1
      <4>3. i \in 0..(n + 1 + 1) /\ i # n + 1 + 1 BY <4>1, <4>2
      <4> QED BY <2>10, <2>11, <4>1, <4>3 DEF AcuseDe
    <3>2. Len(p.datos) <= Len(q.datos) BY <1>10, <2>10, <2>11
    <3> QED BY <2>11, <3>1, <3>2 DEF Crece
  <2>13. Tomado(P, c)'
    <3>1. q.rcv = Mas(Isn, 1 + Len(q.datos))
      <4>1. 1 + (n + 1) = 2 + n OBVIOUS
      <4> QED BY <2>9, <2>10, <2>11, <4>1
    <3>2. Actual(c) => Len(q.datos) <= op.k BY <2>2, <2>8, <2>10, <2>11
    <3> QED BY <1>5, <1>6, <1>7, <1>9, <2>10, <2>11, <3>1, <3>2 DEF Tomado
  <2>14. ASSUME NEW g \in salen, NEW k \in 0..Len(P[c]), g.con = c, Fin(g, k) PROVE Fin(g, k)'
    <3>5. k \in 0..l BY <2>3
    <3>1. PICK h \in 0..3 : h = k BY <3>5
    <3>2. j <= h BY <2>5, <2>14, <3>1 DEF Fin
    <3>3. Len(q.datos) <= k BY <2>8, <2>10, <2>11, <3>1, <3>2
    <3>4. q.rcv # Mas(Isn, 2 + Len(q.datos))
      <4>1. 2 + (n + 1) \in 0..7 /\ 2 + n # 2 + (n + 1) OBVIOUS
      <4>2. Mas(Isn, 2 + n) # Mas(Isn, 2 + (n + 1)) BY <1>11, <4>1, MasUnico, ModuloAssumption
      <4> QED BY <2>9, <2>10, <2>11, <4>2
    <3> QED BY <1>6, <1>7, <1>8, <2>14, <3>3, <3>4 DEF Fin
  <2> QED BY <2>11, <2>12, <2>13, <2>14 DEF ParBien
<1>17. ASSUME f.seq = p.rcv, f.fl = "FA" PROVE ParBien(P, c, p, q)
  <2>1. PICK k \in 0..Len(P[c]) : Fin(f, k) BY <1>17 DEF IFlujo, ISegmentos, SaleFin
  <2>2. f.dat = <<>> /\ pc \in {"cerrar", "fin"} BY <1>17 DEF IFlujo, ISegmentos, SaleFin
  <2>3. /\ f.seq = Mas(Isn, k + 1) /\ Hasta(c, k) /\ n <= k /\ (pc = "cerrar" => k = op.k)
        /\ p.est # "nada" /\ p.rcv = Mas(Isn, 2 + n) => n = k
    BY <1>10, <2>1 DEF Fin
  <2>4. PICK l \in 0..3 : l = Len(P[c]) BY <1>4
  <2>15. k \in 0..l BY <2>1, <2>4
  <2>5. k \in 0..3 BY <2>15
  <2>6. k + 1 \in 0..7 BY <2>5
  <2>7. ~FinTomado(c)
    <3>1. ASSUME FinTomado(c) PROVE FALSE
      <4>1. n = k BY <1>1, <1>13, <2>3, <3>1
      <4>2. k + 1 = 2 + n BY <1>11, <1>13, <1>17, <2>3, <2>6, <3>1, MasUnico, ModuloAssumption
      <4> QED BY <4>1, <4>2
    <3> QED BY <3>1
  <2>8. p.rcv = Mas(Isn, 1 + n) BY <1>12, <2>7
  <2>9. k = n
    <3>1. 1 + n = k + 1 BY <1>11, <1>17, <2>3, <2>6, <2>8, MasUnico, ModuloAssumption
    <3> QED BY <2>5, <3>1
  <2>10. m = Mas(Isn, 2 + n) /\ m \in Nat
    <3>1. Len(f.dat) + (IF f.fl = "FA" THEN 1 ELSE 0) = 1 BY <1>17, <2>2
    <3>2. m = Mas(Mas(Isn, 1 + n), 1) BY <2>8, <3>1 DEF m
    <3>3. 1 \in 0..7 /\ 1 + n + 1 <= 7 /\ 1 + n + 1 = 2 + n OBVIOUS
    <3>4. m = Mas(Isn, 2 + n) BY <1>11, <3>2, <3>3, MasSuma, ModuloAssumption
    <3> QED BY <1>11, <3>4, MasTipo, ModuloAssumption
  <2>11. q \in ParTipo /\ q.datos = p.datos /\ q.rcv = m /\ q.est = "abierta" /\ q.resp = p.resp
         /\ q.hecho = p.hecho
    <3>1. p.datos \o f.dat = p.datos BY <1>4, <2>2
    <3>2. q = [p EXCEPT !.datos = p.datos, !.rcv = m] BY <1>17, <3>1
    <3> HIDE DEF q
    <3> QED BY <1>1, <1>3, <1>4, <2>10, <3>2 DEF ParTipo
  <2> HIDE DEF q
  <2>12. Crece(p, q)
    <3>1. ASSUME NEW a, AcuseDe(p, a) PROVE AcuseDe(q, a)
      BY <1>10, <2>10, <2>11, <3>1 DEF AcuseDe
    <3> QED BY <1>4, <2>11, <3>1 DEF Crece
  <2>13. Tomado(P, c)'
    <3>1. Actual(c) => pc = "cerrar" BY <2>2 DEF Actual, EnCon, EnConexion
    <3>2. FinTomado(c)'
      BY <1>6, <1>7, <1>8, <1>9, <1>10, <2>3, <2>9, <2>10, <2>11, <3>1 DEF FinTomado
    <3> QED BY <1>5, <1>6, <1>7, <1>9, <2>11, <3>2 DEF Tomado
  <2>14. ASSUME NEW g \in salen, NEW i \in 0..Len(P[c]), g.fl = "FA", g.con = c, Fin(g, i) PROVE Fin(g, i)'
    <3>1. g.seq = f.seq BY <1>17, <2>14 DEF IFlujo, ISegmentos, SaleFin
    <3>7. i \in 0..l BY <2>4
    <3>2. i \in 0..3 BY <3>7
    <3>3. i + 1 \in 0..7 BY <3>2
    <3>4. g.seq = Mas(Isn, i + 1) BY <2>14 DEF Fin
    <3>5. i + 1 = k + 1 BY <2>3, <2>6, <3>1, <3>3, <3>4, MasUnico, ModuloAssumption
    <3>6. i = n BY <2>5, <2>9, <3>2, <3>5
    <3> QED BY <1>6, <1>7, <1>8, <1>10, <2>11, <2>14, <3>6 DEF Fin
  <2> QED BY <2>11, <2>12, <2>13, <2>14 DEF ParBien
<1>18. ParBien(P, c, p, q) BY <1>1, <1>15, <1>16, <1>17
<1> HIDE DEF q
<1>19. /\ q \in ParTipo /\ Crece(p, q) /\ Tomado(P, c)' /\ q.est = "abierta" /\ q.resp = p.resp
       /\ \A g \in salen, k \in 0..Len(P[c]) : g.fl = "FA" /\ g.con = c /\ Fin(g, k) => Fin(g, k)'
  BY <1>18 DEF ParBien
<1>20. PasoPar(c, q) BY <1>2, <1>6, <1>19 DEF PasoPar
<1>21. AcuseDe(q, q.rcv)
  <2>1. q.datos \in Seq(Unidades) BY <1>19 DEF ParTipo
  <2>2. Len(q.datos) \in Nat BY <2>1
  <2>3. q.rcv = Mas(Isn, 1 + Len(q.datos)) \/ q.rcv = Mas(Isn, 2 + Len(q.datos))
    BY <1>7, <1>19 DEF Tomado, FinTomado
  <2>4. PICK x \in Nat : x = Len(q.datos) BY <2>2
  <2>5. x \in 0..(x + 1) /\ x # x + 1 /\ x + 1 \in 0..(x + 1) /\ 1 + (x + 1) = 2 + x OBVIOUS
  <2> QED BY <2>3, <2>4, <2>5 DEF AcuseDe
<1>22. Actual(c) => pc # "conectar"
  <2>1. CASE f.fl = "FA" BY <2>1 DEF IFlujo, ISegmentos, SaleFin
  <2>2. CASE f.fl = "PA"
    <3>1. PICK j \in 1..Len(P[c]) : Unidad(P, f, j) BY <2>2 DEF IFlujo, ISegmentos, SaleDatos
    <3>2. Actual(c) => j <= op.k BY <3>1 DEF Unidad
    <3>3. pc = "conectar" => op.k = 0 BY DEF IFlujo, Emisor
    <3>4. j >= 1 BY <1>4, <3>1
    <3> QED BY <1>4, <3>1, <3>2, <3>3, <3>4
  <2> QED BY <1>1, <2>1, <2>2
<1>23. \A g \in llegan' : g \in llegan \/ (g.fl = "A" /\ DatoBien(g)')
  <2> DEFINE g == Acuse(c, q, "A")
  <2>1. g.con = c /\ g.fl = "A" /\ g.dat = <<>> /\ g.ack = q.rcv BY DEF Acuse
  <2> HIDE DEF g
  <2>2. DatoBien(g)' BY <1>2, <1>6, <1>7, <1>9, <1>19, <1>21, <1>22, <2>1 DEF DatoBien
  <2> QED BY <1>6, <2>1, <2>2 DEF g
<1> QED BY <1>19, <1>20, <1>23, ParBasta

\* What the receivers answer is made of one to three units.
LEMMA RespuestaPar ==
    ASSUME TipoCon, TipoMensajes, NEW c \in 1..MaxConexiones, ParMensaje(c) \/ ParLog(c) \/ ParWeb(c)
    PROVE  Pedido(c) /\ \E resp \in Seq(Unidades) : Len(resp) \in 1..3 /\ ParEnvia(c, resp)
<1>1. par[c].datos \in Seq(Unidades) BY DEF TipoCon, ParTipo
<1>2. Pedido(c) BY DEF ParMensaje, ParLog, ParWeb
<1>3. par[c].datos[1] \in Unidades BY <1>1, <1>2 DEF Pedido
<1>4. PICK h \in Unidades : h = par[c].datos[1] BY <1>3
<1>5. h.v \in Nat /\ 0 \in Nat BY DEF Unidades
<1>6. {"texto", "recibido", "vacio", "mensaje", "confirmado", "error", "ack", "html"} \subseteq Claves
  BY DEF Claves
<1>7. \A k \in Claves, v \in Nat : U(k, v) \in Unidades BY UnidadTipo
<1>8. \A a \in Unidades, b \in Unidades : <<a, b>> \in Seq(Unidades) /\ Len(<<a, b>>) \in 1..3
  BY UnidadesSeq
<1> HIDE DEF Claves
<1>9. CASE ParMensaje(c)
  <2>1. /\ U("recibido", 0) \in Unidades /\ U("texto", 0) \in Unidades /\ U("vacio", 0) \in Unidades
        /\ U("confirmado", h.v) \in Unidades /\ U("error", 0) \in Unidades
    BY <1>5, <1>6, <1>7
  <2>2. CASE h.k = "enviar"
    <3>1. ParEnvia(c, <<U("recibido", 0), U("texto", 0)>>) BY <1>4, <1>9, <2>2 DEF ParMensaje
    <3> QED BY <1>2, <1>8, <2>1, <3>1
  <2>3. CASE h.k = "consultar"
    <3>1. ParEnvia(c, IF cola = <<>> THEN <<U("vacio", 0), U("texto", 0)>>
                      ELSE <<U("mensaje", Head(cola)), U("texto", Head(cola))>>)
      BY <1>4, <1>9, <2>3 DEF ParMensaje
    <3>2. CASE cola = <<>> BY <1>2, <1>8, <2>1, <3>1, <3>2
    <3>3. CASE cola # <<>>
      <4>1. Head(cola) \in Nat BY <3>3 DEF TipoMensajes
      <4>2. U("mensaje", Head(cola)) \in Unidades /\ U("texto", Head(cola)) \in Unidades
        BY <1>6, <1>7, <4>1
      <4> QED BY <1>2, <1>8, <3>1, <3>3, <4>2
    <3> QED BY <3>2, <3>3
  <2>4. CASE h.k = "confirmar"
    <3>1. \/ ParEnvia(c, <<U("confirmado", h.v), U("texto", 0)>>)
          \/ ParEnvia(c, <<U("error", 0), U("texto", 0)>>)
      BY <1>4, <1>9, <2>4 DEF ParMensaje
    <3> QED BY <1>2, <1>8, <2>1, <3>1
  <2> QED BY <1>4, <1>9, <2>2, <2>3, <2>4 DEF ParMensaje
<1>10. CASE ParLog(c)
  <2>1. ParEnvia(c, <<U("ack", h.v)>>) BY <1>4, <1>10 DEF ParLog
  <2>2. U("ack", h.v) \in Unidades BY <1>5, <1>6, <1>7
  <2>3. <<U("ack", h.v)>> \in Seq(Unidades) /\ Len(<<U("ack", h.v)>>) \in 1..3 BY <2>2, UnidadesSeq
  <2> QED BY <1>2, <2>1, <2>3
<1>11. CASE ParWeb(c)
  <2>1. PICK n \in {1, 3} : ParEnvia(c, [i \in 1..n |-> U("html", i)]) BY <1>11 DEF ParWeb
  <2> DEFINE r == [i \in 1..n |-> U("html", i)]
  <2>2. \A i \in 1..n : U("html", i) \in Unidades BY <1>6, <1>7
  <2>3. r \in Seq(Unidades) /\ Len(r) = n
    <3>1. n \in Nat OBVIOUS
    <3>2. r \in [1..n -> Unidades] BY <2>2
    <3> QED BY <3>1, <3>2
  <2>4. Len(r) \in 1..3 BY <2>3
  <2> QED BY <1>2, <2>1, <2>3, <2>4
<1> QED BY <1>9, <1>10, <1>11

LEMMA ParesFlujo ==
    ASSUME NEW P, TipoCon, IEnvio, IFlujo(P), TipoMensajes, Pares PROVE TipoCon' /\ IFlujo(P)'
<1>1. CASE \E f \in salen : ParContesta(f) \/ \E s \in ServidoresDhcp : ParDhcp(f, s)
  <2>1. op \in OpTipo BY DEF TipoCon
  <2>2. Aparte BY <1>1, <2>1, ParesAparte
  <2> QED BY <2>2, AparteBasta
<1>2. CASE \E f \in salen : ParSyn(f) BY <1>2, ParSynFlujo
<1>3. CASE \E f \in salen : ParSegmento(f)
  <2>1. PICK f \in salen : ParSegmento(f) BY <1>3
  <2>2. \E c : c = f.con /\ \E p : p = par[c] OBVIOUS
  <2> QED BY <2>1, <2>2, ParSegmentoFlujo
<1>4. CASE \E c \in 1..MaxConexiones : ParAborta(c) BY <1>4, ParAbortaFlujo
<1>5. CASE \E c \in 1..MaxConexiones : ParMensaje(c) \/ ParLog(c) \/ ParWeb(c)
  <2>1. PICK c \in 1..MaxConexiones : ParMensaje(c) \/ ParLog(c) \/ ParWeb(c) BY <1>5
  <2>2. Pedido(c) /\ \E resp \in Seq(Unidades) : Len(resp) \in 1..3 /\ ParEnvia(c, resp)
    BY <2>1, RespuestaPar
  <2> QED BY <2>2, ParEnviaFlujo
<1> QED BY <1>1, <1>2, <1>3, <1>4, <1>5 DEF Pares

LEMMA FlujoPaso ==
    ASSUME NEW P, TipoCon, TipoRed, IEnvio, IFlujo(P), TipoMensajes, Sesion, Respuesta(P),
           [Next]_vars, ~Conectar
    PROVE  TipoCon' /\ IFlujo(P)'
<1> op \in OpTipo BY DEF TipoCon
<1>1. CASE Sondeo /\ UNCHANGED op
  <2>1. CASE (\E h \in Lan : RecibirArp(h))
               \/ (\E f \in llegan : RecibirEco(f) \/ RecibirDhcp(f) \/ RecibirDns(f))
    BY <1>1, <2>1, SondeoAparte, AparteBasta
  <2> QED BY <1>1, <2>1, RecibirTcpFlujo, ReenviarFlujo, AbandonarFlujo DEF Sondeo
<1>2. CASE Llamada
  <2>1. Aparte
    BY <1>2, DhcpAparte, RetornosAparte, PingAparte, HttpAparte, IntercambiosAparte, DestinoAparte
       DEF Llamada
  <2> QED BY <2>1, AparteBasta
<1>3. CASE Avance
  <2>1. CASE Pedir \/ Conceder \/ DhcpVence \/ OtroEco \/ DnsVence \/ FinHttp \/ FinTransmitir
             \/ FinConsultar \/ FinConfirmar \/ FinTelemetria
    <3>1. Aparte
      BY <2>1, DhcpAparte, RetornosAparte, PingAparte, FinConsultarAparte
    <3> QED BY <3>1, AparteBasta
  <2> QED
    BY <1>3, <2>1, SigueArpFlujo, ConectadoFlujo, AbandonosFlujo, EnviadoFlujo, RespondidoFlujo DEF Avance
<1>4. CASE Pares BY <1>4, ParesFlujo
<1>5. CASE UNCHANGED vars
  <2>1. Aparte BY <1>5 DEF vars, pila, red, Aparte
  <2> QED BY <2>1, AparteBasta
<1> QED BY <1>1, <1>2, <1>3, <1>4, <1>5 DEF Next


-----------------------------------------------------------------------------
(* The messages.  Steps inside a call, and the first one of a call.         *)

Medio ==
  /\ UNCHANGED <<usuario, receptor, guion>> /\ tcp'.con = tcp.con
  /\ \A c \in 1..MaxConexiones : par'[c].hecho = par[c].hecho /\ par'[c].resp = par[c].resp
  /\ EnCurso' => EnCurso /\ op'.tipo = op.tipo
  /\ EnviandoTexto => EnviandoTexto'
  /\ pc' = "libre" => pc = "libre" /\ secuencia' = secuencia

LEMMA MedioMensajes ==
    ASSUME NEW P, IMensajes(P), Medio, Sesion', Respuesta(P)', TipoMensajes', EntregadosEnOrden',
           \A id : Atendido(id) => Atendido(id)'
    PROVE  IMensajes(P)'
<1>1. /\ UNCHANGED <<llamadas, resultado, entregados, descartados, entrantes, cola, ultimo_ack, expedientes,
                     guion>>
      /\ tcp'.con = tcp.con
  BY DEF Medio, usuario, receptor
<1>2. \A c \in 1..MaxConexiones : par'[c].hecho = par[c].hecho /\ par'[c].resp = par[c].resp
  BY DEF Medio
<1>4. \A c, k : Pide(P, c, k)' = Pide(P, c, k) BY <1>1 DEF Pide
<1>5. TextosDeLlamadas(P)'
  <2>1. EnviandoTexto => EnviandoTexto' BY DEF Medio
  <2> QED BY <1>1, <1>4, <2>1 DEF IMensajes, TextosDeLlamadas
<1>6. EntrantesDe(P)' BY <1>1, <1>2, <1>4 DEF IMensajes, EntrantesDe
<1>7. EntrantesDistintos' BY <1>1 DEF IMensajes, EntrantesDistintos
<1>8. Respuestas(P)'
  <2>1. SUFFICES ASSUME NEW c \in 1..MaxConexiones PROVE RespuestaDe(P, c)' BY DEF Respuestas
  <2>2. RespuestaDe(P, c) BY DEF IMensajes, Respuestas
  <2>3. \A k : Dice(c, k)' = Dice(c, k) BY <1>2 DEF Dice
  <2>4. EnCurso' => EnCurso /\ op'.tipo = op.tipo BY DEF Medio
  <2> QED BY <1>1, <1>2, <2>2, <2>3, <2>4 DEF RespuestaDe
<1>9. ColaSigue' BY <1>1 DEF IMensajes, ColaSigue
<1>10. ConfirmaAtendidos(P)' BY <1>1, <1>4 DEF IMensajes, ConfirmaAtendidos
<1>11. Confirmados' BY <1>1 DEF IMensajes, Confirmados
<1>13. Informes'
  <2>1. pc' = "libre" => pc = "libre" /\ secuencia' = secuencia BY DEF Medio
  <2> QED BY <1>1, <2>1 DEF IMensajes, Informes, Informa
<1> QED BY <1>5, <1>6, <1>7, <1>8, <1>9, <1>10, <1>11, <1>13 DEF IMensajes

LEMMA MedioBasta ==
    ASSUME NEW P, IMensajes(P), Medio, Sesion', Respuesta(P)', secuencia' \in Nat,
           UNCHANGED <<pendiente, id_pendiente, destino>>
    PROVE  IMensajes(P)'
<1>1. UNCHANGED <<llamadas, entregados, descartados, entrantes, cola, ultimo_ack>>
  BY DEF Medio, usuario, receptor
<1>2. TipoMensajes' BY <1>1 DEF IMensajes, TipoMensajes
<1>3. EntregadosEnOrden' BY <1>1 DEF IMensajes, EntregadosEnOrden
<1>4. \A id : Atendido(id) => Atendido(id)' BY <1>1 DEF Atendido
<1> QED BY <1>2, <1>3, <1>4, MedioMensajes

\* The end of a call: what it has to report, and what has become of the
\* messages it was about.
Logra ==
  /\ guion[llamadas + 1] = "transmitir" => \E i \in 1..Len(entrantes) : entrantes[i] = llamadas + 1
  /\ guion[llamadas + 1] = "telemetria" => \E e \in expedientes : Len(e) = 3 /\ e[1].v = secuencia

LEMMA TerminaMensajes ==
    ASSUME NEW P, IMensajes(P), TipoPedidos(P), UNCHANGED <<tcp, par, receptor, guion, secuencia>>,
           pc' = "libre", op'.ok = 0, llamadas' = llamadas + 1, resultado' = "ok" => Logra,
           TipoMensajes', EntregadosEnOrden', \A id : Atendido(id) => Atendido(id)'
    PROVE  IMensajes(P)'
<1>1. UNCHANGED <<entrantes, cola, ultimo_ack, expedientes>> BY DEF receptor
<1>2. llamadas \in Nat BY DEF IMensajes, TipoMensajes
<1>3. Sesion' /\ ~EnCurso' /\ Respuesta(P)'
  BY DEF Sesion, EnIntercambio, EnConexion, EnCurso, EnCon, Respuesta
<1>4. \A c, k : Pide(P, c, k)' = Pide(P, c, k) BY DEF Pide
<1>5. TextosDeLlamadas(P)'
  <2>1. ASSUME NEW c \in 1..MaxConexiones, Pide(P, c, "enviar")
        PROVE  Len(P[c]) = 2 /\ P[c][2].v <= llamadas + 1
    <3>1. /\ Len(P[c]) = 2
          /\ P[c][2].v <= llamadas \/ P[c][2].v = llamadas + 1
      BY <2>1 DEF IMensajes, TextosDeLlamadas
    <3>2. P[c] \in Seq(Unidades) BY DEF TipoPedidos
    <3>3. P[c][2] \in Unidades BY <3>1, <3>2
    <3>4. P[c][2].v \in Nat BY <3>3 DEF Unidades
    <3> QED BY <1>2, <3>1, <3>4
  <2> QED BY <1>4, <2>1 DEF IMensajes, TextosDeLlamadas
<1>6. EntrantesDe(P)' BY <1>1, <1>4 DEF IMensajes, EntrantesDe
<1>7. EntrantesDistintos' BY <1>1 DEF IMensajes, EntrantesDistintos
<1>8. Respuestas(P)'
  <2>1. SUFFICES ASSUME NEW c \in 1..MaxConexiones PROVE RespuestaDe(P, c)' BY DEF Respuestas
  <2>2. RespuestaDe(P, c) BY DEF IMensajes, Respuestas
  <2>3. \A k : Dice(c, k)' = Dice(c, k) BY DEF Dice
  <2> QED BY <1>1, <1>3, <2>2, <2>3 DEF RespuestaDe
<1>9. ColaSigue' BY <1>1 DEF IMensajes, ColaSigue
<1>10. ConfirmaAtendidos(P)' BY <1>4 DEF IMensajes, ConfirmaAtendidos
<1>11. Confirmados' BY <1>1 DEF IMensajes, Confirmados
<1>12. Informes' BY <1>1, <1>2 DEF Logra, Informes, Informa
<1> QED BY <1>3, <1>5, <1>6, <1>7, <1>8, <1>9, <1>10, <1>11, <1>12 DEF IMensajes

\* The calls that leave the messages as they were.
LEMMA VuelveMensajes ==
    ASSUME NEW P, IMensajes(P), TipoPedidos(P),
           UNCHANGED <<tcp, par, mensajes, receptor, guion, entregados, descartados>>,
           NEW r, Vuelve(r), r = "ok" => Logra
    PROVE  IMensajes(P)'
<1>1. UNCHANGED <<pendiente, id_pendiente, destino, secuencia>> BY DEF mensajes
<1>2. UNCHANGED <<entrantes, cola, ultimo_ack, expedientes>> BY DEF receptor
<1>3. pc' = "libre" /\ op' = Nada /\ llamadas' = llamadas + 1 /\ resultado' = r BY DEF Vuelve
<1>4. op'.ok = 0 BY <1>3 DEF Nada
<1>5. TipoMensajes' BY <1>1, <1>2, <1>3 DEF IMensajes, TipoMensajes
<1>6. EntregadosEnOrden' BY <1>1, <1>2 DEF IMensajes, EntregadosEnOrden
<1>7. \A id : Atendido(id) => Atendido(id)' BY <1>1 DEF Atendido
<1> QED BY <1>1, <1>3, <1>4, <1>5, <1>6, <1>7, TerminaMensajes

\* What the answer of the connection under way says.
LEMMA RespuestaBuena ==
    ASSUME NEW P, TipoCon, IFlujo(P), IMensajes(P), op.ok = 1, op.tipo # "http",
           NEW u, tcp.rx[1] = u, NEW k, u.k = k
    PROVE  /\ tcp.con \in 1..MaxConexiones /\ P[tcp.con] = op.req /\ pc \in {"cerrar", "fin"}
           /\ Dice(tcp.con, k) /\ par[tcp.con].resp[1] = u /\ RespuestaDe(P, tcp.con)
<1>1. /\ tcp.con \in 1..MaxConexiones /\ P[tcp.con] = op.req /\ pc \in {"cerrar", "fin"}
      /\ IsPrefix(tcp.rx, par[tcp.con].resp) /\ Len(tcp.rx) >= 1
  BY DEF IMensajes, Respuesta
<1>2. tcp.rx \in Seq(Unidades) /\ par[tcp.con].resp \in Seq(Unidades) /\ par[tcp.con].hecho \in {0, 1}
  BY <1>1 DEF TipoCon, TcpTipo, ParTipo
<1>3. Len(tcp.rx) <= Len(par[tcp.con].resp) /\ \A i \in 1..Len(tcp.rx) : tcp.rx[i] = par[tcp.con].resp[i]
  BY <1>1, <1>2, Prefijo
<1>4. 1 \in 1..Len(tcp.rx) BY <1>1, <1>2
<1>5. par[tcp.con].resp[1] = u BY <1>3, <1>4
<1>6. par[tcp.con].resp # <<>> BY <1>1, <1>2, <1>3
<1>7. par[tcp.con].hecho = 1 BY <1>1, <1>2, <1>6 DEF IFlujo, ISegmentos, Tomados, Tomado
<1>8. RespuestaDe(P, tcp.con) BY <1>1 DEF IMensajes, Respuestas
<1> QED BY <1>1, <1>5, <1>7, <1>8 DEF Dice

LEMMA FinTransmitirMensajes ==
    ASSUME NEW P, TipoCon, IFlujo(P), IMensajes(P), FinTransmitir, UNCHANGED guion
    PROVE  IMensajes(P)'
<1>1. UNCHANGED <<tcp, par, mensajes, receptor, entregados, descartados>> BY DEF FinTransmitir, pila
<1>2. PICK r : Vuelve(r) /\ (r = "ok" => op.ok = 1 /\ tcp.rx[1] = U("recibido", 0))
  BY DEF FinTransmitir
<1>3. ASSUME r = "ok" PROVE Logra
  <2>1. pc = "fin" /\ op.tipo = "transmitir" BY DEF FinTransmitir
  <2>2. /\ guion[llamadas + 1] = "transmitir"
        /\ op.req = <<U("enviar", 0), U("texto", llamadas + 1)>>
    BY <2>1 DEF IMensajes, Sesion, EnIntercambio, Pedida
  <2>3. U("recibido", 0).k = "recibido" BY DEF U
  <2>4. Dice(tcp.con, "recibido") /\ RespuestaDe(P, tcp.con) /\ P[tcp.con] = op.req
    BY <1>2, <1>3, <2>1, <2>3, RespuestaBuena
  <2>5. P[tcp.con][2].v = llamadas + 1 BY <2>2, <2>4 DEF U
  <2> QED BY <2>2, <2>4, <2>5 DEF Logra, RespuestaDe
<1>4. TipoPedidos(P) BY DEF IFlujo, ISegmentos
<1> QED BY <1>1, <1>2, <1>3, <1>4, VuelveMensajes

LEMMA FinTelemetriaMensajes ==
    ASSUME NEW P, TipoCon, IFlujo(P), IMensajes(P), FinTelemetria, UNCHANGED guion
    PROVE  IMensajes(P)'
<1>1. UNCHANGED <<tcp, par, mensajes, receptor, entregados, descartados>> BY DEF FinTelemetria, pila
<1>2. PICK r : Vuelve(r) /\ (r = "ok" => op.ok = 1 /\ tcp.rx[1] = U("ack", secuencia))
  BY DEF FinTelemetria
<1>3. ASSUME r = "ok" PROVE Logra
  <2>1. pc = "fin" /\ op.tipo = "telemetria" BY DEF FinTelemetria
  <2>2. guion[llamadas + 1] = "telemetria"
    BY <2>1 DEF IMensajes, Sesion, EnIntercambio, Pedida
  <2>3. U("ack", secuencia).k = "ack" /\ U("ack", secuencia).v = secuencia BY DEF U
  <2>4. Dice(tcp.con, "ack") /\ RespuestaDe(P, tcp.con) /\ par[tcp.con].resp[1] = U("ack", secuencia)
    BY <1>2, <1>3, <2>1, <2>3, RespuestaBuena
  <2> QED BY <2>2, <2>3, <2>4 DEF Logra, RespuestaDe
<1>4. TipoPedidos(P) BY DEF IFlujo, ISegmentos
<1> QED BY <1>1, <1>2, <1>3, <1>4, VuelveMensajes

\* The calls that have nothing to do with the messages.
LEMMA RetornosMensajes ==
    ASSUME NEW P, TipoCon, IFlujo(P), IMensajes(P), UNCHANGED guion,
           Conceder \/ DhcpVence \/ Estatica \/ HttpSinRed \/ DnsVence \/ FinHttp
    PROVE  IMensajes(P)'
<1>1. TipoPedidos(P) BY DEF IFlujo, ISegmentos
<1>2. UNCHANGED <<tcp, par, mensajes, receptor, entregados, descartados>>
  BY DEF Conceder, DhcpVence, Estatica, HttpSinRed, DnsVence, FinHttp, pila
<1>3. \/ Vuelve("error")
      \/ (Conceder \/ Estatica \/ FinHttp) /\ \E r : Vuelve(r)
  BY DEF Conceder, DhcpVence, Estatica, HttpSinRed, DnsVence, FinHttp
<1>4. CASE Vuelve("error") BY <1>1, <1>2, <1>4, VuelveMensajes
<1>5. CASE (Conceder \/ Estatica \/ FinHttp) /\ \E r : Vuelve(r)
  <2>1. guion[llamadas + 1] \in {"dhcp", "ip", "http"}
    <3>1. CASE Conceder BY <3>1 DEF Conceder, Bucle, IMensajes, Sesion
    <3>2. CASE Estatica BY <3>2 DEF Estatica, Libre
    <3>3. CASE FinHttp BY <3>3 DEF FinHttp, IMensajes, Sesion, EnIntercambio, Pedida
    <3> QED BY <1>5, <3>1, <3>2, <3>3
  <2>2. Logra BY <2>1 DEF Logra
  <2> QED BY <1>1, <1>2, <1>5, <2>2, VuelveMensajes
<1> QED BY <1>3, <1>4, <1>5

LEMMA DestinoMensajes ==
    ASSUME NEW P, TipoCon, IFlujo(P), IMensajes(P), UNCHANGED guion, NEW h \in {Pc, Puerta}, Destino(h)
    PROVE  IMensajes(P)'
<1>1. TipoPedidos(P) BY DEF IFlujo, ISegmentos
<1>2. UNCHANGED <<tcp, par, pc, op, receptor, secuencia, id_pendiente, entregados>>
  BY DEF Destino, pila, mensajes, usuario
<1>3. UNCHANGED <<entrantes, cola, ultimo_ack, expedientes>> BY <1>2 DEF receptor
<1>4. pc = "libre" /\ guion[llamadas + 1] = "destino" BY DEF Destino, Libre
<1>5. Logra BY <1>4 DEF Logra
<1>6. op.ok = 0 BY <1>4 DEF IMensajes, Respuesta, TipoCon, OpTipo
<1>7. /\ llamadas' = llamadas + 1 /\ destino' = h /\ pendiente' = 0
      /\ descartados' = IF pendiente = 1 THEN descartados \cup {id_pendiente} ELSE descartados
  BY DEF Destino
<1>8. TipoMensajes' BY <1>2, <1>3, <1>7 DEF IMensajes, TipoMensajes, Lan
<1>9. EntregadosEnOrden' BY <1>2, <1>3, <1>7 DEF IMensajes, EntregadosEnOrden
<1>10. \A id : Atendido(id) => Atendido(id)' BY <1>2, <1>7 DEF Atendido
<1> QED BY <1>1, <1>2, <1>4, <1>5, <1>6, <1>7, <1>8, <1>9, <1>10, TerminaMensajes

\* A confirmation under way is one of the message kept.
LEMMA FinConfirmarMensajes ==
    ASSUME NEW P, TipoCon, IFlujo(P), IMensajes(P), UNCHANGED guion, FinConfirmar
    PROVE  IMensajes(P)'
<1>1. TipoPedidos(P) BY DEF IFlujo, ISegmentos
<1>2. UNCHANGED <<tcp, par, receptor, secuencia, destino, id_pendiente, descartados>> BY DEF FinConfirmar, pila
<1>3. UNCHANGED <<entrantes, cola, ultimo_ack, expedientes>> BY <1>2 DEF receptor
<1>4. pc = "fin" /\ op.tipo = "confirmar" BY DEF FinConfirmar
<1>5. guion[llamadas + 1] = "recibir" /\ pendiente = 1
  BY <1>4 DEF IMensajes, Sesion, EnIntercambio, Pedida
<1>6. Logra BY <1>5 DEF Logra
<1>7. CASE Confirmado
  <2>1. entregados' = Append(entregados, id_pendiente) /\ pendiente' = 0 /\ Vuelve("ok")
    BY <1>7 DEF FinConfirmar
  <2>2. op.ok = 1 /\ tcp.rx[1] = U("confirmado", id_pendiente) BY <1>7 DEF Confirmado
  <2>3. U("confirmado", id_pendiente).k = "confirmado" /\ U("confirmado", id_pendiente).v = id_pendiente
    BY DEF U
  <2>4. /\ Dice(tcp.con, "confirmado") /\ RespuestaDe(P, tcp.con)
        /\ par[tcp.con].resp[1] = U("confirmado", id_pendiente)
    BY <1>4, <2>2, <2>3, RespuestaBuena
  <2>5. id_pendiente <= ultimo_ack BY <2>3, <2>4 DEF RespuestaDe
  <2>6. /\ id_pendiente \in Nat /\ entregados \in Seq(Nat)
        /\ llamadas \in Nat /\ secuencia \in Nat /\ ultimo_ack \in Nat /\ cola \in Seq(Nat)
        /\ entrantes \in Seq(Nat) /\ destino \in Lan
    BY DEF IMensajes, TipoMensajes
  <2>7. /\ entregados' \in Seq(Nat) /\ Len(entregados') = Len(entregados) + 1
        /\ entregados'[Len(entregados) + 1] = id_pendiente
        /\ \A i \in 1..Len(entregados) : entregados'[i] = entregados[i]
    BY <2>1, <2>6
  <2>8. llamadas' = llamadas + 1 BY <2>1 DEF Vuelve
  <2>9. TipoMensajes' BY <1>2, <1>3, <2>1, <2>6, <2>7, <2>8 DEF TipoMensajes
  <2>10. \A i \in 1..Len(entregados) : entregados[i] < id_pendiente /\ entregados[i] <= ultimo_ack
    BY <1>5 DEF IMensajes, EntregadosEnOrden
  <2>11. \A i \in 1..Len(entregados), j \in 1..Len(entregados) : i < j => entregados[i] < entregados[j]
    BY DEF IMensajes, EntregadosEnOrden
  <2>12. PICK l \in Nat : l = Len(entregados) BY <2>6
  <2>13. EntregadosEnOrden'
    BY <1>3, <2>1, <2>5, <2>7, <2>10, <2>11, <2>12 DEF EntregadosEnOrden
  <2>14. \A id : Atendido(id) => Atendido(id)'
    <3>1. ASSUME NEW id, Atendido(id) PROVE Atendido(id)'
      <4>1. l + 1 \in 1..(l + 1) /\ \A i \in 1..l : i \in 1..(l + 1) BY <2>12
      <4> QED BY <1>2, <2>7, <2>12, <3>1, <4>1 DEF Atendido
    <3> QED BY <3>1
  <2>15. pc' = "libre" /\ op'.ok = 0 BY <2>1 DEF Vuelve, Nada
  <2> QED BY <1>1, <1>2, <1>6, <2>8, <2>9, <2>13, <2>14, <2>15, TerminaMensajes
<1>8. CASE ~Confirmado
  <2>1. Vuelve("error") /\ UNCHANGED <<entregados, pendiente>> BY <1>8 DEF FinConfirmar
  <2>2. UNCHANGED mensajes BY <1>2, <2>1 DEF mensajes
  <2> QED BY <1>1, <1>2, <2>1, <2>2, VuelveMensajes
<1> QED BY <1>7, <1>8

\* A text to confirm is kept before its confirmation is sent.
LEMMA FinConsultarMensajes ==
    ASSUME NEW P, TipoCon, IFlujo(P), IMensajes(P), UNCHANGED guion, FinConsultar
    PROVE  IMensajes(P)'
<1>1. TipoPedidos(P) BY DEF IFlujo, ISegmentos
<1>2. UNCHANGED <<tcp, par, receptor, secuencia, destino>> BY DEF FinConsultar
<1>3. UNCHANGED <<entrantes, cola, ultimo_ack, expedientes>> BY <1>2 DEF receptor
<1>4. pc = "fin" /\ op.tipo = "consultar" BY DEF FinConsultar
<1>5. guion[llamadas + 1] = "recibir" /\ pendiente = 0
  BY <1>4 DEF IMensajes, Sesion, EnIntercambio, Pedida
<1>6. Logra BY <1>5 DEF Logra
<1>7. CASE op.ok = 1 /\ tcp.rx[1].k = "mensaje"
  <2>1. PICK u : u = tcp.rx[1] OBVIOUS
  <2>2. /\ Dice(tcp.con, "mensaje") /\ RespuestaDe(P, tcp.con) /\ tcp.con \in 1..MaxConexiones
        /\ par[tcp.con].resp[1] = u
    BY <1>4, <1>7, <2>1, RespuestaBuena
  <2>3. EnCurso BY <1>4, <1>7 DEF EnCurso
  <2>4. \A i \in 1..Len(entregados) : entregados[i] < u.v BY <1>4, <2>2, <2>3 DEF RespuestaDe
  <2>5. u.v \in Nat
    <3>1. tcp.rx \in Seq(Unidades) /\ Len(tcp.rx) >= 1
      BY <1>4, <1>7 DEF TipoCon, TcpTipo, IMensajes, Respuesta
    <3>2. u \in Unidades BY <2>1, <3>1
    <3> QED BY <3>2 DEF Unidades
  <2>6. id_pendiente' = u.v /\ pendiente' = 1 BY <1>7, <2>1 DEF FinConsultar
  <2>7. entregados' = entregados /\ descartados' = descartados
    BY <1>7 DEF FinConsultar, usuario
  <2>8. EntregadosEnOrden' BY <1>3, <2>4, <2>6, <2>7 DEF IMensajes, EntregadosEnOrden
  <2>9. \A id : Atendido(id) => Atendido(id)' BY <1>5, <2>7 DEF Atendido
  <2>10. CASE Confirma(u.v) /\ Olvida /\ UNCHANGED usuario
    <3>1. UNCHANGED <<llamadas, resultado>> BY <2>10 DEF usuario
    <3>2. TipoMensajes' BY <1>2, <1>3, <2>5, <2>6, <2>7, <3>1 DEF IMensajes, TipoMensajes
    <3>3. pc' = "resolver"
          /\ op' = [tipo |-> "confirmar", dst |-> destino,
                    req |-> <<U("confirmar", u.v), U("texto", 0)>>, k |-> 0, cap |-> 2, ok |-> 0]
      BY <2>10 DEF Confirma, Intercambiar
    <3>4. Medio
      <4>1. ~EnCurso' BY <3>3 DEF EnCurso, EnCon, EnConexion
      <4>2. ~EnviandoTexto BY <1>4 DEF EnviandoTexto
      <4> QED BY <1>2, <2>10, <3>3, <4>1, <4>2 DEF Medio
    <3>5. Sesion' BY <1>5, <2>6, <3>1, <3>3 DEF Sesion, Pedida
    <3>6. Respuesta(P)' BY <3>3 DEF Respuesta
    <3> QED BY <2>8, <2>9, <3>2, <3>4, <3>5, <3>6, MedioMensajes
  <2>11. CASE Vuelve("error")
    <3>1. pc' = "libre" /\ op' = Nada /\ llamadas' = llamadas + 1 BY <2>11 DEF Vuelve
    <3>2. TipoMensajes' BY <1>2, <1>3, <2>5, <2>6, <2>7, <3>1 DEF IMensajes, TipoMensajes
    <3>3. op'.ok = 0 BY <3>1 DEF Nada
    <3> QED BY <1>1, <1>2, <1>6, <2>8, <2>9, <3>1, <3>2, <3>3, TerminaMensajes
  <2> QED BY <1>7, <2>1, <2>10, <2>11 DEF FinConsultar
<1>8. CASE ~(op.ok = 1 /\ tcp.rx[1].k = "mensaje")
  <2>1. UNCHANGED <<pendiente, id_pendiente, entregados, descartados>> /\ \E r : Vuelve(r)
    BY <1>8 DEF FinConsultar
  <2>2. UNCHANGED mensajes BY <1>2, <2>1 DEF mensajes
  <2> QED BY <1>1, <1>2, <1>6, <2>1, <2>2, VuelveMensajes
<1> QED BY <1>7, <1>8

\* The first step of a call.
Inicio ==
  /\ UNCHANGED <<usuario, receptor, guion, tcp, par, pendiente, id_pendiente, destino>>
  /\ pc \in {"libre", "oferta"} /\ op'.ok = 0 /\ secuencia' \in Nat
  /\ pc' \in {"oferta", "concesion", "ping", "dns", "resolver"}

LEMMA InicioMensajes ==
    ASSUME NEW P, IMensajes(P), Inicio, Sesion' PROVE IMensajes(P)'
<1>1. Medio /\ Respuesta(P)' BY DEF Inicio, Medio, EnCurso, EnCon, EnConexion, EnviandoTexto, Respuesta
<1>2. secuencia' \in Nat /\ UNCHANGED <<pendiente, id_pendiente, destino>> BY DEF Inicio
<1> QED BY <1>1, <1>2, MedioBasta

LEMMA IniciosMensajes ==
    ASSUME NEW P, TipoCon, IMensajes(P), UNCHANGED guion,
           \/ Descubrir \/ Pedir \/ \E h \in {Puerta, Fuera} : Ping(h)
           \/ (\E dst \in {Pc, Fuera} : Http(dst)) \/ Transmitir \/ Recibir \/ Telemetria
    PROVE  IMensajes(P)'
<1>1. llamadas \in Nat /\ secuencia \in Nat BY DEF IMensajes, TipoMensajes
<1>2. CASE Descubrir \/ Pedir
  <2>1. op.ok = 0
    <3>1. pc \in {"libre", "oferta"} BY <1>2 DEF Descubrir, Pedir, Libre, Bucle
    <3> QED BY <3>1 DEF IMensajes, Respuesta, TipoCon, OpTipo
  <2>2. UNCHANGED <<mensajes, usuario, receptor, par, tcp, op>> BY <1>2 DEF Descubrir, Pedir
  <2>3. UNCHANGED <<pendiente, id_pendiente, destino, secuencia, llamadas>> BY <2>2 DEF mensajes, usuario
  <2>4. /\ pc \in {"libre", "oferta"} /\ pc' \in {"oferta", "concesion"}
        /\ guion[llamadas + 1] = "dhcp"
    BY <1>2 DEF Descubrir, Pedir, Libre, Bucle, IMensajes, Sesion
  <2>5. Sesion' BY <2>3, <2>4 DEF Sesion, EnIntercambio, EnConexion
  <2>6. Inicio BY <1>1, <2>1, <2>2, <2>3, <2>4 DEF Inicio
  <2> QED BY <2>5, <2>6, InicioMensajes
<1>3. CASE \E h \in {Puerta, Fuera} : Ping(h)
  <2>1. PICK h \in {Puerta, Fuera} : Ping(h) BY <1>3
  <2>2. UNCHANGED <<mensajes, usuario, receptor, par, tcp>> /\ op'.ok = 0 BY <2>1 DEF Ping, Nada
  <2>3. UNCHANGED <<pendiente, id_pendiente, destino, secuencia, llamadas>> BY <2>2 DEF mensajes, usuario
  <2>4. pc = "libre" /\ pc' = "ping" /\ guion[llamadas + 1] = "ping" BY <2>1 DEF Ping, Libre
  <2>5. Sesion' BY <2>3, <2>4 DEF Sesion, EnIntercambio, EnConexion
  <2>6. Inicio BY <1>1, <2>2, <2>3, <2>4 DEF Inicio
  <2> QED BY <2>5, <2>6, InicioMensajes
<1>4. CASE \E dst \in {Pc, Fuera} : Http(dst)
  <2> PICK dst \in {Pc, Fuera} : Http(dst) BY <1>4
  <2>1. UNCHANGED <<mensajes, usuario, receptor, par, tcp>> BY DEF Http
  <2>2. op' = [tipo |-> "http", dst |-> dst, req |-> <<U("get", 0)>>, k |-> 0, cap |-> 2, ok |-> 0]
    BY DEF Http
  <2>3. UNCHANGED <<pendiente, id_pendiente, destino, secuencia, llamadas>> BY <2>1 DEF mensajes, usuario
  <2>4. pc = "libre" /\ pc' \in {"dns", "resolver"} /\ guion[llamadas + 1] = "http" BY DEF Http, Libre
  <2>5. Sesion' BY <2>2, <2>3, <2>4 DEF Sesion, Pedida
  <2>6. Inicio BY <1>1, <2>1, <2>2, <2>3, <2>4 DEF Inicio
  <2> QED BY <2>5, <2>6, InicioMensajes
<1>5. CASE Transmitir
  <2>1. UNCHANGED <<mensajes, usuario, receptor, par, tcp>> BY <1>5 DEF Transmitir
  <2>2. /\ op' = [tipo |-> "transmitir", dst |-> destino,
                  req |-> <<U("enviar", 0), U("texto", llamadas + 1)>>, k |-> 0, cap |-> 2, ok |-> 0]
        /\ pc' = "resolver"
    BY <1>5 DEF Transmitir, Intercambiar
  <2>3. UNCHANGED <<pendiente, id_pendiente, destino, secuencia, llamadas>> BY <2>1 DEF mensajes, usuario
  <2>4. pc = "libre" /\ guion[llamadas + 1] = "transmitir" BY <1>5 DEF Transmitir, Libre
  <2>5. Sesion' BY <2>2, <2>3, <2>4 DEF Sesion, Pedida
  <2>6. Inicio BY <1>1, <2>1, <2>2, <2>3, <2>4 DEF Inicio
  <2> QED BY <2>5, <2>6, InicioMensajes
<1>6. CASE Recibir
  <2>1. UNCHANGED <<mensajes, usuario, receptor, par, tcp>> BY <1>6 DEF Recibir
  <2>2. UNCHANGED <<pendiente, id_pendiente, destino, secuencia, llamadas>> BY <2>1 DEF mensajes, usuario
  <2>3. pc = "libre" /\ guion[llamadas + 1] = "recibir" BY <1>6 DEF Recibir, Libre
  <2>4. pendiente \in {0, 1} BY DEF IMensajes, TipoMensajes
  <2>5. CASE pendiente = 1
    <3>1. /\ op' = [tipo |-> "confirmar", dst |-> destino,
                    req |-> <<U("confirmar", id_pendiente), U("texto", 0)>>, k |-> 0, cap |-> 2, ok |-> 0]
          /\ pc' = "resolver"
      BY <1>6, <2>5 DEF Recibir, Confirma, Intercambiar
    <3>2. Sesion' BY <2>2, <2>3, <2>5, <3>1 DEF Sesion, Pedida
    <3>3. Inicio BY <1>1, <2>1, <2>2, <2>3, <3>1 DEF Inicio
    <3> QED BY <3>2, <3>3, InicioMensajes
  <2>6. CASE pendiente = 0
    <3>1. /\ op' = [tipo |-> "consultar", dst |-> destino,
                    req |-> <<U("consultar", 0), U("texto", 0)>>, k |-> 0, cap |-> 2, ok |-> 0]
          /\ pc' = "resolver"
      BY <1>6, <2>6 DEF Recibir, Intercambiar
    <3>2. Sesion' BY <2>2, <2>3, <2>6, <3>1 DEF Sesion, Pedida
    <3>3. Inicio BY <1>1, <2>1, <2>2, <2>3, <3>1 DEF Inicio
    <3> QED BY <3>2, <3>3, InicioMensajes
  <2> QED BY <2>4, <2>5, <2>6
<1>7. CASE Telemetria
  <2>1. UNCHANGED <<pendiente, id_pendiente, destino, usuario, receptor, par, tcp>> BY <1>7 DEF Telemetria
  <2>2. /\ op' = [tipo |-> "telemetria", dst |-> Pc,
                  req |-> <<U("log", secuencia'), U("bloque", 1), U("bloque", 2)>>, k |-> 0, cap |-> 1,
                  ok |-> 0]
        /\ pc' = "resolver" /\ secuencia' = secuencia + 1
    BY <1>7 DEF Telemetria, Intercambiar
  <2>3. UNCHANGED llamadas BY <2>1 DEF usuario
  <2>4. pc = "libre" /\ guion[llamadas + 1] = "telemetria" BY <1>7 DEF Telemetria, Libre
  <2>5. Sesion' BY <2>2, <2>3, <2>4 DEF Sesion, Pedida
  <2>6. Inicio BY <1>1, <2>1, <2>2, <2>4 DEF Inicio
  <2> QED BY <2>5, <2>6, InicioMensajes
<1> QED BY <1>2, <1>3, <1>4, <1>5, <1>6, <1>7

\* The steps that leave the call where it is.
Quieto ==
  /\ UNCHANGED <<pc, op, mensajes, usuario, receptor, guion>> /\ tcp'.con = tcp.con /\ tcp'.rx = tcp.rx
  /\ \A c \in 1..MaxConexiones : par'[c].hecho = par[c].hecho /\ par'[c].resp = par[c].resp

LEMMA QuietoSesion ==
    ASSUME Sesion, UNCHANGED <<pc, op, mensajes, usuario, guion>> PROVE Sesion'
BY DEF Sesion, EnIntercambio, Pedida, mensajes, usuario

LEMMA QuietoMensajes ==
    ASSUME NEW P, IMensajes(P), Quieto PROVE IMensajes(P)'
<1>1. /\ UNCHANGED <<pendiente, id_pendiente, destino, secuencia>> /\ UNCHANGED <<pc, op>>
      /\ UNCHANGED <<usuario, receptor, guion>>
  BY DEF Quieto, mensajes
<1>2. Medio BY <1>1 DEF Quieto, Medio, EnCurso, EnCon, EnviandoTexto
<1>3. Sesion' BY QuietoSesion DEF Quieto, IMensajes
<1>4. Respuesta(P)' BY DEF Quieto, IMensajes, Respuesta
<1>5. secuencia' \in Nat BY <1>1 DEF IMensajes, TipoMensajes
<1> QED BY <1>1, <1>2, <1>3, <1>4, <1>5, MedioBasta

\* The steps of an exchange.
Tramo ==
  /\ UNCHANGED <<mensajes, usuario, receptor, guion, par>> /\ tcp'.con = tcp.con
  /\ op'.tipo = op.tipo /\ op'.req = op.req /\ op'.cap = op.cap
  /\ pc' \in EnConexion \cup {"fin"}
  /\ EnCon \/ (pc = "resolver" /\ pc' = "fin" /\ op'.ok = 0)

LEMMA TramoMensajes ==
    ASSUME NEW P, IMensajes(P), Tramo, Respuesta(P)' PROVE IMensajes(P)'
<1>1. /\ UNCHANGED <<pendiente, id_pendiente, destino, secuencia, llamadas>>
      /\ UNCHANGED <<usuario, receptor, guion, par>>
  BY DEF Tramo, mensajes, usuario
<1>2. Medio BY <1>1 DEF Tramo, Medio, EnCurso, EnCon, EnConexion, EnviandoTexto
<1>3. Sesion' BY <1>1 DEF Tramo, IMensajes, Sesion, EnIntercambio, Pedida, EnCon, EnConexion
<1>4. secuencia' \in Nat BY <1>1 DEF IMensajes, TipoMensajes
<1> QED BY <1>1, <1>2, <1>3, <1>4, MedioBasta

\* Only at the end of an exchange is there an answer.
LEMMA SinRespuesta ==
    ASSUME NEW P, TipoCon, IMensajes(P), pc \notin {"cerrar", "fin"} PROVE op.ok = 0
BY DEF TipoCon, OpTipo, IMensajes, Respuesta

LEMMA CerradoMensajes ==
    ASSUME NEW P, TipoCon, IMensajes(P), UNCHANGED guion, NoConecta \/ Cerrado PROVE IMensajes(P)'
<1>1. /\ UNCHANGED <<par, op, mensajes, usuario, receptor>> /\ pc' = "fin" /\ pc \in {"conectar", "cerrar"}
      /\ tcp' = [tcp EXCEPT !.activa = 0, !.estado = 0]
  BY DEF NoConecta, Cerrado, Bucle
<1>2. tcp'.con = tcp.con /\ tcp'.rx = tcp.rx BY <1>1 DEF TipoCon, TcpTipo
<1>3. Tramo BY <1>1, <1>2 DEF Tramo, EnCon, EnConexion
<1>4. Respuesta(P)' BY <1>1, <1>2 DEF IMensajes, Respuesta
<1> QED BY <1>3, <1>4, TramoMensajes

LEMMA FallaArpMensajes ==
    ASSUME NEW P, TipoCon, TipoRed, IEnvio, IFlujo(P), IMensajes(P), UNCHANGED guion, FallaArp
    PROVE  IMensajes(P)'
<1>1. UNCHANGED <<par, mensajes, receptor>> BY DEF FallaArp, ArpVence
<1>2. PICK q : q = Last(espera).quien OBVIOUS
<1>3. TipoPedidos(P) BY DEF IFlujo, ISegmentos
<1>4. CASE q = "nadie"
  <2>1. UNCHANGED <<tcp, ping, pc, op, usuario, red>> BY <1>2, <1>4 DEF FallaArp
  <2>2. Quieto BY <1>1, <2>1 DEF Quieto
  <2> QED BY <2>2, QuietoMensajes
<1>5. espera # <<>> BY DEF FallaArp, ArpVence
<1>6. CASE SynEspera
  <2>1. pc = "conectar" BY <1>6 DEF SynEspera
  <2>2. q \in {"syn", "nadie"} BY <1>2, <1>6, SynEsperaUltimo
  <2>3. CASE q = "syn"
    <3>1. tcp' = [tcp EXCEPT !.activa = 0] /\ pc' = "fin" /\ UNCHANGED <<op, usuario>>
      BY <1>2, <2>3 DEF FallaArp
    <3>2. tcp'.con = tcp.con BY <3>1 DEF TipoCon, TcpTipo
    <3>3. op.ok = 0 BY <2>1, SinRespuesta
    <3>4. Tramo BY <1>1, <2>1, <3>1, <3>2 DEF Tramo, EnCon, EnConexion
    <3>5. Respuesta(P)' BY <3>1, <3>3 DEF Respuesta
    <3> QED BY <3>4, <3>5, TramoMensajes
  <2> QED BY <1>4, <2>2, <2>3
<1>7. CASE ~SynEspera
  <2>1. \/ pc = "ping" /\ espera = <<Aguarda(Salto(op.dst), "ping")>>
        \/ pc = "dns" /\ espera = <<Aguarda(Salto(cfg.dns), "dns")>>
        \/ pc = "resolver" /\ espera = <<Aguarda(op.dst, "resolver")>>
    BY <1>5, <1>7, EsperaSola
  <2>2. q = pc BY <1>2, <2>1, PilaUno DEF Aguarda
  <2>3. CASE pc = "resolver"
    <3>1. pc' = "fin" /\ UNCHANGED <<tcp, op, usuario>> BY <1>2, <2>2, <2>3 DEF FallaArp
    <3>2. op.ok = 0 BY <2>3, SinRespuesta
    <3>3. Tramo BY <1>1, <2>3, <3>1, <3>2 DEF Tramo
    <3>4. Respuesta(P)' BY <3>1, <3>2 DEF Respuesta
    <3> QED BY <3>3, <3>4, TramoMensajes
  <2>4. CASE pc \in {"ping", "dns"}
    <3>1. Vuelve("error") /\ UNCHANGED <<tcp, entregados, descartados>> BY <1>2, <2>2, <2>4 DEF FallaArp
    <3> QED BY <1>1, <1>3, <3>1, VuelveMensajes
  <2> QED BY <2>1, <2>3, <2>4
<1> QED BY <1>6, <1>7

\* A send of the exchange, or its close.
LEMMA AvanceMensajes ==
    ASSUME NEW P, TipoCon, TipoRed, IEnvio, IFlujo(P), IMensajes(P), UNCHANGED guion,
           NEW t, Lista(t), pc \in EnConexion, op.k + 1 \in 1..Len(op.req) \/ ~EnviarDatos(t),
           UNCHANGED <<par, mensajes, usuario, receptor>>,
           EnviarDatos(t) \/ (Cerrar(t) /\ UNCHANGED op), op.ok = 0
    PROVE  IMensajes(P)'
<1>1. t \in TcpTipo /\ t.con = tcp.con /\ t.seq \in 0..(Modulo - 1) BY DEF Lista, Copia
<1>2. op \in OpTipo BY DEF TipoCon
<1>3. CASE Cerrar(t) /\ UNCHANGED op
  <2>1. tcp'.con = tcp.con /\ pc' \in {"cerrar", "fin"} BY <1>1, <1>3, CerrarCasos
  <2>2. Tramo BY <1>3, <2>1 DEF Tramo, EnCon, EnConexion
  <2>3. Respuesta(P)' BY <1>3 DEF Respuesta
  <2> QED BY <2>2, <2>3, TramoMensajes
<1>4. CASE EnviarDatos(t) /\ ~(Cerrar(t) /\ UNCHANGED op)
  <2>1. tcp'.con = tcp.con /\ pc' = "enviar" /\ op' = [op EXCEPT !.k = op.k + 1]
    BY <1>1, <1>2, <1>4, EnviarDatosCasos
  <2>2. op'.tipo = op.tipo /\ op'.req = op.req /\ op'.cap = op.cap /\ op'.ok = op.ok
    BY <1>2, <2>1 DEF OpTipo
  <2>3. Tramo BY <2>1, <2>2 DEF Tramo, EnCon, EnConexion
  <2>4. Respuesta(P)' BY <2>2 DEF Respuesta
  <2> QED BY <2>3, <2>4, TramoMensajes
<1> QED BY <1>3, <1>4

LEMMA ConectadoMensajes ==
    ASSUME NEW P, TipoCon, TipoRed, IEnvio, IFlujo(P), IMensajes(P), UNCHANGED guion, Conectado
    PROVE  IMensajes(P)'
<1> DEFINE t == [tcp EXCEPT !.rx_capacidad = op.cap]
<1>1. /\ pc = "conectar" /\ tcp.estado = 2 /\ UNCHANGED <<par, mensajes, usuario, receptor>>
      /\ EnviarDatos(t) \/ (Cerrar(t) /\ UNCHANGED op)
  BY DEF Conectado, Bucle
<1>2. Lista(t) BY <1>1, ListaPrimera
<1>3. op.k + 1 \in 1..Len(op.req)
  <2>1. op.k = 0 BY <1>1 DEF IFlujo, Emisor
  <2>2. Len(op.req) \in 1..3 BY <1>1 DEF IMensajes, Sesion, EnIntercambio, EnConexion
  <2>3. op.k + 1 = 1 BY <2>1
  <2>4. PICK m \in 1..3 : Len(op.req) = m BY <2>2
  <2>5. 1 \in 1..m OBVIOUS
  <2> QED BY <2>3, <2>4, <2>5
<1>4. op.ok = 0 BY <1>1, SinRespuesta
<1>5. pc \in EnConexion BY <1>1 DEF EnConexion
<1> HIDE DEF t
<1> QED BY <1>1, <1>2, <1>3, <1>4, <1>5, AvanceMensajes

LEMMA EnviadoMensajes ==
    ASSUME NEW P, TipoCon, TipoRed, IEnvio, IFlujo(P), IMensajes(P), UNCHANGED guion, Enviado
    PROVE  IMensajes(P)'
<1>1. pc = "enviar" /\ UNCHANGED <<par, mensajes, usuario, receptor>> BY DEF Enviado, Bucle
<1>2. Lista(tcp) /\ op.k \in 1..Len(op.req) /\ op.k \in 0..3 /\ Len(op.req) \in 0..3
  BY <1>1, ListaSiguiente
<1>3. pc \in EnConexion /\ op.ok = 0 BY <1>1, SinRespuesta DEF EnConexion
<1>4. CASE op.k < Len(op.req) /\ EnviarDatos(tcp)
  <2>1. op.k + 1 \in 1..Len(op.req) BY <1>2, <1>4
  <2> QED BY <1>1, <1>2, <1>3, <1>4, <2>1, AvanceMensajes
<1>5. CASE Cerrar(tcp) /\ UNCHANGED op
  <2>1. tcp \in TcpTipo /\ tcp.seq \in 0..(Modulo - 1) BY <1>2 DEF Lista, Copia
  <2>2. tcp'.con = tcp.con /\ pc' \in {"cerrar", "fin"} BY <1>5, <2>1, CerrarCasos
  <2>3. Tramo BY <1>1, <1>5, <2>2 DEF Tramo, EnCon, EnConexion
  <2>4. Respuesta(P)' BY <1>3, <1>5 DEF Respuesta
  <2> QED BY <2>3, <2>4, TramoMensajes
<1>6. CASE pc' = "respuesta" /\ UNCHANGED <<tcp, op>>
  <2>1. Tramo BY <1>1, <1>6 DEF Tramo, EnCon, EnConexion
  <2>2. Respuesta(P)' BY <1>3, <1>6 DEF Respuesta
  <2> QED BY <2>1, <2>2, TramoMensajes
<1> QED BY <1>4, <1>5, <1>6 DEF Enviado

\* A good answer is complete: it fills the buffer, which is not empty.
LEMMA RespondidoMensajes ==
    ASSUME NEW P, TipoCon, TipoRed, IEnvio, IFlujo(P), IMensajes(P), UNCHANGED guion, Respondido
    PROVE  IMensajes(P)'
<1>1. pc \in {"enviar", "respuesta"} /\ UNCHANGED <<par, mensajes, usuario, receptor>> /\ Cerrar(tcp)
  BY DEF Respondido, Bucle
<1>2. PICK b \in {0, 1} : op' = [op EXCEPT !.ok = b] /\ (b = 1 => op.tipo = "http" \/ Acepta)
  BY DEF Respondido
<1>3. op' \in OpTipo /\ op'.req = op.req /\ op'.cap = op.cap /\ op'.tipo = op.tipo
  <2>1. op \in OpTipo BY DEF TipoCon
  <2> QED BY <1>2, <2>1, OpTipoOk
<1>4. Lista(tcp) BY <1>1, ListaSiguiente
<1>5. tcp \in TcpTipo /\ tcp.seq \in 0..(Modulo - 1) BY <1>4 DEF Lista, Copia
<1>6. tcp'.con = tcp.con /\ tcp'.rx = tcp.rx /\ pc' \in {"cerrar", "fin"} BY <1>1, <1>5, CerrarCasos
<1>7. Tramo BY <1>1, <1>3, <1>6 DEF Tramo, EnCon, EnConexion
<1>8. EnCon BY <1>1 DEF EnCon, EnConexion
<1>9. tcp.con \in 1..MaxConexiones /\ P[tcp.con] = op.req BY <1>8 DEF IFlujo, ISegmentos, PedidoActual
<1>10. IsPrefix(tcp.rx, par[tcp.con].resp) /\ tcp.rx_capacidad = op.cap
  BY <1>1, <1>8 DEF IFlujo, Receptor, Toma
<1>11. op.cap >= 1 BY <1>1 DEF IMensajes, Sesion, EnIntercambio, EnConexion
<1>12. b = 1 /\ op.tipo # "http" => Len(tcp.rx) >= 1 BY <1>2, <1>10, <1>11 DEF Acepta
<1>13. op'.ok = b
  <2>1. op \in OpTipo BY DEF TipoCon
  <2> QED BY <1>2, <2>1, OpTipoOk
<1>14. Respuesta(P)' BY <1>1, <1>3, <1>6, <1>9, <1>10, <1>12, <1>13 DEF Respuesta
<1> QED BY <1>7, <1>14, TramoMensajes

\* What was received of an answer is kept.
LEMMA ConDatosCrece ==
    ASSUME NEW t \in TcpTipo, Len(t.rx) <= t.rx_capacidad, NEW f, f.dat \in Seq(Unidades)
    PROVE  LET u == ConDatos(t, f)
           IN  Len(u.rx) \in Nat /\ Len(t.rx) <= Len(u.rx)
<1>1. t.rx \in Seq(Unidades) /\ t.rx_capacidad \in Nat BY DEF TcpTipo
<1>2. CASE f.dat = <<>> \/ f.seq # t.ack BY <1>1, <1>2 DEF ConDatos
<1>3. CASE ~(f.dat = <<>> \/ f.seq # t.ack)
  <2>1. PICK k \in Nat : k = Len(t.rx) BY <1>1
  <2>2. PICK q \in Nat : q = t.rx_capacidad BY <1>1
  <2>3. PICK m \in Nat : m = Len(f.dat) OBVIOUS
  <2>4. q - k \in Nat BY <2>1, <2>2
  <2>5. PICK n \in Nat : n = (IF m < q - k THEN m ELSE q - k) BY <2>4
  <2>9. n <= m
    <3>1. ASSUME NEW x \in Nat, NEW y \in Nat PROVE (IF x < y THEN x ELSE y) <= x OBVIOUS
    <3> QED BY <2>4, <2>5, <3>1
  <2> DEFINE r == t.rx \o SubSeq(f.dat, 1, n)
  <2>6. r \in Seq(Unidades) /\ Len(r) = k + n
    <3>1. SubSeq(f.dat, 1, n) \in Seq(Unidades) /\ Len(SubSeq(f.dat, 1, n)) = n
      BY <2>3, <2>5, <2>9
    <3>2. PICK s \in Seq(Unidades) : s = SubSeq(f.dat, 1, n) /\ Len(s) = n BY <3>1
    <3>3. t.rx \o s \in Seq(Unidades) /\ Len(t.rx \o s) = Len(t.rx) + Len(s) BY <1>1
    <3> QED BY <2>1, <3>2, <3>3
  <2>7. ConDatos(t, f).rx = r
    <3>1. ConDatos(t, f) = [t EXCEPT !.rx = r, !.rx_desbordado = IF n < m THEN 1 ELSE @, !.ack = Mas(@, m)]
      BY <1>3, <2>1, <2>2, <2>3, <2>5 DEF ConDatos
    <3> HIDE DEF r
    <3> QED BY <3>1 DEF TcpTipo
  <2> HIDE DEF r
  <2>8. k + n \in Nat /\ k <= k + n OBVIOUS
  <2> QED BY <2>1, <2>6, <2>7, <2>8
<1> QED BY <1>2, <1>3

LEMMA RecibirTcpRx ==
    ASSUME NEW P, TipoCon, IEnvio, IFlujo(P), NEW f \in llegan, RecibirTcp(f)
    PROVE  Len(tcp'.rx) \in Nat /\ Len(tcp.rx) <= Len(tcp'.rx)
<1>1. tcp \in TcpTipo BY DEF TipoCon
<1>8. tcp.rx \in Seq(Unidades) BY <1>1 DEF TcpTipo
<1>2. Len(tcp.rx) \in Nat BY <1>8
<1>3. tcp.activa = 1 /\ f.con = tcp.con /\ f.fl \in {"R", "SA", "A", "FA"} BY DEF RecibirTcp
<1>4. EnCon BY <1>3 DEF IEnvio, Activa
<1>5. CASE f.fl \in {"R", "SA"}
  <2>1. tcp'.rx = tcp.rx
    <3>1. CASE f.fl = "R"
      <4>1. tcp' = [tcp EXCEPT !.estado = 0, !.activa = 0] BY <3>1 DEF RecibirTcp
      <4> QED BY <1>1, <4>1 DEF TcpTipo
    <3>2. CASE f.fl = "SA"
      <4>1. tcp' = [tcp EXCEPT !.ack = Mas(f.seq, 1), !.seq = Mas(Isn, 1), !.estado = 2,
                               !.ack_de_datos = 1]
        BY <3>2 DEF RecibirTcp
      <4> QED BY <1>1, <4>1 DEF TcpTipo
    <3> QED BY <1>5, <3>1, <3>2
  <2> QED BY <1>2, <2>1
<1>6. CASE f.fl \in {"A", "FA"}
  <2> DEFINE t1 == IF AcuseExacto(tcp, f) THEN [tcp EXCEPT !.ack_de_datos = 1] ELSE tcp
             p == par[tcp.con]
  <2>1. tcp' = ConFin(ConDatos(t1, f), f) BY <1>6 DEF RecibirTcp
  <2>2. /\ t1 \in TcpTipo /\ t1.rx = tcp.rx /\ t1.rx_capacidad = tcp.rx_capacidad
        /\ t1.ack = tcp.ack /\ t1.fin_recibido = tcp.fin_recibido
    <3>1. ASSUME NEW b \in {0, 1}
          PROVE  LET u == [tcp EXCEPT !.ack_de_datos = b]
                 IN /\ u \in TcpTipo /\ u.rx = tcp.rx /\ u.rx_capacidad = tcp.rx_capacidad
                    /\ u.ack = tcp.ack /\ u.fin_recibido = tcp.fin_recibido
      BY <1>1 DEF TcpTipo
    <3>2. 1 \in {0, 1} OBVIOUS
    <3> QED BY <1>1, <3>1, <3>2
  <2> HIDE DEF t1
  <2>3. tcp.con \in 1..MaxConexiones BY <1>4, EnCursoSinFin DEF IFlujo
  <2>4. p.resp \in Seq(Unidades) /\ Len(p.resp) \in 0..3 BY <2>3, Cortos DEF IFlujo
  <2>5. f.dat = <<>> \/ Parte(p, f)
    <3>1. Actual(f.con) BY <1>3, <1>4 DEF Actual
    <3> QED BY <1>3, <1>6, <3>1 DEF IFlujo, ISegmentos, LlegaDatos
  <2>6. f.dat \in Seq(Unidades)
    <3>1. CASE f.dat = <<>> BY <3>1
    <3>2. CASE Parte(p, f)
      <4>1. PICK i \in 1..Len(p.resp), j \in 1..Len(p.resp) : i <= j /\ f.dat = SubSeq(p.resp, i, j)
        BY <3>2 DEF Parte
      <4> QED BY <2>4, <4>1, SeqTramo
    <3> QED BY <2>5, <3>1, <3>2
  <2>7. Len(t1.rx) <= t1.rx_capacidad BY <1>4, <2>2 DEF IFlujo, Receptor, Toma
  <2> DEFINE t2 == ConDatos(t1, f)
  <2>8. Len(t2.rx) \in Nat /\ Len(tcp.rx) <= Len(t2.rx) BY <2>2, <2>6, <2>7, ConDatosCrece
  <2>9. t2 \in TcpTipo
    <3>1. \E R : Tomando(t1, p, R)
      <4>1. Toma(tcp) BY <1>4 DEF IFlujo, Receptor
      <4>2. pc # "conectar"
        <5>1. Actual(f.con) BY <1>3, <1>4 DEF Actual
        <5> QED BY <1>3, <1>6, <5>1 DEF IFlujo, ISegmentos, LlegaDatos
      <4>3. tcp.estado >= 2 BY <1>3, <4>2 DEF IEnvio, Activa
      <4>4. PICK R \in 0..Len(p.resp) : Recibido(tcp, p, R) BY <4>1, <4>3 DEF Toma
      <4>6. Recibido(t1, p, R) BY <2>2, <4>4 DEF Recibido
      <4> QED BY <2>2, <4>1, <4>4, <4>6 DEF Tomando, Toma
    <3> QED BY <2>2, <2>4, <2>5, <3>1, ConDatosToma
  <2> HIDE DEF t2
  <2>10. tcp'.rx = t2.rx
    <3>1. tcp' = ConFin(t2, f) BY <2>1 DEF t2
    <3>2. CASE tcp' = t2 BY <3>2
    <3>3. CASE tcp' = [t2 EXCEPT !.ack = Mas(@, 1), !.fin_recibido = 1, !.estado = 4]
      BY <2>9, <3>3 DEF TcpTipo
    <3> QED BY <3>1, <3>2, <3>3 DEF ConFin
  <2> QED BY <2>8, <2>10
<1> QED BY <1>3, <1>5, <1>6

\* A segment for the connection may bring more of the answer.
LEMMA RecibirTcpMensajes ==
    ASSUME NEW P, TipoCon, IEnvio, IFlujo(P), IMensajes(P), UNCHANGED <<op, mensajes, usuario, receptor, guion>>,
           NEW f \in llegan, RecibirTcp(f)
    PROVE  IMensajes(P)'
<1>1. UNCHANGED <<pc, par>> /\ tcp.activa = 1 BY DEF RecibirTcp
<1>2. UNCHANGED <<pendiente, id_pendiente, destino, secuencia, llamadas>> BY DEF mensajes, usuario
<1>3. tcp'.con = tcp.con
  <2>1. tcp \in TcpTipo BY DEF TipoCon
  <2> QED BY <2>1, RecibirTcpCampos
<1>4. Medio BY <1>1, <1>2, <1>3 DEF Medio, EnCurso, EnCon, EnviandoTexto
<1>5. Sesion' BY <1>1, QuietoSesion DEF IMensajes
<1>6. Respuesta(P)'
  <2>1. SUFFICES ASSUME op'.ok = 1
                 PROVE  /\ pc' \in {"cerrar", "fin"} /\ tcp'.con \in 1..MaxConexiones
                        /\ P[tcp'.con] = op'.req /\ IsPrefix(tcp'.rx, par'[tcp'.con].resp)
                        /\ op'.tipo # "http" => Len(tcp'.rx) >= 1
    BY DEF Respuesta
  <2>2. op.ok = 1 /\ UNCHANGED op BY <2>1
  <2>3. /\ pc \in {"cerrar", "fin"} /\ tcp.con \in 1..MaxConexiones /\ P[tcp.con] = op.req
        /\ op.tipo # "http" => Len(tcp.rx) >= 1
    BY <2>2 DEF IMensajes, Respuesta
  <2>4. EnCon' BY <1>1 DEF IEnvio, Activa, EnCon
  <2>5. IFlujo(P)' BY <2>2, RecibirTcpFlujo
  <2>6. IsPrefix(tcp'.rx, par'[tcp'.con].resp) BY <2>4, <2>5 DEF IFlujo, Receptor, Toma
  <2>7. Len(tcp'.rx) \in Nat /\ Len(tcp.rx) <= Len(tcp'.rx) BY RecibirTcpRx
  <2>8. Len(tcp.rx) \in Nat
    <3>1. tcp.rx \in Seq(Unidades) BY DEF TipoCon, TcpTipo
    <3> QED BY <3>1
  <2>9. Len(tcp.rx) >= 1 => Len(tcp'.rx) >= 1 BY <2>7, <2>8
  <2> QED BY <1>1, <1>3, <2>2, <2>3, <2>6, <2>9
<1>7. secuencia' \in Nat BY <1>2 DEF IMensajes, TipoMensajes
<1> QED BY <1>2, <1>4, <1>5, <1>6, <1>7, MedioBasta

LEMMA SondeoMensajes ==
    ASSUME NEW P, TipoCon, IEnvio, IFlujo(P), IMensajes(P), UNCHANGED <<op, mensajes, usuario, receptor, guion>>,
           Sondeo
    PROVE  IMensajes(P)'
<1>1. tcp \in TcpTipo BY DEF TipoCon
<1>2. CASE (\E h \in Lan : RecibirArp(h)) \/ \E f \in llegan : RecibirEco(f) \/ RecibirDhcp(f) \/ RecibirDns(f)
  <2>1. UNCHANGED <<pc, tcp, par>> BY <1>2 DEF RecibirArp, RecibirEco, RecibirDhcp, RecibirDns
  <2> QED BY <2>1, QuietoMensajes DEF Quieto
<1>3. CASE \E f \in llegan : RecibirTcp(f) BY <1>3, RecibirTcpMensajes
<1>4. CASE Reenviar
  <2>1. UNCHANGED <<pc, par>> /\ tcp' = [tcp EXCEPT !.reintentos = @ + 1] BY <1>4 DEF Reenviar
  <2>2. tcp'.con = tcp.con /\ tcp'.rx = tcp.rx BY <1>1, <2>1 DEF TcpTipo
  <2> QED BY <2>1, <2>2, QuietoMensajes DEF Quieto
<1>5. CASE Abandonar
  <2>1. UNCHANGED <<pc, par>> /\ tcp' = [tcp EXCEPT !.estado = 0, !.activa = 0] BY <1>5 DEF Abandonar
  <2>2. tcp'.con = tcp.con /\ tcp'.rx = tcp.rx BY <1>1, <2>1 DEF TcpTipo
  <2> QED BY <2>1, <2>2, QuietoMensajes DEF Quieto
<1> QED BY <1>2, <1>3, <1>4, <1>5 DEF Sondeo

LEMMA EcoMensajes ==
    ASSUME NEW P, TipoCon, IFlujo(P), IMensajes(P), UNCHANGED guion, OtroEco \/ SigueArp
    PROVE  IMensajes(P)'
<1>1. UNCHANGED <<tcp, par, mensajes, receptor>> BY DEF OtroEco, SigueArp, ArpResuelto
<1>2. CASE SigueArp \/ (OtroEco /\ UNCHANGED <<pc, op, usuario>>)
  <2>1. UNCHANGED <<pc, op, usuario>> BY <1>2 DEF SigueArp
  <2> QED BY <1>1, <2>1, QuietoMensajes DEF Quieto
<1>3. CASE OtroEco /\ Vuelve("ok") /\ UNCHANGED <<entregados, descartados>>
  <2>1. guion[llamadas + 1] = "ping" BY <1>3 DEF OtroEco, Bucle, IMensajes, Sesion
  <2>2. Logra BY <2>1 DEF Logra
  <2>3. TipoPedidos(P) BY DEF IFlujo, ISegmentos
  <2> QED BY <1>1, <1>3, <2>2, <2>3, VuelveMensajes
<1> QED BY <1>2, <1>3 DEF OtroEco

LEMMA ParesQuietosMensajes ==
    ASSUME NEW P, TipoCon, IFlujo(P), IMensajes(P), UNCHANGED guion,
           \/ \E f \in salen : \/ \E s \in ServidoresDhcp : ParDhcp(f, s)
                               \/ ParContesta(f) \/ ParSyn(f) \/ ParSegmento(f)
           \/ \E c \in 1..MaxConexiones : ParAborta(c)
    PROVE  IMensajes(P)'
<1>1. UNCHANGED <<pc, tcp, op, mensajes, usuario, receptor>>
  BY DEF ParDhcp, ParContesta, ParSyn, ParSegmento, ParAborta, ajenos, pila
<1>2. SUFFICES ASSUME NEW c \in 1..MaxConexiones PROVE par'[c].hecho = par[c].hecho /\ par'[c].resp = par[c].resp
  BY <1>1, QuietoMensajes DEF Quieto
<1>3. par \in [1..MaxConexiones -> ParTipo] /\ par[c] \in ParTipo BY DEF TipoCon
<1>4. CASE UNCHANGED par BY <1>4
<1>5. ASSUME NEW f \in salen, ParSyn(f) PROVE par'[c].hecho = par[c].hecho /\ par'[c].resp = par[c].resp
  <2>1. CASE c # f.con BY <1>3, <1>5, <2>1 DEF ParSyn
  <2>2. CASE c = f.con
    <3>1. par[c] = ParCero BY <1>5, <2>2 DEF ParSyn, IFlujo, ISegmentos, Tomados, Tomado
    <3>2. par'[c] = [ParCero EXCEPT !.est = "abierta", !.rcv = Mas(f.seq, 1)]
      BY <1>3, <1>5, <2>2 DEF ParSyn
    <3> QED BY <3>1, <3>2 DEF ParCero
  <2> QED BY <2>1, <2>2
<1>6. ASSUME NEW f \in salen, ParSegmento(f)
      PROVE  par'[c].hecho = par[c].hecho /\ par'[c].resp = par[c].resp
  <2>1. CASE c # f.con BY <1>3, <1>6, <2>1 DEF ParSegmento
  <2>2. CASE c = f.con
    <3>1. \/ par'[c] = par[c]
          \/ \E d, r : par'[c] = [par[c] EXCEPT !.datos = d, !.rcv = r]
      BY <1>3, <1>6, <2>2 DEF ParSegmento
    <3> QED BY <1>3, <3>1 DEF ParTipo
  <2> QED BY <2>1, <2>2
<1>7. ASSUME NEW d \in 1..MaxConexiones, ParAborta(d)
      PROVE  par'[c].hecho = par[c].hecho /\ par'[c].resp = par[c].resp
  <2>1. par' = [par EXCEPT ![d].est = "abortada"] BY <1>7 DEF ParAborta
  <2> QED BY <1>3, <2>1 DEF ParTipo
<1> QED BY <1>4, <1>5, <1>6, <1>7 DEF ParDhcp, ParContesta

\* A new connection: its text is that of the call under way, its confirmation
\* that of the message kept, and its peer has not answered.
LEMMA ConectarMensajes ==
    ASSUME NEW P, TipoCon, TipoRed, IEnvio, IFlujo(P), IMensajes(P), UNCHANGED guion, Conectar,
           NEW Q, Q = [P EXCEPT ![tcp.con + 1] = op.req]
    PROVE  IMensajes(Q)'
<1>24. PICK n : n = tcp.con + 1 OBVIOUS
<1>1. /\ pc \in {"resolver", "dns"} /\ pc' = "conectar" /\ UNCHANGED <<par, op>> /\ tcp'.con = n
      /\ n \in 1..MaxConexiones
  BY <1>24, ConectarCasos
<1>2. /\ UNCHANGED <<pendiente, id_pendiente, destino, secuencia, llamadas, resultado, entregados,
                     descartados, entrantes, cola, ultimo_ack, expedientes>>
  BY DEF Conectar, mensajes, usuario, receptor
<1>3. tcp.con \in Nat BY DEF TipoCon, TcpTipo
<1>4. /\ P \in [1..MaxConexiones -> Seq(Unidades)] /\ Q[n] = op.req
      /\ \A c \in 1..MaxConexiones : c # n => Q[c] = P[c]
  BY <1>1, <1>24 DEF IFlujo, ISegmentos, TipoPedidos
<1>5. Pedida /\ op.tipo \notin {"", "ping"} /\ op \in OpTipo /\ op.ok = 0
  <2>1. op.ok = 0 BY <1>1, SinRespuesta
  <2> QED BY <1>1, <2>1 DEF IMensajes, Sesion, EnIntercambio, TipoCon
<1>6. op.tipo \in {"http", "transmitir", "consultar", "confirmar", "telemetria"} BY <1>5 DEF OpTipo
<1>7. ASSUME NEW c \in 1..MaxConexiones, NEW k PROVE Pide(Q, c, k)' => c = n \/ (c # n /\ Pide(P, c, k))
  <2>1. CASE c = n BY <2>1
  <2>2. CASE c # n
    <3>1. c \in 1..n => c \in 1..tcp.con BY <1>3, <1>24, <2>2
    <3> QED BY <1>1, <1>4, <2>2, <3>1 DEF Pide
  <2> QED BY <2>1, <2>2
<1>8. ASSUME NEW c \in 1..MaxConexiones, NEW k, Pide(P, c, k) PROVE c # n /\ Pide(Q, c, k)'
  <2>1. c \in 1..tcp.con BY <1>8 DEF Pide
  <2>2. c # n /\ c \in 1..n BY <1>3, <1>24, <2>1
  <2> QED BY <1>1, <1>4, <1>8, <2>2 DEF Pide
<1>26. op.tipo = "http" => op.req[1].k = "get"
  <2>1. ASSUME op.tipo = "http" PROVE op.req = <<U("get", 0)>> BY <1>5, <2>1 DEF Pedida
  <2> QED BY <2>1 DEF U
<1>27. op.tipo = "transmitir" => op.req[1].k = "enviar"
  <2>1. ASSUME op.tipo = "transmitir" PROVE op.req = <<U("enviar", 0), U("texto", llamadas + 1)>>
    BY <1>5, <2>1 DEF Pedida
  <2> QED BY <2>1 DEF U
<1>28. op.tipo = "consultar" => op.req[1].k = "consultar"
  <2>1. ASSUME op.tipo = "consultar" PROVE op.req = <<U("consultar", 0), U("texto", 0)>>
    BY <1>5, <2>1 DEF Pedida
  <2> QED BY <2>1 DEF U
<1>29. op.tipo = "confirmar" => op.req[1].k = "confirmar"
  <2>1. ASSUME op.tipo = "confirmar" PROVE op.req = <<U("confirmar", id_pendiente), U("texto", 0)>>
    BY <1>5, <2>1 DEF Pedida
  <2> QED BY <2>1 DEF U
<1>30. op.tipo = "telemetria" => op.req[1].k = "log"
  <2>1. ASSUME op.tipo = "telemetria"
        PROVE  op.req = <<U("log", secuencia), U("bloque", 1), U("bloque", 2)>>
    BY <1>5, <2>1 DEF Pedida
  <2> QED BY <2>1 DEF U
<1>9. ASSUME Pide(Q, n, "enviar")'
      PROVE  op.tipo = "transmitir" /\ Len(Q[n]) = 2 /\ Q[n][2].v = llamadas + 1
  <2>1. op.req[1].k = "enviar" BY <1>4, <1>9 DEF Pide
  <2>2. op.tipo = "transmitir" BY <1>6, <1>26, <1>27, <1>28, <1>29, <1>30, <2>1
  <2>3. op.req = <<U("enviar", 0), U("texto", llamadas + 1)>> BY <1>5, <2>2 DEF Pedida
  <2> QED BY <1>4, <2>2, <2>3 DEF U
<1>10. ASSUME Pide(Q, n, "confirmar")' PROVE pendiente = 1 /\ Q[n][1].v = id_pendiente
  <2>1. op.req[1].k = "confirmar" BY <1>4, <1>10 DEF Pide
  <2>2. op.tipo = "confirmar" BY <1>6, <1>26, <1>27, <1>28, <1>29, <1>30, <2>1
  <2>3. pendiente = 1 /\ op.req = <<U("confirmar", id_pendiente), U("texto", 0)>>
    BY <1>5, <2>2 DEF Pedida
  <2> QED BY <1>4, <2>3 DEF U
<1>11. par[n].hecho = 0
  <2>1. par[n].est = "nada"
    <3>1. n \notin 1..tcp.con BY <1>3, <1>24
    <3> QED BY <1>1, <3>1 DEF IEnvio, Enlazados, Enlace
  <2>2. par[n] = ParCero BY <1>1, <2>1 DEF IFlujo, ISegmentos, Tomados, Tomado
  <2> QED BY <2>2 DEF ParCero
<1>12. TipoMensajes' BY <1>2 DEF IMensajes, TipoMensajes
<1>13. Sesion' BY <1>1, <1>2 DEF IMensajes, Sesion, EnIntercambio, EnConexion, Pedida
<1>25. op'.ok = 0 BY <1>1, <1>5
<1>14. Respuesta(Q)' BY <1>25 DEF Respuesta
<1>15. TextosDeLlamadas(Q)'
  <2>1. ASSUME NEW c \in 1..MaxConexiones, c # n, Pide(P, c, "enviar")
        PROVE  Len(P[c]) = 2 /\ P[c][2].v <= llamadas /\ P[c][2].v \in Nat
    <3>1. ~EnviandoTexto BY <1>1 DEF EnviandoTexto, EnConexion
    <3>2. Len(P[c]) = 2 /\ P[c][2].v <= llamadas BY <2>1, <3>1 DEF IMensajes, TextosDeLlamadas
    <3>3. P[c] \in Seq(Unidades) BY <1>4
    <3>4. P[c][2] \in Unidades BY <3>2, <3>3
    <3> QED BY <3>2, <3>4 DEF Unidades
  <2>2. llamadas \in Nat BY DEF IMensajes, TipoMensajes
  <2>3. \A c \in 1..MaxConexiones : Pide(Q, c, "enviar")' =>
          /\ Len(Q[c]) = 2
          /\ Q[c][2].v <= llamadas \/ (EnviandoTexto' /\ Q[c][2].v = llamadas + 1)
    <3>1. SUFFICES ASSUME NEW c \in 1..MaxConexiones, Pide(Q, c, "enviar")'
                   PROVE  /\ Len(Q[c]) = 2
                          /\ Q[c][2].v <= llamadas \/ (EnviandoTexto' /\ Q[c][2].v = llamadas + 1)
      OBVIOUS
    <3>2. CASE c = n
      <4>1. op.tipo = "transmitir" /\ Len(Q[n]) = 2 /\ Q[n][2].v = llamadas + 1 BY <1>9, <3>1, <3>2
      <4>2. EnviandoTexto' BY <1>1, <4>1 DEF EnviandoTexto, EnConexion
      <4> QED BY <3>2, <4>1, <4>2
    <3>3. CASE c # n
      <4>1. Pide(P, c, "enviar") BY <1>7, <3>1, <3>3
      <4> QED BY <1>4, <2>1, <3>3, <4>1
    <3> QED BY <3>2, <3>3
  <2>4. \A c \in 1..MaxConexiones, d \in 1..MaxConexiones :
          c < d /\ Pide(Q, c, "enviar")' /\ Pide(Q, d, "enviar")' => Q[c][2].v < Q[d][2].v
    <3>1. SUFFICES ASSUME NEW c \in 1..MaxConexiones, NEW d \in 1..MaxConexiones, c < d,
                          Pide(Q, c, "enviar")', Pide(Q, d, "enviar")'
                   PROVE  Q[c][2].v < Q[d][2].v
      OBVIOUS
    <3>2. c # n
      <4>1. d \in 1..n BY <1>1, <3>1 DEF Pide
      <4>2. n \in Nat /\ c \in Nat /\ d \in Nat BY <1>1
      <4> QED BY <3>1, <4>1, <4>2
    <3>3. Pide(P, c, "enviar") /\ Q[c] = P[c] BY <1>4, <1>7, <3>1, <3>2
    <3>4. Q[c][2].v <= llamadas /\ Q[c][2].v \in Nat BY <2>1, <3>2, <3>3
    <3>5. CASE d = n
      <4>1. Q[d][2].v = llamadas + 1 BY <1>9, <3>1, <3>5
      <4> QED BY <2>2, <3>4, <4>1
    <3>6. CASE d # n
      <4>1. Pide(P, d, "enviar") /\ Q[d] = P[d] BY <1>4, <1>7, <3>1, <3>6
      <4> QED BY <3>1, <3>3, <4>1 DEF IMensajes, TextosDeLlamadas
    <3> QED BY <3>5, <3>6
  <2> QED BY <1>2, <2>3, <2>4 DEF TextosDeLlamadas
<1>16. EntrantesDe(Q)'
  <2>1. ASSUME NEW i \in 1..Len(entrantes)
        PROVE  \E c \in 1..MaxConexiones :
                 Pide(Q, c, "enviar")' /\ par[c].hecho = 1 /\ entrantes[i] = Q[c][2].v
    <3>1. PICK c \in 1..MaxConexiones : Pide(P, c, "enviar") /\ par[c].hecho = 1 /\ entrantes[i] = P[c][2].v
      BY DEF IMensajes, EntrantesDe
    <3>2. c # n /\ Pide(Q, c, "enviar")' BY <1>8, <3>1
    <3> QED BY <1>4, <3>1, <3>2
  <2> QED BY <1>1, <1>2, <2>1 DEF EntrantesDe
<1>17. EntrantesDistintos' BY <1>2 DEF IMensajes, EntrantesDistintos
<1>18. Respuestas(Q)'
  <2>1. SUFFICES ASSUME NEW c \in 1..MaxConexiones PROVE RespuestaDe(Q, c)' BY DEF Respuestas
  <2>2. \A k : Dice(c, k)' = Dice(c, k) BY <1>1 DEF Dice
  <2>3. CASE c = n
    <3>1. \A k : ~Dice(c, k) BY <1>11, <2>3 DEF Dice
    <3> QED BY <2>2, <3>1 DEF RespuestaDe
  <2>4. CASE c # n
    <3>1. RespuestaDe(P, c) BY DEF IMensajes, Respuestas
    <3>2. c # tcp'.con BY <1>1, <2>4
    <3> QED BY <1>1, <1>2, <1>4, <2>2, <2>4, <3>1, <3>2 DEF RespuestaDe
  <2> QED BY <2>3, <2>4
<1>19. ColaSigue' BY <1>2 DEF IMensajes, ColaSigue
<1>20. ConfirmaAtendidos(Q)'
  <2>1. SUFFICES ASSUME NEW c \in 1..MaxConexiones, Pide(Q, c, "confirmar")' PROVE Atendido(Q[c][1].v)'
    BY DEF ConfirmaAtendidos
  <2>2. CASE c = n BY <1>2, <1>10, <2>1, <2>2 DEF Atendido
  <2>3. CASE c # n
    <3>1. Pide(P, c, "confirmar") /\ Q[c] = P[c] BY <1>4, <1>7, <2>1, <2>3
    <3>2. Atendido(P[c][1].v) BY <3>1 DEF IMensajes, ConfirmaAtendidos
    <3> QED BY <1>2, <3>1, <3>2 DEF Atendido
  <2> QED BY <2>2, <2>3
<1>21. Confirmados' BY <1>2 DEF IMensajes, Confirmados, Atendido
<1>22. EntregadosEnOrden' BY <1>2 DEF IMensajes, EntregadosEnOrden
<1>23. Informes' BY <1>1 DEF Informes, Informa
<1> QED BY <1>12, <1>13, <1>14, <1>15, <1>16, <1>17, <1>18, <1>19, <1>20, <1>21, <1>22, <1>23 DEF IMensajes

\* A receiver answers.  It only stores more; what it said before still holds.
Guarda ==
  /\ \A i \in 1..Len(entrantes) : i \in 1..Len(entrantes') /\ entrantes'[i] = entrantes[i]
  /\ expedientes \subseteq expedientes' /\ ultimo_ack <= ultimo_ack'

LEMMA RespondeMensajes ==
    ASSUME NEW P, TipoCon, TipoCon', IFlujo(P), IMensajes(P),
           UNCHANGED <<tcp, pc, op, mensajes, usuario, guion>>,
           NEW c \in 1..MaxConexiones, Pedido(c), par' = [par EXCEPT ![c] = par'[c]], Guarda,
           TipoMensajes', EntrantesDe(P)', EntrantesDistintos', ColaSigue', Confirmados', EntregadosEnOrden',
           RespuestaDe(P, c)'
    PROVE  IMensajes(P)'
<1>1. UNCHANGED <<pendiente, id_pendiente, destino, secuencia, llamadas, resultado, entregados, descartados>>
  BY DEF mensajes, usuario
<1>2. \A d \in 1..MaxConexiones : d # c => par'[d] = par[d] BY DEF TipoCon
<1>3. par[c].hecho = 0 BY DEF Pedido
<1>4. Sesion' BY QuietoSesion DEF IMensajes
<1>5. Respuesta(P)'
  <2>1. SUFFICES ASSUME op.ok = 1
                 PROVE  /\ pc \in {"cerrar", "fin"} /\ tcp.con \in 1..MaxConexiones /\ P[tcp.con] = op.req
                        /\ IsPrefix(tcp.rx, par'[tcp.con].resp) /\ (op.tipo # "http" => Len(tcp.rx) >= 1)
    BY DEF Respuesta
  <2>2. /\ pc \in {"cerrar", "fin"} /\ tcp.con \in 1..MaxConexiones /\ P[tcp.con] = op.req
        /\ IsPrefix(tcp.rx, par[tcp.con].resp) /\ (op.tipo # "http" => Len(tcp.rx) >= 1)
    BY <2>1 DEF IMensajes, Respuesta
  <2>3. CASE tcp.con = c
    <3>1. par[c].resp = <<>> BY <1>3 DEF IFlujo, ISegmentos, Tomados, Tomado
    <3>2. tcp.rx \in Seq(Unidades) BY DEF TipoCon, TcpTipo
    <3>3. Len(tcp.rx) <= 0
      <4>1. <<>> \in Seq(Unidades) /\ Len(<<>>) = 0 OBVIOUS
      <4> QED BY <2>2, <2>3, <3>1, <3>2, <4>1, Prefijo
    <3>4. tcp.rx = <<>> BY <3>2, <3>3
    <3>5. PICK r \in Seq(Unidades) : r = par'[c].resp BY DEF TipoCon, ParTipo
    <3>6. IsPrefix(<<>>, r) BY PrefijoVacio
    <3> QED BY <2>2, <2>3, <3>4, <3>5, <3>6
  <2>4. CASE tcp.con # c BY <1>2, <2>2, <2>4
  <2> QED BY <2>3, <2>4
<1>6. TextosDeLlamadas(P)' BY <1>1 DEF IMensajes, TextosDeLlamadas, Pide, EnviandoTexto
<1>7. Respuestas(P)'
  <2>1. SUFFICES ASSUME NEW d \in 1..MaxConexiones, d # c PROVE RespuestaDe(P, d)' BY DEF Respuestas
  <2>2. RespuestaDe(P, d) /\ par'[d] = par[d] BY <1>2, <2>1 DEF IMensajes, Respuestas
  <2>3. \A k : Dice(d, k)' = Dice(d, k) BY <2>2 DEF Dice
  <2>4. Dice(d, "recibido") => \E i \in 1..Len(entrantes') : entrantes'[i] = P[d][2].v
    BY <2>2 DEF RespuestaDe, Guarda
  <2>5. Dice(d, "ack") => \E e \in expedientes' : Len(e) = 3 /\ e[1].v = par[d].resp[1].v
    BY <2>2 DEF RespuestaDe, Guarda
  <2>6. ASSUME Dice(d, "confirmado") PROVE par[d].resp[1].v <= ultimo_ack'
    <3>1. par[d].resp \in Seq(Unidades) BY DEF TipoCon, ParTipo
    <3>2. Len(par[d].resp) \in 1..3 BY <2>6 DEF Dice, IFlujo, ISegmentos, Tomados, Tomado
    <3>3. par[d].resp[1] \in Unidades BY <3>1, <3>2
    <3>4. par[d].resp[1].v \in Nat BY <3>3 DEF Unidades
    <3>5. ultimo_ack \in Nat /\ ultimo_ack' \in Nat BY DEF IMensajes, TipoMensajes
    <3>6. par[d].resp[1].v <= ultimo_ack /\ ultimo_ack <= ultimo_ack' BY <2>2, <2>6 DEF RespuestaDe, Guarda
    <3> QED BY <3>4, <3>5, <3>6
  <2> QED BY <1>1, <2>2, <2>3, <2>4, <2>5, <2>6 DEF RespuestaDe, EnCurso, EnCon
<1>8. ConfirmaAtendidos(P)' BY <1>1 DEF IMensajes, ConfirmaAtendidos, Pide, Atendido
<1>9. Informes'
  <2>1. Informa("transmitir")' = Informa("transmitir") /\ Informa("telemetria")' = Informa("telemetria")
    BY <1>1 DEF Informa
  <2> QED BY <1>1, <2>1 DEF IMensajes, Informes, Guarda
<1> QED BY <1>4, <1>5, <1>6, <1>7, <1>8, <1>9 DEF IMensajes

\* What a peer that answers has taken is the request, as far as it goes.
LEMMA PedidoTomado ==
    ASSUME NEW P, TipoCon, IEnvio, IFlujo(P), NEW c \in 1..MaxConexiones, Pedido(c)
    PROVE  /\ c \in 1..tcp.con /\ P[c] # <<>> /\ P[c] \in Seq(Unidades) /\ par[c].datos \in Seq(Unidades)
           /\ \A i \in 1..Len(par[c].datos) : i \in 1..Len(P[c]) /\ par[c].datos[i] = P[c][i]
           /\ P[c][1] = par[c].datos[1]
<1>1. par[c].datos \in Seq(Unidades) /\ P[c] \in Seq(Unidades)
  BY DEF TipoCon, ParTipo, IFlujo, ISegmentos, TipoPedidos
<1>2. par[c].est = "abierta" /\ par[c].datos # <<>> BY DEF Pedido
<1>3. c \in 1..tcp.con BY <1>2 DEF IEnvio, Enlazados, Enlace
<1>4. IsPrefix(par[c].datos, P[c]) BY DEF IFlujo, ISegmentos, Tomados, Tomado
<1>5. Len(par[c].datos) <= Len(P[c]) /\ \A i \in 1..Len(par[c].datos) : par[c].datos[i] = P[c][i]
  BY <1>1, <1>4, Prefijo
<1>6. 1 \in 1..Len(par[c].datos) BY <1>1, <1>2
<1>7. \A i \in 1..Len(par[c].datos) : i \in 1..Len(P[c]) BY <1>1, <1>5
<1> QED BY <1>1, <1>3, <1>5, <1>6, <1>7

\* The parts that an answer which stores nothing leaves alone.
LEMMA SinGuardar ==
    ASSUME NEW P, TipoCon, TipoCon', IFlujo(P), IMensajes(P),
           UNCHANGED <<tcp, pc, op, mensajes, usuario, guion>>,
           UNCHANGED <<entrantes, cola, ultimo_ack>>, expedientes \subseteq expedientes',
           NEW c \in 1..MaxConexiones, Pedido(c), par' = [par EXCEPT ![c] = par'[c]],
           RespuestaDe(P, c)'
    PROVE  IMensajes(P)'
<1>1. UNCHANGED <<pendiente, id_pendiente, destino, secuencia, llamadas, resultado, entregados, descartados>>
  BY DEF mensajes, usuario
<1>2. ultimo_ack \in Nat BY DEF IMensajes, TipoMensajes
<1>3. Guarda BY <1>2 DEF Guarda
<1>4. TipoMensajes' BY <1>1 DEF IMensajes, TipoMensajes
<1>5. EntrantesDe(P)'
  <2>1. \A d \in 1..MaxConexiones : par[d].hecho = 1 => par'[d] = par[d]
    <3>1. par[c].hecho = 0 BY DEF Pedido
    <3>2. \A d \in 1..MaxConexiones : d # c => par'[d] = par[d] BY DEF TipoCon
    <3> QED BY <3>1, <3>2
  <2> QED BY <2>1 DEF IMensajes, EntrantesDe, Pide
<1>6. EntrantesDistintos' BY DEF IMensajes, EntrantesDistintos
<1>7. ColaSigue' BY DEF IMensajes, ColaSigue
<1>8. Confirmados' BY <1>1 DEF IMensajes, Confirmados, Atendido
<1>9. EntregadosEnOrden' BY <1>1 DEF IMensajes, EntregadosEnOrden
<1> QED BY <1>3, <1>4, <1>5, <1>6, <1>7, <1>8, <1>9, RespondeMensajes

\* One kind of answer each: a message is stored.
LEMMA EnviarMensajes ==
    ASSUME NEW P, TipoCon, IEnvio, IFlujo(P), IMensajes(P), UNCHANGED guion, NEW c \in 1..MaxConexiones,
           Pedido(c), Len(par[c].datos) = 2, par[c].datos[1].k = "enviar",
           entrantes' = Append(entrantes, par[c].datos[2].v), UNCHANGED <<cola, ultimo_ack, expedientes>>,
           ParEnvia(c, <<U("recibido", 0), U("texto", 0)>>)
    PROVE  IMensajes(P)'
<1>1. "recibido" \in Claves /\ "texto" \in Claves /\ 0 \in Nat BY DEF Claves
<1>2. U("recibido", 0) \in Unidades /\ U("texto", 0) \in Unidades BY <1>1, UnidadTipo
<1>3. PICK resp : resp = <<U("recibido", 0), U("texto", 0)>> OBVIOUS
<1>4. resp \in Seq(Unidades) /\ Len(resp) \in 1..3 /\ resp[1] = U("recibido", 0) BY <1>2, <1>3, UnidadesSeq
<1>5. /\ TipoCon' /\ par' = [par EXCEPT ![c] = par'[c]] /\ par'[c].hecho = 1 /\ par'[c].resp = resp
  BY <1>3, <1>4, ParEnviaFlujo
<1>6. UNCHANGED <<tcp, pc, op, mensajes, usuario>> BY DEF ParEnvia, ajenos, pila
<1>7. UNCHANGED <<pendiente, id_pendiente, destino, secuencia, llamadas, resultado, entregados, descartados>>
  BY <1>6 DEF mensajes, usuario
<1>8. /\ c \in 1..tcp.con /\ P[c] # <<>> /\ par[c].datos \in Seq(Unidades)
      /\ \A i \in 1..Len(par[c].datos) : i \in 1..Len(P[c]) /\ par[c].datos[i] = P[c][i]
      /\ P[c][1] = par[c].datos[1]
  BY PedidoTomado
<1>9. Pide(P, c, "enviar") BY <1>8 DEF Pide
<1>10. PICK v \in Nat : v = par[c].datos[2].v
  <2>1. par[c].datos[2] \in Unidades BY <1>8
  <2> QED BY <2>1 DEF Unidades
<1>11. P[c][2].v = v
  <2>1. 2 \in 1..Len(par[c].datos) OBVIOUS
  <2> QED BY <1>8, <1>10, <2>1
<1>12. entrantes \in Seq(Nat) BY DEF IMensajes, TipoMensajes
<1>13. PICK n \in Nat : n = Len(entrantes) BY <1>12
<1>14. /\ entrantes' \in Seq(Nat) /\ Len(entrantes') = n + 1 /\ entrantes'[n + 1] = v
       /\ \A i \in 1..n : entrantes'[i] = entrantes[i]
  BY <1>10, <1>12, <1>13
<1>15. n + 1 \in 1..(n + 1) /\ \A i \in 1..n : i \in 1..(n + 1) OBVIOUS
<1>16. Guarda
  <2>1. ultimo_ack \in Nat BY DEF IMensajes, TipoMensajes
  <2> QED BY <1>13, <1>14, <1>15, <2>1 DEF Guarda
<1>17. TipoMensajes' BY <1>7, <1>14 DEF IMensajes, TipoMensajes
<1>18. par[c].hecho = 0 BY DEF Pedido
<1>19. \A d \in 1..MaxConexiones : d # c => par'[d] = par[d] BY <1>5 DEF TipoCon
<1>20. ASSUME NEW i \in 1..n
       PROVE  \E d \in 1..MaxConexiones :
                d # c /\ Pide(P, d, "enviar") /\ par[d].hecho = 1 /\ entrantes[i] = P[d][2].v
  BY <1>13, <1>18 DEF IMensajes, EntrantesDe
<1>21. EntrantesDe(P)'
  <2>1. SUFFICES ASSUME NEW i \in 1..(n + 1)
                 PROVE  \E d \in 1..MaxConexiones :
                          Pide(P, d, "enviar")' /\ par'[d].hecho = 1 /\ entrantes'[i] = P[d][2].v
    BY <1>14 DEF EntrantesDe
  <2>2. \A d : Pide(P, d, "enviar")' = Pide(P, d, "enviar") BY <1>6 DEF Pide
  <2>3. CASE i = n + 1 BY <1>5, <1>9, <1>11, <1>14, <2>2, <2>3
  <2>4. CASE i # n + 1
    <3>1. i \in 1..n BY <2>4
    <3>2. PICK d \in 1..MaxConexiones :
            d # c /\ Pide(P, d, "enviar") /\ par[d].hecho = 1 /\ entrantes[i] = P[d][2].v
      BY <1>20, <3>1
    <3> QED BY <1>14, <1>19, <2>2, <3>1, <3>2
  <2> QED BY <2>3, <2>4
<1>22. ASSUME NEW i \in 1..n PROVE entrantes[i] # v
  <2>1. PICK d \in 1..MaxConexiones :
          d # c /\ Pide(P, d, "enviar") /\ par[d].hecho = 1 /\ entrantes[i] = P[d][2].v
    BY <1>20, <1>22
  <2>2. entrantes[i] \in Nat BY <1>12, <1>13
  <2>3. c < d \/ d < c BY <2>1
  <2>4. P[c][2].v < P[d][2].v \/ P[d][2].v < P[c][2].v
    BY <1>9, <2>1, <2>3 DEF IMensajes, TextosDeLlamadas
  <2> QED BY <1>11, <2>1, <2>2, <2>4
<1>23. EntrantesDistintos'
  <2>1. SUFFICES ASSUME NEW i \in 1..(n + 1), NEW j \in 1..(n + 1), i # j PROVE entrantes'[i] # entrantes'[j]
    BY <1>14 DEF EntrantesDistintos
  <2>2. CASE i \in 1..n /\ j \in 1..n
    BY <1>13, <1>14, <2>1, <2>2 DEF IMensajes, EntrantesDistintos
  <2>3. CASE i \in 1..n /\ j = n + 1 BY <1>14, <1>22, <2>3
  <2>4. CASE i = n + 1 /\ j \in 1..n BY <1>14, <1>22, <2>4
  <2>5. (i \in 1..n \/ i = n + 1) /\ (j \in 1..n \/ j = n + 1) OBVIOUS
  <2> QED BY <2>1, <2>2, <2>3, <2>4, <2>5
<1>24. RespuestaDe(P, c)'
  <2>1. \E i \in 1..Len(entrantes') : entrantes'[i] = P[c][2].v BY <1>11, <1>14, <1>15
  <2>2. par'[c].resp[1].k = "recibido" BY <1>4, <1>5 DEF U
  <2>3. Dice(c, "recibido")' /\ ~Dice(c, "ack")' /\ ~Dice(c, "confirmado")' /\ ~Dice(c, "mensaje")'
    BY <1>5, <2>2 DEF Dice
  <2> QED BY <2>1, <2>3 DEF RespuestaDe
<1>25. ColaSigue' BY DEF IMensajes, ColaSigue
<1>26. Confirmados' BY <1>7 DEF IMensajes, Confirmados, Atendido
<1>27. EntregadosEnOrden' BY <1>7 DEF IMensajes, EntregadosEnOrden
<1> QED BY <1>5, <1>6, <1>16, <1>17, <1>21, <1>23, <1>24, <1>25, <1>26, <1>27, RespondeMensajes

\* An answer that stores no message and confirms none.
LEMMA DiceMensajes ==
    ASSUME NEW P, TipoCon, IEnvio, IFlujo(P), IMensajes(P), UNCHANGED guion, NEW c \in 1..MaxConexiones,
           Pedido(c), UNCHANGED <<entrantes, cola, ultimo_ack>>, expedientes \subseteq expedientes',
           NEW resp \in Seq(Unidades), Len(resp) \in 1..3, ParEnvia(c, resp), resp[1].k # "recibido",
           resp[1].k = "ack" => \E e \in expedientes' : Len(e) = 3 /\ e[1].v = resp[1].v,
           resp[1].k = "confirmado" => resp[1].v <= ultimo_ack,
           resp[1].k = "mensaje" => \A i \in 1..Len(entregados) : entregados[i] < resp[1].v
    PROVE  IMensajes(P)'
<1>1. TipoCon' /\ par' = [par EXCEPT ![c] = par'[c]] /\ par'[c].hecho = 1 /\ par'[c].resp = resp
  BY ParEnviaFlujo
<1>2. UNCHANGED <<tcp, pc, op, mensajes, usuario>> BY DEF ParEnvia, ajenos, pila
<1>3. entregados' = entregados BY <1>2 DEF usuario
<1>4. \A k : Dice(c, k)' => resp[1].k = k BY <1>1 DEF Dice
<1>5. RespuestaDe(P, c)' BY <1>1, <1>3, <1>4 DEF RespuestaDe
<1> QED BY <1>1, <1>2, <1>5, SinGuardar

\* A message leaves the queue: its confirmation was sent by a call that kept it.
LEMMA ConfirmarMensajes ==
    ASSUME NEW P, TipoCon, IEnvio, IFlujo(P), IMensajes(P), UNCHANGED guion, NEW c \in 1..MaxConexiones,
           Pedido(c), NEW v \in Nat, par[c].datos[1].v = v, par[c].datos[1].k = "confirmar",
           cola # <<>>, Head(cola) = v, cola' = Tail(cola), ultimo_ack' = v,
           UNCHANGED <<entrantes, expedientes>>, ParEnvia(c, <<U("confirmado", v), U("texto", 0)>>)
    PROVE  IMensajes(P)'
<1>1. "confirmado" \in Claves /\ "texto" \in Claves /\ 0 \in Nat BY DEF Claves
<1>2. U("confirmado", v) \in Unidades /\ U("texto", 0) \in Unidades BY <1>1, UnidadTipo
<1>3. PICK resp : resp = <<U("confirmado", v), U("texto", 0)>> OBVIOUS
<1>4. resp \in Seq(Unidades) /\ Len(resp) \in 1..3 /\ resp[1] = U("confirmado", v) BY <1>2, <1>3, UnidadesSeq
<1>5. /\ TipoCon' /\ par' = [par EXCEPT ![c] = par'[c]] /\ par'[c].hecho = 1 /\ par'[c].resp = resp
  BY <1>3, <1>4, ParEnviaFlujo
<1>6. UNCHANGED <<tcp, pc, op, mensajes, usuario>> BY DEF ParEnvia, ajenos, pila
<1>7. UNCHANGED <<pendiente, id_pendiente, destino, secuencia, llamadas, resultado, entregados, descartados>>
  BY <1>6 DEF mensajes, usuario
<1>8. cola \in Seq(Nat) /\ ultimo_ack \in Nat /\ \A i \in 1..Len(cola) : cola[i] = ultimo_ack + i
  BY DEF IMensajes, TipoMensajes, ColaSigue
<1>9. PICK l \in Nat : l = Len(cola) /\ l >= 1 BY <1>8
<1>10. v = ultimo_ack + 1
  <2>1. 1 \in 1..Len(cola) /\ cola[1] = v BY <1>8, <1>9
  <2> QED BY <1>8, <2>1
<1>11. /\ cola' \in Seq(Nat) /\ Len(cola') = l - 1
       /\ \A i \in 1..(l - 1) : cola'[i] = cola[i + 1]
  BY <1>8, <1>9
<1>12. ColaSigue'
  <2>1. SUFFICES ASSUME NEW i \in 1..(l - 1) PROVE cola'[i] = v + i BY <1>11 DEF ColaSigue
  <2>2. i + 1 \in 1..l BY <1>9
  <2>3. cola'[i] = ultimo_ack + (i + 1) BY <1>8, <1>9, <1>11, <2>2
  <2>4. ultimo_ack \in Nat /\ i \in Nat BY <1>8, <1>9
  <2>5. v + i = ultimo_ack + (i + 1) BY <1>10, <2>4
  <2> QED BY <2>3, <2>5
<1>13. Guarda BY <1>8, <1>10 DEF Guarda
<1>14. TipoMensajes' BY <1>7, <1>11 DEF IMensajes, TipoMensajes
<1>15. Pide(P, c, "confirmar") /\ P[c][1].v = v
  <2>1. c \in 1..tcp.con /\ P[c] # <<>> /\ P[c][1] = par[c].datos[1] BY PedidoTomado
  <2> QED BY <2>1 DEF Pide
<1>16. Atendido(v) BY <1>15 DEF IMensajes, ConfirmaAtendidos
<1>17. Confirmados'
  <2>1. SUFFICES ASSUME NEW id \in 1..v PROVE Atendido(id)' BY DEF Confirmados
  <2>2. id \in 1..ultimo_ack \/ id = v BY <1>8, <1>10
  <2>3. Atendido(id) BY <1>16, <2>2 DEF IMensajes, Confirmados
  <2> QED BY <1>7, <2>3 DEF Atendido
<1>18. EntregadosEnOrden'
  <2>1. \A i \in 1..Len(entregados) : entregados[i] <= v
    <3>1. entregados \in Seq(Nat) BY DEF IMensajes, TipoMensajes
    <3>2. SUFFICES ASSUME NEW i \in 1..Len(entregados) PROVE entregados[i] <= v OBVIOUS
    <3>3. entregados[i] \in Nat BY <3>1
    <3>4. entregados[i] <= ultimo_ack BY DEF IMensajes, EntregadosEnOrden
    <3> QED BY <1>8, <1>10, <3>3, <3>4
  <2> QED BY <1>7, <2>1 DEF IMensajes, EntregadosEnOrden
<1>19. EntrantesDistintos' BY DEF IMensajes, EntrantesDistintos
<1>20. EntrantesDe(P)'
  <2>1. par[c].hecho = 0 BY DEF Pedido
  <2>2. \A d \in 1..MaxConexiones : d # c => par'[d] = par[d] BY <1>5 DEF TipoCon
  <2>3. \A d \in 1..MaxConexiones : par[d].hecho = 1 => par'[d] = par[d] BY <2>1, <2>2
  <2>4. \A d : Pide(P, d, "enviar")' = Pide(P, d, "enviar") BY <1>6 DEF Pide
  <2>5. entrantes' = entrantes BY <1>7
  <2>6. SUFFICES ASSUME NEW i \in 1..Len(entrantes)
                 PROVE  \E d \in 1..MaxConexiones :
                          Pide(P, d, "enviar")' /\ par'[d].hecho = 1 /\ entrantes[i] = P[d][2].v
    BY <2>5 DEF EntrantesDe
  <2>7. PICK d \in 1..MaxConexiones :
          Pide(P, d, "enviar") /\ par[d].hecho = 1 /\ entrantes[i] = P[d][2].v
    BY DEF IMensajes, EntrantesDe
  <2>8. Pide(P, d, "enviar")' /\ par'[d].hecho = 1 BY <2>3, <2>4, <2>7
  <2> QED BY <2>7, <2>8
<1>21. RespuestaDe(P, c)'
  <2>1. par'[c].resp[1].k = "confirmado" /\ par'[c].resp[1].v = v BY <1>4, <1>5 DEF U
  <2>2. ~Dice(c, "recibido")' /\ ~Dice(c, "ack")' /\ ~Dice(c, "mensaje")' BY <2>1 DEF Dice
  <2> QED BY <2>1, <2>2 DEF RespuestaDe
<1> QED BY <1>5, <1>6, <1>12, <1>13, <1>14, <1>17, <1>18, <1>19, <1>20, <1>21, RespondeMensajes

LEMMA ParMensajeMensajes ==
    ASSUME NEW P, TipoCon, IEnvio, IFlujo(P), IMensajes(P), UNCHANGED guion, NEW c \in 1..MaxConexiones,
           ParMensaje(c)
    PROVE  IMensajes(P)'
<1>1. Pedido(c) /\ Len(par[c].datos) = 2 /\ UNCHANGED expedientes BY DEF ParMensaje
<1>2. par[c].datos \in Seq(Unidades) BY DEF TipoCon, ParTipo
<1>3. PICK h \in Unidades : h = par[c].datos[1] BY <1>1, <1>2
<1>4. PICK v \in Nat : v = h.v BY DEF Unidades
<1>5. ultimo_ack \in Nat /\ cola \in Seq(Nat) BY DEF IMensajes, TipoMensajes
<1>6. {"texto", "vacio", "mensaje", "confirmado", "error"} \subseteq Claves /\ 0 \in Nat BY DEF Claves
<1>7. \A k \in Claves, n \in Nat : U(k, n) \in Unidades /\ U(k, n).k = k /\ U(k, n).v = n BY UnidadTipo
<1>8. U("texto", 0) \in Unidades BY <1>6, <1>7
<1>9. ASSUME NEW a \in Unidades
      PROVE  LET r == <<a, U("texto", 0)>> IN r \in Seq(Unidades) /\ Len(r) \in 1..3 /\ r[1] = a
  BY <1>8, UnidadesSeq
<1>10. CASE h.k = "enviar"
  <2>1. /\ entrantes' = Append(entrantes, par[c].datos[2].v) /\ UNCHANGED <<cola, ultimo_ack>>
        /\ ParEnvia(c, <<U("recibido", 0), U("texto", 0)>>)
    BY <1>3, <1>10 DEF ParMensaje
  <2> QED BY <1>1, <1>3, <1>10, <2>1, EnviarMensajes
<1>11. CASE h.k = "consultar"
  <2>1. /\ UNCHANGED <<entrantes, cola, ultimo_ack>>
        /\ ParEnvia(c, IF cola = <<>> THEN <<U("vacio", 0), U("texto", 0)>>
                       ELSE <<U("mensaje", Head(cola)), U("texto", Head(cola))>>)
    BY <1>3, <1>11 DEF ParMensaje
  <2>2. CASE cola = <<>>
    <3>1. U("vacio", 0) \in Unidades /\ U("vacio", 0).k = "vacio" BY <1>6, <1>7
    <3>2. PICK r : r = <<U("vacio", 0), U("texto", 0)>> OBVIOUS
    <3>3. r \in Seq(Unidades) /\ Len(r) \in 1..3 /\ r[1].k = "vacio" BY <1>9, <3>1, <3>2
    <3>4. ParEnvia(c, r) BY <2>1, <2>2, <3>2
    <3> QED BY <1>1, <2>1, <3>3, <3>4, DiceMensajes
  <2>3. CASE cola # <<>>
    <3>1. PICK w \in Nat : w = Head(cola) BY <1>5, <2>3
    <3>2. w = ultimo_ack + 1
      <4>1. 1 \in 1..Len(cola) /\ cola[1] = w BY <1>5, <2>3, <3>1
      <4> QED BY <1>5, <4>1 DEF IMensajes, ColaSigue
    <3>3. /\ U("mensaje", w) \in Unidades /\ U("mensaje", w).k = "mensaje" /\ U("mensaje", w).v = w
          /\ U("texto", w) \in Unidades
      BY <1>6, <1>7
    <3>4. PICK r : r = <<U("mensaje", w), U("texto", w)>> OBVIOUS
    <3>5. r \in Seq(Unidades) /\ Len(r) \in 1..3 /\ r[1].k = "mensaje" /\ r[1].v = w
      BY <3>3, <3>4, UnidadesSeq
    <3>6. ParEnvia(c, r) BY <2>1, <2>3, <3>1, <3>4
    <3>7. \A i \in 1..Len(entregados) : entregados[i] < w
      <4>1. entregados \in Seq(Nat) BY DEF IMensajes, TipoMensajes
      <4>2. SUFFICES ASSUME NEW i \in 1..Len(entregados) PROVE entregados[i] < w OBVIOUS
      <4>3. entregados[i] \in Nat BY <4>1
      <4>4. entregados[i] <= ultimo_ack BY DEF IMensajes, EntregadosEnOrden
      <4> QED BY <1>5, <3>2, <4>3, <4>4
    <3> QED BY <1>1, <2>1, <3>5, <3>6, <3>7, DiceMensajes
  <2> QED BY <2>2, <2>3
<1>12. CASE h.k = "confirmar"
  <2>1. CASE cola # <<>> /\ Head(cola) = v
    <3>1. /\ cola' = Tail(cola) /\ ultimo_ack' = v /\ UNCHANGED entrantes
          /\ ParEnvia(c, <<U("confirmado", v), U("texto", 0)>>)
      BY <1>3, <1>4, <1>12, <2>1 DEF ParMensaje
    <3> QED BY <1>1, <1>3, <1>4, <1>12, <2>1, <3>1, ConfirmarMensajes
  <2>2. CASE ~(cola # <<>> /\ Head(cola) = v)
    <3>1. /\ UNCHANGED <<entrantes, cola, ultimo_ack>>
          /\ ParEnvia(c, <<IF ultimo_ack = v THEN U("confirmado", v) ELSE U("error", 0), U("texto", 0)>>)
      BY <1>3, <1>4, <1>12, <2>2 DEF ParMensaje
    <3>2. CASE ultimo_ack = v
      <4>1. U("confirmado", v) \in Unidades /\ U("confirmado", v).k = "confirmado" /\ U("confirmado", v).v = v
        BY <1>6, <1>7
      <4>2. PICK r : r = <<U("confirmado", v), U("texto", 0)>> OBVIOUS
      <4>3. r \in Seq(Unidades) /\ Len(r) \in 1..3 /\ r[1].k = "confirmado" /\ r[1].v = v
        BY <1>9, <4>1, <4>2
      <4>4. ParEnvia(c, r) BY <3>1, <3>2, <4>2
      <4>5. r[1].v <= ultimo_ack BY <1>5, <3>2, <4>3
      <4> QED BY <1>1, <3>1, <4>3, <4>4, <4>5, DiceMensajes
    <3>3. CASE ultimo_ack # v
      <4>1. U("error", 0) \in Unidades /\ U("error", 0).k = "error" BY <1>6, <1>7
      <4>2. PICK r : r = <<U("error", 0), U("texto", 0)>> OBVIOUS
      <4>3. r \in Seq(Unidades) /\ Len(r) \in 1..3 /\ r[1].k = "error" BY <1>9, <4>1, <4>2
      <4>4. ParEnvia(c, r) BY <3>1, <3>3, <4>2
      <4> QED BY <1>1, <3>1, <4>3, <4>4, DiceMensajes
    <3> QED BY <3>2, <3>3
  <2> QED BY <2>1, <2>2
<1> QED BY <1>3, <1>10, <1>11, <1>12 DEF ParMensaje

LEMMA ParLogMensajes ==
    ASSUME NEW P, TipoCon, IEnvio, IFlujo(P), IMensajes(P), UNCHANGED guion, NEW c \in 1..MaxConexiones,
           ParLog(c) \/ ParWeb(c)
    PROVE  IMensajes(P)'
<1>1. Pedido(c) /\ UNCHANGED <<entrantes, cola, ultimo_ack>> BY DEF ParLog, ParWeb, receptor
<1>2. par[c].datos \in Seq(Unidades) BY DEF TipoCon, ParTipo
<1>3. \A k \in Claves, n \in Nat : U(k, n) \in Unidades /\ U(k, n).k = k /\ U(k, n).v = n BY UnidadTipo
<1>4. CASE ParLog(c)
  <2>1. /\ Len(par[c].datos) = 3 /\ expedientes' = expedientes \cup {par[c].datos}
        /\ ParEnvia(c, <<U("ack", par[c].datos[1].v)>>)
    BY <1>4 DEF ParLog
  <2>2. par[c].datos[1] \in Unidades BY <1>2, <2>1
  <2>3. PICK v \in Nat : v = par[c].datos[1].v BY <2>2 DEF Unidades
  <2>4. "ack" \in Claves BY DEF Claves
  <2>5. U("ack", v) \in Unidades /\ U("ack", v).k = "ack" /\ U("ack", v).v = v BY <1>3, <2>4
  <2>6. PICK r : r = <<U("ack", v)>> OBVIOUS
  <2>7. r \in Seq(Unidades) /\ Len(r) \in 1..3 /\ r[1].k = "ack" /\ r[1].v = v
    BY <2>5, <2>6, UnidadesSeq
  <2>8. ParEnvia(c, r) BY <2>1, <2>3, <2>6
  <2>9. \E e \in expedientes' : Len(e) = 3 /\ e[1].v = r[1].v BY <2>1, <2>3, <2>7
  <2>10. expedientes \subseteq expedientes' BY <2>1
  <2> QED BY <1>1, <2>7, <2>8, <2>9, <2>10, DiceMensajes
<1>5. CASE ParWeb(c)
  <2>1. PICK n \in {1, 3} : ParEnvia(c, [i \in 1..n |-> U("html", i)]) BY <1>5 DEF ParWeb
  <2>2. expedientes' = expedientes BY <1>5 DEF ParWeb, receptor
  <2>3. PICK r : r = [i \in 1..n |-> U("html", i)] OBVIOUS
  <2>4. "html" \in Claves BY DEF Claves
  <2>5. \A i \in 1..n : U("html", i) \in Unidades BY <1>3, <2>4
  <2>6. r \in [1..n -> Unidades] /\ n \in Nat BY <2>3, <2>5
  <2>7. r \in Seq(Unidades) /\ Len(r) = n BY <2>6
  <2>8. r[1].k = "html" BY <2>3 DEF U
  <2>9. Len(r) \in 1..3 BY <2>7
  <2> QED BY <1>1, <2>1, <2>2, <2>3, <2>7, <2>8, <2>9, DiceMensajes
<1> QED BY <1>4, <1>5

LEMMA MensajesPaso ==
    ASSUME NEW P, TipoCon, TipoRed, IEnvio, IFlujo(P), IMensajes(P), [Next]_vars, ~Conectar
    PROVE  IMensajes(P)'
<1>1. CASE UNCHANGED vars
  <2>1. UNCHANGED <<pc, tcp, par, op, mensajes, usuario, receptor, guion>> BY <1>1 DEF vars, pila
  <2> QED BY <2>1, QuietoMensajes DEF Quieto
<1>2. CASE Next
  <2>1. UNCHANGED guion BY <1>2 DEF Next
  <2>2. CASE Sondeo /\ UNCHANGED <<op, mensajes, usuario, receptor>> BY <2>1, <2>2, SondeoMensajes
  <2>3. CASE Llamada
    BY <2>1, <2>3, IniciosMensajes, RetornosMensajes, DestinoMensajes DEF Llamada
  <2>4. CASE Avance
    <3>1. CASE Pedir BY <2>1, <3>1, IniciosMensajes
    <3>2. CASE Conceder \/ DhcpVence \/ DnsVence \/ FinHttp BY <2>1, <3>2, RetornosMensajes
    <3>3. CASE OtroEco \/ SigueArp BY <2>1, <3>3, EcoMensajes
    <3>4. CASE NoConecta \/ Cerrado BY <2>1, <3>4, CerradoMensajes
    <3> QED
      BY <2>1, <2>4, <3>1, <3>2, <3>3, <3>4, ConectadoMensajes, EnviadoMensajes, RespondidoMensajes,
         FallaArpMensajes, FinTransmitirMensajes, FinConsultarMensajes, FinConfirmarMensajes,
         FinTelemetriaMensajes DEF Avance
  <2>5. CASE Pares
    <3>1. CASE \E c \in 1..MaxConexiones : ParMensaje(c) BY <2>1, <3>1, ParMensajeMensajes
    <3>2. CASE \E c \in 1..MaxConexiones : ParLog(c) \/ ParWeb(c) BY <2>1, <3>2, ParLogMensajes
    <3>3. CASE \/ \E f \in salen : \/ \E s \in ServidoresDhcp : ParDhcp(f, s)
                                   \/ ParContesta(f) \/ ParSyn(f) \/ ParSegmento(f)
               \/ \E c \in 1..MaxConexiones : ParAborta(c)
      BY <2>1, <3>3, ParesQuietosMensajes
    <3> QED BY <2>5, <3>1, <3>2, <3>3 DEF Pares
  <2> QED BY <1>2, <2>2, <2>3, <2>4, <2>5 DEF Next
<1> QED BY <1>1, <1>2

-----------------------------------------------------------------------------
(* The invariant.                                                           *)

LEMMA InvPaso ==
    ASSUME NEW P, Inv(P), [Next]_vars PROVE \E Q : Inv(Q)'
<1>1. TipoCon /\ TipoRed /\ IDhcp /\ IEnvio /\ IFlujo(P) /\ IMensajes(P) BY DEF Inv
<1>2. Emisor /\ Sesion /\ TipoMensajes /\ Respuesta(P) /\ ISegmentos(P) BY <1>1 DEF IFlujo, IMensajes
<1>3. TipoRed' /\ IDhcp' BY <1>1, DhcpPaso DEF IEnvio
<1>4. IEnvio'
  <2>1. EnCon => Len(op.req) <= 3
    <3>1. SUFFICES ASSUME EnCon PROVE Len(op.req) <= 3 OBVIOUS
    <3>2. Len(op.req) \in 0..3 BY <1>1, <1>2, <3>1, EnCursoSinFin
    <3>3. PICK l \in 0..3 : l = Len(op.req) BY <3>2
    <3>4. l <= 3 OBVIOUS
    <3> QED BY <3>3, <3>4
  <2> QED BY <1>1, <1>2, <2>1, EnvioPaso
<1>5. CASE ~Conectar
  <2>1. TipoCon' /\ IFlujo(P)' BY <1>1, <1>2, <1>5, FlujoPaso
  <2>2. IMensajes(P)' BY <1>1, <1>5, MensajesPaso
  <2>3. Inv(P)' BY <1>3, <1>4, <2>1, <2>2 DEF Inv
  <2> QED BY <2>3
<1>6. CASE Conectar
  <2>1. PICK Q : Q = [P EXCEPT ![tcp.con + 1] = op.req] OBVIOUS
  <2>2. TipoCon' /\ IFlujo(Q)' BY <1>1, <1>2, <1>6, <2>1, ConectarFlujo
  <2>3. UNCHANGED guion
    <3>1. UNCHANGED vars => UNCHANGED guion BY DEF vars
    <3> QED BY <3>1 DEF Next
  <2>4. IMensajes(Q)' BY <1>1, <1>6, <2>1, <2>3, ConectarMensajes
  <2>5. Inv(Q)' BY <1>3, <1>4, <2>2, <2>4 DEF Inv
  <2> QED BY <2>5
<1> QED BY <1>5, <1>6

LEMMA InvInicio ==
    ASSUME Init PROVE \E P : Inv(P)
<1>1. PICK P : P = [c \in 1..MaxConexiones |-> <<>>] OBVIOUS
<1>2. InitPila /\ op = Nada /\ pendiente = 0 /\ id_pendiente = 0 /\ destino = Pc /\ secuencia = 0
      /\ llamadas = 0 /\ entregados = <<>> /\ descartados = {} /\ entrantes = <<>>
      /\ cola \in {<<>>, Escritos} /\ ultimo_ack = 0 /\ expedientes = {}
  BY DEF Init
<1>3. tcp = TcpCero /\ par = [c \in 1..MaxConexiones |-> ParCero] /\ pc = "libre" /\ espera = <<>>
      /\ salen = {} /\ llegan = {}
  BY <1>2 DEF InitPila
<1>4. TipoRed /\ IDhcp BY DhcpInicio
<1>5. TipoCon
  <2>1. <<>> \in Seq(Unidades) /\ 0 \in Nat /\ 0 \in {0, 1} /\ 0 \in 0..4 OBVIOUS
  <2>2. Nadie \in Direcciones BY DEF Direcciones
  <2>3. TcpCero \in TcpTipo BY <2>1, <2>2 DEF TcpCero, TcpTipo
  <2>4. ParCero \in ParTipo BY <2>1 DEF ParCero, ParTipo
  <2>5. Nada \in OpTipo BY NadaTipo
  <2> QED BY <1>2, <1>3, <2>3, <2>4, <2>5 DEF TipoCon
<1>6. ~EnCon BY <1>3 DEF EnCon, EnConexion
<1>7. MaxConexiones \in Nat /\ Reintentos \in Nat BY LimitesAssumption
<1>8. tcp.activa = 0 /\ tcp.con = 0 /\ tcp.reintentos = 0 BY <1>3 DEF TcpCero
<1>9. \A c \in 1..MaxConexiones : par[c] = ParCero BY <1>3
<1>10. ParCero.est = "nada" /\ ParCero.hecho = 0 /\ ParCero.resp = <<>> /\ ParCero.datos = <<>>
  BY DEF ParCero
<1>11. IEnvio
  <2>1. EsperaVacia /\ EsperaPing /\ EsperaDns /\ EsperaResolver /\ EsperaConectar
    BY <1>3 DEF EsperaVacia, EsperaPing, EsperaDns, EsperaResolver, EsperaConectar
  <2>2. Enlazados BY <1>3, <1>9, <1>10 DEF Enlazados
  <2>3. Activa BY <1>3, <1>7, <1>8 DEF Activa
  <2> QED BY <2>1, <2>2, <2>3 DEF IEnvio
<1>12. /\ P \in [1..MaxConexiones -> Seq(Unidades)]
       /\ \A c \in 1..MaxConexiones : P[c] = <<>> /\ Len(P[c]) <= 3
  <2>1. <<>> \in Seq(Unidades) /\ Len(<<>>) = 0 OBVIOUS
  <2> QED BY <1>1, <2>1
<1>13. IFlujo(P)
  <2>1. TipoPedidos(P) BY <1>12 DEF TipoPedidos
  <2>2. PedidoActual(P) BY <1>6 DEF PedidoActual
  <2>3. SaleSyn /\ SaleDatos(P) /\ SaleFin(P) BY <1>3 DEF SaleSyn, SaleDatos, SaleFin
  <2>4. LlegaSyn /\ LlegaDatos BY <1>3 DEF LlegaSyn, LlegaDatos
  <2>5. Tomados(P)
    <3>1. SUFFICES ASSUME NEW c \in 1..MaxConexiones PROVE Tomado(P, c) BY DEF Tomados
    <3>2. IsPrefix(par[c].datos, P[c])
      <4>1. IsPrefix(<<>>, P[c]) BY <1>12, PrefijoVacio
      <4> QED BY <1>9, <1>10, <4>1
    <3> QED BY <1>6, <1>9, <1>10, <3>2 DEF Tomado, Actual
  <2>6. Emisor BY <1>3, <1>6 DEF Emisor
  <2>7. Entregado /\ Receptor BY <1>6 DEF Entregado, Receptor
  <2> QED BY <2>1, <2>2, <2>3, <2>4, <2>5, <2>6, <2>7 DEF IFlujo, ISegmentos
<1>14. cola \in Seq(Nat) /\ \A i \in 1..Len(cola) : cola[i] = 0 + i
  <2>1. CASE cola = <<>> BY <2>1
  <2>2. CASE cola = Escritos
    <3>1. MaxTextos \in Nat BY ReceptorAssumption
    <3>2. cola \in [1..MaxTextos -> Nat] /\ \A i \in 1..MaxTextos : cola[i] = i BY <2>2, <3>1 DEF Escritos
    <3>3. cola \in Seq(Nat) /\ Len(cola) = MaxTextos BY <3>1, <3>2
    <3> QED BY <3>1, <3>2, <3>3
  <2> QED BY <1>2, <2>1, <2>2
<1>15. op.ok = 0 BY <1>2 DEF Nada
<1>16. IMensajes(P)
  <2>1. TipoMensajes BY <1>2, <1>14 DEF TipoMensajes, Lan
  <2>2. Sesion BY <1>3 DEF Sesion, EnIntercambio, EnConexion
  <2>3. Respuesta(P) BY <1>15 DEF Respuesta
  <2>4. \A k : \A c \in 1..MaxConexiones : ~Pide(P, c, k) /\ ~Dice(c, k)
    BY <1>9, <1>10, <1>12 DEF Pide, Dice
  <2>5. TextosDeLlamadas(P) BY <2>4 DEF TextosDeLlamadas
  <2>6. EntrantesDe(P) /\ EntrantesDistintos BY <1>2 DEF EntrantesDe, EntrantesDistintos
  <2>7. Respuestas(P) BY <2>4 DEF Respuestas, RespuestaDe
  <2>8. ColaSigue BY <1>2, <1>14 DEF ColaSigue
  <2>9. ConfirmaAtendidos(P) BY <2>4 DEF ConfirmaAtendidos
  <2>10. Confirmados BY <1>2 DEF Confirmados
  <2>11. EntregadosEnOrden BY <1>2 DEF EntregadosEnOrden
  <2>12. Informes BY <1>2 DEF Informes, Informa
  <2> QED BY <2>1, <2>2, <2>3, <2>5, <2>6, <2>7, <2>8, <2>9, <2>10, <2>11, <2>12 DEF IMensajes
<1> QED BY <1>4, <1>5, <1>11, <1>13, <1>16 DEF Inv

InvExiste == \E P : Inv(P)

LEMMA InvSiempre == Spec => []InvExiste
<1>1. Init => InvExiste BY InvInicio DEF InvExiste
<1>2. InvExiste /\ [Next]_vars => InvExiste'
  <2>1. SUFFICES ASSUME InvExiste, [Next]_vars PROVE InvExiste' OBVIOUS
  <2>2. PICK P : Inv(P) BY <2>1 DEF InvExiste
  <2>3. \E Q : Inv(Q)' BY <2>1, <2>2, InvPaso
  <2> QED BY <2>3 DEF InvExiste
<1> QED BY <1>1, <1>2, PTL DEF Spec

LEMMA InvAnidados == ASSUME NEW P, Inv(P) PROVE EnviosAnidados
<1>1. TipoCon /\ TipoRed /\ IEnvio /\ IFlujo(P) BY DEF Inv
<1>2. tcp \in TcpTipo BY <1>1 DEF TipoCon
<1>3. tcp.reintentos \in Nat /\ tcp.reintentos <= Reintentos /\ Reintentos \in Nat /\ tcp.estado \in 0..4
  BY <1>1, <1>2, LimitesAssumption DEF IEnvio, Activa, TcpTipo
<1>4. Len(espera) <= Reintentos + 1
      /\ \A i \in 1..Len(espera) :
           espera[i].salto = espera[1].salto /\ (espera[i].quien # "resolver" => espera[i].seg = payload)
  <2>1. CASE espera = <<>>
    <3>1. Len(espera) = 0 BY <2>1
    <3> QED BY <1>3, <3>1
  <2>2. CASE SynEspera
    <3> DEFINE a == Aguarda(Salto(tcp.remota), "syn")
               b == Aguarda(Salto(tcp.remota), "nadie")
               S == {a, b}
    <3>1. PICK n \in 1..(tcp.reintentos + 1) : espera = Pila2(a, b, n) BY <2>2 DEF SynEspera, Apilados
    <3>2. a.seg = payload /\ b.seg = payload /\ a.salto = b.salto BY DEF Aguarda
    <3> HIDE DEF a, b
    <3>3. a \in S /\ b \in S /\ n \in Nat BY <1>3
    <3> HIDE DEF S
    <3>7. /\ Len(Pila2(a, b, n)) = n /\ (n > 0 => Pila2(a, b, n)[1] = a)
          /\ \A i \in 2..n : Pila2(a, b, n)[i] = b
      BY <3>3, PilaTipo
    <3>4. /\ Len(espera) = n /\ (n > 0 => espera[1] = a) /\ \A i \in 2..n : espera[i] = b
      BY <3>1, <3>7
    <3>5. \A i \in 1..n : espera[i] = a \/ espera[i] = b
      <4>1. SUFFICES ASSUME NEW i \in 1..n PROVE espera[i] = a \/ espera[i] = b OBVIOUS
      <4>2. n > 0 /\ (i = 1 \/ i \in 2..n) BY <3>3
      <4> QED BY <3>4, <4>2
    <3>6. n <= Reintentos + 1 BY <1>3, <3>1
    <3>8. n > 0 => espera[1] = a BY <3>4
    <3> QED BY <3>2, <3>3, <3>4, <3>5, <3>6, <3>8
  <2>3. CASE espera # <<>> /\ ~SynEspera
    <3>1. \/ payload.fl = "eco?" /\ espera = <<Aguarda(Salto(op.dst), "ping")>>
          \/ payload.fl = "dns?" /\ espera = <<Aguarda(Salto(cfg.dns), "dns")>>
          \/ espera = <<Aguarda(op.dst, "resolver")>>
      BY <1>1, <2>3, EsperaSola
    <3>2. PICK a : espera = <<a>> /\ a.seg = payload BY <3>1 DEF Aguarda
    <3>3. Len(espera) = 1 /\ \A i \in 1..1 : espera[i] = a BY <3>2
    <3>4. 1 <= Reintentos + 1 BY <1>3
    <3> QED BY <3>2, <3>3, <3>4
  <2> QED BY <2>1, <2>2, <2>3
<1>5. ASSUME tcp.activa = 1, tcp.estado >= 2 PROVE Salto(tcp.remota) \in arp
  <2>1. EnCon BY <1>1, <1>5 DEF IEnvio, Activa
  <2> QED BY <1>1, <1>5, <2>1, ConexionLibre
<1> QED BY <1>4, <1>5 DEF EnviosAnidados

LEMMA InvFlujo == ASSUME NEW P, Inv(P) PROVE FlujoFiel
<1>1. TipoCon /\ IEnvio /\ IFlujo(P) BY DEF Inv
<1>2. SUFFICES ASSUME tcp.activa = 1
               PROVE  /\ IsPrefix(par[tcp.con].datos, op.req) /\ IsPrefix(tcp.rx, par[tcp.con].resp)
                      /\ tcp.estado >= 2 /\ tcp.ack_de_datos = 1 => Len(par[tcp.con].datos) >= op.k
  BY DEF FlujoFiel
<1>3. EnCon BY <1>1, <1>2 DEF IEnvio, Activa
<1>4. tcp.con \in 1..MaxConexiones /\ P[tcp.con] = op.req BY <1>1, <1>3 DEF IFlujo, ISegmentos, PedidoActual
<1>5. IsPrefix(par[tcp.con].datos, op.req) BY <1>1, <1>4 DEF IFlujo, ISegmentos, Tomados, Tomado
<1>6. IsPrefix(tcp.rx, par[tcp.con].resp) BY <1>1, <1>3 DEF IFlujo, Receptor, Toma
<1>7. tcp.estado >= 2 /\ tcp.ack_de_datos = 1 => Len(par[tcp.con].datos) >= op.k
  BY <1>1, <1>3 DEF IFlujo, Entregado
<1> QED BY <1>5, <1>6, <1>7

LEMMA EnRango == ASSUME NEW s, NEW i \in 1..Len(s), DOMAIN s = 1..Len(s) PROVE s[i] \in Range(s)
BY DEF Range

LEMMA InvMensajes == ASSUME NEW P, Inv(P) PROVE MensajesExactos
<1>1. /\ entrantes \in Seq(Nat) /\ entregados \in Seq(Nat) /\ EntrantesDistintos /\ Confirmados
      /\ EntregadosEnOrden /\ Informes
  BY DEF Inv, IMensajes, TipoMensajes
<1>2. DOMAIN entrantes = 1..Len(entrantes) /\ DOMAIN entregados = 1..Len(entregados) BY <1>1
<1>3. \A i \in 1..Len(entrantes), j \in 1..Len(entrantes) : i # j => entrantes[i] # entrantes[j]
  BY <1>1 DEF EntrantesDistintos
<1>4. Informa("transmitir") => llamadas \in Range(entrantes)
  <2>1. SUFFICES ASSUME Informa("transmitir") PROVE llamadas \in Range(entrantes) OBVIOUS
  <2>2. PICK i \in 1..Len(entrantes) : entrantes[i] = llamadas BY <1>1, <2>1 DEF Informes
  <2> QED BY <1>2, <2>2, EnRango
<1>5. Informa("telemetria") => \E e \in expedientes : Len(e) = 3 /\ e[1].v = secuencia
  BY <1>1 DEF Informes
<1>6. \A i \in 1..Len(entregados), j \in 1..Len(entregados) : i < j => entregados[i] < entregados[j]
  BY <1>1 DEF EntregadosEnOrden
<1>7. ASSUME NEW id \in 1..ultimo_ack
      PROVE  id \in Range(entregados) \/ id \in descartados \/ (pendiente = 1 /\ id = id_pendiente)
  <2>1. Atendido(id) BY <1>1 DEF Confirmados
  <2>2. ASSUME NEW i \in 1..Len(entregados), entregados[i] = id PROVE id \in Range(entregados)
    BY <1>2, <2>2, EnRango
  <2> QED BY <2>1, <2>2 DEF Atendido
<1> QED BY <1>3, <1>4, <1>5, <1>6, <1>7 DEF MensajesExactos

\* Polls nest only as deep as there are retransmissions of one segment, all that
\* wait do so for one hop, and each finds its own segment in the buffer when it
\* answers: only the SYN of a connection whose hop is unknown waits with others.
THEOREM EnviosAnidadosCorrectos == Spec => []EnviosAnidados
<1>1. InvExiste => EnviosAnidados BY InvAnidados DEF InvExiste
<1> QED BY InvSiempre, <1>1, PTL

\* TCP delivers what was sent, in order and once, whatever the network loses,
\* repeats or reorders and wherever the sequence numbers wrap.
THEOREM FlujoFielCorrecto == Spec => []FlujoFiel
<1>1. InvExiste => FlujoFiel BY InvFlujo DEF InvExiste
<1> QED BY InvSiempre, <1>1, PTL

\* The messages of the LAN are stored once and shown once and in order, and the
\* calls report only what was done, for every session of calls.
THEOREM MensajesExactosCorrecto == Spec => []MensajesExactos
<1>1. InvExiste => MensajesExactos BY InvMensajes DEF InvExiste
<1> QED BY InvSiempre, <1>1, PTL

\* red_dhcp reports success only when a server granted the address it installs
\* in the exchange it has just made, whatever the servers offer, lose or repeat;
\* and the address installed stays one that the server beside it granted in some
\* exchange.
THEOREM ConcesionConfirmadaCorrecta == Spec => []ConcesionConfirmada
<1>1. InvExiste => ConcesionConfirmada
  <2>1. ASSUME NEW P, Inv(P) PROVE ConcesionConfirmada BY <2>1 DEF Inv, IDhcp
  <2> QED BY <2>1 DEF InvExiste
<1> QED BY <1>1, InvSiempre, PTL
=============================================================================
