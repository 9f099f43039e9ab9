--------------------------- MODULE TrabajosProof ----------------------------
(***************************************************************************)
(* Proofs about the work pool, for any number of CPUs, regions and         *)
(* batches.  The inductive invariant has three layers: types, control      *)
(* (who can be where while the coordinator is where) and the accounting    *)
(* of regions, each proved with the help of the ones before it.            *)
(***************************************************************************)
EXTENDS Trabajos, FiniteSetTheorems, TLAPS

USE NCPUAssumption, LimiteAssumption, MaxRegionesAssumption, TamanosAssumption,
    MaxEpocaAssumption, TopeAssumption, BanderasAssumption

-----------------------------------------------------------------------------
(* Types                                                                    *)

\* TypeOK needs two facts about control to be inductive: there is a slot for
\* the AP being started, and a region under way has an index of the batch.
TipoInv ==
  /\ TipoPc
  /\ TipoDatos
  /\ pc[0] = "esperarListo" => cantidad < NCPU
  /\ \A c \in CPU : pc[c] \in {"region", "completar"} => i[c] \in Regiones

LEMMA TipoInicial == Init => TipoInv
<1> SUFFICES ASSUME Init PROVE TipoInv OBVIOUS
<1>1. TipoPc BY DEF Init, TipoPc, PCBsp, PCAp, PCComun, CPU, AP
<1>2. TipoDatos BY DEF Init, TipoDatos, CPU, AP, Regiones, Fases
<1>3. \A c \in CPU : pc[c] \notin {"region", "completar", "esperarListo"}
  BY DEF Init, CPU
<1> QED BY <1>1, <1>2, <1>3 DEF TipoInv, CPU

LEMMA Puntos ==
  /\ PCComun \subseteq PCBsp /\ PCComun \subseteq PCAp
  /\ {"tomar", "sumar", "decidir", "region", "completar"} \subseteq PCComun
  /\ {"libre", "campos", "publicar", "epoca", "avisar", "esperar", "servicio",
      "acuses", "cerrar", "retornar", "arrancar", "esperarListo", "parar",
      "avisarParada", "esperarDetenidos"} \subseteq PCBsp
  /\ {"apagada", "arrancando", "cli", "mirarParar", "dormida", "evaluar", "acusar",
      "parada"} \subseteq PCAp
BY DEF PCBsp, PCAp, PCComun

\* A CPU moves within its own program.
LEMMA TipoIr ==
  ASSUME TipoPc, NEW c \in CPU, NEW d, d \in (IF c = 0 THEN PCBsp ELSE PCAp), Ir(c, d)
  PROVE  TipoPc'
BY DEF TipoPc, Ir, CPU, AP

LEMMA TipoIncrementado ==
  ASSUME NEW s \in 0..TopeSiguiente PROVE Incrementado(s) \in 0..TopeSiguiente
BY DEF Incrementado

LEMMA TipoActivas == TipoDatos => Activas \in 1..NCPU
BY DEF TipoDatos, Activas

\* The part of TipoInv about a region in the hands of CPU c, after c moves.
LEMMA TipoRegion ==
  ASSUME TipoInv, NEW c \in CPU, NEW d, Ir(c, d), UNCHANGED i,
         d \in {"region", "completar"} => i[c] \in Regiones
  PROVE  \A x \in CPU : pc'[x] \in {"region", "completar"} => i'[x] \in Regiones
BY DEF TipoInv, TipoPc, Ir

LEMMA TipoTomar == ASSUME TipoInv, NEW c \in CPU, Tomar(c) PROVE TipoInv'
<1> USE DEF lote, pool, reparto, arranque, historia
<1>a. TipoPc /\ TipoDatos /\ 0 \in CPU BY DEF TipoInv, CPU
<1>b. /\ c \in AP \/ c = 0
      /\ \A o \in {0, 1} : TrasTomar(c, o) \in (IF c = 0 THEN PCBsp ELSE PCAp)
      /\ \A o \in {0, 1} : TrasTomar(c, o) \notin {"esperarListo", "region", "completar"}
  BY Puntos DEF TrasTomar, CPU, AP
<1>1. CASE LeerActivo(c)
  <2> PICK d : Ir(c, d) /\ d \in (IF c = 0 THEN PCBsp ELSE PCAp)
               /\ d \notin {"esperarListo", "region", "completar"}
    BY <1>1, <1>b, Puntos DEF LeerActivo
  <2>1. TipoPc' BY <1>a, TipoIr
  <2>2. TipoDatos' BY <1>a, <1>1 DEF LeerActivo, TipoDatos
  <2>3. (pc[0] = "esperarListo" => cantidad < NCPU)'
    BY <1>1, <1>a DEF LeerActivo, TipoInv, TipoPc, Ir
  <2>4. \A x \in CPU : pc'[x] \in {"region", "completar"} => i'[x] \in Regiones
    BY <1>1, TipoRegion DEF LeerActivo
  <2> QED BY <2>1, <2>2, <2>3, <2>4 DEF TipoInv
<1>2. CASE Sumar(c)
  <2>1. TipoPc' BY <1>2, <1>a, <1>b, TipoIr, Puntos DEF Sumar, CPU, AP
  <2>2. TipoDatos' BY <1>a, <1>2, TipoIncrementado DEF Sumar, TipoDatos
  <2>3. (pc[0] = "esperarListo" => cantidad < NCPU)'
    BY <1>2, <1>a DEF Sumar, TipoInv, TipoPc, Ir
  <2>4. \A x \in CPU : pc'[x] \in {"region", "completar"} => i'[x] \in Regiones
    BY <1>2, <1>a DEF Sumar, TipoInv, TipoPc, TipoDatos, Ir
  <2> QED BY <2>1, <2>2, <2>3, <2>4 DEF TipoInv
<1>3. CASE Decidir(c)
  <2> PICK d : Ir(c, d) /\ d \in (IF c = 0 THEN PCBsp ELSE PCAp) /\ d # "esperarListo"
               /\ (d \in {"region", "completar"} => i[c] < total)
    <3>1. i[c] \in Nat /\ total \in Nat BY <1>a DEF TipoDatos
    <3> QED BY <1>3, <1>b, <3>1, Puntos DEF Decidir
  <2>1. TipoPc' BY <1>a, TipoIr
  <2>2. TipoDatos' BY <1>a, <1>3 DEF Decidir, TipoDatos
  <2>3. (pc[0] = "esperarListo" => cantidad < NCPU)'
    BY <1>3, <1>a DEF Decidir, TipoInv, TipoPc, Ir
  <2>4. i[c] < total => i[c] \in Regiones BY <1>a DEF TipoDatos, Regiones
  <2>5. \A x \in CPU : pc'[x] \in {"region", "completar"} => i'[x] \in Regiones
    BY <1>3, <2>4, TipoRegion DEF Decidir
  <2> QED BY <2>1, <2>2, <2>3, <2>5 DEF TipoInv
<1>4. CASE Region(c)
  <2>0. i[c] \in Regiones BY <1>4 DEF Region, TipoInv
  <2>1. TipoPc' BY <1>4, <1>a, <1>b, TipoIr, Puntos DEF Region, CPU, AP
  <2>2. ipi' \in [AP -> {0, 1}] BY <1>4, <1>a DEF Region, TipoDatos, CPU, AP
  <2>3. veces' \in [Regiones -> Nat] BY <1>4, <1>a, <2>0 DEF Region, TipoDatos
  <2>4. TipoDatos' BY <1>a, <1>4, <2>2, <2>3 DEF Region, TipoDatos
  <2>5. (pc[0] = "esperarListo" => cantidad < NCPU)'
    BY <1>4, <1>a DEF Region, TipoInv, TipoPc, Ir
  <2>6. \A x \in CPU : pc'[x] \in {"region", "completar"} => i'[x] \in Regiones
    BY <1>4, <2>0, TipoRegion DEF Region
  <2> QED BY <2>1, <2>4, <2>5, <2>6 DEF TipoInv
<1>5. CASE Completar(c)
  <2>0. i[c] \in Regiones BY <1>5 DEF Completar, TipoInv
  <2>1. TipoPc' BY <1>5, <1>a, <1>b, TipoIr, Puntos DEF Completar
  <2>2. TipoDatos' BY <1>a, <1>5, <2>0 DEF Completar, TipoDatos
  <2>3. (pc[0] = "esperarListo" => cantidad < NCPU)'
    BY <1>5, <1>a, <1>b DEF Completar, TipoInv, TipoPc, Ir
  <2>4. \A x \in CPU : pc'[x] \in {"region", "completar"} => i'[x] \in Regiones
    BY <1>5, <1>b, TipoRegion DEF Completar
  <2> QED BY <2>1, <2>2, <2>3, <2>4 DEF TipoInv
<1> QED BY <1>1, <1>2, <1>3, <1>4, <1>5 DEF Tomar

\* What an AP does outside trabajos_tomar leaves the batch and the loop of the
\* coordinator alone.
LEMMA TipoAp ==
  ASSUME TipoInv, NEW c \in AP, PasoAp(c) \/ Arranca(c) \/ AtenderIpi(c)
  PROVE  TipoInv'
<1> USE DEF lote, pool, reparto, arranque, historia, locales
<1>a. TipoPc /\ TipoDatos /\ c \in CPU /\ c # 0 BY DEF TipoInv, CPU, AP
<1>c. ASSUME NEW d \in PCAp \ {"region", "completar"}, Ir(c, d), UNCHANGED <<i, cantidad>>,
             TipoDatos'
      PROVE  TipoInv'
  <2>1. TipoPc' BY <1>a, <1>c, TipoIr
  <2>2. pc'[0] = pc[0] BY <1>a, <1>c DEF Ir, TipoPc, CPU
  <2>3. \A x \in CPU : pc'[x] \in {"region", "completar"} => i'[x] \in Regiones
    BY <1>a, <1>c, TipoRegion
  <2> QED BY <1>c, <2>1, <2>2, <2>3 DEF TipoInv
<1>1. CASE LeerEpoca(c)
  <2>1. TipoDatos' BY <1>1, <1>a DEF LeerEpoca, TipoDatos
  <2> QED BY <1>1, <2>1, <1>c, Puntos DEF LeerEpoca
<1>2. CASE MirarParar(c)
  <2>1. TipoDatos' BY <1>2, <1>a DEF MirarParar, TipoDatos
  <2> QED BY <1>2, <2>1, <1>c, Puntos DEF MirarParar
<1>3. CASE Despierta(c)
  <2>1. TipoDatos' BY <1>3, <1>a DEF Despierta, TipoDatos
  <2> QED BY <1>3, <2>1, <1>c, Puntos DEF Despierta
<1>4. CASE Evaluar(c)
  <2>1. TipoDatos' BY <1>4, <1>a DEF Evaluar, TipoDatos
  <2> QED BY <1>4, <2>1, <1>c, Puntos DEF Evaluar
<1>5. CASE Acusar(c)
  <2>1. TipoDatos' BY <1>5, <1>a DEF Acusar, TipoDatos
  <2> QED BY <1>5, <2>1, <1>c, Puntos DEF Acusar
<1>6. CASE Arranca(c)
  <2>1. TipoDatos' BY <1>6, <1>a DEF Arranca, TipoDatos
  <2> QED BY <1>6, <2>1, <1>c, Puntos DEF Arranca
<1>7. CASE AtenderIpi(c)
  <2>1. TipoDatos' BY <1>7, <1>a DEF AtenderIpi, TipoDatos
  <2> QED BY <1>7, <2>1 DEF AtenderIpi, TipoInv, TipoPc
<1>8. CASE Tomar(c) BY <1>8, <1>a, TipoTomar
<1> QED BY <1>1, <1>2, <1>3, <1>4, <1>5, <1>6, <1>7, <1>8 DEF PasoAp

\* The steps of the coordinator that move it and leave its index alone.
LEMMA TipoMover ==
  ASSUME TipoInv, NEW d \in PCBsp \ {"region", "completar"}, Ir(0, d), UNCHANGED i,
         TipoDatos', d = "esperarListo" => cantidad' < NCPU
  PROVE  TipoInv'
<1>a. TipoPc /\ 0 \in CPU BY DEF TipoInv, CPU
<1>1. TipoPc' BY <1>a, TipoIr
<1>2. pc'[0] = d BY <1>a DEF Ir, TipoPc
<1>3. \A x \in CPU : pc'[x] \in {"region", "completar"} => i'[x] \in Regiones
  BY <1>a, TipoRegion
<1> QED BY <1>1, <1>2, <1>3 DEF TipoInv

\* The steps of the coordinator that stay at the same point.
LEMMA TipoQuieto ==
  ASSUME TipoInv, UNCHANGED <<pc, i>>, TipoDatos', pc[0] # "esperarListo"
  PROVE  TipoInv'
BY DEF TipoInv, TipoPc

LEMMA TipoArranque ==
  ASSUME TipoInv, ArrancarAp \/ EsperarListo \/ PublicarParada \/ AvisarParada \/ EsperarDetenidos
  PROVE  TipoInv'
<1> USE DEF lote, pool, reparto, arranque, historia, locales
<1>a. TipoPc /\ TipoDatos /\ 0 \in CPU BY DEF TipoInv, CPU
<1>1. CASE ArrancarAp
  <2>1. TipoDatos' BY <1>1, <1>a DEF ArrancarAp, TipoDatos
  <2>2. CASE Ir(0, "libre") BY <1>1, <2>1, <2>2, TipoMover, Puntos DEF ArrancarAp
  <2>3. CASE /\ cantidad < LimiteCpu
             /\ pc' = [pc EXCEPT ![0] = "esperarListo", ![cantidad] = "arrancando"]
    <3>1. cantidad \in AP /\ cantidad < NCPU BY <1>a, <2>3 DEF TipoDatos, AP
    <3>2. TipoPc' BY <1>a, <2>3, <3>1, Puntos DEF TipoPc, CPU, AP
    <3>3. \A x \in CPU : pc'[x] \in {"region", "completar"} => i'[x] \in Regiones
      BY <1>1, <1>a, <2>3, <3>1 DEF ArrancarAp, TipoInv, TipoPc, CPU, AP
    <3> QED BY <1>1, <2>1, <3>1, <3>2, <3>3 DEF ArrancarAp, TipoInv
  <2> QED BY <1>1, <2>2, <2>3 DEF ArrancarAp
<1>2. CASE EsperarListo
  <2>0. cantidad < NCPU BY <1>2 DEF EsperarListo, TipoInv
  <2>1. TipoDatos' BY <1>2, <1>a, <2>0 DEF EsperarListo, TipoDatos
  <2> QED BY <1>2, <2>1, TipoMover, Puntos DEF EsperarListo
<1>3. CASE PublicarParada
  <2>1. TipoDatos' BY <1>3, <1>a DEF PublicarParada, TipoDatos
  <2> QED BY <1>3, <2>1, TipoMover, Puntos DEF PublicarParada
<1>4. CASE AvisarParada
  <2>1. TipoDatos' BY <1>4, <1>a DEF AvisarParada, TipoDatos
  <2> QED BY <1>4, <2>1, TipoMover, TipoQuieto, Puntos DEF AvisarParada
<1>5. CASE EsperarDetenidos
  <2>1. TipoDatos' BY <1>5, <1>a DEF EsperarDetenidos, TipoDatos
  <2> QED BY <1>5, <2>1, TipoMover, TipoQuieto, Puntos DEF EsperarDetenidos
<1> QED BY <1>1, <1>2, <1>3, <1>4, <1>5

LEMMA TipoBsp == ASSUME TipoInv, PasoBsp PROVE TipoInv'
<1> USE DEF lote, pool, reparto, arranque, historia, locales
<1>a. TipoPc /\ TipoDatos /\ 0 \in CPU BY DEF TipoInv, CPU
<1>1. CASE ArrancarAp \/ EsperarListo \/ PublicarParada \/ AvisarParada \/ EsperarDetenidos
  BY <1>1, TipoArranque
<1>6. ASSUME NEW n \in Tamanos, PrepararCampos(n) PROVE TipoInv'
  <2>1. TipoDatos' BY <1>6, <1>a DEF PrepararCampos, TipoDatos
  <2> QED BY <1>6, <2>1, TipoMover, Puntos DEF PrepararCampos
<1>7. CASE PublicarActivo
  <2>1. TipoDatos' BY <1>7, <1>a DEF PublicarActivo, TipoDatos
  <2> QED BY <1>7, <2>1, TipoMover, Puntos DEF PublicarActivo
<1>8. CASE AvanzarEpoca
  <2>1. TipoDatos' BY <1>8, <1>a, TipoActivas DEF AvanzarEpoca, TipoDatos
  <2> QED BY <1>8, <2>1, TipoMover, Puntos DEF AvanzarEpoca
<1>9. CASE Avisar
  <2>1. TipoDatos' BY <1>9, <1>a DEF Avisar, TipoDatos
  <2> QED BY <1>9, <2>1, TipoMover, TipoQuieto, Puntos DEF Avisar
<1>10. CASE Esperar
  <2>1. TipoDatos' BY <1>10, <1>a DEF Esperar, TipoDatos
  <2> QED BY <1>10, <2>1, TipoMover, Puntos DEF Esperar
<1>11. CASE Servicio
  <2>1. TipoDatos' BY <1>11, <1>a DEF Servicio, TipoDatos
  <2> QED BY <1>11, <2>1, TipoMover, Puntos DEF Servicio
<1>12. CASE Acuses
  <2>1. TipoDatos' BY <1>12, <1>a DEF Acuses, TipoDatos
  <2> QED BY <1>12, <2>1, TipoMover, TipoQuieto, Puntos DEF Acuses
<1>13. CASE Cerrar
  <2>1. TipoDatos' BY <1>13, <1>a DEF Cerrar, TipoDatos
  <2> QED BY <1>13, <2>1, TipoMover, Puntos DEF Cerrar
<1>14. CASE Retornar
  <2>1. TipoDatos' BY <1>14, <1>a DEF Retornar, TipoDatos, Fases
  <2> QED BY <1>14, <2>1, TipoMover, Puntos DEF Retornar
<1>15. CASE Tomar(0) BY <1>15, <1>a, TipoTomar
<1> QED BY <1>1, <1>6, <1>7, <1>8, <1>9, <1>10, <1>11, <1>12, <1>13, <1>14, <1>15
        DEF PasoBsp

LEMMA TipoLlamadas == ASSUME TipoInv, Llamadas PROVE TipoInv'
<1> USE DEF lote, pool, reparto, arranque, historia, locales
<1>a. TipoPc /\ TipoDatos /\ 0 \in CPU BY DEF TipoInv, CPU
<1>1. CASE Iniciar
  <2>1. TipoDatos' BY <1>1, <1>a DEF Iniciar, TipoDatos, Fases
  <2> QED BY <1>1, <2>1, TipoMover, TipoQuieto, Puntos DEF Iniciar
<1>2. CASE LlamarParar
  <2>1. TipoDatos' BY <1>2, <1>a DEF LlamarParar, TipoDatos
  <2> QED BY <1>2, <2>1, TipoMover, Puntos DEF LlamarParar
<1>3. CASE Marchar
  <2>1. TipoDatos' BY <1>3, <1>a DEF Marchar, TipoDatos, Fases
  <2> QED BY <1>3, <2>1, TipoQuieto DEF Marchar
<1>4. CASE Ejecutar
  <2>1. TipoDatos' BY <1>4, <1>a DEF Ejecutar, TipoDatos
  <2> QED BY <1>4, <2>1, TipoMover, Puntos DEF Ejecutar
<1>5. CASE Cancelar
  <2>1. TipoDatos' BY <1>5, <1>a DEF Cancelar, TipoDatos
  <2> QED BY <1>5, <2>1, TipoQuieto DEF Cancelar
<1>6. ASSUME NEW n \in 0..(NCPU + 1), NEW bsp \in {0, 1}, Configurar(n, bsp)
      PROVE  TipoInv'
  <2>1. TipoDatos' BY <1>6, <1>a DEF Configurar, TipoDatos
  <2> QED BY <1>6, <2>1, TipoQuieto DEF Configurar
<1> QED BY <1>1, <1>2, <1>3, <1>4, <1>5, <1>6 DEF Llamadas

LEMMA TipoPaso == TipoInv /\ [Next]_vars => TipoInv'
<1> SUFFICES ASSUME TipoInv, [Next]_vars PROVE TipoInv' OBVIOUS
<1>1. CASE PasoBsp BY <1>1, TipoBsp
<1>2. CASE Llamadas BY <1>2, TipoLlamadas
<1>3. CASE \E c \in AP : PasoAp(c) \/ Arranca(c) \/ AtenderIpi(c) BY <1>3, TipoAp
<1>4. CASE UNCHANGED vars
  BY <1>4 DEF vars, locales, lote, pool, reparto, arranque, historia, TipoInv,
              TipoPc, TipoDatos
<1> QED BY <1>1, <1>2, <1>3, <1>4 DEF Next

\* Every CPU stays within its own program and every variable of the pool within
\* its range, whatever the interleaving, the boot outcome and the commands.
THEOREM TipoCorrecto == Spec => []TypeOK
<1>1. TipoInv => TypeOK BY DEF TipoInv, TypeOK
<1> QED BY <1>1, TipoInicial, TipoPaso, PTL DEF Spec

-----------------------------------------------------------------------------
(* Control: who can be using the batch while the coordinator is where.      *)

\* The AP has read an epoch it has not acknowledged.
Despierto(c) == pc[c] \in PCComun \cup {"evaluar", "acusar"}

\* Points of the coordinator from the increment of epoca to the return, and
\* those at which lote.activo may be 1.
TrasEpoca == PCComun \cup {"avisar", "esperar", "servicio", "acuses", "cerrar", "retornar"}
Publicado == PCComun \cup {"epoca", "avisar", "esperar", "servicio", "acuses", "cerrar"}

\* The coordinator has seen the acknowledgement of participant c.
Acusado(c) ==
  c < participantes /\ (pc[0] \in {"cerrar", "retornar"} \/ (pc[0] = "acuses" /\ c < k))

ControlBsp ==
  /\ activo = 1 => pc[0] \in Publicado
  /\ pc[0] \in TrasEpoca => participantes = Activas /\ e[0] = epoca
  /\ pc[0] \in {"arrancar", "esperarListo"} \/ fase = "inicio" => parar = 0
  /\ fase = "inicio" => pc[0] = "libre"
  /\ pc[0] = "esperarDetenidos" => \A c \in AP : c < k => detenido[c] = 1

ControlAp(c) ==
  /\ vista[c] <= epoca /\ e[c] <= epoca
  /\ pc[c] = "mirarParar" => vista[c] <= e[c]
  /\ Despierto(c) => vista[c] < e[c]
  /\ pc[c] \in PCComun => c < Activas
  /\ detenido[c] = 1 => pc[c] = "parada" /\ parar = 1
  /\ Acusado(c) => vista[c] = epoca
  /\ EnLote(c) => pc[0] \in Publicado

ControlInv == ControlBsp /\ \A c \in AP : ControlAp(c)


LEMMA ControlInicial == Init => ControlInv
<1> SUFFICES ASSUME Init PROVE ControlInv OBVIOUS
<1>1. 0 \in CPU /\ AP \subseteq CPU BY DEF CPU, AP
<1>2. pc[0] = "libre" /\ \A c \in AP : pc[c] = "apagada" BY <1>1 DEF Init, AP
<1>3. ControlBsp BY <1>2 DEF Init, ControlBsp, TrasEpoca, PCComun
<1>4. ASSUME NEW c \in AP PROVE ControlAp(c)
  BY <1>1, <1>2 DEF Init, ControlAp, Despierto, Acusado, EnLote, PCComun
<1> QED BY <1>3, <1>4 DEF ControlInv

\* A step of AP c that writes only its own locals, epoca_vista and detenido
\* preserves the invariant if it preserves the part about c.
LEMMA ControlMarco ==
  ASSUME TipoInv, TipoInv', ControlInv, NEW c \in AP, NEW d, Ir(c, d),
         UNCHANGED <<epoca, cantidad, seleccion_cpu, participantes, k, parar, activo, fase>>,
         \A x \in CPU \ {c} : e'[x] = e[x],
         \A x \in AP \ {c} : vista'[x] = vista[x] /\ detenido'[x] = detenido[x],
         detenido[c] = 1 => detenido'[c] = 1,
         ControlAp(c)'
  PROVE  ControlInv'
<1>1. 0 \in CPU /\ 0 # c /\ c \in CPU /\ AP \subseteq CPU BY DEF CPU, AP
<1>2. /\ \A x \in CPU \ {c} : pc'[x] = pc[x]
      /\ pc'[0] = pc[0] /\ e'[0] = e[0] /\ Activas' = Activas
  BY <1>1 DEF Ir, TipoInv, TipoPc, Activas
<1>3. ControlBsp' BY <1>2, <1>1 DEF ControlInv, ControlBsp
<1>4. ASSUME NEW x \in AP \ {c} PROVE ControlAp(x)'
  BY <1>1, <1>2 DEF ControlInv, ControlAp, Despierto, Acusado, EnLote
<1> QED BY <1>3, <1>4 DEF ControlInv

LEMMA ControlTomarAp ==
  ASSUME TipoInv, TipoInv', ControlInv, NEW c \in AP, Tomar(c) PROVE ControlInv'
<1> USE DEF lote, pool, reparto, arranque, historia
<1>a. c \in CPU /\ c # 0 /\ 0 \in CPU BY DEF CPU, AP
<1>b. ControlAp(c) /\ ControlBsp BY DEF ControlInv
<1>c. TipoPc /\ TipoDatos BY DEF TipoInv
<1>d. /\ UNCHANGED <<epoca, cantidad, seleccion_cpu, participantes, k, parar, activo, fase>>
      /\ UNCHANGED <<e, vista, detenido>>
      /\ \E d \in {"tomar", "sumar", "decidir", "region", "completar", "acusar"} : Ir(c, d)
      /\ pc[c] \in PCComun
      /\ EnLote(c)' => EnLote(c) \/ activo = 1
  BY <1>a, <1>c DEF Tomar, LeerActivo, Sumar, Decidir, Region, Completar, TrasTomar, EnLote,
                    PCComun, Ir, TipoPc
<1> PICK d \in {"tomar", "sumar", "decidir", "region", "completar", "acusar"} : Ir(c, d)
  BY <1>d
<1>1. pc'[c] = d /\ pc'[0] = pc[0] /\ Activas' = Activas
  BY <1>a, <1>c, <1>d DEF Ir, TipoPc, Activas
<1>2. ControlAp(c)'
  <2>1. Despierto(c) BY <1>d DEF Despierto
  <2>2. detenido[c] # 1
    BY <1>b, <1>d DEF ControlAp, PCComun
  <2>3. EnLote(c)' => pc'[0] \in Publicado
    BY <1>b, <1>d, <1>1 DEF ControlAp, ControlBsp
  <2> QED BY <1>b, <1>d, <1>1, <2>1, <2>2, <2>3
          DEF ControlAp, Despierto, Acusado, PCComun
<1> QED BY <1>d, <1>2, ControlMarco

LEMMA ControlPasoAp ==
  ASSUME TipoInv, TipoInv', ControlInv, NEW c \in AP,
         PasoAp(c) \/ Arranca(c) \/ AtenderIpi(c)
  PROVE  ControlInv'
<1> USE DEF lote, pool, reparto, arranque, historia, locales
<1>a. c \in CPU /\ c # 0 /\ 0 \in CPU /\ AP \subseteq CPU BY DEF CPU, AP
<1>b. ControlAp(c) /\ ControlBsp BY DEF ControlInv
<1>c. TipoPc /\ TipoDatos BY DEF TipoInv
<1>d. vista[c] \in Nat /\ e[c] \in Nat /\ epoca \in Nat /\ detenido[c] \in {0, 1}
      /\ parar \in {0, 1}
  BY <1>a, <1>c DEF TipoDatos
<1>e. ASSUME NEW d, Ir(c, d) PROVE pc'[c] = d /\ pc'[0] = pc[0]
  BY <1>a, <1>c, <1>e DEF Ir, TipoPc
<1>1. CASE LeerEpoca(c)
  <2>1. ControlAp(c)'
    <3>1. e'[c] = epoca BY <1>1, <1>a, <1>c DEF LeerEpoca, TipoDatos
    <3>2. detenido[c] # 1 BY <1>1, <1>b DEF LeerEpoca, ControlAp
    <3> QED BY <1>1, <1>b, <1>d, <1>e, <3>1, <3>2
            DEF LeerEpoca, ControlAp, Despierto, Acusado, EnLote, PCComun
  <2> QED BY <1>1, <2>1, <1>a, <1>c, ControlMarco DEF LeerEpoca, TipoDatos
<1>2. CASE MirarParar(c)
  <2>1. ControlAp(c)'
    <3>1. detenido'[c] = parar BY <1>2, <1>c DEF MirarParar, TipoDatos
    <3>2. pc'[0] = pc[0] /\ pc'[c] = IF parar = 1 THEN "parada"
             ELSE IF e[c] = vista[c] THEN "dormida" ELSE "evaluar"
      BY <1>2, <1>e DEF MirarParar
    <3>3. vista[c] <= e[c] BY <1>2, <1>b DEF MirarParar, ControlAp
    <3> QED BY <1>2, <1>b, <1>d, <3>1, <3>2, <3>3
            DEF MirarParar, ControlAp, Despierto, Acusado, EnLote, PCComun
  <2>2. detenido[c] # 1 BY <1>2, <1>b DEF MirarParar, ControlAp
  <2> QED BY <1>2, <2>1, <2>2, <1>a, <1>c, ControlMarco DEF MirarParar, TipoDatos
<1>3. CASE Despierta(c)
  <2>1. ControlAp(c)'
    BY <1>3, <1>b, <1>d, <1>e DEF Despierta, ControlAp, Despierto, Acusado, EnLote, PCComun
  <2> QED BY <1>3, <2>1, <1>a, ControlMarco DEF Despierta
<1>4. CASE Evaluar(c)
  <2>1. ControlAp(c)'
    <3>1. pc'[0] = pc[0] /\ pc'[c] = (IF c < Activas THEN "tomar" ELSE "acusar")
      BY <1>4, <1>e DEF Evaluar
    <3>2. Despierto(c) /\ ~EnLote(c)' /\ Activas' = Activas
      BY <1>4, <3>1 DEF Evaluar, Despierto, EnLote, Activas
    <3> QED BY <1>4, <1>b, <1>d, <3>1, <3>2
            DEF Evaluar, ControlAp, Despierto, Acusado, PCComun
  <2> QED BY <1>4, <2>1, <1>a, ControlMarco DEF Evaluar
<1>5. CASE Acusar(c)
  <2>0. Despierto(c) /\ vista[c] < e[c] /\ e[c] <= epoca
    BY <1>5, <1>b DEF Acusar, ControlAp, Despierto
  <2>1. ControlAp(c)'
    <3>1. vista'[c] = e[c] BY <1>5, <1>c DEF Acusar, TipoDatos
    <3>2. ~Acusado(c) BY <2>0, <1>b, <1>d DEF ControlAp
    <3> QED BY <1>5, <1>b, <1>d, <1>e, <2>0, <3>1, <3>2
            DEF Acusar, ControlAp, Despierto, Acusado, EnLote, PCComun
  <2> QED BY <1>5, <2>1, <1>a, <1>c, ControlMarco DEF Acusar, TipoDatos
<1>6. CASE Arranca(c)
  <2>1. ControlAp(c)'
    BY <1>6, <1>b, <1>d, <1>e DEF Arranca, ControlAp, Despierto, Acusado, EnLote, PCComun
  <2> QED BY <1>6, <2>1, <1>a, ControlMarco DEF Arranca
<1>7. CASE AtenderIpi(c)
  BY <1>7 DEF AtenderIpi, ControlInv, ControlBsp, ControlAp, Despierto, Acusado, EnLote, Activas
<1>8. CASE Tomar(c) BY <1>8, ControlTomarAp
<1> QED BY <1>1, <1>2, <1>3, <1>4, <1>5, <1>6, <1>7, <1>8 DEF PasoAp


\* A step of the coordinator that moves it to d and leaves the APs, the epoch
\* and the distribution alone.
LEMMA ControlMarcoBsp ==
  ASSUME TipoInv, TipoInv', ControlInv, NEW d, Ir(0, d),
         UNCHANGED <<epoca, vista, detenido, parar, cantidad, seleccion_cpu>>,
         \A x \in AP : e'[x] = e[x],
         ControlBsp',
         \A c \in AP : Acusado(c)' => vista[c] = epoca,
         d \in Publicado \/ pc[0] \notin Publicado
  PROVE  ControlInv'
<1>1. 0 \in CPU /\ \A c \in AP : c \in CPU /\ c # 0 BY DEF CPU, AP
<1>2. pc'[0] = d /\ Activas' = Activas /\ \A c \in AP : pc'[c] = pc[c]
  BY <1>1 DEF Ir, TipoInv, TipoPc, Activas
<1>3. ASSUME NEW c \in AP PROVE ControlAp(c)'
  BY <1>1, <1>2 DEF ControlInv, ControlAp, Despierto, EnLote
<1> QED BY <1>3 DEF ControlInv

LEMMA ControlTomarBsp ==
  ASSUME TipoInv, TipoInv', ControlInv, Tomar(0) PROVE ControlInv'
<1> USE DEF lote, pool, reparto, arranque, historia
<1>1. /\ UNCHANGED <<epoca, vista, detenido, parar, cantidad, seleccion_cpu, e, activo,
                     participantes, fase>>
      /\ pc[0] \in PCComun
      /\ \E d \in PCComun \cup {"servicio"} : Ir(0, d)
  BY DEF Tomar, LeerActivo, Sumar, Decidir, Region, Completar, TrasTomar, PCComun
<1> PICK d \in PCComun \cup {"servicio"} : Ir(0, d) BY <1>1
<1>2. pc'[0] = d BY DEF Ir, TipoInv, TipoPc, CPU
<1>3. ControlBsp'
  BY <1>1, <1>2 DEF ControlInv, ControlBsp, Publicado, TrasEpoca, PCComun, Activas
<1>4. \A c \in AP : ~Acusado(c)' BY <1>2 DEF Acusado, PCComun
<1> QED BY <1>1, <1>3, <1>4, ControlMarcoBsp DEF Publicado

LEMMA ControlPasoBsp ==
  ASSUME TipoInv, TipoInv', ControlInv, PasoBsp PROVE ControlInv'
<1> USE DEF lote, pool, reparto, arranque, historia, locales
<1>a. 0 \in CPU /\ \A c \in AP : c \in CPU /\ c # 0 BY DEF CPU, AP
<1>b. ControlBsp /\ \A c \in AP : ControlAp(c) BY DEF ControlInv
<1>c. TipoPc /\ TipoDatos BY DEF TipoInv
<1>d. ASSUME NEW d, Ir(0, d) PROVE pc'[0] = d /\ \A c \in AP : pc'[c] = pc[c]
  BY <1>a, <1>c, <1>d DEF Ir, TipoPc
<1>e. /\ \A c \in AP : c \in Nat /\ detenido[c] \in {0, 1}
      /\ k \in Nat /\ participantes \in Nat /\ epoca \in Nat
  BY <1>c DEF TipoDatos, AP
<1>1. CASE ArrancarAp
  <2>0. pc[0] = "arrancar" /\ parar = 0 BY <1>1, <1>b DEF ArrancarAp, ControlBsp
  <2>1. CASE Ir(0, "libre")
    <3>1. ControlBsp'
      BY <1>1, <2>0, <2>1, <1>b, <1>d DEF ArrancarAp, ControlBsp, Publicado, TrasEpoca, PCComun
    <3>2. \A c \in AP : ~Acusado(c)' BY <2>1, <1>d DEF Acusado
    <3> QED BY <1>1, <2>0, <2>1, <3>1, <3>2, ControlMarcoBsp DEF ArrancarAp, Publicado, PCComun
  <2>2. CASE /\ cantidad < LimiteCpu
             /\ pc' = [pc EXCEPT ![0] = "esperarListo", ![cantidad] = "arrancando"]
    <3>1. /\ cantidad \in AP /\ pc'[0] = "esperarListo"
          /\ \A c \in AP : pc'[c] = pc[c] \/ (c = cantidad /\ pc'[c] = "arrancando")
      BY <1>a, <1>c, <2>2 DEF TipoDatos, TipoPc, AP
    <3>2. ControlBsp'
      BY <1>1, <2>0, <3>1, <1>b DEF ArrancarAp, ControlBsp, Publicado, TrasEpoca, PCComun
    <3>3. ASSUME NEW c \in AP PROVE ControlAp(c)'
      <4>1. ControlAp(c) /\ detenido[c] # 1 BY <1>b, <2>0 DEF ControlAp
      <4>2. ~EnLote(c) BY <4>1, <2>0 DEF ControlAp, Publicado, PCComun
      <4> QED BY <1>1, <3>1, <4>1, <4>2
              DEF ArrancarAp, ControlAp, Despierto, Acusado, EnLote, PCComun, Activas
    <3> QED BY <3>2, <3>3 DEF ControlInv
  <2> QED BY <1>1, <2>1, <2>2 DEF ArrancarAp
<1>2. CASE EsperarListo
  <2>0. pc[0] = "esperarListo" /\ parar = 0 /\ UNCHANGED parar
    BY <1>2, <1>b DEF EsperarListo, ControlBsp
  <2>1. PICK d \in {"arrancar", "parar"} : Ir(0, d) BY <1>2 DEF EsperarListo
  <2>2. ControlBsp'
    BY <1>2, <2>0, <2>1, <1>b, <1>d DEF EsperarListo, ControlBsp, Publicado, TrasEpoca, PCComun
  <2>3. ASSUME NEW c \in AP, c < Activas PROVE c < Activas'
    BY <1>2, <2>3, <1>c, <1>e DEF EsperarListo, Activas, TipoDatos
  <2>4. ASSUME NEW c \in AP PROVE ControlAp(c)'
    <3>1. ControlAp(c) /\ ~EnLote(c) BY <1>b, <2>0 DEF ControlAp, Publicado, PCComun
    <3> QED BY <1>2, <1>d, <2>0, <2>1, <2>3, <3>1
            DEF EsperarListo, ControlAp, Despierto, Acusado, EnLote
  <2> QED BY <2>2, <2>4 DEF ControlInv
<1>3. CASE PublicarParada
  <2>1. ControlBsp'
    BY <1>3, <1>b, <1>d DEF PublicarParada, ControlBsp, Publicado, TrasEpoca, PCComun
  <2>2. ASSUME NEW c \in AP PROVE ControlAp(c)'
    <3>1. ControlAp(c) /\ ~EnLote(c)
      BY <1>3, <1>b DEF PublicarParada, ControlAp, Publicado, PCComun
    <3> QED BY <1>3, <1>d, <3>1
            DEF PublicarParada, ControlAp, Despierto, Acusado, EnLote, Activas
  <2> QED BY <2>1, <2>2 DEF ControlInv
<1>4. CASE AvisarParada
  <2>0. pc[0] = "avisarParada" /\ pc'[0] \in {"avisarParada", "esperarDetenidos"}
        /\ (\A c \in AP : pc'[c] = pc[c]) /\ (pc'[0] = "esperarDetenidos" => k' = 1)
    BY <1>4, <1>d DEF AvisarParada
  <2>1. ControlBsp'
    <3>1. \A c \in AP : ~(c < 1) BY <1>e DEF AP
    <3> QED BY <1>4, <2>0, <1>b, <3>1 DEF AvisarParada, ControlBsp, Publicado, TrasEpoca, PCComun
  <2>2. ASSUME NEW c \in AP PROVE ControlAp(c)'
    <3>1. ControlAp(c) /\ ~EnLote(c) BY <2>0, <1>b DEF ControlAp, Publicado, PCComun
    <3> QED BY <1>4, <2>0, <3>1
            DEF AvisarParada, ControlAp, Despierto, Acusado, EnLote, Activas
  <2> QED BY <2>1, <2>2 DEF ControlInv
<1>5. CASE EsperarDetenidos
  <2>0. pc[0] = "esperarDetenidos" /\ pc'[0] \in {"esperarDetenidos", "libre"}
        /\ (\A c \in AP : pc'[c] = pc[c])
    BY <1>5, <1>d DEF EsperarDetenidos
  <2>1. ControlBsp'
    BY <1>5, <2>0, <1>b, <1>e DEF EsperarDetenidos, ControlBsp, Publicado, TrasEpoca, PCComun
  <2>2. ASSUME NEW c \in AP, pc[c] \in PCComun PROVE c < Activas'
    <3>1. c < Activas /\ detenido[c] # 1 BY <2>2, <1>b DEF ControlAp, PCComun
    <3>2. k <= c BY <2>0, <3>1, <1>b, <1>e DEF ControlBsp
    <3>3. k < cantidad BY <3>1, <3>2, <1>c, <1>e DEF Activas, TipoDatos
    <3> QED BY <1>5, <3>1, <3>3, <1>c DEF EsperarDetenidos, Activas, TipoDatos
  <2>3. ASSUME NEW c \in AP PROVE ControlAp(c)'
    <3>1. ControlAp(c) /\ ~EnLote(c) BY <2>0, <1>b DEF ControlAp, Publicado, PCComun
    <3> QED BY <1>5, <2>0, <2>2, <3>1
            DEF EsperarDetenidos, ControlAp, Despierto, Acusado, EnLote
  <2> QED BY <2>1, <2>3 DEF ControlInv
<1>6. ASSUME NEW n \in Tamanos, PrepararCampos(n) PROVE ControlInv'
  <2>1. ControlBsp'
    BY <1>6, <1>b, <1>d DEF PrepararCampos, ControlBsp, Publicado, TrasEpoca, PCComun
  <2>2. \A c \in AP : ~Acusado(c)' BY <1>6, <1>d DEF PrepararCampos, Acusado
  <2> QED BY <1>6, <2>1, <2>2, ControlMarcoBsp DEF PrepararCampos, Publicado, PCComun
<1>7. CASE PublicarActivo
  <2>1. ControlBsp'
    BY <1>7, <1>b, <1>d DEF PublicarActivo, ControlBsp, Publicado, TrasEpoca, PCComun
  <2>2. \A c \in AP : ~Acusado(c)' BY <1>7, <1>d DEF PublicarActivo, Acusado
  <2> QED BY <1>7, <2>1, <2>2, ControlMarcoBsp DEF PublicarActivo, Publicado, PCComun
<1>8. CASE AvanzarEpoca
  <2>0. /\ pc'[0] = "avisar" /\ epoca' = epoca + 1 /\ Activas' = Activas
        /\ e'[0] = epoca' /\ \A c \in AP : pc'[c] = pc[c] /\ e'[c] = e[c]
    BY <1>8, <1>a, <1>c, <1>d DEF AvanzarEpoca, Activas, TipoDatos
  <2>1. ControlBsp'
    BY <1>8, <2>0, <1>b DEF AvanzarEpoca, ControlBsp, Publicado, TrasEpoca, PCComun
  <2>2. ASSUME NEW c \in AP PROVE ControlAp(c)'
    <3>1. ControlAp(c) /\ vista[c] \in Nat /\ e[c] \in Nat
      BY <1>a, <1>b, <1>c DEF TipoDatos
    <3> QED BY <1>8, <1>e, <2>0, <3>1
            DEF AvanzarEpoca, ControlAp, Despierto, Acusado, EnLote, Publicado
  <2> QED BY <2>1, <2>2 DEF ControlInv
<1>9. CASE Avisar
  <2>0. /\ pc[0] = "avisar" /\ pc'[0] \in {"avisar", "esperar"} /\ Activas' = Activas
        /\ \A c \in AP : pc'[c] = pc[c]
    BY <1>9, <1>d DEF Avisar, Activas
  <2>1. ControlBsp' BY <1>9, <2>0, <1>b DEF Avisar, ControlBsp, Publicado, TrasEpoca, PCComun
  <2>2. ASSUME NEW c \in AP PROVE ControlAp(c)'
    BY <1>9, <2>0, <1>b DEF Avisar, ControlAp, Despierto, Acusado, EnLote, Publicado
  <2> QED BY <2>1, <2>2 DEF ControlInv
<1>10. CASE Esperar
  <2>0. /\ pc[0] = "esperar" /\ pc'[0] \in {"acuses", "tomar", "servicio"}
        /\ (pc'[0] = "acuses" => k' = 1) /\ Activas' = Activas
        /\ \A c \in AP : pc'[c] = pc[c]
    BY <1>10, <1>d DEF Esperar, Activas
  <2>1. ControlBsp' BY <1>10, <2>0, <1>b DEF Esperar, ControlBsp, Publicado, TrasEpoca, PCComun
  <2>2. ASSUME NEW c \in AP PROVE ControlAp(c)'
    <3>1. ~Acusado(c)' BY <2>0, <1>e DEF Acusado, AP
    <3> QED BY <1>10, <2>0, <3>1, <1>b DEF Esperar, ControlAp, Despierto, EnLote, Publicado, PCComun
  <2> QED BY <2>1, <2>2 DEF ControlInv
<1>11. CASE Servicio
  <2>1. ControlBsp'
    BY <1>11, <1>b, <1>d DEF Servicio, ControlBsp, Publicado, TrasEpoca, PCComun, Activas
  <2>2. \A c \in AP : ~Acusado(c)' BY <1>11, <1>d DEF Servicio, Acusado
  <2> QED BY <1>11, <2>1, <2>2, ControlMarcoBsp DEF Servicio, Publicado
<1>12. CASE Acuses
  <2>0. /\ pc[0] = "acuses" /\ pc'[0] \in {"acuses", "cerrar"} /\ Activas' = Activas
        /\ e[0] = epoca /\ \A c \in AP : pc'[c] = pc[c]
    BY <1>12, <1>b, <1>d DEF Acuses, Activas, ControlBsp, TrasEpoca
  <2>1. ControlBsp' BY <1>12, <2>0, <1>b DEF Acuses, ControlBsp, Publicado, TrasEpoca, PCComun
  <2>2. ASSUME NEW c \in AP PROVE ControlAp(c)'
    <3>1. Acusado(c)' => vista'[c] = epoca'
      <4>1. ControlAp(c) BY <1>b
      <4>2. CASE k < participantes /\ vista[k] = e[0] /\ k' = k + 1 /\ UNCHANGED pc
        BY <1>12, <2>0, <4>1, <4>2, <1>e DEF Acuses, ControlAp, Acusado
      <4>3. CASE k >= participantes /\ k' = k /\ Ir(0, "cerrar")
        BY <1>12, <2>0, <4>1, <4>3, <1>e DEF Acuses, ControlAp, Acusado
      <4> QED BY <1>12, <4>2, <4>3 DEF Acuses
    <3> QED BY <1>12, <2>0, <3>1, <1>b DEF Acuses, ControlAp, Despierto, EnLote, Publicado
  <2> QED BY <2>1, <2>2 DEF ControlInv
<1>13. CASE Cerrar
  <2>1. ControlBsp'
    BY <1>13, <1>b, <1>d DEF Cerrar, ControlBsp, Publicado, TrasEpoca, PCComun, Activas
  <2>2. ASSUME NEW c \in AP PROVE ControlAp(c)'
    <3>1. ControlAp(c) /\ participantes = Activas
          /\ vista[c] \in Nat /\ e[c] \in Nat
      BY <1>13, <1>a, <1>b, <1>c DEF Cerrar, ControlBsp, TrasEpoca, TipoDatos
    \* A CPU still using the batch would be a participant that has acknowledged
    \* this epoch and has read a later one.
    <3>2. ~EnLote(c)
      <4> SUFFICES ASSUME EnLote(c) PROVE FALSE OBVIOUS
      <4>1. c < participantes /\ Despierto(c)
        BY <3>1 DEF ControlAp, EnLote, Despierto, PCComun
      <4>2. vista[c] = epoca BY <1>13, <3>1, <4>1 DEF Cerrar, ControlAp, Acusado
      <4> QED BY <3>1, <4>1, <4>2, <1>e DEF ControlAp
    <3> QED BY <1>13, <1>d, <3>1, <3>2
            DEF Cerrar, ControlAp, Despierto, Acusado, EnLote, Activas
  <2> QED BY <2>1, <2>2 DEF ControlInv
<1>14. CASE Retornar
  <2>1. ControlBsp'
    BY <1>14, <1>b, <1>d DEF Retornar, ControlBsp, Publicado, TrasEpoca, PCComun
  <2>2. \A c \in AP : ~Acusado(c)' BY <1>14, <1>d DEF Retornar, Acusado
  <2> QED BY <1>14, <2>1, <2>2, ControlMarcoBsp DEF Retornar, Publicado, PCComun
<1>15. CASE Tomar(0) BY <1>15, ControlTomarBsp
<1> QED BY <1>1, <1>2, <1>3, <1>4, <1>5, <1>6, <1>7, <1>8, <1>9, <1>10, <1>11, <1>12,
           <1>13, <1>14, <1>15 DEF PasoBsp

\* Commands: with EsperaReposo, no AP has decided to join under the old
\* selection when `cpu n' replaces it.
LEMMA ControlLlamadas ==
  ASSUME EsperaReposo, TipoInv, TipoInv', ControlInv, Llamadas PROVE ControlInv'
<1> USE DEF lote, pool, reparto, arranque, historia, locales
<1>a. 0 \in CPU /\ \A c \in AP : c \in CPU /\ c # 0 BY DEF CPU, AP
<1>b. ControlBsp /\ \A c \in AP : ControlAp(c) BY DEF ControlInv
<1>c. TipoPc /\ TipoDatos BY DEF TipoInv
<1>d. ASSUME NEW d, Ir(0, d) PROVE pc'[0] = d /\ \A c \in AP : pc'[c] = pc[c]
  BY <1>a, <1>c, <1>d DEF Ir, TipoPc
<1>1. CASE Iniciar
  <2>0. pc[0] = "libre" /\ pc'[0] \in {"libre", "arrancar"} /\ Activas' = Activas
        /\ \A c \in AP : pc'[c] = pc[c]
    BY <1>1, <1>d DEF Iniciar, Activas
  <2>1. ControlBsp' BY <1>1, <2>0, <1>b DEF Iniciar, ControlBsp, Publicado, TrasEpoca, PCComun
  <2>2. ASSUME NEW c \in AP PROVE ControlAp(c)'
    BY <1>1, <2>0, <1>b DEF Iniciar, ControlAp, Despierto, Acusado, EnLote, Publicado, PCComun
  <2> QED BY <2>1, <2>2 DEF ControlInv
<1>2. CASE LlamarParar
  <2>1. ControlBsp'
    BY <1>2, <1>b, <1>d DEF LlamarParar, ControlBsp, Publicado, TrasEpoca, PCComun
  <2>2. \A c \in AP : ~Acusado(c)' BY <1>2, <1>d DEF LlamarParar, Acusado
  <2> QED BY <1>2, <2>1, <2>2, ControlMarcoBsp DEF LlamarParar, Publicado, PCComun
<1>3. CASE Marchar
  BY <1>3, <1>b DEF Marchar, ControlInv, ControlBsp, ControlAp, Despierto, Acusado, EnLote, Activas
<1>4. CASE Ejecutar
  <2>1. ControlBsp'
    BY <1>4, <1>b, <1>d DEF Ejecutar, ControlBsp, Publicado, TrasEpoca, PCComun
  <2>2. \A c \in AP : ~Acusado(c)' BY <1>4, <1>d DEF Ejecutar, Acusado
  <2> QED BY <1>4, <2>1, <2>2, ControlMarcoBsp DEF Ejecutar, Publicado, PCComun
<1>5. CASE Cancelar
  BY <1>5, <1>b DEF Cancelar, ControlInv, ControlBsp, ControlAp, Despierto, Acusado, EnLote, Activas
<1>6. ASSUME NEW n \in 0..(NCPU + 1), NEW bsp \in {0, 1}, Configurar(n, bsp)
      PROVE  ControlInv'
  <2>1. pc[0] = "libre" /\ \A c \in AP : pc[c] \notin PCComun
    BY <1>6 DEF Configurar, Reposo, PCComun
  <2>2. ControlBsp' BY <1>6, <2>1, <1>b DEF Configurar, ControlBsp, TrasEpoca, PCComun
  <2>3. ASSUME NEW c \in AP PROVE ControlAp(c)'
    BY <1>6, <2>1, <1>b DEF Configurar, ControlAp, Despierto, Acusado, EnLote
  <2> QED BY <2>2, <2>3 DEF ControlInv
<1> QED BY <1>1, <1>2, <1>3, <1>4, <1>5, <1>6 DEF Llamadas

LEMMA ControlPaso ==
  ASSUME EsperaReposo, TipoInv, ControlInv, [Next]_vars PROVE ControlInv'
<1>0. TipoInv' BY TipoPaso
<1>1. CASE PasoBsp BY <1>0, <1>1, ControlPasoBsp
<1>2. CASE Llamadas BY <1>0, <1>2, ControlLlamadas
<1>3. CASE \E c \in AP : PasoAp(c) \/ Arranca(c) \/ AtenderIpi(c) BY <1>0, <1>3, ControlPasoAp
<1>4. CASE UNCHANGED vars
  BY <1>4 DEF vars, locales, lote, pool, reparto, arranque, historia, ControlInv,
              ControlBsp, ControlAp, Despierto, Acusado, EnLote, Activas
<1> QED BY <1>1, <1>2, <1>3, <1>4 DEF Next

\* If `cpu n' is typed only once the APs have gone back to sleep, then no CPU
\* is between the load of lote.activo and the increment of completados before
\* the batch is published or after trabajos_ejecutar has withdrawn it: the
\* acknowledgement wait of trabajos_ejecutar protects the reuse of the batch.
THEOREM SinUsoTardioCorrecto ==
  ASSUME EsperaReposo PROVE Spec => []SinUsoTardio
<1>1. TipoInv /\ ControlInv => SinUsoTardio
  <2> SUFFICES ASSUME TipoInv, ControlInv, NEW c \in CPU,
                      pc[0] \in {"libre", "campos", "publicar", "retornar", "parar"}
               PROVE  ~EnLote(c)
    BY DEF SinUsoTardio
  <2>1. CASE c = 0 BY <2>1 DEF EnLote
  <2>2. CASE c \in AP BY <2>2 DEF ControlInv, ControlAp, Publicado, PCComun
  <2> QED BY <2>1, <2>2 DEF CPU, AP
<1>2. Init => TipoInv /\ ControlInv BY TipoInicial, ControlInicial
<1>3. TipoInv /\ ControlInv /\ [Next]_vars => (TipoInv /\ ControlInv)'
  BY TipoPaso, ControlPaso
<1> QED BY <1>1, <1>2, <1>3, PTL DEF Spec

-----------------------------------------------------------------------------
(* Accounting: what became of every index handed out.                       *)

\* CPU c holds index i[c]: taken and not yet counted.
EnMano(c) == pc[c] \in {"decidir", "region", "completar"} /\ i[c] < total

ConteoCpu(c) ==
  /\ EnMano(c) => i[c] < siguiente /\ i[c] \notin hechas
  /\ pc[c] \in {"region", "completar"} => i[c] < total
  /\ pc[c] \in {"decidir", "region"} /\ i[c] < total => veces[i[c]] = 0
  /\ pc[c] = "completar" => veces[i[c]] <= 1 /\ (cancelado = 0 => veces[i[c]] = 1)

ConteoInv ==
  /\ \A c \in CPU : ConteoCpu(c)
  /\ \A c, d \in CPU : EnMano(c) /\ EnMano(d) /\ i[c] = i[d] => c = d
  /\ \A r \in Regiones : veces[r] <= 1 /\ (r >= total \/ r >= siguiente => veces[r] = 0)
  /\ \A r \in hechas : r < total /\ r < siguiente /\ (cancelado = 0 => veces[r] = 1)
  /\ completados = Cardinality(hechas)
  /\ pc[0] \in {"acuses", "cerrar", "retornar"} => hechas = 0..(total - 1)

LEMMA ConteoInicial == Init => ConteoInv
<1> SUFFICES ASSUME Init PROVE ConteoInv OBVIOUS
<1>1. \A c \in CPU : pc[c] \in {"libre", "apagada"} BY DEF Init
<1>2. 0 \in CPU BY DEF CPU
<1>3. Cardinality({}) = 0 BY FS_EmptySet
<1> QED BY <1>1, <1>2, <1>3 DEF Init, ConteoInv, ConteoCpu, EnMano

\* A step that leaves the cursor, the counts and the held indices alone.
LEMMA ConteoMarco ==
  ASSUME TipoInv, ConteoInv,
         UNCHANGED <<i, total, siguiente, completados, hechas, veces>>,
         cancelado' = cancelado \/ cancelado' = 1,
         \A c \in CPU : pc'[c] = pc[c] \/ pc'[c] \notin {"decidir", "region", "completar"},
         pc'[0] \in {"acuses", "cerrar", "retornar"} => hechas = 0..(total - 1)
  PROVE  ConteoInv'
<1>1. \A c \in CPU : EnMano(c)' => EnMano(c) BY DEF EnMano
<1>2. ASSUME NEW c \in CPU PROVE ConteoCpu(c)'
  BY <1>1 DEF ConteoInv, ConteoCpu, EnMano
<1>3. \A r \in hechas : (cancelado = 0 => veces[r] = 1)' BY DEF ConteoInv
<1> QED BY <1>1, <1>2, <1>3 DEF ConteoInv

\* When as many regions are counted as the batch has, all of them are.
LEMMA TodasHechas ==
  ASSUME TipoInv, ConteoInv, completados = total PROVE hechas = 0..(total - 1)
<1>1. total \in Nat /\ hechas \subseteq 0..(total - 1)
  BY DEF TipoInv, TipoDatos, ConteoInv, Regiones
<1>2. IsFiniteSet(0..(total - 1)) /\ Cardinality(0..(total - 1)) = total
  <2>1. 0 \in Int /\ total - 1 \in Int BY <1>1
  <2>2. IsFiniteSet(0..(total - 1)) /\ Cardinality(0..(total - 1)) =
          IF 0 > total - 1 THEN 0 ELSE (total - 1) - 0 + 1
    BY <2>1, FS_Interval
  <2> QED BY <1>1, <2>2
<1>3. Cardinality(hechas) = Cardinality(0..(total - 1)) BY <1>2 DEF ConteoInv
<1> QED BY <1>1, <1>2, <1>3, FS_Subset

\* Counting one more region.
LEMMA ContarUna ==
  ASSUME TipoInv, NEW r, r \notin hechas
  PROVE  Cardinality(hechas \cup {r}) = Cardinality(hechas) + 1
<1>1. IsFiniteSet(Regiones) BY FS_Interval DEF Regiones
<1>2. hechas \subseteq Regiones BY DEF TipoInv, TipoDatos
<1>3. IsFiniteSet(hechas) BY <1>1, <1>2, FS_Subset
<1> QED BY <1>3, FS_AddElement

LEMMA ConteoTomar ==
  ASSUME ~Desborda, TipoInv, ControlInv, ConteoInv, NEW c \in CPU, Tomar(c)
  PROVE  ConteoInv'
<1> USE DEF lote, pool, reparto, arranque, historia
<1>a. TipoPc /\ TipoDatos /\ 0 \in CPU BY DEF TipoInv, CPU
<1>b. \A x \in CPU : i[x] \in Nat BY <1>a DEF TipoDatos
<1>c. ASSUME NEW d, Ir(c, d) PROVE pc'[c] = d /\ \A x \in CPU \ {c} : pc'[x] = pc[x]
  BY <1>a, <1>c DEF Ir, TipoPc
<1>d. /\ total \in Nat /\ siguiente \in Nat /\ total <= TopeSiguiente
      /\ \A r \in Regiones : veces[r] \in Nat
      /\ \A r \in Nat : r < total => r \in Regiones
  BY <1>a DEF TipoDatos, Regiones
<1>e. ASSUME pc'[0] \in {"acuses", "cerrar", "retornar"} PROVE pc[0] = pc'[0] /\ c # 0
  BY <1>e, <1>a, <1>c DEF Tomar, LeerActivo, Sumar, Decidir, Region, Completar, TrasTomar
<1>1. CASE LeerActivo(c)
  <2> PICK d : Ir(c, d) /\ d \notin {"decidir", "region", "completar"}
    BY <1>1 DEF LeerActivo, TrasTomar
  <2> QED BY <1>1, <1>c, <1>e, ConteoMarco DEF LeerActivo, ConteoInv
<1>2. CASE Sumar(c)
  <2>0. /\ pc'[c] = "decidir" /\ \A x \in CPU \ {c} : pc'[x] = pc[x] /\ i'[x] = i[x]
        /\ i'[c] = siguiente
        /\ siguiente' >= siguiente /\ siguiente' \in Nat
        /\ (siguiente < total => siguiente' = siguiente + 1)
        /\ UNCHANGED <<total, completados, cancelado, veces, hechas>>
    BY <1>2, <1>a, <1>c, <1>d DEF Sumar, Incrementado, TipoDatos
  <2>1. \A r \in hechas : r \in Nat /\ r < siguiente
    BY <1>a DEF ConteoInv, TipoDatos, Regiones
  <2>2. ConteoCpu(c)'
    BY <2>0, <2>1, <1>d DEF ConteoInv, ConteoCpu, EnMano
  <2>3. ASSUME NEW x \in CPU \ {c} PROVE ConteoCpu(x)'
    BY <2>0, <1>b, <1>d DEF ConteoInv, ConteoCpu, EnMano
  <2>4. ASSUME NEW x \in CPU, NEW y \in CPU, EnMano(x)', EnMano(y)', i'[x] = i'[y]
        PROVE  x = y
    <3>1. ASSUME NEW z \in CPU \ {c}, EnMano(z)' PROVE i'[z] < siguiente
      BY <3>1, <2>0 DEF ConteoInv, ConteoCpu, EnMano
    <3> QED BY <2>4, <3>1, <2>0, <1>b, <1>d DEF ConteoInv, EnMano
  <2>5. \A r \in Regiones : veces'[r] <= 1 /\ (r >= total' \/ r >= siguiente' => veces'[r] = 0)
    BY <2>0, <1>d DEF ConteoInv, Regiones
  <2>6. \A r \in hechas' : r < total' /\ r < siguiente' /\ (cancelado' = 0 => veces'[r] = 1)
    BY <2>0, <2>1, <1>d DEF ConteoInv
  <2>7. pc'[0] \in {"acuses", "cerrar", "retornar"} => hechas' = 0..(total' - 1)
    BY <2>0, <1>e DEF ConteoInv
  <2> QED BY <2>0, <2>2, <2>3, <2>4, <2>5, <2>6, <2>7 DEF ConteoInv
<1>3. CASE Decidir(c)
  <2>0. /\ pc[c] = "decidir" /\ \A x \in CPU \ {c} : pc'[x] = pc[x]
        /\ pc'[c] \in {"region", "completar"} => i[c] < total
        /\ pc'[c] = "completar" => cancelado = 1
        /\ pc'[c] # "decidir"
        /\ UNCHANGED <<i, total, siguiente, completados, cancelado, veces, hechas>>
    BY <1>3, <1>b, <1>c, <1>d DEF Decidir, TrasTomar
  <2>1. \A x \in CPU : EnMano(x)' => EnMano(x) BY <2>0 DEF EnMano
  <2>2. ASSUME NEW x \in CPU PROVE ConteoCpu(x)'
    BY <2>0, <2>1, <1>b, <1>d DEF ConteoInv, ConteoCpu, EnMano
  <2>3. pc'[0] \in {"acuses", "cerrar", "retornar"} => hechas' = 0..(total' - 1)
    BY <2>0, <1>e DEF ConteoInv
  <2> QED BY <2>0, <2>1, <2>2, <2>3 DEF ConteoInv
<1>4. CASE Region(c)
  <2>0. /\ pc[c] = "region" /\ pc'[c] = "completar" /\ i[c] < total /\ i[c] \in Regiones
        /\ \A x \in CPU \ {c} : pc'[x] = pc[x]
        /\ UNCHANGED <<i, total, siguiente, completados, cancelado, hechas>>
    BY <1>4, <1>c DEF Region, ConteoInv, ConteoCpu, TipoInv
  <2>1. /\ EnMano(c) /\ veces[i[c]] = 0 /\ i[c] < siguiente /\ i[c] \notin hechas
        /\ veces'[i[c]] = 1 /\ \A r \in Regiones \ {i[c]} : veces'[r] = veces[r]
    BY <1>4, <1>a, <2>0, <1>d DEF Region, EnMano, ConteoInv, ConteoCpu, TipoDatos
  <2>2. \A x \in CPU : EnMano(x)' => EnMano(x) BY <2>0 DEF EnMano
  <2>3. ConteoCpu(c)' BY <2>0, <2>1 DEF ConteoCpu, EnMano
  <2>4. ASSUME NEW x \in CPU \ {c} PROVE ConteoCpu(x)'
    <3>1. EnMano(x) => i[x] # i[c] BY <2>1 DEF ConteoInv
    <3>2. i[x] < total => i[x] \in Regiones BY <1>b, <1>d
    <3> QED BY <2>0, <2>1, <3>1, <3>2 DEF ConteoInv, ConteoCpu, EnMano
  <2>5. \A r \in Regiones : veces'[r] <= 1 /\ (r >= total' \/ r >= siguiente' => veces'[r] = 0)
    BY <2>0, <2>1, <1>b, <1>d DEF ConteoInv, Regiones
  <2>6. \A r \in hechas' : r < total' /\ r < siguiente' /\ (cancelado' = 0 => veces'[r] = 1)
    BY <2>0, <2>1, <1>a DEF ConteoInv, TipoDatos
  <2>7. pc'[0] \in {"acuses", "cerrar", "retornar"} => hechas' = 0..(total' - 1)
    BY <2>0, <1>e DEF ConteoInv
  <2> QED BY <2>0, <2>2, <2>3, <2>4, <2>5, <2>6, <2>7 DEF ConteoInv
<1>5. CASE Completar(c)
  <2>0. /\ pc[c] = "completar" /\ pc'[c] \notin {"decidir", "region", "completar"}
        /\ \A x \in CPU \ {c} : pc'[x] = pc[x]
        /\ i[c] < total /\ EnMano(c) /\ i[c] \notin hechas /\ i[c] < siguiente
        /\ hechas' = hechas \cup {i[c]} /\ completados' = completados + 1
        /\ UNCHANGED <<i, total, siguiente, cancelado, veces>>
    BY <1>5, <1>c DEF Completar, TrasTomar, ConteoInv, ConteoCpu, EnMano
  <2>1. \A x \in CPU : EnMano(x)' => EnMano(x) /\ x # c BY <2>0 DEF EnMano
  <2>2. ASSUME NEW x \in CPU PROVE ConteoCpu(x)'
    <3>1. EnMano(x)' => i[x] # i[c] BY <2>0, <2>1 DEF ConteoInv
    <3> QED BY <2>0, <2>1, <3>1 DEF ConteoInv, ConteoCpu, EnMano
  <2>3. \A r \in hechas' : r < total' /\ r < siguiente' /\ (cancelado' = 0 => veces'[r] = 1)
    BY <2>0 DEF ConteoInv, ConteoCpu
  <2>4. completados' = Cardinality(hechas') BY <2>0, ContarUna DEF ConteoInv
  <2>5. pc'[0] \notin {"acuses", "cerrar", "retornar"}
    BY <2>0, <1>b, <1>d, <1>e DEF ConteoInv
  <2> QED BY <2>0, <2>1, <2>2, <2>3, <2>4, <2>5 DEF ConteoInv
<1> QED BY <1>1, <1>2, <1>3, <1>4, <1>5 DEF Tomar

\* trabajos_preparar rewrites the batch when no CPU holds one of its indices.
LEMMA ConteoPreparar ==
  ASSUME TipoInv, TipoInv', ControlInv, NEW n \in Tamanos, PrepararCampos(n)
  PROVE  ConteoInv'
<1> USE DEF pool, reparto, arranque
<1>1. /\ pc'[0] = "publicar" /\ \A c \in AP : pc'[c] = pc[c] /\ ~EnLote(c)
  BY DEF PrepararCampos, Ir, TipoInv, TipoPc, CPU, AP, ControlInv, ControlAp, Publicado, PCComun
<1>2. \A c \in CPU : pc'[c] \notin {"decidir", "region", "completar"}
  BY <1>1 DEF EnLote, CPU, AP
<1>3. Cardinality({}) = 0 BY FS_EmptySet
<1> QED BY <1>1, <1>2, <1>3 DEF PrepararCampos, ConteoInv, ConteoCpu, EnMano

LEMMA ConteoPaso ==
  ASSUME ~Desborda, TipoInv, ControlInv, ConteoInv, [Next]_vars PROVE ConteoInv'
<1> USE DEF lote, pool, reparto, arranque, historia, locales
<1>a. TipoInv' BY TipoPaso
<1>b. TipoPc /\ 0 \in CPU /\ AP \subseteq CPU BY DEF TipoInv, CPU, AP
<1>c. ASSUME NEW c \in CPU, Tomar(c) PROVE ConteoInv' BY <1>c, ConteoTomar
<1>d. ASSUME NEW n \in Tamanos, PrepararCampos(n) PROVE ConteoInv'
  BY <1>a, <1>d, ConteoPreparar
\* The remaining steps move one CPU and leave the batch and its history alone.
<1>e. ASSUME NEW c \in CPU, NEW d, Ir(c, d), d \notin {"decidir", "region", "completar"},
             UNCHANGED <<i, total, siguiente, completados, hechas, veces, cancelado>>,
             c = 0 /\ d \in {"acuses", "cerrar", "retornar"} => hechas = 0..(total - 1)
      PROVE  ConteoInv'
  <2>1. pc'[c] = d /\ \A x \in CPU \ {c} : pc'[x] = pc[x] BY <1>b, <1>e DEF Ir, TipoPc
  <2>2. pc'[0] \in {"acuses", "cerrar", "retornar"} => hechas = 0..(total - 1)
    BY <1>b, <1>e, <2>1 DEF ConteoInv
  <2> QED BY <1>e, <2>1, <2>2, ConteoMarco
<1>f. ASSUME UNCHANGED <<pc, i, total, siguiente, completados, hechas, veces>>,
             cancelado' = cancelado \/ cancelado' = 1
      PROVE  ConteoInv'
  <2>1. pc'[0] \in {"acuses", "cerrar", "retornar"} => hechas = 0..(total - 1)
    BY <1>f DEF ConteoInv
  <2> QED BY <1>f, <2>1, ConteoMarco
<1>1. CASE ArrancarAp
  <2>1. CASE Ir(0, "libre") BY <1>1, <2>1, <1>b, <1>e DEF ArrancarAp
  <2>2. CASE pc' = [pc EXCEPT ![0] = "esperarListo", ![cantidad] = "arrancando"]
    <3>1. \A x \in CPU : pc'[x] = pc[x] \/ pc'[x] \in {"esperarListo", "arrancando"}
      BY <1>b, <2>2 DEF TipoPc
    <3> QED BY <1>1, <3>1, <1>b, ConteoMarco DEF ArrancarAp, ConteoInv
  <2> QED BY <1>1, <2>1, <2>2 DEF ArrancarAp
<1>2. CASE EsperarListo \/ PublicarParada \/ AvisarParada \/ EsperarDetenidos
  BY <1>2, <1>b, <1>e, <1>f DEF EsperarListo, PublicarParada, AvisarParada, EsperarDetenidos
<1>3. CASE PublicarActivo \/ AvanzarEpoca \/ Avisar \/ Servicio \/ Acuses \/ Cerrar \/ Retornar
  <2>1. pc[0] \in {"acuses", "cerrar", "retornar"} => hechas = 0..(total - 1) BY DEF ConteoInv
  <2> QED BY <1>3, <2>1, <1>b, <1>e, <1>f
          DEF PublicarActivo, AvanzarEpoca, Avisar, Servicio, Acuses, Cerrar, Retornar
<1>4. CASE Esperar BY <1>4, <1>b, <1>e, TodasHechas DEF Esperar
<1>5. CASE Llamadas
  BY <1>5, <1>b, <1>e, <1>f
     DEF Llamadas, Iniciar, LlamarParar, Marchar, Ejecutar, Cancelar, Configurar
<1>6. ASSUME NEW c \in AP, PasoAp(c) \/ Arranca(c) \/ AtenderIpi(c) PROVE ConteoInv'
  <2>1. c \in CPU /\ c # 0 BY DEF CPU, AP
  <2>2. CASE Tomar(c) BY <2>1, <2>2, <1>c
  <2>3. CASE LeerEpoca(c) BY <2>1, <2>3, <1>e DEF LeerEpoca
  <2>4. CASE MirarParar(c) BY <2>1, <2>4, <1>e DEF MirarParar
  <2>5. CASE Despierta(c) BY <2>1, <2>5, <1>e DEF Despierta
  <2>6. CASE Evaluar(c) BY <2>1, <2>6, <1>e DEF Evaluar
  <2>7. CASE Acusar(c) BY <2>1, <2>7, <1>e DEF Acusar
  <2>8. CASE Arranca(c) BY <2>1, <2>8, <1>e DEF Arranca
  <2>9. CASE AtenderIpi(c) BY <2>9, <1>f DEF AtenderIpi
  <2> QED BY <1>6, <2>2, <2>3, <2>4, <2>5, <2>6, <2>7, <2>8, <2>9 DEF PasoAp
<1>7. CASE UNCHANGED vars BY <1>7, <1>f DEF vars
<1> QED BY <1>b, <1>c, <1>d, <1>1, <1>2, <1>3, <1>4, <1>5, <1>6, <1>7 DEF Next, PasoBsp

LEMMA ConteoSiempre ==
  ASSUME ~Desborda, EsperaReposo PROVE Spec => [](TipoInv /\ ConteoInv)
<1>1. Init => TipoInv /\ ControlInv /\ ConteoInv
  BY TipoInicial, ControlInicial, ConteoInicial
<1>2. TipoInv /\ ControlInv /\ ConteoInv /\ [Next]_vars => (TipoInv /\ ControlInv /\ ConteoInv)'
  BY TipoPaso, ControlPaso, ConteoPaso
<1> QED BY <1>1, <1>2, PTL DEF Spec

\* While the cursor does not wrap, fetch_add hands out every index of a batch
\* at most once, so that no region of trabajos_tomar is executed twice and no
\* index past the batch is executed, for any number of CPUs and regions.
THEOREM UnaVezCorrecto ==
  ASSUME ~Desborda, EsperaReposo PROVE Spec => []UnaVez
<1>1. TipoInv /\ ConteoInv => UnaVez
  BY DEF UnaVez, ConteoInv, TipoInv, TipoDatos, Regiones
<1> QED BY <1>1, ConteoSiempre, PTL

\* trabajos_ejecutar returns 1 (not cancelled) only when every region of the
\* batch was executed exactly once: completados counts distinct indices, so
\* completados = total means that all of them have been counted.
THEOREM ExitoCompletoCorrecto ==
  ASSUME ~Desborda, EsperaReposo PROVE Spec => []ExitoCompleto
<1>1. TipoInv /\ ConteoInv => ExitoCompleto
  BY DEF ExitoCompleto, ConteoInv
<1> QED BY <1>1, ConteoSiempre, PTL

-----------------------------------------------------------------------------
(* The stop: it is published when no AP holds an epoch to acknowledge.      *)

\* Before the terminal starts every CPU is selected; the pool is stopped only
\* before the first batch or after the self-test.
ParadaBsp ==
  /\ fase # "marcha" => seleccion_cpu = NCPU
  /\ fase = "inicio" => pc[0] = "libre" /\ epoca = 0 /\ cantidad = 1 /\ parar = 0
  /\ pc[0] \in {"arrancar", "esperarListo"} => fase = "autoprueba" /\ epoca = 0 /\ parar = 0
  /\ pc[0] \in TrasEpoca => participantes = Activas /\ e[0] = epoca
  /\ pc[0] = "parar" => fase = "probado" \/ epoca = 0
  /\ pc[0] \in {"avisarParada", "esperarDetenidos"} => parar = 1
  /\ fase = "probado" => pc[0] \in {"libre", "parar", "avisarParada", "esperarDetenidos"}

\* An AP beyond the ones that were counted is off, unless it is the one that
\* the boot is waiting for or gave up; after the self-test every AP that is on
\* has acknowledged the only batch there was.
ParadaAp(c) ==
  /\ vista[c] <= epoca /\ e[c] <= epoca
  /\ pc[c] = "mirarParar" => vista[c] <= e[c]
  /\ Despierto(c) => vista[c] < e[c] /\ parar = 0
  /\ Acusado(c) => vista[c] = epoca
  /\ parar = 0 /\ fase # "marcha" /\ c >= cantidad =>
       \/ pc[c] = "apagada"
       \/ c = cantidad /\ pc[0] \in {"esperarListo", "parar"} /\ epoca = 0
  /\ fase = "probado" /\ parar = 0 /\ pc[c] # "apagada" => vista[c] = epoca

ParadaInv == ParadaBsp /\ \A c \in AP : ParadaAp(c)

LEMMA ParadaInicial == Init => ParadaInv
<1> SUFFICES ASSUME Init PROVE ParadaInv OBVIOUS
<1>1. 0 \in CPU /\ AP \subseteq CPU BY DEF CPU, AP
<1>2. pc[0] = "libre" /\ \A c \in AP : pc[c] = "apagada" BY <1>1 DEF Init, AP
<1>3. ParadaBsp BY <1>2 DEF Init, ParadaBsp, TrasEpoca, PCComun
<1>4. ASSUME NEW c \in AP PROVE ParadaAp(c)
  BY <1>1, <1>2 DEF Init, ParadaAp, Despierto, Acusado, PCComun
<1> QED BY <1>3, <1>4 DEF ParadaInv

\* A step of AP c preserves the invariant if it preserves the part about c.
LEMMA ParadaMarco ==
  ASSUME TipoInv, ParadaInv, NEW c \in AP, NEW d, Ir(c, d),
         UNCHANGED <<epoca, cantidad, seleccion_cpu, participantes, k, parar, fase>>,
         \A x \in CPU \ {c} : e'[x] = e[x],
         \A x \in AP \ {c} : vista'[x] = vista[x],
         ParadaAp(c)'
  PROVE  ParadaInv'
<1>1. 0 \in CPU /\ 0 # c /\ c \in CPU /\ AP \subseteq CPU BY DEF CPU, AP
<1>2. /\ \A x \in CPU \ {c} : pc'[x] = pc[x]
      /\ pc'[0] = pc[0] /\ e'[0] = e[0] /\ Activas' = Activas
  BY <1>1 DEF Ir, TipoInv, TipoPc, Activas
<1>3. ParadaBsp' BY <1>2, <1>1 DEF ParadaInv, ParadaBsp
<1>4. ASSUME NEW x \in AP \ {c} PROVE ParadaAp(x)'
  BY <1>1, <1>2 DEF ParadaInv, ParadaAp, Despierto, Acusado
<1> QED BY <1>3, <1>4 DEF ParadaInv

LEMMA ParadaPasoAp ==
  ASSUME TipoInv, ParadaInv, NEW c \in AP,
         PasoAp(c) \/ Arranca(c) \/ AtenderIpi(c)
  PROVE  ParadaInv'
<1> USE DEF lote, pool, reparto, arranque, historia, locales
<1>a. c \in CPU /\ c # 0 /\ 0 \in CPU /\ AP \subseteq CPU BY DEF CPU, AP
<1>b. ParadaAp(c) /\ ParadaBsp BY DEF ParadaInv
<1>c. TipoPc /\ TipoDatos BY DEF TipoInv
<1>d. vista[c] \in Nat /\ e[c] \in Nat /\ epoca \in Nat /\ parar \in {0, 1}
      /\ pc[c] \in PCAp /\ cantidad \in Nat
  BY <1>a, <1>c DEF TipoDatos, TipoPc
<1>e. ASSUME NEW d, Ir(c, d) PROVE pc'[c] = d /\ pc'[0] = pc[0]
  BY <1>a, <1>c, <1>e DEF Ir, TipoPc
<1>1. CASE LeerEpoca(c)
  <2>1. ParadaAp(c)'
    <3>1. e'[c] = epoca BY <1>1, <1>a, <1>c DEF LeerEpoca, TipoDatos
    <3> QED BY <1>1, <1>b, <1>d, <1>e, <3>1 DEF LeerEpoca, ParadaAp, Despierto, Acusado, PCComun
  <2> QED BY <1>1, <2>1, <1>a, <1>c, ParadaMarco DEF LeerEpoca, TipoDatos
<1>2. CASE MirarParar(c)
  <2>1. ParadaAp(c)'
    <3>1. pc'[0] = pc[0] /\ pc'[c] = IF parar = 1 THEN "parada"
             ELSE IF e[c] = vista[c] THEN "dormida" ELSE "evaluar"
      BY <1>2, <1>e DEF MirarParar
    <3>2. vista[c] <= e[c] BY <1>2, <1>b DEF MirarParar, ParadaAp
    <3> QED BY <1>2, <1>b, <1>d, <3>1, <3>2 DEF MirarParar, ParadaAp, Despierto, Acusado, PCComun
  <2> QED BY <1>2, <2>1, <1>a, <1>c, ParadaMarco DEF MirarParar, TipoDatos
<1>3. CASE Despierta(c)
  <2>1. ParadaAp(c)'
    BY <1>3, <1>b, <1>d, <1>e DEF Despierta, ParadaAp, Despierto, Acusado, PCComun
  <2> QED BY <1>3, <2>1, <1>a, ParadaMarco DEF Despierta
<1>4. CASE Evaluar(c)
  <2>1. ParadaAp(c)'
    BY <1>4, <1>b, <1>d, <1>e DEF Evaluar, ParadaAp, Despierto, Acusado, PCComun
  <2> QED BY <1>4, <2>1, <1>a, ParadaMarco DEF Evaluar
<1>5. CASE Acusar(c)
  <2>0. Despierto(c) /\ vista[c] < e[c] /\ e[c] <= epoca /\ ~Acusado(c)
    BY <1>5, <1>b, <1>d DEF Acusar, ParadaAp, Despierto
  <2>1. ParadaAp(c)'
    <3>1. vista'[c] = e[c] BY <1>5, <1>c DEF Acusar, TipoDatos
    <3> QED BY <1>5, <1>b, <1>d, <1>e, <2>0, <3>1 DEF Acusar, ParadaAp, Despierto, Acusado, PCComun
  <2> QED BY <1>5, <2>1, <1>a, <1>c, ParadaMarco DEF Acusar, TipoDatos
<1>6. CASE Arranca(c)
  <2>1. ParadaAp(c)'
    BY <1>6, <1>b, <1>d, <1>e DEF Arranca, ParadaAp, Despierto, Acusado, PCComun
  <2> QED BY <1>6, <2>1, <1>a, ParadaMarco DEF Arranca
<1>7. CASE AtenderIpi(c)
  BY <1>7 DEF AtenderIpi, ParadaInv, ParadaBsp, ParadaAp, Despierto, Acusado, Activas
<1>8. CASE Tomar(c)
  <2>1. /\ pc[c] \in PCComun
        /\ UNCHANGED <<epoca, cantidad, seleccion_cpu, participantes, k, parar, fase, e, vista>>
        /\ \E d \in PCComun \cup {"acusar"} : Ir(c, d)
    BY <1>8, <1>a DEF Tomar, LeerActivo, Sumar, Decidir, Region, Completar, TrasTomar, PCComun
  <2> PICK d \in PCComun \cup {"acusar"} : Ir(c, d) BY <2>1
  <2>2. pc'[c] = d /\ pc'[0] = pc[0] BY <1>e
  <2>3. ParadaAp(c)' BY <1>b, <1>d, <2>1, <2>2 DEF ParadaAp, Despierto, Acusado, PCComun
  <2> QED BY <2>1, <2>3, ParadaMarco
<1> QED BY <1>1, <1>2, <1>3, <1>4, <1>5, <1>6, <1>7, <1>8 DEF PasoAp

\* A step of the coordinator that moves it to d and leaves the APs and the
\* boot alone: only what it says of the coordinator's place is to be shown.
LEMMA ParadaMarcoBsp ==
  ASSUME TipoInv, ParadaInv, NEW d, Ir(0, d),
         UNCHANGED <<epoca, vista, parar, cantidad, seleccion_cpu, fase>>,
         \A x \in AP : e'[x] = e[x],
         pc[0] \in {"esperarListo", "parar"} => d \in {"esperarListo", "parar"},
         ParadaBsp',
         \A c \in AP : Acusado(c)' => vista[c] = epoca
  PROVE  ParadaInv'
<1>1. 0 \in CPU /\ \A c \in AP : c \in CPU /\ c # 0 BY DEF CPU, AP
<1>2. pc'[0] = d /\ \A c \in AP : pc'[c] = pc[c]
  BY <1>1 DEF Ir, TipoInv, TipoPc
<1>3. ASSUME NEW c \in AP PROVE ParadaAp(c)'
  BY <1>1, <1>2 DEF ParadaInv, ParadaAp, Despierto
<1> QED BY <1>3 DEF ParadaInv

LEMMA ParadaPasoBsp ==
  ASSUME TipoInv, ParadaInv, PasoBsp PROVE ParadaInv'
<1> USE DEF lote, pool, reparto, arranque, historia, locales
<1>a. 0 \in CPU /\ \A c \in AP : c \in CPU /\ c # 0 /\ c \in Nat BY DEF CPU, AP
<1>b. ParadaBsp /\ \A c \in AP : ParadaAp(c) BY DEF ParadaInv
<1>c. TipoPc /\ TipoDatos BY DEF TipoInv
<1>d. ASSUME NEW d, Ir(0, d) PROVE pc'[0] = d /\ \A c \in AP : pc'[c] = pc[c]
  BY <1>a, <1>c, <1>d DEF Ir, TipoPc
<1>e. /\ epoca \in Nat /\ k \in Nat /\ cantidad \in 1..NCPU /\ parar \in {0, 1}
      /\ participantes \in Nat /\ \A c \in AP : vista[c] \in Nat /\ e[c] \in Nat
  BY <1>a, <1>c DEF TipoDatos
<1>1. CASE ArrancarAp
  <2>0. /\ pc[0] = "arrancar" /\ fase = "autoprueba" /\ epoca = 0 /\ parar = 0
        /\ pc'[0] \in {"esperarListo", "libre"}
        /\ \A c \in AP : pc'[c] = pc[c] \/ (c = cantidad /\ pc'[0] = "esperarListo" /\ pc'[c] = "arrancando")
    <3>1. CASE pc' = [pc EXCEPT ![0] = "esperarListo", ![cantidad] = "arrancando"]
      BY <1>1, <3>1, <1>a, <1>b, <1>c, <1>e DEF ArrancarAp, ParadaBsp, TipoPc
    <3>2. CASE Ir(0, "libre") BY <1>1, <3>2, <1>b, <1>d DEF ArrancarAp, ParadaBsp
    <3> QED BY <1>1, <3>1, <3>2 DEF ArrancarAp
  <2>1. ParadaBsp' BY <1>1, <2>0, <1>b DEF ArrancarAp, ParadaBsp, TrasEpoca, PCComun
  <2>2. ASSUME NEW c \in AP PROVE ParadaAp(c)'
    <3>1. ParadaAp(c) BY <1>b
    <3> QED BY <1>1, <2>0, <3>1, <1>e DEF ArrancarAp, ParadaAp, Despierto, Acusado, PCComun
  <2> QED BY <2>1, <2>2 DEF ParadaInv
<1>2. CASE EsperarListo
  <2>0. /\ pc[0] = "esperarListo" /\ fase = "autoprueba" /\ epoca = 0 /\ parar = 0
        /\ \A c \in AP : pc'[c] = pc[c]
        /\ \/ pc'[0] = "arrancar" /\ cantidad' = cantidad + 1
           \/ pc'[0] = "parar" /\ cantidad' = cantidad
    BY <1>2, <1>b, <1>d DEF EsperarListo, ParadaBsp
  <2>1. ParadaBsp' BY <1>2, <2>0, <1>b DEF EsperarListo, ParadaBsp, TrasEpoca, PCComun
  <2>2. ASSUME NEW c \in AP PROVE ParadaAp(c)'
    <3>1. ParadaAp(c) BY <1>b
    <3>2. ~Acusado(c)' BY <2>0 DEF Acusado
    <3>3. cantidad \in Nat BY <1>e
    <3> QED BY <1>2, <2>0, <3>1, <3>2, <3>3, <1>a DEF EsperarListo, ParadaAp, Despierto, PCComun
  <2> QED BY <2>1, <2>2 DEF ParadaInv
\* No AP is awake: it would hold an epoch later than the one it has
\* acknowledged, which is the current one.
<1>3. CASE PublicarParada
  <2>0. pc[0] = "parar" /\ pc'[0] = "avisarParada" /\ \A c \in AP : pc'[c] = pc[c]
    BY <1>3, <1>d DEF PublicarParada
  <2>1. ParadaBsp' BY <1>3, <2>0, <1>b DEF PublicarParada, ParadaBsp, TrasEpoca, PCComun
  <2>2. ASSUME NEW c \in AP PROVE ParadaAp(c)'
    <3>1. ParadaAp(c) BY <1>b
    <3>2. ~Despierto(c)
      <4> SUFFICES ASSUME Despierto(c) PROVE FALSE OBVIOUS
      <4>1. vista[c] < e[c] /\ e[c] <= epoca /\ parar = 0 /\ pc[c] # "apagada"
        BY <3>1 DEF ParadaAp, Despierto, PCComun
      <4>2. fase = "probado" \/ epoca = 0 BY <2>0, <1>b DEF ParadaBsp
      <4> QED BY <4>1, <4>2, <3>1, <1>e DEF ParadaAp
    <3> QED BY <1>3, <2>0, <3>1, <3>2 DEF PublicarParada, ParadaAp, Despierto, Acusado
  <2> QED BY <2>1, <2>2 DEF ParadaInv
<1>4. CASE AvisarParada
  <2>0. /\ pc[0] = "avisarParada" /\ pc'[0] \in {"avisarParada", "esperarDetenidos"} /\ parar = 1
        /\ \A c \in AP : pc'[c] = pc[c]
    BY <1>4, <1>b, <1>d DEF AvisarParada, ParadaBsp
  <2>1. ParadaBsp' BY <1>4, <2>0, <1>b DEF AvisarParada, ParadaBsp, TrasEpoca, PCComun
  <2>2. ASSUME NEW c \in AP PROVE ParadaAp(c)'
    BY <1>4, <2>0, <1>b DEF AvisarParada, ParadaAp, Despierto, Acusado
  <2> QED BY <2>1, <2>2 DEF ParadaInv
<1>5. CASE EsperarDetenidos
  <2>0. /\ pc[0] = "esperarDetenidos" /\ pc'[0] \in {"esperarDetenidos", "libre"} /\ parar = 1
        /\ \A c \in AP : pc'[c] = pc[c]
    BY <1>5, <1>b, <1>d DEF EsperarDetenidos, ParadaBsp
  <2>1. ParadaBsp' BY <1>5, <2>0, <1>b DEF EsperarDetenidos, ParadaBsp, TrasEpoca, PCComun
  <2>2. ASSUME NEW c \in AP PROVE ParadaAp(c)'
    BY <1>5, <2>0, <1>b DEF EsperarDetenidos, ParadaAp, Despierto, Acusado
  <2> QED BY <2>1, <2>2 DEF ParadaInv
<1>6. ASSUME NEW n \in Tamanos, PrepararCampos(n) PROVE ParadaInv'
  <2>1. ParadaBsp'
    BY <1>6, <1>b, <1>d DEF PrepararCampos, ParadaBsp, TrasEpoca, PCComun
  <2>2. \A c \in AP : ~Acusado(c)' BY <1>6, <1>d DEF PrepararCampos, Acusado
  <2> QED BY <1>6, <2>1, <2>2, ParadaMarcoBsp DEF PrepararCampos
<1>7. CASE PublicarActivo
  <2>1. ParadaBsp'
    BY <1>7, <1>b, <1>d DEF PublicarActivo, ParadaBsp, TrasEpoca, PCComun
  <2>2. \A c \in AP : ~Acusado(c)' BY <1>7, <1>d DEF PublicarActivo, Acusado
  <2> QED BY <1>7, <2>1, <2>2, ParadaMarcoBsp DEF PublicarActivo
<1>8. CASE AvanzarEpoca
  <2>0. /\ pc[0] = "epoca" /\ pc'[0] = "avisar" /\ epoca' = epoca + 1 /\ Activas' = Activas
        /\ e'[0] = epoca' /\ \A c \in AP : pc'[c] = pc[c] /\ e'[c] = e[c]
    BY <1>8, <1>a, <1>c, <1>d DEF AvanzarEpoca, Activas, TipoDatos
  <2>1. ParadaBsp' BY <1>8, <2>0, <1>b DEF AvanzarEpoca, ParadaBsp, TrasEpoca, PCComun
  <2>2. ASSUME NEW c \in AP PROVE ParadaAp(c)'
    <3>1. ParadaAp(c) /\ vista[c] \in Nat /\ e[c] \in Nat /\ fase # "probado"
      BY <1>b, <1>e, <2>0 DEF ParadaBsp
    <3> QED BY <1>8, <1>e, <2>0, <3>1 DEF AvanzarEpoca, ParadaAp, Despierto, Acusado
  <2> QED BY <2>1, <2>2 DEF ParadaInv
<1>9. CASE Avisar
  <2>0. /\ pc[0] = "avisar" /\ pc'[0] \in {"avisar", "esperar"} /\ Activas' = Activas
        /\ \A c \in AP : pc'[c] = pc[c]
    BY <1>9, <1>d DEF Avisar, Activas
  <2>1. ParadaBsp' BY <1>9, <2>0, <1>b DEF Avisar, ParadaBsp, TrasEpoca, PCComun
  <2>2. ASSUME NEW c \in AP PROVE ParadaAp(c)'
    BY <1>9, <2>0, <1>b DEF Avisar, ParadaAp, Despierto, Acusado
  <2> QED BY <2>1, <2>2 DEF ParadaInv
<1>10. CASE Esperar
  <2>0. /\ pc[0] = "esperar" /\ pc'[0] \in {"acuses", "tomar", "servicio"}
        /\ (pc'[0] = "acuses" => k' = 1) /\ Activas' = Activas
        /\ \A c \in AP : pc'[c] = pc[c]
    BY <1>10, <1>d DEF Esperar, Activas
  <2>1. ParadaBsp' BY <1>10, <2>0, <1>b DEF Esperar, ParadaBsp, TrasEpoca, PCComun
  <2>2. ASSUME NEW c \in AP PROVE ParadaAp(c)'
    <3>1. ~Acusado(c)' BY <2>0, <1>e DEF Acusado, AP
    <3> QED BY <1>10, <2>0, <3>1, <1>b DEF Esperar, ParadaAp, Despierto
  <2> QED BY <2>1, <2>2 DEF ParadaInv
<1>11. CASE Servicio
  <2>1. ParadaBsp'
    BY <1>11, <1>b, <1>d DEF Servicio, ParadaBsp, TrasEpoca, PCComun, Activas
  <2>2. \A c \in AP : ~Acusado(c)' BY <1>11, <1>d DEF Servicio, Acusado
  <2> QED BY <1>11, <2>1, <2>2, ParadaMarcoBsp DEF Servicio
<1>12. CASE Acuses
  <2>0. /\ pc[0] = "acuses" /\ pc'[0] \in {"acuses", "cerrar"} /\ Activas' = Activas
        /\ e[0] = epoca /\ \A c \in AP : pc'[c] = pc[c]
    BY <1>12, <1>b, <1>d DEF Acuses, Activas, ParadaBsp, TrasEpoca
  <2>1. ParadaBsp' BY <1>12, <2>0, <1>b DEF Acuses, ParadaBsp, TrasEpoca, PCComun
  <2>2. ASSUME NEW c \in AP PROVE ParadaAp(c)'
    <3>0. ParadaAp(c) BY <1>b
    <3>1. Acusado(c)' => vista'[c] = epoca'
      <4>2. CASE k < participantes /\ vista[k] = e[0] /\ k' = k + 1 /\ UNCHANGED pc
        BY <1>12, <2>0, <3>0, <4>2, <1>a, <1>e DEF Acuses, ParadaAp, Acusado
      <4>3. CASE k >= participantes /\ k' = k /\ Ir(0, "cerrar")
        BY <1>12, <2>0, <3>0, <4>3, <1>a, <1>e DEF Acuses, ParadaAp, Acusado
      <4> QED BY <1>12, <4>2, <4>3 DEF Acuses
    <3> QED BY <1>12, <2>0, <3>0, <3>1 DEF Acuses, ParadaAp, Despierto
  <2> QED BY <2>1, <2>2 DEF ParadaInv
<1>13. CASE Cerrar
  <2>0. pc[0] = "cerrar" /\ pc'[0] = "retornar" /\ Activas' = Activas
    BY <1>13, <1>d DEF Cerrar, Activas
  <2>1. ParadaBsp' BY <1>13, <2>0, <1>b DEF Cerrar, ParadaBsp, TrasEpoca, PCComun
  <2>2. \A c \in AP : Acusado(c)' => vista[c] = epoca
    BY <1>13, <2>0, <1>b DEF Cerrar, Acusado, ParadaAp
  <2> QED BY <1>13, <2>0, <2>1, <2>2, ParadaMarcoBsp DEF Cerrar
\* The end of the self-test: all the CPUs were selected, so every AP that is
\* on took part and has acknowledged.
<1>14. CASE Retornar
  <2>0. pc[0] = "retornar" /\ pc'[0] = "libre" /\ \A c \in AP : pc'[c] = pc[c]
    BY <1>14, <1>d DEF Retornar
  <2>1. ParadaBsp' BY <1>14, <2>0, <1>b DEF Retornar, ParadaBsp, TrasEpoca, PCComun
  <2>2. ASSUME NEW c \in AP PROVE ParadaAp(c)'
    <3>1. ParadaAp(c) /\ c \in Nat BY <1>a, <1>b
    <3>2. fase' = "probado" /\ parar = 0 /\ pc[c] # "apagada" => vista[c] = epoca
      <4> SUFFICES ASSUME fase' = "probado", parar = 0, pc[c] # "apagada"
                   PROVE  vista[c] = epoca
        OBVIOUS
      <4>1. fase = "autoprueba" BY <1>14, <2>0, <1>b DEF Retornar, ParadaBsp
      <4>2. participantes = cantidad
        <5>1. seleccion_cpu = NCPU /\ participantes = Activas
          BY <4>1, <2>0, <1>b DEF ParadaBsp, TrasEpoca
        <5> QED BY <5>1, <1>e DEF Activas
      <4>3. c < cantidad BY <3>1, <4>1, <2>0, <1>e DEF ParadaAp
      <4> QED BY <3>1, <4>2, <4>3, <2>0 DEF ParadaAp, Acusado
    <3>3. fase' # "marcha" => fase # "marcha" BY <1>14 DEF Retornar
    <3> QED BY <1>14, <2>0, <3>1, <3>2, <3>3 DEF Retornar, ParadaAp, Despierto, Acusado
  <2> QED BY <2>1, <2>2 DEF ParadaInv
<1>15. CASE Tomar(0)
  <2>1. /\ UNCHANGED <<epoca, vista, parar, cantidad, seleccion_cpu, e, participantes, fase>>
        /\ pc[0] \in PCComun
        /\ \E d \in PCComun \cup {"servicio"} : Ir(0, d)
    BY <1>15 DEF Tomar, LeerActivo, Sumar, Decidir, Region, Completar, TrasTomar, PCComun
  <2> PICK d \in PCComun \cup {"servicio"} : Ir(0, d) BY <2>1
  <2>2. pc'[0] = d BY <1>d
  <2>3. ParadaBsp' BY <2>1, <2>2, <1>b DEF ParadaBsp, TrasEpoca, PCComun, Activas
  <2>4. \A c \in AP : ~Acusado(c)' BY <2>2 DEF Acusado, PCComun
  <2> QED BY <2>1, <2>3, <2>4, ParadaMarcoBsp DEF PCComun
<1> QED BY <1>1, <1>2, <1>3, <1>4, <1>5, <1>6, <1>7, <1>8, <1>9, <1>10, <1>11, <1>12,
           <1>13, <1>14, <1>15 DEF PasoBsp

LEMMA ParadaLlamadas ==
  ASSUME TipoInv, ParadaInv, Llamadas PROVE ParadaInv'
<1> USE DEF lote, pool, reparto, arranque, historia, locales
<1>a. 0 \in CPU /\ \A c \in AP : c \in CPU /\ c # 0 BY DEF CPU, AP
<1>b. ParadaBsp /\ \A c \in AP : ParadaAp(c) BY DEF ParadaInv
<1>c. TipoPc /\ TipoDatos BY DEF TipoInv
<1>d. ASSUME NEW d, Ir(0, d) PROVE pc'[0] = d /\ \A c \in AP : pc'[c] = pc[c]
  BY <1>a, <1>c, <1>d DEF Ir, TipoPc
<1>1. CASE Iniciar
  <2>0. pc[0] = "libre" /\ pc'[0] \in {"libre", "arrancar"} /\ \A c \in AP : pc'[c] = pc[c]
    BY <1>1, <1>d DEF Iniciar
  <2>1. ParadaBsp' BY <1>1, <2>0, <1>b DEF Iniciar, ParadaBsp, TrasEpoca, PCComun
  <2>2. ASSUME NEW c \in AP PROVE ParadaAp(c)'
    BY <1>1, <2>0, <1>b DEF Iniciar, ParadaAp, Despierto, Acusado
  <2> QED BY <2>1, <2>2 DEF ParadaInv
<1>2. CASE LlamarParar
  <2>1. ParadaBsp' BY <1>2, <1>b, <1>d DEF LlamarParar, ParadaBsp, TrasEpoca, PCComun
  <2>2. \A c \in AP : ~Acusado(c)' BY <1>2, <1>d DEF LlamarParar, Acusado
  <2> QED BY <1>2, <2>1, <2>2, ParadaMarcoBsp DEF LlamarParar
<1>3. CASE Marchar
  BY <1>3, <1>b DEF Marchar, ParadaInv, ParadaBsp, ParadaAp, Despierto, Acusado, Activas, TrasEpoca, PCComun
<1>4. CASE Ejecutar
  <2>1. ParadaBsp' BY <1>4, <1>b, <1>d DEF Ejecutar, ParadaBsp, TrasEpoca, PCComun
  <2>2. \A c \in AP : ~Acusado(c)' BY <1>4, <1>d DEF Ejecutar, Acusado
  <2> QED BY <1>4, <2>1, <2>2, ParadaMarcoBsp DEF Ejecutar
<1>5. CASE Cancelar
  BY <1>5, <1>b DEF Cancelar, ParadaInv, ParadaBsp, ParadaAp, Despierto, Acusado, Activas
<1>6. ASSUME NEW n \in 0..(NCPU + 1), NEW bsp \in {0, 1}, Configurar(n, bsp)
      PROVE  ParadaInv'
  <2>1. ParadaBsp' BY <1>6, <1>b DEF Configurar, ParadaBsp, TrasEpoca, PCComun
  <2>2. ASSUME NEW c \in AP PROVE ParadaAp(c)'
    BY <1>6, <1>b DEF Configurar, ParadaAp, Despierto, Acusado
  <2> QED BY <2>1, <2>2 DEF ParadaInv
<1> QED BY <1>1, <1>2, <1>3, <1>4, <1>5, <1>6 DEF Llamadas

LEMMA ParadaPaso == ASSUME TipoInv, ParadaInv, [Next]_vars PROVE ParadaInv'
<1>1. CASE PasoBsp BY <1>1, ParadaPasoBsp
<1>2. CASE Llamadas BY <1>2, ParadaLlamadas
<1>3. CASE \E c \in AP : PasoAp(c) \/ Arranca(c) \/ AtenderIpi(c) BY <1>3, ParadaPasoAp
<1>4. CASE UNCHANGED vars
  BY <1>4 DEF vars, locales, lote, pool, reparto, arranque, historia, ParadaInv,
              ParadaBsp, ParadaAp, Despierto, Acusado, Activas
<1> QED BY <1>1, <1>2, <1>3, <1>4 DEF Next

\* Once the stop is published no AP of smp_trabajador is past its check of
\* parar, for any number of CPUs and whatever the terminal configures: not even
\* the AP that missed the 2000 ms of trabajos_iniciar and comes up after later
\* batches have moved the epoch on.
THEOREM ParadaDefinitivaCorrecta == Spec => []ParadaDefinitiva
<1>1. ParadaInv => ParadaDefinitiva BY DEF ParadaInv, ParadaAp, ParadaDefinitiva, Despierto
<1>2. Init => TipoInv /\ ParadaInv BY TipoInicial, ParadaInicial
<1>3. TipoInv /\ ParadaInv /\ [Next]_vars => (TipoInv /\ ParadaInv)' BY TipoPaso, ParadaPaso
<1> QED BY <1>1, <1>2, <1>3, PTL DEF Spec
-----------------------------------------------------------------------------
(* The pool implements the promise of module Lote: the initial states map   *)
(* to initial states and every step of a CPU maps to a step of the abstract *)
(* batch or leaves it alone.                                                *)

\* What the refinement reads of the pool; the invariants make it precise.
LoteInv == TipoInv /\ ControlInv /\ ConteoInv

\* The variables the mapping depends on.
mapeadas == <<Abierto, total, cancelado, Estado>>

LEMMA LoteTipos ==
  ASSUME LoteInv
  PROVE  /\ 0 \in CPU /\ \A c \in CPU : i[c] \in Nat
         /\ siguiente \in Nat /\ total \in 0..MaxRegiones /\ cancelado \in {0, 1}
         /\ \A r \in Regiones : r \in Nat /\ veces[r] \in {0, 1}
<1>1. TipoDatos /\ ConteoInv BY DEF LoteInv, TipoInv
<1>2. 0 \in CPU BY DEF CPU
<1>3. ASSUME NEW r \in Regiones PROVE r \in Nat /\ veces[r] \in {0, 1}
  <2>1. veces[r] \in Nat /\ veces[r] <= 1 BY <1>1 DEF TipoDatos, ConteoInv
  <2> QED BY <2>1 DEF Regiones
<1> QED BY <1>1, <1>2, <1>3 DEF TipoDatos

\* The state of a region, from the invariant: whoever carries it, nobody else
\* does, and it has run at most once.
LEMMA EstadoDe ==
  ASSUME LoteInv, NEW r \in Regiones
  PROVE  /\ EstadoRegion(r) \in {"pendiente", "tomada", "corriendo", "hecha", "saltada"}
         /\ EstadoRegion(r) = "pendiente" <=> r >= siguiente \/ r >= total
         /\ EstadoRegion(r) = "hecha" <=> veces[r] = 1
<1>1. veces[r] \in {0, 1} /\ (r >= total \/ r >= siguiente => veces[r] = 0)
  BY LoteTipos DEF LoteInv, ConteoInv
<1>2. r \in Nat /\ siguiente \in Nat /\ total \in Nat BY LoteTipos
<1>3. CASE veces[r] = 1 BY <1>1, <1>2, <1>3 DEF EstadoRegion
<1>4. CASE veces[r] = 0 BY <1>1, <1>2, <1>4 DEF EstadoRegion
<1> QED BY <1>1, <1>3, <1>4

\* A step that moves no CPU into or out of a region and leaves the cursor and
\* the executions alone leaves the state of every region alone.
LEMMA EstadoQuieto ==
  ASSUME LoteInv, UNCHANGED <<i, total, siguiente, veces>>,
         \A x \in CPU : pc'[x] = pc[x] \/ {pc[x], pc'[x]} \cap {"decidir", "region"} = {}
  PROVE  UNCHANGED Estado
<1>1. ASSUME NEW r \in Regiones PROVE EstadoRegion(r)' = EstadoRegion(r)
  <2>1. Lleva(r, "decidir")' <=> Lleva(r, "decidir") BY DEF Lleva
  <2>2. Lleva(r, "region")' <=> Lleva(r, "region") BY DEF Lleva
  <2> QED BY <2>1, <2>2 DEF EstadoRegion
<1> QED BY <1>1 DEF Estado

\* While one CPU moves, the regions it does not carry keep their state.
LEMMA EstadoOtras ==
  ASSUME LoteInv, NEW c \in CPU, NEW r \in Regiones, r # i[c],
         UNCHANGED <<i, total, siguiente>>, veces'[r] = veces[r],
         \A x \in CPU \ {c} : pc'[x] = pc[x]
  PROVE  EstadoRegion(r)' = EstadoRegion(r)
<1>1. Lleva(r, "decidir")' <=> Lleva(r, "decidir") BY DEF Lleva
<1>2. Lleva(r, "region")' <=> Lleva(r, "region") BY DEF Lleva
<1> QED BY <1>1, <1>2 DEF EstadoRegion

\* The index in the hands of a CPU, and its state seen from the batch.
LEMMA EstadoEnMano ==
  ASSUME LoteInv, NEW c \in CPU, pc[c] \in {"decidir", "region", "completar"}, i[c] < total
  PROVE  /\ i[c] \in Regiones /\ i[c] < siguiente /\ i[c] \in Nat
         /\ \A x \in CPU \ {c} : ~(pc[x] \in {"decidir", "region", "completar"} /\ i[x] = i[c])
         /\ pc[c] = "decidir" => EstadoRegion(i[c]) = "tomada"
         /\ pc[c] = "region" => EstadoRegion(i[c]) = "corriendo"
<1>1. ConteoCpu(c) /\ EnMano(c) BY DEF LoteInv, ConteoInv, EnMano
<1>2. i[c] \in Nat /\ total \in 0..MaxRegiones /\ siguiente \in Nat BY LoteTipos
<1>3. i[c] \in Regiones /\ i[c] < siguiente BY <1>1, <1>2 DEF Regiones, ConteoCpu
<1>4. ASSUME NEW x \in CPU \ {c}, pc[x] \in {"decidir", "region", "completar"}, i[x] = i[c]
      PROVE  FALSE
  <2>1. EnMano(x) BY <1>4 DEF EnMano
  <2> QED BY <1>1, <1>4, <2>1 DEF LoteInv, ConteoInv
<1>5. ASSUME pc[c] \in {"decidir", "region"} PROVE veces[i[c]] = 0
  BY <1>1, <1>5 DEF ConteoCpu
<1>6. ASSUME pc[c] = "decidir" PROVE EstadoRegion(i[c]) = "tomada"
  <2>1. Lleva(i[c], "decidir") BY <1>6 DEF Lleva
  <2> QED BY <2>1, <1>2, <1>3, <1>5, <1>6 DEF EstadoRegion
<1>7. ASSUME pc[c] = "region" PROVE EstadoRegion(i[c]) = "corriendo"
  <2>1. Lleva(i[c], "region") BY <1>7 DEF Lleva
  <2>2. ~Lleva(i[c], "decidir") BY <1>4, <1>7 DEF Lleva
  <2> QED BY <2>1, <2>2, <1>2, <1>3, <1>5, <1>7 DEF EstadoRegion
<1> QED BY <1>2, <1>3, <1>4, <1>6, <1>7

\* A CPU about to take an index holds none, so that another can be handed out.
LEMMA HuecoLibre ==
  ASSUME LoteInv, NEW c \in CPU, pc[c] = "sumar"
  PROVE  Cardinality(Promesa!EnManos) < NCPU
<1> DEFINE M == Promesa!EnManos
           S == {d \in CPU \ {c} : i[d] \in M /\ pc[d] \in {"decidir", "region"}}
           f == [d \in S |-> i[d]]
<1>1. ASSUME NEW r \in M PROVE \E d \in S : i[d] = r
  <2>1. r \in Regiones /\ EstadoRegion(r) \in {"tomada", "corriendo"}
    BY DEF Promesa!EnManos, Promesa!Indices, Estado, Regiones
  <2>2. Lleva(r, "decidir") \/ Lleva(r, "region") BY <2>1 DEF EstadoRegion
  <2> QED BY <2>2 DEF Lleva
<1>2. f \in Surjection(S, M)
  <2>1. f \in [S -> M] OBVIOUS
  <2>2. \A r \in M : \E d \in S : f[d] = r BY <1>1
  <2> HIDE DEF f, S, M
  <2> QED BY <2>1, <2>2 DEF Surjection
<1>3. IsFiniteSet(CPU) /\ Cardinality(CPU) = NCPU
  <2>1. 0 \in Int /\ NCPU - 1 \in Int /\ NCPU >= 1 /\ NCPU \in Nat OBVIOUS
  <2>2. IsFiniteSet(0..(NCPU - 1)) /\ Cardinality(0..(NCPU - 1)) =
          IF 0 > NCPU - 1 THEN 0 ELSE (NCPU - 1) - 0 + 1
    BY <2>1, FS_Interval
  <2> QED BY <2>1, <2>2 DEF CPU
<1>4. IsFiniteSet(CPU \ {c}) /\ Cardinality(CPU \ {c}) = NCPU - 1 BY <1>3, FS_RemoveElement
<1>5. IsFiniteSet(S) /\ Cardinality(S) <= NCPU - 1
  <2>1. S \in SUBSET (CPU \ {c}) OBVIOUS
  <2> HIDE DEF S
  <2> QED BY <1>4, <2>1, FS_Subset
<1>6. Cardinality(M) <= Cardinality(S) /\ IsFiniteSet(M)
  <2> HIDE DEF f, S, M
  <2> QED BY <1>2, <1>5, FS_Surjection
<1>7. Cardinality(M) \in Nat /\ Cardinality(S) \in Nat
  <2> HIDE DEF f, S, M
  <2> QED BY <1>5, <1>6, FS_CardinalityType
<1> HIDE DEF f, S, M
<1>8. Cardinality(M) < NCPU BY <1>5, <1>6, <1>7
<1> QED BY <1>8 DEF M

\* A batch is open while a CPU is using it.
LEMMA AbiertoEnUso ==
  ASSUME LoteInv, NEW c \in CPU, EnLote(c) PROVE Abierto = 1
<1>1. pc[0] \in Publicado
  <2>1. CASE c = 0 BY <2>1 DEF EnLote, Publicado, PCComun
  <2>2. CASE c \in AP BY <2>2 DEF LoteInv, ControlInv, ControlAp
  <2> QED BY <2>1, <2>2 DEF CPU, AP
<1> QED BY <1>1 DEF Abierto, Publicado, PCComun

\* fetch_add hands out the lowest index that nobody has, or one past the batch.
LEMMA LoteSumar ==
  ASSUME ~Desborda, LoteInv, NEW c \in CPU, Sumar(c)
  PROVE  (Promesa!TomarRegion(siguiente) /\ siguiente \in Regiones) \/ UNCHANGED mapeadas
<1> USE DEF lote, pool, reparto, arranque, historia
<1>a. TipoPc /\ TipoDatos BY DEF LoteInv, TipoInv
<1>b. 0 \in CPU /\ siguiente \in Nat /\ total \in 0..MaxRegiones BY LoteTipos
<1>c. pc[c] = "sumar" /\ pc'[c] = "decidir" /\ \A x \in CPU \ {c} : pc'[x] = pc[x]
  BY <1>a DEF Sumar, Ir, TipoPc
<1>d. i'[c] = siguiente /\ \A x \in CPU \ {c} : i'[x] = i[x] BY <1>a DEF Sumar, TipoDatos
<1>e. UNCHANGED <<total, cancelado, veces>> BY DEF Sumar
<1>f. Abierto = 1 BY <1>c, AbiertoEnUso DEF EnLote
<1>g. Abierto' = 1 BY <1>b, <1>c, <1>f DEF Abierto
<1>h. siguiente' \in Nat /\ siguiente' >= siguiente
      /\ (siguiente < total => siguiente' = siguiente + 1)
  BY <1>a, <1>b DEF Sumar, Incrementado, TipoDatos
<1>i. ASSUME NEW r \in Regiones, r # siguiente \/ siguiente >= total
      PROVE  EstadoRegion(r)' = EstadoRegion(r)
  <2>1. r \in Nat BY LoteTipos
  <2>2. veces[r] \in {0, 1} /\ (r >= total \/ r >= siguiente => veces[r] = 0)
    BY LoteTipos DEF LoteInv, ConteoInv
  <2>3. CASE r >= total BY <1>b, <1>e, <2>1, <2>2, <2>3 DEF EstadoRegion
  <2>4. CASE r < total
    <3>1. r # siguiente BY <1>b, <1>i, <2>1, <2>4
    <3>2. r >= siguiente' <=> r >= siguiente BY <1>b, <1>h, <2>1, <2>4, <3>1
    <3>3. Lleva(r, "decidir")' <=> Lleva(r, "decidir") BY <1>c, <1>d, <3>1 DEF Lleva
    <3>4. Lleva(r, "region")' <=> Lleva(r, "region") BY <1>c, <1>d DEF Lleva
    <3> QED BY <1>e, <3>2, <3>3, <3>4 DEF EstadoRegion
  <2> QED BY <1>b, <2>1, <2>3, <2>4
<1>1. CASE siguiente >= total
  <2>1. \A r \in Regiones : EstadoRegion(r)' = EstadoRegion(r) BY <1>1, <1>i
  <2> QED BY <1>e, <1>f, <1>g, <2>1 DEF mapeadas, Estado
<1>2. CASE siguiente < total
  <2>1. siguiente \in Regiones BY <1>b, <1>2 DEF Regiones
  <2>2. veces[siguiente] = 0 BY <1>b, <2>1 DEF LoteInv, ConteoInv
  <2>3. EstadoRegion(siguiente) = "pendiente" BY <1>b, <2>2 DEF EstadoRegion
  <2>4. ASSUME NEW r \in Regiones, r < siguiente PROVE EstadoRegion(r) # "pendiente"
    <3>1. r \in Nat BY LoteTipos
    <3> QED BY <1>b, <1>2, <2>4, <3>1 DEF EstadoRegion
  <2>5. Estado' = [Estado EXCEPT ![siguiente] = "tomada"]
    <3>1. \E d \in CPU : i'[d] = siguiente /\ pc'[d] = "decidir" BY <1>c, <1>d
    <3> DEFINE s == siguiente
    <3>2. veces'[s] = 0 /\ s < siguiente' /\ s < total' BY <1>b, <1>e, <1>h, <1>2, <2>2
    <3>3. ASSUME NEW r \in Regiones, r = s PROVE EstadoRegion(r)' = "tomada"
      <4>1. Lleva(r, "decidir")' BY <3>1, <3>3 DEF Lleva
      <4>2. r \in Nat BY LoteTipos
      <4> QED BY <1>b, <1>e, <1>h, <3>2, <3>3, <4>1, <4>2 DEF EstadoRegion
    <3>4. \A r \in Regiones : EstadoRegion(r)' = IF r = s THEN "tomada" ELSE EstadoRegion(r)
      BY <1>i, <3>3
    <3> QED BY <2>1, <3>4 DEF Estado
  <2>6. Estado[siguiente] = "pendiente" BY <2>1, <2>3 DEF Estado
  <2>7. \A r \in Promesa!Indices : r < siguiente => Estado[r] # "pendiente"
    BY <2>4 DEF Estado, Promesa!Indices, Regiones
  <2>8. Promesa!Cardinality(Promesa!EnManos) < NCPU
    <3>1. Promesa!Cardinality(Promesa!EnManos) = Cardinality(Promesa!EnManos)
      BY DEF Cardinality, Promesa!Cardinality
    <3> QED BY <1>c, <3>1, HuecoLibre
  <2> QED BY <1>2, <1>e, <1>f, <1>g, <2>1, <2>5, <2>6, <2>7, <2>8 DEF Promesa!TomarRegion
<1> QED BY <1>b, <1>1, <1>2

\* The test of total and of cancelado begins the region, skips it, or finds the
\* batch exhausted.
LEMMA LoteDecidir ==
  ASSUME LoteInv, NEW c \in CPU, Decidir(c)
  PROVE  \/ i[c] \in Regiones /\ (Promesa!Empezar(i[c]) \/ Promesa!Saltar(i[c]))
         \/ UNCHANGED mapeadas
<1> USE DEF lote, pool, reparto, arranque, historia
<1>a. TipoPc /\ TipoDatos BY DEF LoteInv, TipoInv
<1>b. 0 \in CPU /\ i[c] \in Nat /\ siguiente \in Nat /\ total \in 0..MaxRegiones
      /\ cancelado \in {0, 1}
  BY LoteTipos
<1>c. pc[c] = "decidir" /\ \A x \in CPU \ {c} : pc'[x] = pc[x] BY <1>a DEF Decidir, Ir, TipoPc
<1>d. pc'[c] = IF i[c] >= total THEN TrasTomar(c, 0)
               ELSE IF cancelado = 1 THEN "completar" ELSE "region"
  BY <1>a DEF Decidir, Ir, TipoPc
<1>e. UNCHANGED <<i, total, siguiente, cancelado, veces>> BY DEF Decidir
<1>f. Abierto = 1 BY <1>c, AbiertoEnUso DEF EnLote
<1>g. Abierto' = 1 BY <1>b, <1>c, <1>d, <1>f DEF Abierto, TrasTomar
<1>i. ASSUME NEW r \in Regiones, r # i[c] PROVE EstadoRegion(r)' = EstadoRegion(r)
  BY <1>c, <1>e, <1>i, EstadoOtras
<1>1. CASE i[c] >= total
  <2>1. ASSUME NEW r \in Regiones, r = i[c] PROVE EstadoRegion(r)' = EstadoRegion(r)
    <3>1. veces[r] = 0 BY <1>1, <2>1 DEF LoteInv, ConteoInv
    <3> QED BY <1>1, <1>b, <1>e, <2>1, <3>1 DEF EstadoRegion
  <2>2. \A r \in Regiones : EstadoRegion(r)' = EstadoRegion(r) BY <1>i, <2>1
  <2> QED BY <1>e, <1>f, <1>g, <2>2 DEF mapeadas, Estado
<1>2. CASE i[c] < total
  <2>1. /\ i[c] \in Regiones /\ i[c] < siguiente /\ EstadoRegion(i[c]) = "tomada"
        /\ \A x \in CPU \ {c} : ~(pc[x] \in {"decidir", "region", "completar"} /\ i[x] = i[c])
    BY <1>2, <1>c, EstadoEnMano
  <2>2. veces[i[c]] = 0 BY <1>2, <1>c DEF LoteInv, ConteoInv, ConteoCpu
  <2>3. Estado[i[c]] = "tomada" BY <2>1 DEF Estado
  <2>4. ASSUME NEW r \in Regiones, r = i[c]
        PROVE  EstadoRegion(r)' = IF cancelado = 1 THEN "saltada" ELSE "corriendo"
    <3>1. ~Lleva(r, "decidir")' BY <1>2, <1>b, <1>c, <1>d, <1>e, <2>1, <2>4 DEF Lleva
    <3>2. Lleva(r, "region")' <=> cancelado # 1
      BY <1>2, <1>b, <1>c, <1>d, <1>e, <2>1, <2>4 DEF Lleva
    <3> QED BY <1>2, <1>b, <1>e, <2>1, <2>2, <2>4, <3>1, <3>2 DEF EstadoRegion
  <2>5. Estado' = [Estado EXCEPT ![i[c]] = IF cancelado = 1 THEN "saltada" ELSE "corriendo"]
    BY <1>i, <2>1, <2>4 DEF Estado
  <2>6. CASE cancelado = 1
    BY <1>e, <1>f, <1>g, <2>1, <2>3, <2>5, <2>6 DEF Promesa!Saltar
  <2>7. CASE cancelado = 0
    BY <1>e, <1>f, <1>g, <2>1, <2>3, <2>5, <2>7 DEF Promesa!Empezar
  <2> QED BY <1>b, <2>6, <2>7
<1> QED BY <1>b, <1>1, <1>2

\* The execution of a region.
LEMMA LoteRegion ==
  ASSUME LoteInv, NEW c \in CPU, Region(c)
  PROVE  i[c] \in Regiones /\ Promesa!Acabar(i[c])
<1> USE DEF lote, pool, reparto, arranque, historia
<1>a. TipoPc /\ TipoDatos BY DEF LoteInv, TipoInv
<1>b. 0 \in CPU /\ i[c] \in Nat /\ total \in 0..MaxRegiones BY LoteTipos
<1>c. pc[c] = "region" /\ pc'[c] = "completar" /\ \A x \in CPU \ {c} : pc'[x] = pc[x]
  BY <1>a DEF Region, Ir, TipoPc
<1>d. i[c] < total BY <1>c DEF LoteInv, ConteoInv, ConteoCpu
<1>e. UNCHANGED <<i, total, siguiente, cancelado>> BY DEF Region
<1>f. Abierto = 1 BY <1>c, AbiertoEnUso DEF EnLote
<1>g. Abierto' = 1 BY <1>b, <1>c, <1>f DEF Abierto
<1>1. i[c] \in Regiones /\ EstadoRegion(i[c]) = "corriendo" BY <1>c, <1>d, EstadoEnMano
<1>2. veces[i[c]] = 0 BY <1>c, <1>d DEF LoteInv, ConteoInv, ConteoCpu
<1>3. veces'[i[c]] = 1 /\ \A r \in Regiones \ {i[c]} : veces'[r] = veces[r]
  BY <1>a, <1>1, <1>2 DEF Region, TipoDatos
<1>4. ASSUME NEW r \in Regiones, r = i[c] PROVE EstadoRegion(r)' = "hecha"
  BY <1>3, <1>4 DEF EstadoRegion
<1>5. ASSUME NEW r \in Regiones, r # i[c] PROVE EstadoRegion(r)' = EstadoRegion(r)
  BY <1>3, <1>c, <1>e, <1>5, EstadoOtras
<1>6. Estado' = [Estado EXCEPT ![i[c]] = "hecha"] BY <1>1, <1>4, <1>5 DEF Estado
<1>7. Estado[i[c]] = "corriendo" BY <1>1 DEF Estado
<1> QED BY <1>e, <1>f, <1>g, <1>1, <1>6, <1>7 DEF Promesa!Acabar

\* trabajos_preparar opens a batch of n regions, all of them pending.
LEMMA LotePreparar ==
  ASSUME LoteInv, NEW n \in Tamanos, PrepararCampos(n) PROVE Promesa!Abrir(n)
<1>1. pc[0] = "campos" /\ pc'[0] = "publicar"
  <2>1. TipoPc /\ 0 \in CPU BY LoteTipos DEF LoteInv, TipoInv
  <2> QED BY <2>1 DEF PrepararCampos, Ir, TipoPc
<1>2. Abierto = 0 /\ Abierto' = 1 BY <1>1 DEF Abierto
<1>3. ASSUME NEW r \in Regiones PROVE EstadoRegion(r)' = "pendiente"
  <2>1. veces'[r] = 0 /\ siguiente' = 0 BY DEF PrepararCampos
  <2> QED BY <2>1 DEF EstadoRegion, Regiones
<1>4. Estado' = [r \in Promesa!Indices |-> "pendiente"]
  BY <1>3 DEF Estado, Promesa!Indices, Regiones
<1> QED BY <1>2, <1>4 DEF PrepararCampos, Promesa!Abrir

\* Clearing activo closes the batch: every region is counted and nobody holds one.
LEMMA LoteCerrar == ASSUME LoteInv, Cerrar PROVE Promesa!Devolver
<1>1. pc[0] = "cerrar" /\ pc'[0] = "retornar" /\ \A x \in CPU \ {0} : pc'[x] = pc[x]
  <2>1. TipoPc /\ 0 \in CPU BY LoteTipos DEF LoteInv, TipoInv
  <2> QED BY <2>1 DEF Cerrar, Ir, TipoPc
<1>2. UNCHANGED <<i, total, siguiente, cancelado, veces>> BY DEF Cerrar, historia
<1>3. Abierto = 1 /\ Abierto' = 0 BY <1>1 DEF Abierto
<1>4. UNCHANGED Estado BY <1>1, <1>2, EstadoQuieto
<1>5. ASSUME NEW r \in 0..(total - 1) PROVE Estado[r] \in {"hecha", "saltada"}
  <2>1. r \in Regiones /\ r \in Nat /\ total \in Nat /\ siguiente \in Nat /\ r < total
    BY LoteTipos DEF Regiones
  <2>2. r \in hechas BY <1>1 DEF LoteInv, ConteoInv
  <2>3. r < siguiente BY <2>2 DEF LoteInv, ConteoInv
  <2>4. ASSUME NEW d \in {"decidir", "region"}, Lleva(r, d) PROVE FALSE
    <3>1. PICK x \in CPU : i[x] = r /\ pc[x] = d BY <2>4 DEF Lleva
    <3>2. EnMano(x) BY <2>1, <3>1 DEF EnMano
    <3> QED BY <2>2, <3>1, <3>2 DEF LoteInv, ConteoInv, ConteoCpu
  <2>5. veces[r] \in {0, 1} BY <2>1, LoteTipos
  <2> QED BY <2>1, <2>3, <2>4, <2>5 DEF Estado, EstadoRegion
<1> QED BY <1>2, <1>3, <1>4, <1>5 DEF Promesa!Devolver

\* trabajos_cancelar_actual, wherever the coordinator calls it.
LEMMA LoteCancelar == ASSUME LoteInv, Cancelar PROVE Promesa!CancelarLote
<1>1. UNCHANGED <<pc, i, total, siguiente, veces>> /\ cancelado' = 1
      /\ pc[0] \in {"servicio", "region", "acuses"}
  BY DEF Cancelar, locales, historia
<1>2. Abierto = 1 /\ Abierto' = 1 BY <1>1 DEF Abierto
<1>3. UNCHANGED Estado BY <1>1, EstadoQuieto
<1> QED BY <1>1, <1>2, <1>3 DEF Promesa!CancelarLote

\* Steps that the batch does not see.
LEMMA LoteQuieto ==
  ASSUME LoteInv, UNCHANGED <<i, total, siguiente, veces, cancelado>>,
         \A x \in CPU : pc'[x] = pc[x] \/ {pc[x], pc'[x]} \cap {"decidir", "region"} = {},
         Abierto' = Abierto
  PROVE  UNCHANGED mapeadas
BY EstadoQuieto DEF mapeadas

LEMMA LotePaso ==
  ASSUME ~Desborda, LoteInv, [Next]_vars PROVE [Promesa!LoteNext]_mapeadas
<1> USE DEF lote, pool, reparto, arranque, historia, locales
<1>a. TipoPc /\ 0 \in CPU /\ AP \subseteq CPU BY DEF LoteInv, TipoInv, CPU, AP
<1>b. Promesa!Indices = Regiones BY DEF Promesa!Indices, Regiones
<1> DEFINE Cerrados == {"libre", "campos", "retornar", "arrancar", "esperarListo",
                        "parar", "avisarParada", "esperarDetenidos"}
\* A CPU moves outside a region, and the coordinator does not open or close.
<1>c. ASSUME NEW c \in CPU, NEW d, Ir(c, d), d \notin {"decidir", "region"},
             pc[c] \notin {"decidir", "region"},
             UNCHANGED <<i, total, siguiente, veces, cancelado>>,
             c = 0 => (d \in Cerrados <=> pc[0] \in Cerrados)
      PROVE  UNCHANGED mapeadas
  <2>1. pc'[c] = d /\ \A x \in CPU \ {c} : pc'[x] = pc[x] BY <1>a, <1>c DEF Ir, TipoPc
  <2>2. Abierto' = Abierto BY <1>a, <1>c, <2>1 DEF Abierto
  <2> QED BY <1>c, <2>1, <2>2, LoteQuieto
<1>d. ASSUME UNCHANGED <<pc, i, total, siguiente, veces, cancelado>> PROVE UNCHANGED mapeadas
  <2>1. Abierto' = Abierto BY <1>d DEF Abierto
  <2> QED BY <1>d, <2>1, LoteQuieto
<1>1. ASSUME NEW c \in CPU, Tomar(c) PROVE Promesa!LoteNext \/ UNCHANGED mapeadas
  <2>1. CASE LeerActivo(c)
    <3>1. (IF activo = 1 THEN "sumar" ELSE TrasTomar(c, 0)) \notin {"decidir", "region"} \cup Cerrados
      BY DEF TrasTomar
    <3> QED BY <2>1, <3>1, <1>c DEF LeerActivo
  <2>2. CASE Sumar(c) BY <2>2, <1>b, LoteSumar DEF Promesa!LoteNext
  <2>3. CASE Decidir(c) BY <2>3, <1>b, LoteDecidir DEF Promesa!LoteNext
  <2>4. CASE Region(c) BY <2>4, <1>b, LoteRegion DEF Promesa!LoteNext
  <2>5. CASE Completar(c)
    <3>1. TrasTomar(c, 1) \notin {"decidir", "region"} \cup Cerrados BY DEF TrasTomar
    <3> QED BY <2>5, <3>1, <1>c DEF Completar
  <2> QED BY <1>1, <2>1, <2>2, <2>3, <2>4, <2>5 DEF Tomar
<1>2. CASE ArrancarAp
  <2>1. CASE Ir(0, "libre") BY <1>2, <2>1, <1>a, <1>c DEF ArrancarAp
  <2>2. CASE cantidad < LimiteCpu /\ pc' = [pc EXCEPT ![0] = "esperarListo", ![cantidad] = "arrancando"]
    <3>1. cantidad \in AP /\ cantidad \in CPU
      BY <2>2 DEF LoteInv, TipoInv, TipoDatos, AP, CPU
    <3>2. pc[cantidad] \notin {"decidir", "region"}
      BY <1>2, <1>a, <3>1 DEF ArrancarAp, LoteInv, TipoInv, ControlInv, ControlAp, EnLote, Publicado, PCComun
    <3>3. pc'[0] = "esperarListo" /\ pc'[cantidad] = "arrancando"
          /\ \A x \in CPU \ {0, cantidad} : pc'[x] = pc[x]
      BY <1>a, <2>2, <3>1 DEF TipoPc, AP
    <3>4. Abierto' = Abierto BY <1>2, <3>3 DEF Abierto, ArrancarAp
    <3> QED BY <1>2, <3>2, <3>3, <3>4, LoteQuieto DEF ArrancarAp
  <2> QED BY <1>2, <2>1, <2>2 DEF ArrancarAp
<1>3. CASE EsperarListo \/ PublicarParada \/ AvisarParada \/ EsperarDetenidos
  BY <1>3, <1>a, <1>c, <1>d DEF EsperarListo, PublicarParada, AvisarParada, EsperarDetenidos
<1>4. ASSUME NEW n \in Tamanos, PrepararCampos(n) PROVE Promesa!LoteNext
  BY <1>4, LotePreparar DEF Promesa!LoteNext
<1>5. CASE PublicarActivo \/ AvanzarEpoca \/ Avisar \/ Servicio \/ Acuses \/ Retornar
  BY <1>5, <1>a, <1>c, <1>d
     DEF PublicarActivo, AvanzarEpoca, Avisar, Servicio, Acuses, Retornar
<1>6. CASE Esperar
  <2>1. (IF bsp_calcula = 1 THEN "tomar" ELSE "servicio") \notin {"decidir", "region"} \cup Cerrados
    OBVIOUS
  <2> QED BY <1>6, <2>1, <1>a, <1>c DEF Esperar
<1>7. CASE Cerrar BY <1>7, LoteCerrar DEF Promesa!LoteNext
<1>8. CASE Cancelar BY <1>8, LoteCancelar DEF Promesa!LoteNext
<1>9. CASE Llamadas /\ ~Cancelar
  BY <1>9, <1>a, <1>c, <1>d DEF Llamadas, Iniciar, LlamarParar, Marchar, Ejecutar, Configurar
<1>10. ASSUME NEW c \in AP, PasoAp(c) \/ Arranca(c) \/ AtenderIpi(c)
       PROVE  Promesa!LoteNext \/ UNCHANGED mapeadas
  <2>1. c \in CPU /\ c # 0 BY DEF CPU, AP
  <2>2. CASE Tomar(c) BY <2>1, <2>2, <1>1
  <2>3. CASE LeerEpoca(c) BY <2>1, <2>3, <1>c DEF LeerEpoca
  <2>4. CASE MirarParar(c) BY <2>1, <2>4, <1>c DEF MirarParar
  <2>5. CASE Despierta(c) BY <2>1, <2>5, <1>c DEF Despierta
  <2>6. CASE Evaluar(c) BY <2>1, <2>6, <1>c DEF Evaluar
  <2>7. CASE Acusar(c) BY <2>1, <2>7, <1>c DEF Acusar
  <2>8. CASE Arranca(c) BY <2>1, <2>8, <1>c DEF Arranca
  <2>9. CASE AtenderIpi(c) BY <2>9, <1>d DEF AtenderIpi
  <2> QED BY <1>10, <2>2, <2>3, <2>4, <2>5, <2>6, <2>7, <2>8, <2>9 DEF PasoAp
<1>11. CASE UNCHANGED vars BY <1>11, <1>d DEF vars
<1> QED
  BY <1>a, <1>1, <1>2, <1>3, <1>4, <1>5, <1>6, <1>7, <1>8, <1>9, <1>10, <1>11
     DEF Next, PasoBsp

LEMMA LoteInicial == Init => Promesa!LoteInit
<1> SUFFICES ASSUME Init PROVE Promesa!LoteInit OBVIOUS
<1>1. Abierto = 0
  <2>1. 0 \in CPU BY DEF CPU
  <2> QED BY <2>1 DEF Init, Abierto
<1>2. ASSUME NEW r \in Regiones PROVE EstadoRegion(r) = "pendiente"
  BY DEF Init, EstadoRegion, Regiones
<1>3. Estado = [r \in Promesa!Indices |-> "pendiente"]
  BY <1>2 DEF Estado, Promesa!Indices, Regiones
<1> QED BY <1>1, <1>3 DEF Init, Promesa!LoteInit

\* trabajos_ejecutar keeps the promise of its header: with any number of CPUs,
\* of regions and of batches, every step of the pool is a step of the abstract
\* batch of module Lote or is invisible to it.
THEOREM ImplementaLoteCorrecto ==
  ASSUME ~Desborda, EsperaReposo PROVE Spec => ImplementaLote
<1>1. Init => TipoInv /\ ControlInv /\ ConteoInv
  BY TipoInicial, ControlInicial, ConteoInicial
<1>2. TipoInv /\ ControlInv /\ ConteoInv /\ [Next]_vars => (TipoInv /\ ControlInv /\ ConteoInv)'
  BY TipoPaso, ControlPaso, ConteoPaso
<1>3. TipoInv /\ ControlInv /\ ConteoInv /\ [Next]_vars => [Promesa!LoteNext]_(Promesa!loteVars)
  BY LotePaso DEF LoteInv, Promesa!loteVars, mapeadas
<1> QED BY <1>1, <1>2, <1>3, LoteInicial, PTL DEF Spec, ImplementaLote, Promesa!LoteSpec
=============================================================================
