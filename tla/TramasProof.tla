----------------------------- MODULE TramasProof -----------------------------
(***************************************************************************)
(* Proofs about Tramas, for rings of every size, every number of frames    *)
(* and every content. Each ring is a window on a sequence that only grows: *)
(* a descriptor belongs to the frame whose place leaves its index as       *)
(* remainder, and what makes that unambiguous is that fewer frames are     *)
(* pending than the ring has descriptors (LugarUnico).                     *)
(***************************************************************************)
EXTENDS Tramas, TLAPS

(* The descriptor of the frame that follows n others in a ring of d. *)
Resto(n, d) == n % d

(***************************************************************************)
(* The inductive invariant.                                                *)
(***************************************************************************)
N == Len(aceptadas)
C == Len(cable)
L == Len(llegadas)

(* The indices and registers follow from how much was sent and completed.  *)
EnvioIndices ==
    /\ txIdx = Resto(N, NumTx) /\ tdt = Resto(N, NumTx) /\ tdh = Resto(C, NumTx)
    /\ txHechas <= C /\ C <= N /\ N <= txHechas + NumTx
    /\ pc \in {"escribe", "publica"} => N < txHechas + NumTx

(* A frame that is not completed has a descriptor without DD, and one that *)
(* was not taken is still in its buffer.                                   *)
EnvioPendiente ==
    /\ \A n \in txHechas .. (N - 1) : txDd[Resto(n, NumTx)] = 0
    /\ \A n \in C .. (N - 1) : txBuf[Resto(n, NumTx)] = aceptadas[n + 1]
    /\ pc = "publica" => txBuf[txIdx] = pedida /\ txDd[txIdx] = 0

EnvioInv == EnvioIndices /\ EnvioPendiente /\ CableFiel

LlegaIndices ==
    /\ rxIdx = Resto(leidas, NumRx) /\ rdh = Resto(L, NumRx) /\ rdt = Resto(leidas + (NumRx - 1), NumRx)
    /\ leidas <= rxHechas /\ rxHechas <= L /\ L <= leidas + (NumRx - 1)
    /\ pc \in {"copia", "limpia", "devuelve"} => leidas < rxHechas

(* The window of the receive ring: frames stored and not passed are in     *)
(* their buffers, their status is there when it was written back, and no   *)
(* other descriptor has DD.                                                *)
LlegaPendiente ==
    /\ \A n \in leidas .. (L - 1) : rxBuf[Resto(n, NumRx)] = llegadas[n + 1].trama
    /\ \A n \in leidas .. (rxHechas - 1) :
           (pc /= "devuelve" \/ n /= leidas) => rxEst[Resto(n, NumRx)] = llegadas[n + 1].calidad
    /\ \A n \in rxHechas .. (leidas + (NumRx - 1)) : rxEst[Resto(n, NumRx)] = "vacio"
    /\ pc = "devuelve" => rxEst[Resto(leidas, NumRx)] = "vacio"

(* What red_recibir_trama holds of the frame it is passing. *)
LlegaEnMano ==
    /\ pc \in {"copia", "limpia", "devuelve"} => status = llegadas[leidas + 1].calidad
    /\ (pc \in {"limpia", "devuelve"} /\ status = "buena") => copia = llegadas[leidas + 1].trama

LlegaInv == LlegaIndices /\ LlegaPendiente /\ LlegaEnMano /\ EntregasFieles

Inv == TypeOK /\ EnvioInv /\ LlegaInv

(***************************************************************************)
(* Remainders.                                                             *)
(***************************************************************************)
(* A remainder is an index of the ring. *)
LEMMA RestoTipo ==
    ASSUME NEW n \in Nat, NEW d \in Nat \ {0} PROVE Resto(n, d) \in 0 .. (d - 1)
BY SMT DEF Resto

(* Quotient and remainder, and their uniqueness. *)
LEMMA Division ==
    ASSUME NEW n \in Nat, NEW d \in Nat \ {0}
    PROVE  n \div d \in Nat /\ n = d * (n \div d) + Resto(n, d)
BY SMT DEF Resto

LEMMA RestoUnico ==
    ASSUME NEW q \in Nat, NEW d \in Nat \ {0}, NEW r \in 0 .. (d - 1)
    PROVE  Resto(d * q + r, d) = r
BY SMT DEF Resto

(* A multiple of d that lies strictly between -d and d is zero. *)
LEMMA MultiploCorto ==
    ASSUME NEW p \in Nat, NEW q \in Nat, NEW d \in Nat \ {0}, p < q
    PROVE  d * q >= d * p + d
<1>1. q = p + 1 + (q - p - 1) /\ q - p - 1 \in Nat OBVIOUS
<1>2. PICK k \in Nat : q = p + 1 + k BY <1>1
<1>3. d * q = d * p + d + d * k BY <1>2
<1>4. d * k \in Nat /\ d * p \in Nat OBVIOUS
<1> QED BY <1>3, <1>4

(* Adding one to an index and wrapping gives the next remainder. *)
LEMMA RestoSigue ==
    ASSUME NEW n \in Nat, NEW d \in Nat \ {0} PROVE (Resto(n, d) + 1) % d = Resto(n + 1, d)
<1> DEFINE q == n \div d
           r == Resto(n, d)
<1>1. q \in Nat /\ n = d * q + r BY Division
<1>2. r \in 0 .. (d - 1) BY RestoTipo
<1> HIDE DEF q, r
<1>3. CASE r + 1 < d
  <2>1. r + 1 \in 0 .. (d - 1) BY <1>2, <1>3
  <2>2. n + 1 = d * q + (r + 1) BY <1>1, <1>2
  <2>3. Resto(n + 1, d) = r + 1 BY <1>1, <2>1, <2>2, RestoUnico
  <2>4. (r + 1) % d = r + 1 BY <2>1
  <2> QED BY <2>3, <2>4 DEF r
<1>4. CASE r + 1 = d
  <2>1. q + 1 \in Nat /\ 0 \in 0 .. (d - 1) BY <1>1
  <2>2. n + 1 = d * (q + 1) + 0 BY <1>1, <1>2, <1>4
  <2>3. Resto(n + 1, d) = 0 BY <2>1, <2>2, RestoUnico
  <2>4. (r + 1) % d = 0 BY <1>4
  <2> QED BY <2>3, <2>4 DEF r
<1> QED BY <1>2, <1>3, <1>4

(* A whole turn leads to the same descriptor. *)
LEMMA RestoVuelve ==
    ASSUME NEW n \in Nat, NEW d \in Nat \ {0} PROVE Resto(n + d, d) = Resto(n, d)
<1> DEFINE q == n \div d
           r == Resto(n, d)
<1>1. q \in Nat /\ n = d * q + r BY Division
<1>2. r \in 0 .. (d - 1) BY RestoTipo
<1> HIDE DEF q, r
<1>3. q + 1 \in Nat /\ n + d = d * (q + 1) + r BY <1>1, <1>2
<1>4. Resto(n + d, d) = r BY <1>2, <1>3, RestoUnico
<1> QED BY <1>4 DEF r

(* Two frames less than a turn apart have different descriptors. *)
LEMMA LugarUnico ==
    ASSUME NEW a \in Nat, NEW b \in Nat, NEW d \in Nat \ {0}, a < b, b < a + d
    PROVE  Resto(a, d) /= Resto(b, d)
<1> SUFFICES ASSUME Resto(a, d) = Resto(b, d) PROVE FALSE
    OBVIOUS
<1> DEFINE p == a \div d
           q == b \div d
           r == Resto(a, d)
<1>1. p \in Nat /\ a = d * p + r BY Division
<1>2. q \in Nat /\ b = d * q + r BY Division
<1>3. r \in 0 .. (d - 1) BY RestoTipo
<1> HIDE DEF p, q, r
<1>4. d * p \in Nat /\ d * q \in Nat BY <1>1, <1>2
<1>5. d * p < d * q /\ d * q < d * p + d BY <1>1, <1>2, <1>3, <1>4
<1>6. CASE p < q BY <1>1, <1>2, <1>4, <1>5, <1>6, MultiploCorto
<1>7. CASE p = q BY <1>4, <1>5, <1>7
<1>8. CASE q < p
  <2>1. d * p >= d * q + d BY <1>1, <1>2, <1>8, MultiploCorto
  <2> QED BY <2>1, <1>4, <1>5
<1> QED BY <1>1, <1>2, <1>6, <1>7, <1>8

(***************************************************************************)
(* Types.                                                                  *)
(***************************************************************************)
LEMMA AnadirTipo ==
    ASSUME NEW S, NEW s \in Seq(S), NEW e \in S
    PROVE  /\ Append(s, e) \in Seq(S) /\ Len(Append(s, e)) = Len(s) + 1
           /\ Append(s, e)[Len(s) + 1] = e
           /\ \A n \in 1 .. Len(s) : Append(s, e)[n] = s[n]
OBVIOUS

LEMMA TipoInicial == Init => TypeOK
BY TramasAssumption DEF Init, TypeOK, Pasos, DescTx, DescRx, Calidades

(* Each action keeps the types. *)
LEMMA TipoSigue == TypeOK /\ [Next]_vars => TypeOK'
<1> SUFFICES ASSUME TypeOK, [Next]_vars PROVE TypeOK'
    OBVIOUS
<1> USE TramasAssumption DEF TypeOK, Pasos, Calidades
<1>1. ASSUME NEW t \in Contenidos, EnviarEntra(t) PROVE TypeOK'
    BY <1>1 DEF EnviarEntra, txVars, rxVars
<1>2. CASE EnviarLibre BY <1>2 DEF EnviarLibre, txVars, rxVars
<1>3. CASE EnviarAgota BY <1>3 DEF EnviarAgota, txVars, rxVars
<1>4. CASE EnviarEscribe BY <1>4 DEF EnviarEscribe, rxVars
<1>5. CASE EnviarPublica
  <2>1. (txIdx + 1) % NumTx \in DescTx BY DEF DescTx
  <2> QED BY <1>5, <2>1 DEF EnviarPublica, rxVars
<1>6. CASE RecibirEntra BY <1>6 DEF RecibirEntra, txVars, rxVars
<1>7. CASE RecibirLee BY <1>7 DEF RecibirLee, txVars, rxVars
<1>8. CASE RecibirMira
  <2>1. 0 \in DescRx BY DEF DescRx
  <2> QED BY <1>8, <2>1 DEF RecibirMira, txVars, rxVars
<1>9. CASE RecibirCopia BY <1>9 DEF RecibirCopia, txVars, rxVars
<1>10. CASE RecibirLimpia BY <1>10 DEF RecibirLimpia, txVars
<1>11. CASE RecibirDevuelve
  <2>1. (rxIdx + 1) % NumRx \in DescRx BY DEF DescRx
  <2> DEFINE e == [lugar |-> leidas + 1, trama |-> copia]
             S == [lugar : Nat, trama : Contenidos]
  <2>2. e \in S /\ entregadas \in Seq(S) OBVIOUS
  <2>3. entregadas' \in {entregadas, Append(entregadas, e)} BY <1>11 DEF RecibirDevuelve
  <2>4. entregadas' \in Seq(S)
    <3> HIDE DEF e, S
    <3> QED BY ONLY <2>2, <2>3, AnadirTipo
  <2>5. /\ pc' \in Pasos /\ ultimoError' \in {0, 2} /\ pedida' \in Contenidos /\ copia' \in Contenidos
        /\ vista' \in DescRx /\ status' \in Calidades \cup {"vacio"}
        /\ rxIdx' \in DescRx /\ rdt' \in DescRx /\ leidas' \in Nat
    BY <1>11, <2>1 DEF RecibirDevuelve
  <2>6. UNCHANGED <<txVars, rdh, rxEst, rxBuf, rxHechas, llegadas>> BY <1>11 DEF RecibirDevuelve
  <2>7. entregadas' \in Seq([lugar : Nat, trama : Contenidos]) BY ONLY <2>4
  <2> HIDE DEF e, S
  <2> QED BY ONLY <2>5, <2>6, <2>7, TypeOK DEF TypeOK, txVars
<1>12. CASE TarjetaEnvia
  <2>1. (tdh + 1) % NumTx \in DescTx BY DEF DescTx
  <2> QED BY <1>12, <2>1 DEF TarjetaEnvia, locales, rxVars
<1>13. CASE TarjetaAcaba
  <2> DEFINE i == txHechas % NumTx
  <2>1. txDd' = [txDd EXCEPT ![i] = 1] BY <1>13 DEF TarjetaAcaba
  <2> HIDE DEF i
  <2>2. txDd' \in [DescTx -> {0, 1}] BY <2>1
  <2>3. txHechas' \in Nat BY <1>13 DEF TarjetaAcaba
  <2>4. UNCHANGED <<locales, rxVars, txIdx, tdh, tdt, txBuf, aceptadas, cable>> BY <1>13 DEF TarjetaAcaba
  <2> QED BY ONLY <2>2, <2>3, <2>4, TypeOK DEF TypeOK, locales, rxVars
<1>14. ASSUME NEW t \in Contenidos, NEW c \in Calidades, TarjetaGuarda(t, c) PROVE TypeOK'
  <2>1. (rdh + 1) % NumRx \in DescRx BY DEF DescRx
  <2> DEFINE e == [trama |-> t, calidad |-> c]
             S == [trama : Contenidos, calidad : Calidades]
  <2>2. e \in S /\ llegadas \in Seq(S) BY <1>14
  <2>3. llegadas' = Append(llegadas, e) BY <1>14 DEF TarjetaGuarda
  <2>4. llegadas' \in Seq(S)
    <3> HIDE DEF e, S
    <3> QED BY ONLY <2>2, <2>3, AnadirTipo
  <2>5. llegadas' \in Seq([trama : Contenidos, calidad : Calidades]) BY ONLY <2>4
  <2>6. rxBuf' \in [DescRx -> Contenidos] /\ rdh' \in DescRx BY <1>14, <2>1 DEF TarjetaGuarda
  <2>7. UNCHANGED <<locales, txVars, rxIdx, rdt, rxEst, rxHechas, leidas, entregadas>> BY <1>14 DEF TarjetaGuarda
  <2> HIDE DEF e, S
  <2> QED BY ONLY <2>5, <2>6, <2>7, TypeOK DEF TypeOK, txVars, locales
<1>15. CASE TarjetaAnota
  <2> DEFINE S == [trama : Contenidos, calidad : Calidades]
  <2>2. llegadas \in Seq(S) OBVIOUS
  <2>3. rxHechas + 1 \in 1 .. Len(llegadas)
    <3> HIDE DEF S
    <3> QED BY <1>15, <2>2 DEF TarjetaAnota
  <2>4. llegadas[rxHechas + 1] \in S
    <3> HIDE DEF S
    <3> QED BY <2>2, <2>3
  <2>1. llegadas[rxHechas + 1].calidad \in Calidades BY <2>4
  <2> DEFINE i == rxHechas % NumRx
             c == llegadas[rxHechas + 1].calidad
  <2>5. rxEst' = [rxEst EXCEPT ![i] = c] BY <1>15 DEF TarjetaAnota
  <2>6. c \in Calidades BY <2>1
  <2> HIDE DEF i, c, S
  <2>7. rxEst' \in [DescRx -> Calidades \cup {"vacio"}] BY <2>5, <2>6
  <2>8. rxHechas' \in Nat BY <1>15 DEF TarjetaAnota
  <2>9. UNCHANGED <<locales, txVars, rxIdx, rdh, rdt, rxBuf, llegadas, leidas, entregadas>> BY <1>15 DEF TarjetaAnota
  <2> QED BY ONLY <2>7, <2>8, <2>9, TypeOK DEF TypeOK, locales, txVars
<1>16. CASE UNCHANGED vars BY <1>16 DEF vars
<1> QED
    BY <1>1, <1>2, <1>3, <1>4, <1>5, <1>6, <1>7, <1>8, <1>9, <1>10, <1>11, <1>12, <1>13, <1>14, <1>15, <1>16
    DEF Next, Enviar, Recibir, Tarjeta

(* The type invariant of the rings. *)
THEOREM TypeOKCorrecto == Spec => []TypeOK
<1>1. Init => TypeOK BY TipoInicial
<1>2. TypeOK /\ [Next]_vars => TypeOK' BY TipoSigue
<1> QED BY <1>1, <1>2, PTL DEF Spec

(***************************************************************************)
(* The transmit ring.                                                      *)
(***************************************************************************)
LEMMA EnvioInicial == Init => EnvioInv
<1> SUFFICES ASSUME Init PROVE EnvioInv
    OBVIOUS
<1>1. Resto(0, NumTx) = 0 BY TramasAssumption DEF Resto
<1>2. N = 0 /\ C = 0 /\ txHechas = 0 BY DEF Init, N, C
<1>3. EnvioIndices BY <1>1, <1>2, TramasAssumption DEF Init, EnvioIndices
<1>4. EnvioPendiente BY <1>2 DEF Init, EnvioPendiente
<1>5. CableFiel BY <1>2 DEF CableFiel, C
<1> QED BY <1>3, <1>4, <1>5 DEF EnvioInv

(* Steps that leave the transmit ring alone keep its invariant. *)
LEMMA EnvioIgual ==
    ASSUME EnvioInv, UNCHANGED txVars,
           pc' \in {"escribe", "publica"} => pc' = pc /\ pedida' = pedida
    PROVE  EnvioInv'
<1>1. N' = N /\ C' = C BY DEF txVars, N, C
<1>2. EnvioIndices' BY <1>1 DEF EnvioInv, EnvioIndices, txVars
<1>3. EnvioPendiente' BY <1>1 DEF EnvioInv, EnvioPendiente, txVars
<1>4. CableFiel' BY DEF EnvioInv, CableFiel, txVars
<1> QED BY <1>2, <1>3, <1>4 DEF EnvioInv

LEMMA EnvioTipos ==
    ASSUME TypeOK
    PROVE  /\ N \in Nat /\ C \in Nat /\ txHechas \in Nat /\ NumTx \in Nat \ {0}
           /\ \A n \in Nat : Resto(n, NumTx) \in DescTx
           /\ txDd \in [DescTx -> {0, 1}] /\ txBuf \in [DescTx -> Contenidos]
           /\ aceptadas \in Seq(Contenidos) /\ cable \in Seq(Contenidos)
BY TramasAssumption, RestoTipo DEF TypeOK, N, C, DescTx

(* A descriptor with DD is one whose last frame was completed. *)
LEMMA EnvioLibre ==
    ASSUME TypeOK, EnvioInv, EnviarLibre PROVE EnvioInv'
<1>1. N' = N /\ C' = C /\ UNCHANGED txVars BY DEF EnviarLibre, txVars, N, C
<1>2. txDd[Resto(N, NumTx)] = 1 BY DEF EnviarLibre, EnvioInv, EnvioIndices
<1>3. N < txHechas + NumTx
  <2>4. N <= txHechas + NumTx BY DEF EnvioInv, EnvioIndices
  <2>5. N \in Nat /\ txHechas \in Nat /\ NumTx \in Nat BY EnvioTipos
  <2> SUFFICES ASSUME N = txHechas + NumTx PROVE FALSE
      BY <2>4, <2>5
  <2>1. txHechas \in txHechas .. (N - 1) BY EnvioTipos
  <2>2. txDd[Resto(txHechas, NumTx)] = 0 BY <2>1 DEF EnvioInv, EnvioPendiente
  <2>3. Resto(N, NumTx) = Resto(txHechas, NumTx) BY EnvioTipos, RestoVuelve
  <2> QED BY <1>2, <2>2, <2>3
<1>4. EnvioIndices' BY <1>1, <1>3 DEF EnvioInv, EnvioIndices, txVars
<1>5. EnvioPendiente' BY <1>1 DEF EnvioInv, EnvioPendiente, txVars, EnviarLibre
<1>6. CableFiel' BY <1>1 DEF EnvioInv, CableFiel, txVars
<1> QED BY <1>4, <1>5, <1>6 DEF EnvioInv

(* The buffer written is of no frame that is still to be sent. *)
LEMMA EnvioEscribe ==
    ASSUME TypeOK, EnvioInv, EnviarEscribe PROVE EnvioInv'
<1> DEFINE r == Resto(N, NumTx)
<1>1. N' = N /\ C' = C /\ txHechas' = txHechas BY DEF EnviarEscribe, N, C
<1>2. txIdx = r /\ N < txHechas + NumTx /\ txHechas <= C /\ C <= N
    BY DEF EnviarEscribe, EnvioInv, EnvioIndices
<1>3. txDd' = [txDd EXCEPT ![r] = 0] /\ txBuf' = [txBuf EXCEPT ![r] = pedida]
    BY <1>2 DEF EnviarEscribe
<1>4. \A n \in Nat : n >= txHechas /\ n < N => Resto(n, NumTx) /= r
  <2> SUFFICES ASSUME NEW n \in Nat, n >= txHechas, n < N PROVE Resto(n, NumTx) /= r
      OBVIOUS
  <2>1. N < n + NumTx BY <1>2, EnvioTipos
  <2> QED BY <2>1, EnvioTipos, LugarUnico
<1>5. r \in DescTx BY EnvioTipos
<1>6. EnvioIndices' BY <1>1, <1>2 DEF EnviarEscribe, EnvioInv, EnvioIndices
<1> HIDE DEF r
<1>7. EnvioPendiente'
  <2>1. \A n \in txHechas .. (N - 1) : txDd'[Resto(n, NumTx)] = 0
    <3> SUFFICES ASSUME NEW n \in txHechas .. (N - 1) PROVE txDd'[Resto(n, NumTx)] = 0
        OBVIOUS
    <3>1. n \in Nat /\ Resto(n, NumTx) \in DescTx BY EnvioTipos
    <3>2. txDd[Resto(n, NumTx)] = 0 BY DEF EnvioInv, EnvioPendiente
    <3> QED BY <3>1, <3>2, <1>3, EnvioTipos
  <2>2. \A n \in C .. (N - 1) : txBuf'[Resto(n, NumTx)] = aceptadas[n + 1]
    <3> SUFFICES ASSUME NEW n \in C .. (N - 1) PROVE txBuf'[Resto(n, NumTx)] = aceptadas[n + 1]
        OBVIOUS
    <3>1. n \in Nat /\ n >= txHechas /\ n < N /\ Resto(n, NumTx) \in DescTx BY <1>2, EnvioTipos
    <3>2. txBuf[Resto(n, NumTx)] = aceptadas[n + 1] BY DEF EnvioInv, EnvioPendiente
    <3>3. Resto(n, NumTx) /= r BY <3>1, <1>4
    <3> QED BY <3>1, <3>2, <3>3, <1>3, EnvioTipos
  <2>3. txBuf'[r] = pedida /\ txDd'[r] = 0 BY <1>3, <1>5, EnvioTipos
  <2>4. txIdx' = r /\ pedida' = pedida /\ aceptadas' = aceptadas BY <1>2 DEF EnviarEscribe
  <2> QED BY <1>1, <2>1, <2>2, <2>3, <2>4 DEF EnvioPendiente
<1>8. CableFiel' BY DEF EnviarEscribe, EnvioInv, CableFiel
<1> QED BY <1>6, <1>7, <1>8 DEF EnvioInv

LEMMA EnvioPublica ==
    ASSUME TypeOK, EnvioInv, EnviarPublica PROVE EnvioInv'
<1>1. /\ aceptadas' = Append(aceptadas, pedida) /\ cable' = cable /\ txHechas' = txHechas
      /\ txDd' = txDd /\ txBuf' = txBuf /\ tdh' = tdh /\ pc' = "fuera"
      /\ txIdx' = (txIdx + 1) % NumTx /\ tdt' = (txIdx + 1) % NumTx
    BY DEF EnviarPublica
<1>2. pedida \in Contenidos BY DEF TypeOK
<1>3. N' = N + 1 /\ C' = C /\ aceptadas'[N + 1] = pedida /\ \A n \in 1 .. N : aceptadas'[n] = aceptadas[n]
    BY <1>1, <1>2, EnvioTipos, AnadirTipo DEF N, C
<1>4. N < txHechas + NumTx /\ txHechas <= C /\ C <= N /\ txIdx = Resto(N, NumTx) /\ tdh = Resto(C, NumTx)
    BY DEF EnvioInv, EnvioIndices, EnviarPublica
<1>5. EnvioIndices'
  <2>1. (txIdx + 1) % NumTx = Resto(N + 1, NumTx) BY <1>4, EnvioTipos, RestoSigue
  <2>2. N + 1 <= txHechas + NumTx /\ C <= N + 1 BY <1>4, EnvioTipos
  <2> QED BY <2>1, <2>2, <1>1, <1>3, <1>4 DEF EnvioIndices
<1>6. EnvioPendiente'
  <2>1. txBuf[Resto(N, NumTx)] = pedida /\ txDd[Resto(N, NumTx)] = 0
      BY <1>4 DEF EnvioInv, EnvioPendiente, EnviarPublica
  <2>2. ASSUME NEW n \in txHechas .. N PROVE txDd[Resto(n, NumTx)] = 0
    <3>1. CASE n = N BY <3>1, <2>1
    <3>2. CASE n \in txHechas .. (N - 1) BY <3>2 DEF EnvioInv, EnvioPendiente
    <3> QED BY <3>1, <3>2, EnvioTipos
  <2>3. ASSUME NEW n \in C .. N PROVE txBuf[Resto(n, NumTx)] = aceptadas'[n + 1]
    <3>1. CASE n = N BY <3>1, <2>1, <1>3
    <3>2. CASE n \in C .. (N - 1)
      <4>1. txBuf[Resto(n, NumTx)] = aceptadas[n + 1] BY <3>2 DEF EnvioInv, EnvioPendiente
      <4>2. n + 1 \in 1 .. N BY <3>2, EnvioTipos
      <4> QED BY <4>1, <4>2, <1>3
    <3> QED BY <3>1, <3>2, EnvioTipos
  <2>4. N' - 1 = N BY <1>3, EnvioTipos
  <2>5. pc' /= "publica" BY <1>1
  <2> QED BY <2>2, <2>3, <2>4, <2>5, <1>1, <1>3 DEF EnvioPendiente
<1>7. CableFiel'
  <2> SUFFICES ASSUME NEW n \in 1 .. C PROVE n <= N + 1 /\ cable[n] = aceptadas'[n]
      BY <1>1, <1>3 DEF CableFiel, C, N
  <2>1. n <= N /\ cable[n] = aceptadas[n] BY DEF EnvioInv, CableFiel, C, N
  <2>2. n \in 1 .. N BY <2>1, EnvioTipos
  <2> QED BY <2>1, <2>2, <1>3, EnvioTipos
<1> QED BY <1>5, <1>6, <1>7 DEF EnvioInv

(* Unequal registers mean that the buffer at the head holds a frame.       *)
LEMMA EnvioSale ==
    ASSUME TypeOK, EnvioInv, TarjetaEnvia PROVE EnvioInv'
<1> DEFINE r == Resto(C, NumTx)
<1>1. /\ cable' = Append(cable, txBuf[tdh]) /\ aceptadas' = aceptadas /\ txHechas' = txHechas
      /\ txDd' = txDd /\ txBuf' = txBuf /\ txIdx' = txIdx /\ tdt' = tdt /\ pc' = pc /\ pedida' = pedida
      /\ tdh' = (tdh + 1) % NumTx /\ tdh /= tdt
    BY DEF TarjetaEnvia, locales
<1>2. /\ txHechas <= C /\ C <= N /\ N <= txHechas + NumTx
      /\ txIdx = Resto(N, NumTx) /\ tdh = r /\ tdt = Resto(N, NumTx)
    BY DEF EnvioInv, EnvioIndices
<1>3. C < N BY <1>1, <1>2, EnvioTipos
<1>4. txBuf[tdh] = aceptadas[C + 1]
  <2>1. C \in C .. (N - 1) BY <1>3, EnvioTipos
  <2> QED BY <2>1, <1>2 DEF EnvioInv, EnvioPendiente
<1>5. txBuf[tdh] \in Contenidos BY DEF TypeOK
<1>6. N' = N /\ C' = C + 1 /\ cable'[C + 1] = aceptadas[C + 1] /\ \A n \in 1 .. C : cable'[n] = cable[n]
    BY <1>1, <1>4, <1>5, EnvioTipos, AnadirTipo DEF N, C
<1> HIDE DEF r
<1>7. EnvioIndices'
  <2>1. (tdh + 1) % NumTx = Resto(C + 1, NumTx) BY <1>2, EnvioTipos, RestoSigue DEF r
  <2>2. txHechas <= C + 1 /\ C + 1 <= N BY <1>2, <1>3, EnvioTipos
  <2> QED BY <2>1, <2>2, <1>1, <1>2, <1>6 DEF EnvioIndices, EnvioInv
<1>8. EnvioPendiente'
  <2>1. \A n \in (C + 1) .. (N - 1) : n \in C .. (N - 1) BY EnvioTipos
  <2> QED BY <2>1, <1>1, <1>6 DEF EnvioPendiente, EnvioInv
<1>9. CableFiel'
  <2> SUFFICES ASSUME NEW n \in 1 .. (C + 1) PROVE n <= N /\ cable'[n] = aceptadas[n]
      BY <1>1, <1>6 DEF CableFiel, C, N
  <2>1. CASE n = C + 1 BY <2>1, <1>3, <1>6, EnvioTipos
  <2>2. CASE n \in 1 .. C
    <3>1. n <= N /\ cable[n] = aceptadas[n] BY <2>2 DEF EnvioInv, CableFiel, C, N
    <3> QED BY <3>1, <2>2, <1>6
  <2> QED BY <2>1, <2>2, EnvioTipos
<1> QED BY <1>7, <1>8, <1>9 DEF EnvioInv

LEMMA EnvioAcaba ==
    ASSUME TypeOK, EnvioInv, TarjetaAcaba PROVE EnvioInv'
<1> DEFINE r == Resto(txHechas, NumTx)
<1>1. /\ cable' = cable /\ aceptadas' = aceptadas /\ txHechas' = txHechas + 1
      /\ txDd' = [txDd EXCEPT ![r] = 1] /\ txBuf' = txBuf /\ txIdx' = txIdx /\ tdt' = tdt /\ tdh' = tdh
      /\ pc' = pc /\ pedida' = pedida /\ txHechas < C
    BY DEF TarjetaAcaba, locales, Resto, C
<1>2. N' = N /\ C' = C BY <1>1 DEF N, C
<1>3. C <= N /\ N <= txHechas + NumTx /\ (pc \in {"escribe", "publica"} => N < txHechas + NumTx)
    BY DEF EnvioInv, EnvioIndices
<1>4. r \in DescTx BY EnvioTipos
<1> HIDE DEF r
<1>5. EnvioIndices'
  <2>1. /\ txHechas + 1 <= C /\ N <= txHechas + 1 + NumTx
        /\ N < txHechas + NumTx => N < txHechas + 1 + NumTx
      BY <1>1, <1>3, EnvioTipos
  <2> QED BY <2>1, <1>1, <1>2, <1>3 DEF EnvioInv, EnvioIndices
<1>6. EnvioPendiente'
  <2>1. ASSUME NEW n \in (txHechas + 1) .. (N - 1) PROVE txDd'[Resto(n, NumTx)] = 0
    <3>1. n \in txHechas .. (N - 1) /\ n \in Nat /\ txHechas < n /\ n < txHechas + NumTx BY <1>3, EnvioTipos
    <3>2. txDd[Resto(n, NumTx)] = 0 BY <3>1 DEF EnvioInv, EnvioPendiente
    <3>3. Resto(n, NumTx) /= r BY <3>1, EnvioTipos, LugarUnico DEF r
    <3>4. Resto(n, NumTx) \in DescTx BY <3>1, EnvioTipos
    <3> QED BY <3>2, <3>3, <3>4, <1>1, <1>4, EnvioTipos
  <2>2. pc = "publica" => txIdx \in DescTx /\ txDd[txIdx] = 0 /\ txIdx /= r
    <3> SUFFICES ASSUME pc = "publica" PROVE txIdx \in DescTx /\ txDd[txIdx] = 0 /\ txIdx /= r
        OBVIOUS
    <3>1. txIdx = Resto(N, NumTx) /\ N < txHechas + NumTx BY DEF EnvioInv, EnvioIndices
    <3>2. txHechas < N BY <1>1, <1>3, EnvioTipos
    <3>3. txIdx /= r BY <3>1, <3>2, EnvioTipos, LugarUnico DEF r
    <3>4. txDd[txIdx] = 0 BY DEF EnvioInv, EnvioPendiente
    <3> QED BY <3>1, <3>3, <3>4, EnvioTipos
  <2>3. pc = "publica" => txDd'[txIdx] = 0 BY <2>2, <1>1, <1>4, EnvioTipos
  <2> QED BY <2>1, <2>3, <1>1, <1>2 DEF EnvioInv, EnvioPendiente
<1>7. CableFiel' BY <1>1 DEF EnvioInv, CableFiel
<1> QED BY <1>5, <1>6, <1>7 DEF EnvioInv

(* Every step keeps the transmit ring's invariant. *)
LEMMA EnvioSigue == TypeOK /\ EnvioInv /\ [Next]_vars => EnvioInv'
<1> SUFFICES ASSUME TypeOK, EnvioInv, [Next]_vars PROVE EnvioInv'
    OBVIOUS
<1>1. ASSUME NEW t \in Contenidos, EnviarEntra(t) PROVE EnvioInv'
    BY <1>1, EnvioIgual DEF EnviarEntra
<1>2. CASE EnviarAgota BY <1>2, EnvioIgual DEF EnviarAgota
<1>3. CASE RecibirEntra BY <1>3, EnvioIgual DEF RecibirEntra
<1>4. CASE RecibirLee BY <1>4, EnvioIgual DEF RecibirLee
<1>5. CASE RecibirMira BY <1>5, EnvioIgual DEF RecibirMira
<1>6. CASE RecibirCopia BY <1>6, EnvioIgual DEF RecibirCopia
<1>7. CASE RecibirLimpia BY <1>7, EnvioIgual DEF RecibirLimpia
<1>8. CASE RecibirDevuelve BY <1>8, EnvioIgual DEF RecibirDevuelve
<1>9. ASSUME NEW t \in Contenidos, NEW c \in Calidades, TarjetaGuarda(t, c) PROVE EnvioInv'
    BY <1>9, EnvioIgual DEF TarjetaGuarda, locales
<1>10. CASE TarjetaAnota BY <1>10, EnvioIgual DEF TarjetaAnota, locales
<1>11. CASE UNCHANGED vars BY <1>11, EnvioIgual DEF vars, txVars
<1> QED
    BY <1>1, <1>2, <1>3, <1>4, <1>5, <1>6, <1>7, <1>8, <1>9, <1>10, <1>11,
       EnvioLibre, EnvioEscribe, EnvioPublica, EnvioSale, EnvioAcaba
    DEF Next, Enviar, Recibir, Tarjeta

(* Fewer frames than descriptors are pending, or all of them: equal        *)
(* registers tell nothing pending from a full ring, and nothing else.      *)
LEMMA Parada ==
    ASSUME TypeOK, EnvioIndices PROVE ParadaConRazon
<1> SUFFICES ASSUME tdh = tdt PROVE N \in {C, C + NumTx}
    BY DEF ParadaConRazon, N, C
<1>1. N \in Nat /\ C \in Nat /\ txHechas \in Nat /\ NumTx \in Nat \ {0} BY EnvioTipos
<1>2. txHechas <= C /\ C <= N /\ N <= txHechas + NumTx BY DEF EnvioIndices
<1>3. Resto(C, NumTx) = Resto(N, NumTx) BY DEF EnvioIndices
<1>4. ~(C < N /\ N < C + NumTx) BY <1>1, <1>3, LugarUnico
<1> QED BY ONLY <1>1, <1>2, <1>4

(* What goes out on the wire is a prefix of what was accepted, and the     *)
(* card stops before its end only with the ring full, for rings of every   *)
(* size.                                                                   *)
THEOREM EnviosFielesCorrecto == Spec => []EnviosFieles
<1>1. Init => TypeOK /\ EnvioInv BY TipoInicial, EnvioInicial
<1>2. TypeOK /\ EnvioInv /\ [Next]_vars => (TypeOK /\ EnvioInv)' BY TipoSigue, EnvioSigue
<1>3. TypeOK /\ EnvioInv => EnviosFieles BY Parada DEF EnvioInv, EnviosFieles
<1> QED BY <1>1, <1>2, <1>3, PTL DEF Spec

(***************************************************************************)
(* The receive ring.                                                       *)
(***************************************************************************)
Llegada == [trama : Contenidos, calidad : Calidades]
Entrega == [lugar : Nat, trama : Contenidos]

LEMMA LlegaTipos ==
    ASSUME TypeOK
    PROVE  /\ L \in Nat /\ leidas \in Nat /\ rxHechas \in Nat /\ NumRx \in Nat \ {0, 1}
           /\ \A n \in Nat : Resto(n, NumRx) \in DescRx
           /\ rxEst \in [DescRx -> Calidades \cup {"vacio"}] /\ rxBuf \in [DescRx -> Contenidos]
           /\ llegadas \in Seq(Llegada) /\ entregadas \in Seq(Entrega)
           /\ \A n \in 1 .. L : llegadas[n] \in Llegada
<1>1. llegadas \in Seq(Llegada) /\ entregadas \in Seq(Entrega) BY DEF TypeOK, Llegada, Entrega
<1>2. L \in Nat /\ \A n \in 1 .. L : llegadas[n] \in Llegada BY <1>1 DEF L
<1> QED BY <1>1, <1>2, TramasAssumption, RestoTipo DEF TypeOK, DescRx

LEMMA LlegaInicial == Init => LlegaInv
<1> SUFFICES ASSUME Init PROVE LlegaInv
    OBVIOUS
<1>1. Resto(0, NumRx) = 0 BY TramasAssumption DEF Resto
<1>2. L = 0 /\ leidas = 0 /\ rxHechas = 0 /\ Len(entregadas) = 0 /\ pc = "fuera" BY DEF Init, L
<1>3. \A n \in 0 .. (NumRx - 1) : Resto(n, NumRx) = n BY TramasAssumption DEF Resto
<1>4. LlegaIndices
  <2>1. NumRx - 1 \in 0 .. (NumRx - 1) /\ 0 + (NumRx - 1) = NumRx - 1 BY TramasAssumption
  <2>2. Resto(0 + (NumRx - 1), NumRx) = NumRx - 1 BY <2>1, <1>3
  <2>3. 0 <= NumRx - 1 BY TramasAssumption
  <2> QED BY <1>1, <1>2, <2>2, <2>3 DEF Init, LlegaIndices
<1>5. LlegaPendiente
  <2>1. \A n \in 0 .. (0 + (NumRx - 1)) : rxEst[Resto(n, NumRx)] = "vacio"
      BY <1>3, TramasAssumption DEF Init, DescRx
  <2> QED BY <1>2, <2>1 DEF LlegaPendiente
<1>6. LlegaEnMano BY <1>2 DEF LlegaEnMano
<1>7. EntregasFieles BY <1>2 DEF EntregasFieles
<1> QED BY <1>4, <1>5, <1>6, <1>7 DEF LlegaInv

(* Steps that leave the receive ring alone, outside the passing of a frame. *)
LEMMA LlegaIgual ==
    ASSUME LlegaInv, UNCHANGED rxVars,
           \/ UNCHANGED <<pc, status, copia>>
           \/ pc /= "devuelve" /\ pc' \notin {"copia", "limpia", "devuelve"}
    PROVE  LlegaInv'
<1>1. L' = L BY DEF rxVars, L
<1>2. LlegaIndices' BY <1>1 DEF LlegaInv, LlegaIndices, rxVars
<1>3. LlegaPendiente' BY <1>1 DEF LlegaInv, LlegaPendiente, rxVars
<1>4. LlegaEnMano' BY <1>1 DEF LlegaInv, LlegaEnMano, rxVars
<1>5. EntregasFieles' BY DEF LlegaInv, EntregasFieles, rxVars
<1> QED BY <1>2, <1>3, <1>4, <1>5 DEF LlegaInv

(* A descriptor with DD at g_rx_idx is one the card wrote back, and its    *)
(* status is that of the frame stored in it.                               *)
LEMMA LlegaMira ==
    ASSUME TypeOK, LlegaInv, RecibirMira PROVE LlegaInv'
<1>1. UNCHANGED rxVars /\ pc = "mira" BY DEF RecibirMira
<1>2. CASE pc' = "fuera" BY <1>1, <1>2, LlegaIgual
<1>3. CASE pc' /= "fuera"
  <2>1. pc' = "copia" /\ rxEst[rxIdx] /= "vacio" /\ status' = rxEst[rxIdx] BY <1>3 DEF RecibirMira
  <2>2. rxIdx = Resto(leidas, NumRx) /\ leidas <= rxHechas BY DEF LlegaInv, LlegaIndices
  <2>3. leidas < rxHechas
    <3>1. CASE leidas = rxHechas
      <4>1. leidas \in rxHechas .. (leidas + (NumRx - 1)) BY <3>1, LlegaTipos
      <4>2. rxEst[rxIdx] = "vacio" BY <4>1, <2>2 DEF LlegaInv, LlegaPendiente
      <4> QED BY <4>2, <2>1
    <3> QED BY <3>1, <2>2, LlegaTipos
  <2>4. rxEst[rxIdx] = llegadas[leidas + 1].calidad
    <3>1. leidas \in leidas .. (rxHechas - 1) BY <2>3, LlegaTipos
    <3> QED BY <3>1, <2>2, <1>1 DEF LlegaInv, LlegaPendiente
  <2>5. L' = L BY <1>1 DEF rxVars, L
  <2>6. LlegaIndices' BY <1>1, <2>3, <2>5 DEF LlegaInv, LlegaIndices, rxVars
  <2>7. LlegaPendiente' BY <1>1, <2>1, <2>5 DEF LlegaInv, LlegaPendiente, rxVars
  <2>8. LlegaEnMano' BY <1>1, <2>1, <2>4 DEF LlegaInv, LlegaEnMano, rxVars
  <2>9. EntregasFieles' BY <1>1 DEF LlegaInv, EntregasFieles, rxVars
  <2> QED BY <2>6, <2>7, <2>8, <2>9 DEF LlegaInv
<1> QED BY <1>2, <1>3

LEMMA LlegaCopia ==
    ASSUME TypeOK, LlegaInv, RecibirCopia PROVE LlegaInv'
<1>1. /\ UNCHANGED rxVars /\ pc = "copia" /\ pc' = "limpia" /\ status' = status
      /\ copia' = IF status = "buena" THEN rxBuf[rxIdx] ELSE copia
    BY DEF RecibirCopia
<1>2. rxIdx = Resto(leidas, NumRx) /\ leidas < rxHechas /\ rxHechas <= L
    BY <1>1 DEF LlegaInv, LlegaIndices
<1>3. rxBuf[rxIdx] = llegadas[leidas + 1].trama
  <2>1. leidas \in leidas .. (L - 1) BY <1>2, LlegaTipos
  <2> QED BY <2>1, <1>2 DEF LlegaInv, LlegaPendiente
<1>4. L' = L BY <1>1 DEF rxVars, L
<1>5. LlegaIndices' BY <1>1, <1>2, <1>4 DEF LlegaInv, LlegaIndices, rxVars
<1>6. LlegaPendiente' BY <1>1, <1>4 DEF LlegaInv, LlegaPendiente, rxVars
<1>7. LlegaEnMano' BY <1>1, <1>3 DEF LlegaInv, LlegaEnMano, rxVars
<1>8. EntregasFieles' BY <1>1 DEF LlegaInv, EntregasFieles, rxVars
<1> QED BY <1>5, <1>6, <1>7, <1>8 DEF LlegaInv

LEMMA LlegaLimpia ==
    ASSUME TypeOK, LlegaInv, RecibirLimpia PROVE LlegaInv'
<1> DEFINE r == Resto(leidas, NumRx)
<1>1. rxIdx = r /\ leidas < rxHechas /\ rxHechas <= L /\ L <= leidas + (NumRx - 1)
    BY DEF RecibirLimpia, LlegaInv, LlegaIndices
<1>2. /\ rxEst' = [rxEst EXCEPT ![r] = "vacio"] /\ pc = "limpia" /\ pc' = "devuelve"
      /\ UNCHANGED <<status, copia, rxIdx, rdh, rdt, rxBuf, rxHechas, llegadas, leidas, entregadas>>
    BY <1>1 DEF RecibirLimpia
<1>3. r \in DescRx /\ rxEst'[r] = "vacio" BY <1>2, LlegaTipos
<1>4. L' = L BY <1>2 DEF L
<1> HIDE DEF r
<1>5. LlegaIndices' BY <1>1, <1>2, <1>4 DEF LlegaInv, LlegaIndices
<1>6. LlegaPendiente'
  <2>1. ASSUME NEW n \in leidas .. (rxHechas - 1), n /= leidas
        PROVE  rxEst'[Resto(n, NumRx)] = llegadas[n + 1].calidad
    <3>1. n \in Nat /\ leidas < n /\ n < leidas + NumRx BY <1>1, <2>1, LlegaTipos
    <3>2. Resto(n, NumRx) /= r BY <3>1, LlegaTipos, LugarUnico DEF r
    <3>3. rxEst[Resto(n, NumRx)] = llegadas[n + 1].calidad BY <1>2 DEF LlegaInv, LlegaPendiente
    <3>4. Resto(n, NumRx) \in DescRx BY <3>1, LlegaTipos
    <3> QED BY <3>2, <3>3, <3>4, <1>2, LlegaTipos
  <2>2. ASSUME NEW n \in rxHechas .. (leidas + (NumRx - 1)) PROVE rxEst'[Resto(n, NumRx)] = "vacio"
    <3>1. n \in Nat /\ Resto(n, NumRx) \in DescRx BY LlegaTipos
    <3>2. rxEst[Resto(n, NumRx)] = "vacio" BY DEF LlegaInv, LlegaPendiente
    <3> QED BY <3>1, <3>2, <1>2, LlegaTipos
  <2>3. \A n \in leidas .. (L - 1) : rxBuf'[Resto(n, NumRx)] = llegadas[n + 1].trama
      BY <1>2 DEF LlegaInv, LlegaPendiente
  <2>4. rxEst'[Resto(leidas, NumRx)] = "vacio" BY <1>3 DEF r
  <2> QED BY <2>1, <2>2, <2>3, <2>4, <1>2, <1>4 DEF LlegaPendiente
<1>7. LlegaEnMano' BY <1>2 DEF LlegaInv, LlegaEnMano
<1>8. EntregasFieles' BY <1>2 DEF LlegaInv, EntregasFieles
<1> QED BY <1>5, <1>6, <1>7, <1>8 DEF LlegaInv

(* The three parts of EntregasFieles over deliveries es, frames passed k   *)
(* and frames stored, and what one more passed frame does to them.         *)
Entregado(es, k) ==
    /\ \A j \in 1 .. Len(es) :
           /\ es[j].lugar \in 1 .. k /\ es[j].lugar <= Len(llegadas)
           /\ llegadas[es[j].lugar] = [trama |-> es[j].trama, calidad |-> "buena"]
    /\ \A i, j \in 1 .. Len(es) : i < j => es[i].lugar < es[j].lugar
    /\ \A n \in 1 .. k :
           llegadas[n].calidad = "buena" => \E j \in 1 .. Len(es) : es[j].lugar = n

LEMMA EntregadoBuena ==
    ASSUME TypeOK, leidas < L, Entregado(entregadas, leidas), NEW e \in Entrega,
           e.lugar = leidas + 1,
           llegadas[leidas + 1] = [trama |-> e.trama, calidad |-> "buena"]
    PROVE  Entregado(Append(entregadas, e), leidas + 1)
<1> DEFINE es == Append(entregadas, e)
           m == Len(entregadas)
<1>1. /\ m \in Nat /\ Len(es) = m + 1 /\ es[m + 1] = e
      /\ \A j \in 1 .. m : es[j] = entregadas[j]
    BY LlegaTipos, AnadirTipo
<1>2. leidas \in Nat /\ L \in Nat /\ L = Len(llegadas) BY LlegaTipos DEF L
<1>3. \A j \in 1 .. m : /\ entregadas[j].lugar \in 1 .. leidas /\ entregadas[j].lugar <= Len(llegadas)
                        /\ llegadas[entregadas[j].lugar] = [trama |-> entregadas[j].trama, calidad |-> "buena"]
    BY DEF Entregado
<1>4. \A i, j \in 1 .. m : i < j => entregadas[i].lugar < entregadas[j].lugar BY DEF Entregado
<1>5. \A n \in 1 .. leidas : llegadas[n].calidad = "buena" => \E j \in 1 .. m : entregadas[j].lugar = n
    BY DEF Entregado
<1> HIDE DEF es, m
<1>6. ASSUME NEW j \in 1 .. (m + 1)
      PROVE  /\ es[j].lugar \in 1 .. (leidas + 1) /\ es[j].lugar <= Len(llegadas)
             /\ llegadas[es[j].lugar] = [trama |-> es[j].trama, calidad |-> "buena"]
  <2>1. CASE j = m + 1 BY <2>1, <1>1, <1>2
  <2>2. CASE j \in 1 .. m
    <3>1. es[j] = entregadas[j] BY <2>2, <1>1
    <3>2. entregadas[j].lugar \in 1 .. leidas /\ entregadas[j].lugar <= Len(llegadas)
        BY <2>2, <1>3
    <3>3. llegadas[entregadas[j].lugar] = [trama |-> entregadas[j].trama, calidad |-> "buena"] BY <2>2, <1>3
    <3>4. entregadas[j].lugar \in 1 .. (leidas + 1) BY <3>2, <1>2
    <3> QED BY <3>1, <3>2, <3>3, <3>4
  <2> QED BY <2>1, <2>2, <1>1
<1>7. ASSUME NEW i \in 1 .. (m + 1), NEW j \in 1 .. (m + 1), i < j
      PROVE  es[i].lugar < es[j].lugar
  <2>1. i \in 1 .. m BY <1>7, <1>1
  <2>2. es[i].lugar \in 1 .. leidas BY <2>1, <1>1, <1>3
  <2>3. CASE j = m + 1 BY <2>2, <2>3, <1>1, <1>2
  <2>4. CASE j \in 1 .. m BY <2>1, <2>4, <1>1, <1>4, <1>7
  <2> QED BY <2>3, <2>4, <1>1
<1>8. ASSUME NEW n \in 1 .. (leidas + 1), llegadas[n].calidad = "buena"
      PROVE  \E j \in 1 .. (m + 1) : es[j].lugar = n
  <2>1. CASE n = leidas + 1
    <3>1. m + 1 \in 1 .. (m + 1) /\ es[m + 1].lugar = n BY <2>1, <1>1
    <3> QED BY <3>1
  <2>2. CASE n \in 1 .. leidas
    <3>1. PICK j \in 1 .. m : entregadas[j].lugar = n BY <2>2, <1>5, <1>8
    <3>2. j \in 1 .. (m + 1) /\ es[j].lugar = n BY <3>1, <1>1
    <3> QED BY <3>2
  <2> QED BY <2>1, <2>2, <1>2
<1> QED BY <1>1, <1>6, <1>7, <1>8 DEF Entregado, es

LEMMA EntregadoMala ==
    ASSUME TypeOK, Entregado(entregadas, leidas), llegadas[leidas + 1].calidad /= "buena"
    PROVE  Entregado(entregadas, leidas + 1)
<1>1. leidas \in Nat BY LlegaTipos
<1>2. \A n \in 1 .. (leidas + 1) : n = leidas + 1 \/ n \in 1 .. leidas BY <1>1
<1>3. \A j : j \in 1 .. leidas => j \in 1 .. (leidas + 1) BY <1>1
<1> QED BY <1>2, <1>3 DEF Entregado

LEMMA LlegaDevuelve ==
    ASSUME TypeOK, LlegaInv, RecibirDevuelve PROVE LlegaInv'
<1>1. /\ rdt' = rxIdx /\ rxIdx' = (rxIdx + 1) % NumRx /\ leidas' = leidas + 1 /\ pc = "devuelve"
      /\ UNCHANGED <<rdh, rxEst, rxBuf, rxHechas, llegadas>> /\ pc' \in {"fuera", "lee"}
    BY DEF RecibirDevuelve
<1>2. /\ rxIdx = Resto(leidas, NumRx) /\ rdh = Resto(L, NumRx) /\ leidas < rxHechas
      /\ rxHechas <= L /\ L <= leidas + (NumRx - 1)
    BY <1>1 DEF LlegaInv, LlegaIndices
<1>3. L' = L BY <1>1 DEF L
<1>4. Resto(leidas + 1 + (NumRx - 1), NumRx) = Resto(leidas, NumRx)
  <2>1. leidas + 1 + (NumRx - 1) = leidas + NumRx BY LlegaTipos
  <2> QED BY <2>1, LlegaTipos, RestoVuelve
<1>5. LlegaIndices'
  <2>1. (rxIdx + 1) % NumRx = Resto(leidas + 1, NumRx) BY <1>2, LlegaTipos, RestoSigue
  <2>2. leidas + 1 <= rxHechas /\ L <= leidas + 1 + (NumRx - 1) BY <1>2, LlegaTipos
  <2> QED BY <2>1, <2>2, <1>1, <1>2, <1>3, <1>4 DEF LlegaIndices
<1>6. LlegaPendiente'
  <2>1. ASSUME NEW n \in (leidas + 1) .. (L - 1) PROVE rxBuf[Resto(n, NumRx)] = llegadas[n + 1].trama
    <3>1. n \in leidas .. (L - 1) BY LlegaTipos
    <3> QED BY <3>1 DEF LlegaInv, LlegaPendiente
  <2>2. ASSUME NEW n \in (leidas + 1) .. (rxHechas - 1)
        PROVE  rxEst[Resto(n, NumRx)] = llegadas[n + 1].calidad
    <3>1. n \in leidas .. (rxHechas - 1) /\ n /= leidas BY LlegaTipos
    <3> QED BY <3>1 DEF LlegaInv, LlegaPendiente
  <2>3. ASSUME NEW n \in rxHechas .. (leidas + 1 + (NumRx - 1)) PROVE rxEst[Resto(n, NumRx)] = "vacio"
    <3>1. CASE n = leidas + 1 + (NumRx - 1)
      <4>1. rxEst[Resto(leidas, NumRx)] = "vacio" BY <1>1 DEF LlegaInv, LlegaPendiente
      <4> QED BY <3>1, <4>1, <1>4
    <3>2. CASE n \in rxHechas .. (leidas + (NumRx - 1)) BY <3>2 DEF LlegaInv, LlegaPendiente
    <3> QED BY <3>1, <3>2, LlegaTipos
  <2> QED BY <2>1, <2>2, <2>3, <1>1, <1>3 DEF LlegaPendiente
<1>7. LlegaEnMano' BY <1>1 DEF LlegaEnMano
<1>8. EntregasFieles'
  <2>1. leidas < L BY <1>2, LlegaTipos
  <2>2. Entregado(entregadas, leidas) BY DEF LlegaInv, EntregasFieles, Entregado
  <2>3. status = llegadas[leidas + 1].calidad /\ (status = "buena" => copia = llegadas[leidas + 1].trama)
      BY <1>1 DEF LlegaInv, LlegaEnMano
  <2>4. leidas + 1 \in 1 .. L BY <2>1, LlegaTipos
  <2>5. Entregado(entregadas', leidas + 1)
    <3>1. CASE status = "buena"
      <4> DEFINE e == [lugar |-> leidas + 1, trama |-> copia]
      <4>1. entregadas' = Append(entregadas, e) BY <3>1 DEF RecibirDevuelve
      <4>2. copia \in Contenidos /\ leidas + 1 \in Nat BY LlegaTipos DEF TypeOK
      <4>3. e \in Entrega /\ e.lugar = leidas + 1 /\ e.trama = copia BY <4>2 DEF Entrega
      <4>4. llegadas[leidas + 1] \in Llegada BY <2>4, LlegaTipos
      <4>5. llegadas[leidas + 1] = [trama |-> copia, calidad |-> "buena"] BY <4>4, <2>3, <3>1 DEF Llegada
      <4> HIDE DEF e
      <4> QED BY <4>1, <4>3, <4>5, <2>1, <2>2, EntregadoBuena
    <3>2. CASE status /= "buena"
      <4>1. entregadas' = entregadas BY <3>2 DEF RecibirDevuelve
      <4> QED BY <4>1, <3>2, <2>2, <2>3, EntregadoMala
    <3> QED BY <3>1, <3>2
  <2> QED BY <2>5, <1>1 DEF EntregasFieles, Entregado
<1> QED BY <1>5, <1>6, <1>7, <1>8 DEF LlegaInv

(* The card has room only while the window is shorter than the ring. *)
LEMMA LlegaGuarda ==
    ASSUME TypeOK, LlegaInv, NEW t \in Contenidos, NEW c \in Calidades, TarjetaGuarda(t, c)
    PROVE  LlegaInv'
<1> DEFINE r == Resto(L, NumRx)
           f == [trama |-> t, calidad |-> c]
<1>1. /\ rxIdx = Resto(leidas, NumRx) /\ rdh = r /\ rdt = Resto(leidas + (NumRx - 1), NumRx)
      /\ leidas <= rxHechas /\ rxHechas <= L /\ L <= leidas + (NumRx - 1)
    BY DEF LlegaInv, LlegaIndices
<1>2. /\ rdh /= rdt /\ rxBuf' = [rxBuf EXCEPT ![r] = t] /\ rdh' = (rdh + 1) % NumRx
      /\ llegadas' = Append(llegadas, f)
      /\ UNCHANGED <<pc, status, copia, rxIdx, rdt, rxEst, rxHechas, leidas, entregadas>>
    BY <1>1 DEF TarjetaGuarda, locales
<1>3. L < leidas + (NumRx - 1)
  <2>1. L /= leidas + (NumRx - 1) BY <1>1, <1>2
  <2>2. L \in Nat /\ leidas \in Nat /\ NumRx \in Nat BY LlegaTipos
  <2> QED BY ONLY <2>1, <2>2, <1>1
<1>4. f \in Llegada BY DEF Llegada
<1>5. f.trama = t OBVIOUS
<1>6. (rdh + 1) % NumRx = Resto(L + 1, NumRx) BY <1>1, LlegaTipos, RestoSigue
<1>7. r \in DescRx BY LlegaTipos
<1> HIDE DEF r, f
<1>8. /\ L' = L + 1 /\ L = Len(llegadas) /\ L' = Len(llegadas') /\ llegadas'[L + 1] = f
      /\ \A n \in 1 .. L : llegadas'[n] = llegadas[n]
    BY <1>2, <1>4, LlegaTipos, AnadirTipo DEF L
<1>9. LlegaIndices'
  <2>1. rxHechas <= L + 1 /\ L + 1 <= leidas + (NumRx - 1) BY <1>1, <1>3, LlegaTipos
  <2> QED BY <2>1, <1>1, <1>2, <1>6, <1>8 DEF LlegaInv, LlegaIndices
<1>10. LlegaPendiente'
  <2>1. ASSUME NEW n \in leidas .. L PROVE rxBuf'[Resto(n, NumRx)] = llegadas'[n + 1].trama
    <3>1. CASE n = L BY <3>1, <1>2, <1>5, <1>7, <1>8, LlegaTipos DEF r
    <3>2. CASE n \in leidas .. (L - 1)
      <4>1. n \in Nat /\ n + 1 \in 1 .. L /\ n < L /\ L < n + NumRx BY <3>2, <1>3, LlegaTipos
      <4>2. Resto(n, NumRx) /= r BY <4>1, LlegaTipos, LugarUnico DEF r
      <4>3. rxBuf[Resto(n, NumRx)] = llegadas[n + 1].trama BY <3>2 DEF LlegaInv, LlegaPendiente
      <4>4. Resto(n, NumRx) \in DescRx BY <4>1, LlegaTipos
      <4>5. rxBuf'[Resto(n, NumRx)] = rxBuf[Resto(n, NumRx)] BY <4>2, <4>4, <1>2, LlegaTipos
      <4> QED BY <4>1, <4>3, <4>5, <1>8
    <3> QED BY <3>1, <3>2, LlegaTipos
  <2>2. \A n \in leidas .. (rxHechas - 1) : llegadas'[n + 1] = llegadas[n + 1]
    <3>1. \A n \in leidas .. (rxHechas - 1) : n + 1 \in 1 .. L BY <1>1, LlegaTipos
    <3> QED BY <3>1, <1>8
  <2>3. L' - 1 = L BY <1>8, LlegaTipos
  <2> QED BY <2>1, <2>2, <2>3, <1>2 DEF LlegaInv, LlegaPendiente
<1>11. LlegaEnMano'
  <2>1. pc \in {"copia", "limpia", "devuelve"} => leidas + 1 \in 1 .. L
      BY <1>1, LlegaTipos DEF LlegaInv, LlegaIndices
  <2> QED BY <2>1, <1>2, <1>8 DEF LlegaInv, LlegaEnMano
<1>12. EntregasFieles'
  <2>1. /\ \A j \in 1 .. Len(entregadas) :
             /\ entregadas[j].lugar \in 1 .. leidas /\ entregadas[j].lugar <= L
             /\ llegadas[entregadas[j].lugar] = [trama |-> entregadas[j].trama, calidad |-> "buena"]
        /\ \A i, j \in 1 .. Len(entregadas) : i < j => entregadas[i].lugar < entregadas[j].lugar
        /\ \A n \in 1 .. leidas :
              llegadas[n].calidad = "buena" => \E j \in 1 .. Len(entregadas) : entregadas[j].lugar = n
      BY <1>8 DEF LlegaInv, EntregasFieles
  <2>2. \A n \in 1 .. leidas : llegadas'[n] = llegadas[n]
    <3>1. \A n \in 1 .. leidas : n \in 1 .. L BY <1>1, LlegaTipos
    <3> QED BY <3>1, <1>8
  <2>3. \A j \in 1 .. Len(entregadas) : entregadas[j].lugar <= L + 1
    <3> SUFFICES ASSUME NEW j \in 1 .. Len(entregadas) PROVE entregadas[j].lugar <= L + 1
        OBVIOUS
    <3>1. entregadas[j].lugar \in 1 .. leidas /\ entregadas[j].lugar <= L BY <2>1
    <3> QED BY <3>1, LlegaTipos
  <2> QED BY <2>1, <2>2, <2>3, <1>2, <1>8 DEF EntregasFieles
<1> QED BY <1>9, <1>10, <1>11, <1>12 DEF LlegaInv

LEMMA LlegaAnota ==
    ASSUME TypeOK, LlegaInv, TarjetaAnota PROVE LlegaInv'
<1> DEFINE r == Resto(rxHechas, NumRx)
           c == llegadas[rxHechas + 1].calidad
<1>1. leidas <= rxHechas /\ rxHechas < L /\ L <= leidas + (NumRx - 1)
    BY DEF LlegaInv, LlegaIndices, TarjetaAnota, L
<1>2. /\ rxEst' = [rxEst EXCEPT ![r] = c] /\ rxHechas' = rxHechas + 1
      /\ UNCHANGED <<pc, status, copia, rxIdx, rdh, rdt, rxBuf, llegadas, leidas, entregadas>>
    BY DEF TarjetaAnota, locales, Resto
<1>3. L' = L BY <1>2 DEF L
<1>4. r \in DescRx BY <1>1, LlegaTipos
<1>5. ASSUME NEW n \in Nat, n /= rxHechas, n < rxHechas + NumRx, rxHechas < n + NumRx
      PROVE  rxEst'[Resto(n, NumRx)] = rxEst[Resto(n, NumRx)]
  <2>1. Resto(n, NumRx) /= r
    <3>1. CASE n < rxHechas BY <3>1, <1>5, LlegaTipos, LugarUnico
    <3>2. CASE rxHechas < n BY <3>2, <1>5, LlegaTipos, LugarUnico
    <3> QED BY <3>1, <3>2, <1>5, LlegaTipos
  <2>2. Resto(n, NumRx) \in DescRx BY LlegaTipos
  <2> HIDE DEF r, c
  <2> QED BY <2>1, <2>2, <1>2, LlegaTipos
<1>6. rxEst'[r] = c
  <2> HIDE DEF r, c
  <2> QED BY <1>2, <1>4, LlegaTipos
<1>7. LlegaIndices'
  <2>1. leidas <= rxHechas + 1 /\ rxHechas + 1 <= L /\ (leidas < rxHechas => leidas < rxHechas + 1)
      BY <1>1, LlegaTipos
  <2> QED BY <2>1, <1>2, <1>3 DEF LlegaInv, LlegaIndices
<1>8. LlegaPendiente'
  <2>1. ASSUME NEW n \in leidas .. rxHechas, pc /= "devuelve" \/ n /= leidas
        PROVE  rxEst'[Resto(n, NumRx)] = llegadas[n + 1].calidad
    <3>1. CASE n = rxHechas BY <3>1, <1>6
    <3>2. CASE n \in leidas .. (rxHechas - 1)
      <4>1. n \in Nat /\ n /= rxHechas /\ n < rxHechas + NumRx /\ rxHechas < n + NumRx
          BY <3>2, <1>1, LlegaTipos
      <4>2. rxEst[Resto(n, NumRx)] = llegadas[n + 1].calidad BY <3>2, <2>1 DEF LlegaInv, LlegaPendiente
      <4> QED BY <4>1, <4>2, <1>5
    <3> QED BY <3>1, <3>2, LlegaTipos
  <2>2. ASSUME NEW n \in (rxHechas + 1) .. (leidas + (NumRx - 1)) PROVE rxEst'[Resto(n, NumRx)] = "vacio"
    <3>1. n \in Nat /\ n /= rxHechas /\ n < rxHechas + NumRx /\ rxHechas < n + NumRx BY <1>1, LlegaTipos
    <3>2. n \in rxHechas .. (leidas + (NumRx - 1)) BY <1>1, LlegaTipos
    <3>3. rxEst[Resto(n, NumRx)] = "vacio" BY <3>2 DEF LlegaInv, LlegaPendiente
    <3> QED BY <3>1, <3>3, <1>5
  <2>3. pc = "devuelve" => rxEst'[Resto(leidas, NumRx)] = "vacio"
    <3> SUFFICES ASSUME pc = "devuelve" PROVE rxEst'[Resto(leidas, NumRx)] = "vacio"
        OBVIOUS
    <3>1. leidas < rxHechas BY DEF LlegaInv, LlegaIndices
    <3>2. leidas \in Nat /\ leidas /= rxHechas /\ leidas < rxHechas + NumRx /\ rxHechas < leidas + NumRx
        BY <3>1, <1>1, LlegaTipos
    <3>3. rxEst[Resto(leidas, NumRx)] = "vacio" BY DEF LlegaInv, LlegaPendiente
    <3> QED BY <3>2, <3>3, <1>5
  <2>4. rxHechas' - 1 = rxHechas BY <1>2, LlegaTipos
  <2> QED BY <2>1, <2>2, <2>3, <2>4, <1>2, <1>3 DEF LlegaInv, LlegaPendiente
<1>9. LlegaEnMano' BY <1>2 DEF LlegaInv, LlegaEnMano
<1>10. EntregasFieles' BY <1>2 DEF LlegaInv, EntregasFieles
<1> QED BY <1>7, <1>8, <1>9, <1>10 DEF LlegaInv

(* Every step keeps the receive ring's invariant. *)
LEMMA LlegaSigue == TypeOK /\ LlegaInv /\ [Next]_vars => LlegaInv'
<1> SUFFICES ASSUME TypeOK, LlegaInv, [Next]_vars PROVE LlegaInv'
    OBVIOUS
<1>1. ASSUME NEW t \in Contenidos, EnviarEntra(t) PROVE LlegaInv'
    BY <1>1, LlegaIgual DEF EnviarEntra
<1>2. CASE EnviarLibre BY <1>2, LlegaIgual DEF EnviarLibre
<1>3. CASE EnviarAgota BY <1>3, LlegaIgual DEF EnviarAgota
<1>4. CASE EnviarEscribe BY <1>4, LlegaIgual DEF EnviarEscribe
<1>5. CASE EnviarPublica BY <1>5, LlegaIgual DEF EnviarPublica
<1>6. CASE RecibirEntra BY <1>6, LlegaIgual DEF RecibirEntra
<1>7. CASE RecibirLee BY <1>7, LlegaIgual DEF RecibirLee
<1>8. CASE TarjetaEnvia BY <1>8, LlegaIgual DEF TarjetaEnvia, locales
<1>9. CASE TarjetaAcaba BY <1>9, LlegaIgual DEF TarjetaAcaba, locales
<1>10. CASE UNCHANGED vars BY <1>10, LlegaIgual DEF vars, rxVars
<1> QED
    BY <1>1, <1>2, <1>3, <1>4, <1>5, <1>6, <1>7, <1>8, <1>9, <1>10,
       LlegaMira, LlegaCopia, LlegaLimpia, LlegaDevuelve, LlegaGuarda, LlegaAnota
    DEF Next, Enviar, Recibir, Tarjeta

(* The good frames the card stored are handed over once, in order and with *)
(* their contents, and no bad one is, for rings of every size.             *)
THEOREM EntregasFielesCorrecto == Spec => []EntregasFieles
<1>1. Init => TypeOK /\ LlegaInv BY TipoInicial, LlegaInicial
<1>2. TypeOK /\ LlegaInv /\ [Next]_vars => (TypeOK /\ LlegaInv)' BY TipoSigue, LlegaSigue
<1>3. LlegaInv => EntregasFieles BY DEF LlegaInv
<1> QED BY <1>1, <1>2, <1>3, PTL DEF Spec

(* A call that finds nothing: the index it looked at is the head, or has   *)
(* no status; in both cases nothing written back is left, as fewer frames  *)
(* are pending than the ring has descriptors.                              *)
LEMMA MiraFiel ==
    ASSUME TypeOK, LlegaInv, RecibirMira, pc' = "fuera", vista = rdh
    PROVE  leidas = rxHechas /\ (leidas = L => rdh /= rdt)
<1>1. /\ L \in Nat /\ leidas \in Nat /\ rxHechas \in Nat /\ NumRx \in Nat \ {0, 1}
    BY LlegaTipos, TramasAssumption
<1>2. /\ rxIdx = Resto(leidas, NumRx) /\ rdh = Resto(L, NumRx) /\ rdt = Resto(leidas + (NumRx - 1), NumRx)
      /\ leidas <= rxHechas /\ rxHechas <= L /\ L <= leidas + (NumRx - 1)
    BY DEF LlegaInv, LlegaIndices
<1>3. rxIdx = rdh \/ rxEst[rxIdx] = "vacio" BY DEF RecibirMira
<1>4. leidas = rxHechas
  <2>1. CASE rxIdx = rdh
    <3>1. ~(leidas < L /\ L < leidas + NumRx) BY <1>1, <1>2, <2>1, LugarUnico
    <3> QED BY ONLY <1>1, <1>2, <3>1
  <2>2. CASE rxEst[rxIdx] = "vacio"
    <3> SUFFICES ASSUME leidas < rxHechas PROVE FALSE
        BY <1>1, <1>2
    <3>1. leidas \in leidas .. (rxHechas - 1) /\ leidas + 1 \in 1 .. L BY ONLY <1>1, <1>2, leidas < rxHechas
    <3>2. rxEst[rxIdx] = llegadas[leidas + 1].calidad
        BY <1>2, <3>1 DEF LlegaInv, LlegaPendiente, RecibirMira
    <3>3. llegadas[leidas + 1] \in Llegada BY <3>1, LlegaTipos
    <3> QED BY <2>2, <3>2, <3>3 DEF Llegada, Calidades
  <2> QED BY <1>3, <2>1, <2>2
<1>5. ASSUME leidas = L PROVE rdh /= rdt
  <2>1. L < leidas + (NumRx - 1) /\ leidas + (NumRx - 1) < L + NumRx /\ leidas + (NumRx - 1) \in Nat
      BY ONLY <1>1, <1>5
  <2> QED BY <1>1, <1>2, <2>1, LugarUnico
<1> QED BY <1>4, <1>5

(* The driver takes its ring for empty only when it passed all that was    *)
(* written back, and then the card has room, for rings of every size.      *)
THEOREM VacioFielCorrecto == Spec => VacioFiel
<1> DEFINE Paso == RecibirMira /\ pc' = "fuera" /\ vista = rdh =>
                       leidas = rxHechas /\ (leidas = Len(llegadas) => rdh /= rdt)
<1>1. Init => TypeOK /\ LlegaInv BY TipoInicial, LlegaInicial
<1>2. TypeOK /\ LlegaInv /\ [Next]_vars => (TypeOK /\ LlegaInv)' BY TipoSigue, LlegaSigue
<1>3. TypeOK /\ LlegaInv => [Paso]_vars BY MiraFiel DEF L
<1> HIDE DEF Paso
<1>4. Spec => [][Paso]_vars BY <1>1, <1>2, <1>3, PTL DEF Spec
<1> QED BY <1>4 DEF VacioFiel, Paso

=============================================================================
