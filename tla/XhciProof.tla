----------------------------- MODULE XhciProof -----------------------------
(***************************************************************************)
(* Proofs about the xHCI driver and the disks, for every ring, every       *)
(* number of ports, slots and disks and every number of deadlines that     *)
(* pass too soon.                                                          *)
(*                                                                         *)
(* RespuestaPropia.  Completions are known by the place of their TRB, and  *)
(* places are used again: after the last one, and after an abort from the  *)
(* first.  Between commands a completion still in the event ring never     *)
(* names the first place, and one is there only if the ring was just       *)
(* built: the next command takes the first place, and none of them can     *)
(* pass for its answer.                                                    *)
(*                                                                         *)
(* TablasCoherentes.  Between the poll that starts a call and the one that *)
(* ends it the tables disagree on purpose, and the controller may change a *)
(* slot at any moment.  The invariant says what is in hand in each stretch *)
(* (Tablas), what an answer that says yes means (Dicha), and what a        *)
(* command the driver gave up may still do (Abandonada).                   *)
(***************************************************************************)
EXTENDS UsbMsc, FiniteSetTheorems, WellFoundedInduction, TLAPS

-----------------------------------------------------------------------------
(* Shapes: which fields the records have, whatever they hold.               *)

(* The places of a call of xhci_enviar_comando.                            *)
Orden == {"comando", "abortando", "abortado"}

EsSec(e) == e \in Seq({e[i] : i \in DOMAIN e})
Ordenes(e) == {i \in DOMAIN e : e[i].t = "comando"}

FormaLoc(l) == {"ret", "espera", "modo", "p", "s", "bufs", "op", "res", "u"} \subseteq DOMAIN l /\ l.ret \notin Orden
FormaHw(h) == {"idx", "ciclo", "ran"} \subseteq DOMAIN h
FormaHid(h) == "est" \in DOMAIN h
FormaFan(f) == {"tapada", "ajena", "pisada", "huerfanas"} \subseteq DOMAIN f /\ f.tapada \in {0, 1} /\ f.ajena \in {0, 1}
EvForma(e) ==
  /\ EsSec(e)
  /\ \A i \in Ordenes(e) :
       {"t", "par", "vieja"} \subseteq DOMAIN e[i] /\ e[i].vieja \in {0, 1}

Forma == FormaLoc(loc) /\ FormaHw(hw) /\ FormaHid(hid) /\ FormaFan(fantasma)

-----------------------------------------------------------------------------
(* The command ring: the cells before the driver's place hold its cycle    *)
(* bit, the others the opposite one.                                       *)

FormaAn(a) ==
  /\ {"celdas", "idx", "ciclo", "disponible"} \subseteq DOMAIN a /\ DOMAIN a.celdas = 0..(TamAnillo - 1)
  /\ \A i \in 0..(TamAnillo - 1) : "ciclo" \in DOMAIN a.celdas[i]
  /\ a.idx \in 0..(TamAnillo - 2) /\ a.ciclo \in {0, 1}
  /\ \A i \in 0..(TamAnillo - 2) : a.celdas[i].ciclo = IF i < a.idx THEN a.ciclo ELSE 1 - a.ciclo

LugarHw == hw.idx \in 0..(TamAnillo - 1) /\ hw.ciclo \in {0, 1}

(* The controller has done every command, or all but the one awaited.      *)
AlDia == HcLugar.idx = an.idx /\ HcLugar.ciclo = an.ciclo
PendienteEn(k) ==
  /\ k \in 0..(TamAnillo - 2) /\ HcLugar.idx = k
  /\ IF k = TamAnillo - 2
     THEN an.idx = 0 /\ an.ciclo = 1 - HcLugar.ciclo /\ an.celdas[TamAnillo - 1].ciclo = HcLugar.ciclo
     ELSE an.idx = k + 1 /\ an.ciclo = HcLugar.ciclo
Pendiente == PendienteEn(loc.espera)

-----------------------------------------------------------------------------
(* The completions under way.                                               *)

(* Between commands.                                                       *)
Reposo ==
  /\ AlDia
  /\ \A i \in Ordenes(ev) : ev[i].par \in Nat \ {0} /\ an.idx = 0

(* The completion of an earlier command, or the one of this command.       *)
Anterior(e) == e.vieja = 1 /\ e.par \in Nat \ {0} /\ loc.espera = 0
Propia(e) == e.vieja = 0 /\ AlDia

EnCurso ==
  /\ (AlDia /\ hw.idx > 0) \/ Pendiente
  /\ \A i \in Ordenes(ev) : Anterior(ev[i]) \/ (Propia(ev[i]) /\ \A j \in Ordenes(ev) : j <= i)
  /\ buzonCmd # <<>> => Anterior(buzonCmd[1]) \/ (Propia(buzonCmd[1]) /\ Ordenes(ev) = {})

(* An abort under way: only the first completion can be of the first place. *)
Contadas == \A i \in Ordenes(ev) : /\ ev[i].par \in Nat
                                   /\ ev[i].par > 0 \/ (buzonCmd = <<>> /\ \A j \in Ordenes(ev) : i <= j)
Abortando ==
  /\ (AlDia /\ hw.idx > 0) \/ Pendiente
  /\ buzonCmd = <<>>
  /\ Tapado \/ (Contadas /\ (Pendiente => Ordenes(ev) = {}))
Abortado == AlDia /\ (Tapado \/ Contadas)

EnOrden ==
  /\ FormaAn(an) /\ LugarHw
  /\ pc \notin Orden => Reposo
  /\ pc = "comando" => EnCurso
  /\ pc = "abortando" => Abortando
  /\ pc = "abortado" => Abortado

Respuestas ==
  fantasma.tapada = 0 => /\ fantasma.ajena = 0
                         /\ IF an.disponible THEN EnOrden ELSE pc \notin Orden

RespuestaInv == Forma /\ EvForma(ev) /\ Respuestas

-----------------------------------------------------------------------------
(* Lists of events.                                                         *)

LEMMA SecLargo == ASSUME NEW S, NEW e \in Seq(S)
                  PROVE EsSec(e) /\ Len(e) \in Nat /\ DOMAIN e = 1..Len(e)
<1>1. Len(e) \in Nat /\ DOMAIN e = 1..Len(e) /\ e \in [1..Len(e) -> S]
  OBVIOUS
<1>2. PICK T : T = {e[i] : i \in DOMAIN e}
  OBVIOUS
<1>4. e \in [1..Len(e) -> T]
  BY <1>1, <1>2
<1>5. e \in Seq(T)
  BY <1>1, <1>4
<1>3. e \in Seq({e[i] : i \in DOMAIN e})
  BY <1>2, <1>5
<1> QED
  BY <1>1, <1>3 DEF EsSec

(* One event more at the end.                                              *)
LEMMA SecMas ==
  ASSUME NEW e, EsSec(e), NEW x
  PROVE /\ EsSec(Append(e, x)) /\ Len(e) \in Nat /\ DOMAIN e = 1..Len(e)
        /\ DOMAIN Append(e, x) = 1..(Len(e) + 1)
        /\ \A i \in 1..Len(e) : Append(e, x)[i] = e[i]
        /\ Append(e, x)[Len(e) + 1] = x
        /\ e # <<>> => Append(e, x) # <<>> /\ Head(Append(e, x)) = Head(e)
<1> DEFINE S == {e[i] : i \in DOMAIN e} \cup {x}
<1>1. e \in Seq({e[i] : i \in DOMAIN e})
  BY DEF EsSec
<1>2. e \in Seq(S)
  <2>1. Len(e) \in Nat /\ DOMAIN e = 1..Len(e) /\ e \in [1..Len(e) -> {e[i] : i \in DOMAIN e}]
    BY <1>1
  <2>2. e \in [1..Len(e) -> S]
    BY <2>1
  <2> QED
    BY <2>1, <2>2
<1>3. x \in S
  OBVIOUS
<1> HIDE DEF S
<1>4. /\ Append(e, x) \in Seq(S) /\ Len(Append(e, x)) = Len(e) + 1 /\ Len(e) \in Nat
      /\ \A i \in 1..Len(e) : Append(e, x)[i] = e[i]
      /\ Append(e, x)[Len(e) + 1] = x
  BY <1>2, <1>3
<1>5. EsSec(Append(e, x)) /\ DOMAIN Append(e, x) = 1..Len(Append(e, x))
  BY <1>4, SecLargo
<1>6. DOMAIN e = 1..Len(e)
  BY <1>2, SecLargo
<1>7. e # <<>> => Append(e, x) # <<>> /\ Head(Append(e, x)) = Head(e)
  <2> SUFFICES ASSUME e # <<>> PROVE Append(e, x) # <<>> /\ Head(Append(e, x)) = Head(e)
    OBVIOUS
  <2>1. 1 \in 1..Len(e)
    BY <1>2
  <2>2. Head(e) = e[1] /\ Head(Append(e, x)) = Append(e, x)[1]
    BY <1>2, <1>4
  <2>3. Append(e, x) # <<>>
    BY <1>4
  <2> QED
    BY <2>1, <2>2, <2>3, <1>4
<1> QED
  BY <1>4, <1>5, <1>6, <1>7

(* The first event is taken.                                               *)
LEMMA SecMenos ==
  ASSUME NEW e, EsSec(e), e # <<>>
  PROVE /\ EsSec(Tail(e)) /\ Head(e) = e[1] /\ Len(e) \in Nat /\ Len(e) > 0 /\ DOMAIN e = 1..Len(e)
        /\ DOMAIN Tail(e) = 1..(Len(e) - 1)
        /\ \A i \in 1..(Len(e) - 1) : Tail(e)[i] = e[i + 1]
<1> DEFINE S == {e[i] : i \in DOMAIN e}
<1>1. e \in Seq(S)
  BY DEF EsSec
<1> HIDE DEF S
<1>2. /\ Tail(e) \in Seq(S) /\ Len(Tail(e)) = Len(e) - 1 /\ Len(e) \in Nat /\ Len(e) > 0 /\ Head(e) = e[1]
      /\ \A i \in 1..(Len(e) - 1) : Tail(e)[i] = e[i + 1]
  BY <1>1
<1>3. DOMAIN e = 1..Len(e) /\ EsSec(Tail(e)) /\ DOMAIN Tail(e) = 1..Len(Tail(e))
  BY <1>1, <1>2, SecLargo
<1> QED
  BY <1>2, <1>3

(* The lists of the event ring.                                            *)
LEMMA EvMasOtro ==
  ASSUME NEW e, EvForma(e), NEW x, x.t # "comando"
  PROVE /\ EvForma(Append(e, x)) /\ Ordenes(Append(e, x)) = Ordenes(e)
        /\ \A i \in Ordenes(e) : Append(e, x)[i] = e[i]
        /\ e # <<>> => Append(e, x) # <<>> /\ Head(Append(e, x)) = Head(e)
<1> DEFINE f == Append(e, x)
<1>1. EsSec(e)
  BY DEF EvForma
<1>2. /\ EsSec(f) /\ Len(e) \in Nat /\ DOMAIN e = 1..Len(e) /\ DOMAIN f = 1..(Len(e) + 1)
      /\ \A i \in 1..Len(e) : f[i] = e[i]
      /\ f[Len(e) + 1] = x
      /\ e # <<>> => f # <<>> /\ Head(f) = Head(e)
  BY <1>1, SecMas
<1> HIDE DEF f
<1>3. Ordenes(f) = Ordenes(e) /\ \A i \in Ordenes(e) : f[i] = e[i]
  BY <1>2 DEF Ordenes
<1>4. EvForma(f)
  BY <1>2, <1>3 DEF EvForma
<1> QED
  BY <1>2, <1>3, <1>4 DEF f

LEMMA EvMasOrden ==
  ASSUME NEW e, EvForma(e), NEW par, NEW cc, NEW slot
  PROVE LET f == Append(e, Completa(par, cc, slot))
        IN /\ EvForma(f) /\ Ordenes(f) = Ordenes(e) \cup {Len(e) + 1} /\ Len(e) \in Nat
           /\ \A i \in Ordenes(e) : f[i] = e[i] /\ i \in 1..Len(e)
           /\ f[Len(e) + 1] = Completa(par, cc, slot)
           /\ e # <<>> => f # <<>> /\ Head(f) = Head(e)
<1> DEFINE x == Completa(par, cc, slot)
           f == Append(e, x)
<1>1. EsSec(e)
  BY DEF EvForma
<1>2. /\ EsSec(f) /\ Len(e) \in Nat /\ DOMAIN e = 1..Len(e) /\ DOMAIN f = 1..(Len(e) + 1)
      /\ \A i \in 1..Len(e) : f[i] = e[i]
      /\ f[Len(e) + 1] = x
      /\ e # <<>> => f # <<>> /\ Head(f) = Head(e)
  BY <1>1, SecMas
<1>3. {"t", "par", "vieja"} \subseteq DOMAIN x /\ x.vieja \in {0, 1} /\ x.t = "comando"
  BY DEF Completa
<1> HIDE DEF f, x
<1>4. Ordenes(f) = Ordenes(e) \cup {Len(e) + 1}
  BY <1>2, <1>3 DEF Ordenes
<1>5. \A i \in Ordenes(e) : f[i] = e[i] /\ i \in 1..Len(e)
  BY <1>2 DEF Ordenes
<1>6. EvForma(f)
  BY <1>2, <1>3, <1>4, <1>5 DEF EvForma
<1> QED
  BY <1>2, <1>4, <1>5, <1>6 DEF f, x

(* The same, of a completion by its name.                                  *)
EsCompletada(x) == \E par, cc, slot : x = Completa(par, cc, slot)

LEMMA EvMasCompletada ==
  ASSUME NEW e, EvForma(e), NEW x, EsCompletada(x)
  PROVE /\ EvForma(Append(e, x)) /\ Ordenes(Append(e, x)) = Ordenes(e) \cup {Len(e) + 1} /\ Len(e) \in Nat
        /\ \A i \in Ordenes(e) : Append(e, x)[i] = e[i] /\ i \in 1..Len(e)
        /\ Append(e, x)[Len(e) + 1] = x
        /\ e # <<>> => Append(e, x) # <<>> /\ Head(Append(e, x)) = Head(e)
<1>1. PICK par, cc, slot : x = Completa(par, cc, slot)
  BY DEF EsCompletada
<1>2. LET f == Append(e, Completa(par, cc, slot))
      IN /\ EvForma(f) /\ Ordenes(f) = Ordenes(e) \cup {Len(e) + 1} /\ Len(e) \in Nat
         /\ \A i \in Ordenes(e) : f[i] = e[i] /\ i \in 1..Len(e)
         /\ f[Len(e) + 1] = Completa(par, cc, slot)
         /\ e # <<>> => f # <<>> /\ Head(f) = Head(e)
  BY EvMasOrden
<1> QED
  BY <1>1, <1>2

LEMMA EvMenos ==
  ASSUME NEW e, EvForma(e), e # <<>>
  PROVE /\ EvForma(Tail(e)) /\ Head(e) = e[1] /\ Ordenes(e) \subseteq Nat \ {0}
        /\ Ordenes(Tail(e)) \subseteq Nat \ {0}
        /\ \A i \in Ordenes(Tail(e)) : i + 1 \in Ordenes(e) /\ Tail(e)[i] = e[i + 1]
        /\ Head(e).t = "comando" => 1 \in Ordenes(e)
<1> DEFINE f == Tail(e)
<1>1. EsSec(e)
  BY DEF EvForma
<1>2. /\ EsSec(f) /\ Head(e) = e[1] /\ Len(e) \in Nat /\ Len(e) > 0 /\ DOMAIN e = 1..Len(e)
      /\ DOMAIN f = 1..(Len(e) - 1)
      /\ \A i \in 1..(Len(e) - 1) : f[i] = e[i + 1]
  BY <1>1, SecMenos
<1> HIDE DEF f
<1>3. \A i \in Ordenes(f) : i + 1 \in Ordenes(e) /\ f[i] = e[i + 1] /\ i \in Nat \ {0}
  BY <1>2 DEF Ordenes
<1>4. EvForma(f)
  BY <1>2, <1>3 DEF EvForma
<1>5. Ordenes(e) \subseteq Nat \ {0} /\ (Head(e).t = "comando" => 1 \in Ordenes(e))
  BY <1>2 DEF Ordenes
<1> QED
  BY <1>2, <1>3, <1>4, <1>5 DEF f

LEMMA EvEnvejece ==
  ASSUME EvForma(ev)
  PROVE /\ EvForma(Envejece) /\ Ordenes(Envejece) = Ordenes(ev)
        /\ \A i \in Ordenes(ev) : Envejece[i].vieja = 1 /\ Envejece[i].par = ev[i].par
<1> DEFINE f == Envejece
           S == {f[i] : i \in DOMAIN ev}
<1>1. ev \in Seq({ev[i] : i \in DOMAIN ev})
  BY DEF EvForma, EsSec
<1>2. Len(ev) \in Nat /\ DOMAIN ev = 1..Len(ev)
  BY <1>1
<1>3. f = [i \in 1..Len(ev) |-> IF ev[i].t = "comando" THEN [ev[i] EXCEPT !.vieja = 1] ELSE ev[i]]
  BY <1>2 DEF Envejece
<1>4. \A i \in Ordenes(ev) : /\ f[i].t = "comando" /\ f[i].vieja = 1 /\ f[i].par = ev[i].par
                              /\ {"t", "par", "vieja"} \subseteq DOMAIN f[i]
  <2> SUFFICES ASSUME NEW i \in Ordenes(ev)
               PROVE /\ f[i].t = "comando" /\ f[i].vieja = 1 /\ f[i].par = ev[i].par
                     /\ {"t", "par", "vieja"} \subseteq DOMAIN f[i]
    OBVIOUS
  <2>1. {"t", "par", "vieja"} \subseteq DOMAIN ev[i] /\ ev[i].t = "comando"
    BY DEF EvForma, Ordenes
  <2>2. f[i] = [ev[i] EXCEPT !.vieja = 1]
    BY <1>2, <1>3 DEF Ordenes
  <2> HIDE DEF f
  <2> QED
    BY <2>1, <2>2
<1>5. \A i \in 1..Len(ev) : ev[i].t # "comando" => f[i] = ev[i]
  BY <1>3
<1>6. f \in [1..Len(ev) -> S]
  BY <1>2, <1>3
<1>7. DOMAIN f = 1..Len(ev)
  BY <1>3
<1> HIDE DEF f, S
<1>8. f \in Seq(S)
  BY <1>2, <1>6
<1>9. EsSec(f)
  BY <1>8, SecLargo
<1>10. Ordenes(f) = Ordenes(ev)
  BY <1>2, <1>4, <1>5, <1>7 DEF Ordenes
<1>11. EvForma(f)
  BY <1>4, <1>9, <1>10 DEF EvForma
<1> QED
  BY <1>4, <1>10, <1>11 DEF f

-----------------------------------------------------------------------------
(* The command ring.                                                        *)

LEMMA EncolaAn ==
  ASSUME NEW a, FormaAn(a), NEW tipo, NEW slot, NEW p
  PROVE LET b == Encola(a, [ciclo |-> a.ciclo, tipo |-> tipo, slot |-> slot, p |-> p])
        IN /\ FormaAn(b) /\ b.disponible = a.disponible
           /\ IF a.idx = TamAnillo - 2
              THEN b.idx = 0 /\ b.ciclo = 1 - a.ciclo /\ b.celdas[TamAnillo - 1].ciclo = a.ciclo
              ELSE b.idx = a.idx + 1 /\ b.ciclo = a.ciclo /\ b.celdas[TamAnillo - 1] = a.celdas[TamAnillo - 1]
<1> DEFINE trb == [ciclo |-> a.ciclo, tipo |-> tipo, slot |-> slot, p |-> p]
           con == [a.celdas EXCEPT ![a.idx] = trb]
           fin == [con EXCEPT ![TamAnillo - 1].ciclo = a.ciclo]
<1> USE AnilloAssumption
<1>1. /\ {"celdas", "idx", "ciclo", "disponible"} \subseteq DOMAIN a /\ DOMAIN a.celdas = 0..(TamAnillo - 1)
      /\ \A i \in 0..(TamAnillo - 1) : "ciclo" \in DOMAIN a.celdas[i]
      /\ a.idx \in 0..(TamAnillo - 2) /\ a.ciclo \in {0, 1}
  BY DEF FormaAn
<1>2. \A i \in 0..(TamAnillo - 2) : a.celdas[i].ciclo = IF i < a.idx THEN a.ciclo ELSE 1 - a.ciclo
  BY DEF FormaAn
<1>3. "ciclo" \in DOMAIN trb /\ trb.ciclo = a.ciclo
  OBVIOUS
<1> HIDE DEF trb
<1>4. /\ DOMAIN con = 0..(TamAnillo - 1) /\ con[a.idx] = trb
      /\ \A i \in 0..(TamAnillo - 1) : i # a.idx => con[i] = a.celdas[i]
  <2>1. \A i \in 0..(TamAnillo - 1) : con[i] = IF i = a.idx THEN trb ELSE a.celdas[i]
    BY <1>1
  <2> QED
    BY <1>1, <2>1
<1> HIDE DEF con
<1>5. \A i \in 0..(TamAnillo - 1) : "ciclo" \in DOMAIN con[i]
  BY <1>1, <1>3, <1>4
<1>6. \A i \in 0..(TamAnillo - 2) : con[i].ciclo = IF i <= a.idx THEN a.ciclo ELSE 1 - a.ciclo
  BY <1>1, <1>2, <1>3, <1>4
<1>7. CASE a.idx = TamAnillo - 2
  <2> DEFINE n == TamAnillo - 1
             b == [a EXCEPT !.celdas = fin, !.idx = 0, !.ciclo = 1 - a.ciclo]
  <2>1. Encola(a, trb) = b
    BY <1>1, <1>7 DEF Encola, con
  <2>2. b.celdas = fin /\ b.idx = 0 /\ b.ciclo = 1 - a.ciclo /\ b.disponible = a.disponible /\ DOMAIN b = DOMAIN a
    BY <1>1
  <2>3. /\ DOMAIN fin = 0..(TamAnillo - 1)
        /\ \A i \in 0..(TamAnillo - 2) : fin[i] = con[i]
        /\ fin[n] = [con[n] EXCEPT !.ciclo = a.ciclo]
    BY <1>4
  <2> HIDE DEF fin
  <2>4. fin[n].ciclo = a.ciclo /\ "ciclo" \in DOMAIN fin[n]
    BY <1>5, <2>3
  <2>5. \A i \in 0..(TamAnillo - 1) : "ciclo" \in DOMAIN fin[i]
    <3>1. \A i \in 0..(TamAnillo - 1) : i = n \/ i \in 0..(TamAnillo - 2)
      OBVIOUS
    <3> QED
      BY <1>5, <2>3, <2>4, <3>1
  <2>6. \A i \in 0..(TamAnillo - 2) : fin[i].ciclo = a.ciclo
    BY <1>6, <1>7, <2>3
  <2>7. 1 - a.ciclo \in {0, 1} /\ 1 - (1 - a.ciclo) = a.ciclo /\ 0 \in 0..(TamAnillo - 2)
    BY <1>1
  <2> HIDE DEF b
  <2>8. \A i \in 0..(TamAnillo - 2) : ~(i < 0)
    OBVIOUS
  <2>9. FormaAn(b)
    BY <1>1, <2>2, <2>3, <2>5, <2>6, <2>7, <2>8 DEF FormaAn
  <2> QED
    BY <1>7, <2>1, <2>2, <2>4, <2>9 DEF trb
<1>8. CASE a.idx # TamAnillo - 2
  <2> DEFINE b == [a EXCEPT !.celdas = con, !.idx = a.idx + 1]
  <2>1. Encola(a, trb) = b
    <3>1. ~(a.idx + 1 >= TamAnillo - 1)
      BY <1>1, <1>8
    <3> QED
      BY <3>1 DEF Encola, con
  <2>2. b.celdas = con /\ b.idx = a.idx + 1 /\ b.ciclo = a.ciclo /\ b.disponible = a.disponible /\ DOMAIN b = DOMAIN a
    BY <1>1
  <2> HIDE DEF b
  <2>3. a.idx + 1 \in 0..(TamAnillo - 2)
    BY <1>1, <1>8
  <2>4. \A i \in 0..(TamAnillo - 2) : (i < a.idx + 1) = (i <= a.idx)
    BY <1>1
  <2>5. \A i \in 0..(TamAnillo - 2) : con[i].ciclo = IF i < a.idx + 1 THEN a.ciclo ELSE 1 - a.ciclo
    BY <1>6, <2>4
  <2>6. FormaAn(b)
    BY <1>1, <1>4, <1>5, <2>2, <2>3, <2>5 DEF FormaAn
  <2>7. con[TamAnillo - 1] = a.celdas[TamAnillo - 1]
    BY <1>1, <1>4
  <2> QED
    BY <1>8, <2>1, <2>2, <2>6, <2>7 DEF trb
<1> QED
  BY <1>7, <1>8

-----------------------------------------------------------------------------
(* Steps that the call of a command does not see.                           *)

(* The commands the driver sends, by the stretch that follows each.         *)
EsOrden(tipo, ret) ==
  /\ tipo = "enable" <=> ret = "habilitado"
  /\ tipo = "disable" <=> ret \in {"libera", "retirada", "previo"}
  /\ tipo = "address" <=> ret = "direccionado"

(* A step of the driver between commands, with or without a command at its *)
(* end; a step of the controller, the devices or the hand.                 *)
Callado ==
  /\ pc \notin Orden /\ pc' \notin Orden
  /\ an' = an /\ ev' = ev /\ hw'.idx = hw.idx /\ hw'.ciclo = hw.ciclo
Enviado ==
  /\ pc \notin Orden /\ pc' = "comando" /\ an.disponible /\ hw' = hw
  /\ loc'.espera = an.idx /\ buzonCmd' = <<>> /\ ev' = Envejece
  /\ \E tipo, slot, p : /\ an' = Encola(an, [ciclo |-> an.ciclo, tipo |-> tipo, slot |-> slot, p |-> p])
                         /\ EsOrden(tipo, loc'.ret) /\ (tipo = "enable" \/ slot = loc'.s)
FanIgual == /\ FormaFan(fantasma') /\ fantasma'.tapada = fantasma.tapada /\ fantasma'.ajena = fantasma.ajena
            /\ fantasma.pisada => fantasma'.pisada

Sigue == FormaLoc(loc') /\ FormaHw(hw') /\ FormaHid(hid') /\ FanIgual /\ (Callado \/ Enviado)

Ambiente ==
  /\ pc' = pc /\ loc' = loc /\ an' = an /\ buzonCmd' = buzonCmd /\ buzon' = buzon /\ fantasma' = fantasma
  /\ FormaHw(hw') /\ hw'.idx = hw.idx /\ hw'.ciclo = hw.ciclo
  /\ FormaHid(hid') /\ hid'.est = hid.est
  /\ ev' = ev \/ \E x : x.t # "comando" /\ ev' = Append(ev, x)

LEMMA LugarIgual ==
  ASSUME an' = an, hw'.idx = hw.idx, hw'.ciclo = hw.ciclo
  PROVE HcLugar' = HcLugar /\ AlDia' = AlDia /\ (LugarHw => LugarHw')
<1>1. HcLugar' = HcLugar
  BY DEF HcLugar
<1> QED
  BY <1>1 DEF AlDia, LugarHw

LEMMA CalladoRespuesta ==
  ASSUME RespuestaInv, Callado, FanIgual PROVE EvForma(ev)' /\ Respuestas'
<1> USE DEF RespuestaInv
<1>1. EvForma(ev)'
  BY DEF Callado
<1>2. SUFFICES ASSUME fantasma.tapada = 0
               PROVE fantasma'.ajena = 0 /\ IF an'.disponible THEN EnOrden' ELSE pc' \notin Orden
  BY <1>1 DEF Respuestas, FanIgual
<1>3. fantasma'.ajena = 0 /\ IF an.disponible THEN EnOrden ELSE pc \notin Orden
  BY <1>2 DEF Respuestas, FanIgual
<1>4. ASSUME EnOrden PROVE EnOrden'
  <2>1. FormaAn(an) /\ LugarHw /\ Reposo
    BY <1>4 DEF EnOrden, Callado
  <2>2. LugarHw' /\ AlDia' = AlDia
    BY <2>1, LugarIgual DEF Callado
  <2>3. Reposo'
    BY <2>1, <2>2 DEF Reposo, Callado
  <2> QED
    BY <2>1, <2>2, <2>3 DEF EnOrden, Callado, Orden
<1> QED
  BY <1>3, <1>4 DEF Callado

(* The command that was sent is the one the controller comes to.           *)
LEMMA EnviadoPendiente ==
  ASSUME FormaAn(an), LugarHw, AlDia, Enviado PROVE FormaAn(an') /\ LugarHw' /\ Pendiente' /\ an'.disponible
<1>1. PICK tipo, slot, p : an' = Encola(an, [ciclo |-> an.ciclo, tipo |-> tipo, slot |-> slot, p |-> p])
  BY DEF Enviado
<1>2. /\ FormaAn(an') /\ an'.disponible = an.disponible
      /\ IF an.idx = TamAnillo - 2
         THEN an'.idx = 0 /\ an'.ciclo = 1 - an.ciclo /\ an'.celdas[TamAnillo - 1].ciclo = an.ciclo
         ELSE an'.idx = an.idx + 1 /\ an'.ciclo = an.ciclo /\ an'.celdas[TamAnillo - 1] = an.celdas[TamAnillo - 1]
  BY <1>1, EncolaAn
<1>3. an.idx \in 0..(TamAnillo - 2) /\ an.ciclo \in {0, 1} /\ HcLugar.idx = an.idx /\ HcLugar.ciclo = an.ciclo
  BY DEF FormaAn, AlDia
<1>4. hw.idx \in 0..(TamAnillo - 1) /\ hw.ciclo \in {0, 1}
  BY DEF LugarHw
<1>5. HcLugar' = HcLugar
  <2>1. CASE hw.idx # TamAnillo - 1
    BY <2>1 DEF HcLugar, Enviado
  <2>2. CASE hw.idx = TamAnillo - 1
    <3>1. an.celdas[hw.idx].ciclo = hw.ciclo /\ an.idx = 0
      BY <1>3, <2>2, AnilloAssumption DEF HcLugar
    <3>2. an'.celdas[hw.idx] = an.celdas[hw.idx]
      BY <1>2, <2>2, <3>1, AnilloAssumption
    <3> QED
      BY <2>2, <3>2 DEF HcLugar, Enviado
  <2> QED
    BY <2>1, <2>2
<1>6. Pendiente'
  <2>1. loc'.espera = an.idx
    BY DEF Enviado
  <2> QED
    BY <1>2, <1>3, <1>5, <2>1 DEF Pendiente, PendienteEn
<1> QED
  BY <1>2, <1>4, <1>6 DEF LugarHw, Enviado

LEMMA EnviadoRespuesta ==
  ASSUME RespuestaInv, Enviado, FanIgual PROVE EvForma(ev)' /\ Respuestas'
<1> USE DEF RespuestaInv
<1>1. EvForma(Envejece) /\ Ordenes(Envejece) = Ordenes(ev)
      /\ \A i \in Ordenes(ev) : Envejece[i].vieja = 1 /\ Envejece[i].par = ev[i].par
  BY EvEnvejece
<1>2. EvForma(ev)' /\ Ordenes(ev') = Ordenes(ev) /\ \A i \in Ordenes(ev) : ev'[i].vieja = 1 /\ ev'[i].par = ev[i].par
  BY <1>1 DEF Enviado
<1>3. SUFFICES ASSUME fantasma.tapada = 0
               PROVE fantasma'.ajena = 0 /\ IF an'.disponible THEN EnOrden' ELSE pc' \notin Orden
  BY <1>2 DEF Respuestas, FanIgual
<1>4. fantasma'.ajena = 0 /\ EnOrden
  BY <1>3 DEF Respuestas, FanIgual, Enviado
<1>5. FormaAn(an) /\ LugarHw /\ Reposo
  BY <1>4 DEF EnOrden, Enviado
<1>6. FormaAn(an') /\ LugarHw' /\ Pendiente' /\ an'.disponible
  BY <1>5, EnviadoPendiente DEF Reposo
<1>7. EnCurso'
  <2>1. loc'.espera = an.idx
    BY DEF Enviado
  <2>2. \A i \in Ordenes(ev') : Anterior(ev[i])'
    BY <1>2, <1>5, <2>1 DEF Anterior, Reposo
  <2> QED
    BY <1>6, <2>2 DEF EnCurso, Enviado
<1>8. EnOrden'
  BY <1>6, <1>7 DEF EnOrden, Enviado, Orden
<1> QED
  BY <1>4, <1>6, <1>8

LEMMA SigueRespuesta ==
  ASSUME RespuestaInv, Sigue PROVE RespuestaInv'
<1>1. Forma'
  BY DEF Sigue, FanIgual, Forma
<1>2. EvForma(ev)' /\ Respuestas'
  BY CalladoRespuesta, EnviadoRespuesta DEF Sigue
<1> QED
  BY <1>1, <1>2 DEF RespuestaInv

(* The head of the ring stays hidden while nobody takes it.                *)
LEMMA TapadoSigue ==
  ASSUME Tapado, buzon' = buzon, hid'.est = hid.est, ev' # <<>>, Head(ev') = Head(ev)
  PROVE Tapado'
BY DEF Tapado, Bloqueado, EsHid

LEMMA AmbienteRespuesta ==
  ASSUME RespuestaInv, Ambiente PROVE RespuestaInv'
<1> USE DEF RespuestaInv
<1>1. Forma'
  BY DEF Forma, Ambiente
<1>2. /\ EvForma(ev)' /\ Ordenes(ev)' = Ordenes(ev) /\ \A i \in Ordenes(ev) : ev'[i] = ev[i]
      /\ ev # <<>> => ev' # <<>> /\ Head(ev') = Head(ev)
  <2>1. CASE ev' = ev
    BY <2>1
  <2>2. CASE \E x : x.t # "comando" /\ ev' = Append(ev, x)
    BY <2>2, EvMasOtro
  <2> QED
    BY <2>1, <2>2 DEF Ambiente
<1>3. SUFFICES ASSUME fantasma.tapada = 0
               PROVE fantasma'.ajena = 0 /\ IF an'.disponible THEN EnOrden' ELSE pc' \notin Orden
  BY <1>1, <1>2 DEF Respuestas, Ambiente
<1>4. fantasma'.ajena = 0 /\ IF an.disponible THEN EnOrden ELSE pc \notin Orden
  BY <1>3 DEF Respuestas, Ambiente
<1>5. ASSUME EnOrden PROVE EnOrden'
  <2>1. HcLugar' = HcLugar /\ AlDia' = AlDia /\ LugarHw'
    BY <1>5, LugarIgual DEF EnOrden, Ambiente
  <2>2. Pendiente' = Pendiente
    BY <2>1 DEF Pendiente, PendienteEn, Ambiente
  <2>3. Tapado => Tapado'
    <3>1. Tapado => ev # <<>>
      BY DEF Tapado, Bloqueado
    <3> QED
      BY <1>2, <3>1, TapadoSigue DEF Ambiente
  <2>4. ASSUME Reposo PROVE Reposo'
    BY <1>2, <2>1, <2>4 DEF Reposo, Ambiente
  <2>5. ASSUME EnCurso PROVE EnCurso'
    <3>1. \A i \in Ordenes(ev) : Anterior(ev[i])' = Anterior(ev[i]) /\ Propia(ev[i])' = Propia(ev[i])
      BY <1>2, <2>1 DEF Anterior, Propia, Ambiente
    <3>2. Anterior(buzonCmd[1])' = Anterior(buzonCmd[1]) /\ Propia(buzonCmd[1])' = Propia(buzonCmd[1])
      BY <2>1 DEF Anterior, Propia, Ambiente
    <3>3. (AlDia' /\ hw'.idx > 0) \/ Pendiente'
      BY <2>1, <2>2, <2>5 DEF EnCurso, Ambiente
    <3>4. \A i \in Ordenes(ev)' : Anterior(ev[i])' \/ (Propia(ev[i])' /\ \A j \in Ordenes(ev)' : j <= i)
      BY <1>2, <2>5, <3>1 DEF EnCurso
    <3>5. buzonCmd' # <<>> => Anterior(buzonCmd[1])' \/ (Propia(buzonCmd[1])' /\ Ordenes(ev)' = {})
      BY <1>2, <2>5, <3>2 DEF EnCurso, Ambiente
    <3> QED
      BY <3>3, <3>4, <3>5 DEF EnCurso
  <2>6. Contadas => Contadas'
    BY <1>2 DEF Contadas, Ambiente
  <2>7. ASSUME Abortando PROVE Abortando'
    BY <1>2, <2>1, <2>2, <2>3, <2>6, <2>7 DEF Abortando, Ambiente
  <2>8. ASSUME Abortado PROVE Abortado'
    BY <2>1, <2>3, <2>6, <2>8 DEF Abortado
  <2>9. pc' = pc /\ an' = an
    BY DEF Ambiente
  <2> QED
    BY <1>5, <2>1, <2>4, <2>5, <2>7, <2>8, <2>9 DEF EnOrden
<1> QED
  BY <1>4, <1>5 DEF Ambiente

-----------------------------------------------------------------------------
(* The controller's place in the ring.                                      *)

LEMMA AlDiaQuieto == ASSUME FormaAn(an), LugarHw, AlDia PROVE ~HcOrden /\ ~Pendiente /\ \A k : ~PendienteEn(k)
<1>1. an.idx \in 0..(TamAnillo - 2) /\ an.ciclo \in {0, 1} /\ HcLugar.idx = an.idx /\ HcLugar.ciclo = an.ciclo
  BY DEF FormaAn, AlDia
<1>2. an.celdas[an.idx].ciclo = 1 - an.ciclo
  BY <1>1, AnilloAssumption DEF FormaAn
<1>3. 1 - an.ciclo # an.ciclo
  BY <1>1
<1>4. ~HcOrden
  BY <1>1, <1>2, <1>3 DEF HcOrden
<1>5. \A k : ~PendienteEn(k)
  BY <1>1, AnilloAssumption DEF PendienteEn
<1> QED
  BY <1>4, <1>5 DEF Pendiente

LEMMA PendienteOrden == ASSUME FormaAn(an), LugarHw, NEW k, PendienteEn(k) PROVE HcOrden
<1>1. /\ k \in 0..(TamAnillo - 2) /\ HcLugar.idx = k
      /\ an.idx \in 0..(TamAnillo - 2) /\ an.ciclo \in {0, 1} /\ TamAnillo \in Nat /\ TamAnillo > 2
  BY AnilloAssumption DEF FormaAn, PendienteEn
<1>2. HcLugar.ciclo \in {0, 1}
  BY DEF HcLugar, LugarHw
<1>3. an.celdas[k].ciclo = IF k < an.idx THEN an.ciclo ELSE 1 - an.ciclo
  BY <1>1 DEF FormaAn
<1>4. CASE k = TamAnillo - 2
  <2>1. an.idx = 0 /\ an.ciclo = 1 - HcLugar.ciclo
    BY <1>4 DEF PendienteEn
  <2>2. an.celdas[k].ciclo = HcLugar.ciclo
    BY <1>1, <1>2, <1>3, <2>1
  <2> QED
    BY <1>1, <1>4, <2>2 DEF HcOrden
<1>5. CASE k # TamAnillo - 2
  <2>1. an.idx = k + 1 /\ an.ciclo = HcLugar.ciclo
    BY <1>5 DEF PendienteEn
  <2>2. an.celdas[k].ciclo = HcLugar.ciclo
    BY <1>1, <1>3, <2>1
  <2> QED
    BY <1>1, <1>5, <2>2 DEF HcOrden
<1> QED
  BY <1>4, <1>5

LEMMA PendienteTras ==
  ASSUME FormaAn(an), LugarHw, NEW k, PendienteEn(k), an' = an, hw'.idx = HcLugar.idx + 1, hw'.ciclo = HcLugar.ciclo
  PROVE AlDia' /\ hw'.idx > 0 /\ LugarHw' /\ HcLugar.idx = k /\ k \in Nat
<1>1. /\ k \in 0..(TamAnillo - 2) /\ HcLugar.idx = k
      /\ an.idx \in 0..(TamAnillo - 2) /\ an.ciclo \in {0, 1} /\ TamAnillo \in Nat /\ TamAnillo > 2
  BY AnilloAssumption DEF FormaAn, PendienteEn
<1>2. HcLugar.ciclo \in {0, 1}
  BY DEF HcLugar, LugarHw
<1>3. hw'.idx = k + 1 /\ hw'.ciclo = HcLugar.ciclo
  BY <1>1
<1>4. PICK c : c = HcLugar.ciclo /\ c \in {0, 1}
  BY <1>2
<1>5. CASE k = TamAnillo - 2
  <2>1. an.idx = 0 /\ an.ciclo = 1 - c /\ an.celdas[TamAnillo - 1].ciclo = c
    BY <1>4, <1>5 DEF PendienteEn
  <2>2. hw'.idx = TamAnillo - 1
    BY <1>1, <1>3, <1>5
  <2>3. HcLugar' = [idx |-> 0, ciclo |-> 1 - c]
    BY <1>3, <1>4, <2>1, <2>2 DEF HcLugar
  <2>4. AlDia'
    BY <2>1, <2>3 DEF AlDia
  <2> QED
    BY <1>1, <1>2, <1>3, <2>4 DEF LugarHw
<1>6. CASE k # TamAnillo - 2
  <2>1. an.idx = k + 1 /\ an.ciclo = c
    BY <1>4, <1>6 DEF PendienteEn
  <2>2. hw'.idx # TamAnillo - 1
    BY <1>1, <1>3, <1>6
  <2>3. HcLugar' = [idx |-> k + 1, ciclo |-> c]
    BY <1>3, <1>4, <2>2 DEF HcLugar
  <2>4. AlDia'
    BY <2>1, <2>3 DEF AlDia
  <2> QED
    BY <1>1, <1>2, <1>3, <2>4 DEF LugarHw
<1> QED
  BY <1>5, <1>6

(* The effect of a command on the slots leaves that place alone.           *)
LEMMA EfectoLugar ==
  ASSUME NEW h, FormaHw(h), NEW c
  PROVE FormaHw(Efecto(c, h).hw) /\ Efecto(c, h).hw.idx = h.idx /\ Efecto(c, h).hw.ciclo = h.ciclo
<1> DEFINE bien(r) == FormaHw(r.hw) /\ r.hw.idx = h.idx /\ r.hw.ciclo = h.ciclo
<1>1. ASSUME NEW cc, NEW s PROVE bien([hw |-> h, cc |-> cc, slot |-> s])
  OBVIOUS
<1>2. ASSUME NEW s, NEW v, NEW cc, NEW t PROVE bien([hw |-> [h EXCEPT !.ran[s].est = v], cc |-> cc, slot |-> t])
  BY DEF FormaHw
<1>3. ASSUME NEW s, NEW v, NEW cc, NEW t PROVE bien([hw |-> [h EXCEPT !.ran[s] = v], cc |-> cc, slot |-> t])
  BY DEF FormaHw
<1>4. ASSUME NEW s, NEW v, NEW w, NEW x, NEW cc, NEW t
      PROVE bien([hw |-> [h EXCEPT !.ran[s] = v, !.colas[s] = w, !.paradas = x], cc |-> cc, slot |-> t])
  BY DEF FormaHw
<1> HIDE DEF bien
<1>5. CASE c.tipo = "enable"
  <2> DEFINE libres == {s \in Ranuras : Ranura(s).est = "libre"}
             s == CHOOSE x \in libres : \A y \in libres : x <= y
  <2>1. Efecto(c, h) = IF libres = {} THEN [hw |-> h, cc |-> 9, slot |-> 0]
                       ELSE [hw |-> [h EXCEPT !.ran[s].est = "habilitada"], cc |-> 1, slot |-> s]
    BY <1>5 DEF Efecto
  <2> HIDE DEF libres, s
  <2> QED
    BY <1>1, <1>2, <2>1 DEF bien
<1>6. CASE c.tipo = "disable"
  <2>1. Efecto(c, h) =
         IF Ranura(c.slot).est = "libre" THEN [hw |-> h, cc |-> 11, slot |-> c.slot]
         ELSE [hw |-> [h EXCEPT !.ran[c.slot] = RanuraLibre, !.colas[c.slot] = [d \in Dci |-> <<>>],
                               !.paradas = {e \in h.paradas : e[1] # c.slot}], cc |-> 1, slot |-> c.slot]
    BY <1>6 DEF Efecto
  <2> DEFINE w == [d \in Dci |-> <<>>]
             x == {e \in h.paradas : e[1] # c.slot}
             ida == [hw |-> [h EXCEPT !.ran[c.slot] = RanuraLibre, !.colas[c.slot] = w, !.paradas = x], cc |-> 1, slot |-> c.slot]
  <2>2. Efecto(c, h) = IF Ranura(c.slot).est = "libre" THEN [hw |-> h, cc |-> 11, slot |-> c.slot] ELSE ida
    BY <2>1
  <2> HIDE DEF w, x
  <2>3. bien(ida)
    BY <1>4
  <2>4. bien([hw |-> h, cc |-> 11, slot |-> c.slot])
    BY <1>1
  <2> HIDE DEF ida
  <2>5. bien(Efecto(c, h))
    BY <2>2, <2>3, <2>4
  <2> QED
    BY <2>5 DEF bien
<1>7. CASE c.tipo = "address"
  <2>1. Efecto(c, h) =
         IF Ranura(c.slot).est = "libre" THEN [hw |-> h, cc |-> 11, slot |-> c.slot]
         ELSE IF bus[c.p] = 0 THEN [hw |-> h, cc |-> 4, slot |-> c.slot]
         ELSE [hw |-> [h EXCEPT !.ran[c.slot] = [est |-> "dir", g |-> bus[c.p], ctx |-> tab.dcbaa[c.slot]]],
               cc |-> 1, slot |-> c.slot]
    BY <1>7 DEF Efecto
  <2> DEFINE nueva == [est |-> "dir", g |-> bus[c.p], ctx |-> tab.dcbaa[c.slot]]
             ida == [hw |-> [h EXCEPT !.ran[c.slot] = nueva], cc |-> 1, slot |-> c.slot]
  <2>2. Efecto(c, h) = IF Ranura(c.slot).est = "libre" THEN [hw |-> h, cc |-> 11, slot |-> c.slot]
                       ELSE IF bus[c.p] = 0 THEN [hw |-> h, cc |-> 4, slot |-> c.slot] ELSE ida
    BY <2>1
  <2> HIDE DEF nueva
  <2>3. bien(ida)
    BY <1>3
  <2>4. bien([hw |-> h, cc |-> 11, slot |-> c.slot]) /\ bien([hw |-> h, cc |-> 4, slot |-> c.slot])
    BY <1>1
  <2> HIDE DEF ida
  <2>5. bien(Efecto(c, h))
    BY <2>2, <2>3, <2>4
  <2> QED
    BY <2>5 DEF bien
<1>8. CASE c.tipo # "enable" /\ c.tipo # "disable" /\ c.tipo # "address"
  <2>1. Efecto(c, h) = [hw |-> h, cc |-> IF Ranura(c.slot).est = "dir" THEN 1 ELSE 19, slot |-> c.slot]
    BY <1>8 DEF Efecto
  <2> QED
    BY <1>1, <2>1 DEF bien
<1> QED
  BY <1>5, <1>6, <1>7, <1>8

LEMMA TrasLugar == ASSUME FormaHw(hw) PROVE FormaHw(HcTras) /\ HcTras.idx = HcLugar.idx + 1 /\ HcTras.ciclo = HcLugar.ciclo
BY DEF FormaHw, HcTras

LEMMA EjecutaPaso ==
  ASSUME Forma, HcEjecuta
  PROVE /\ HcOrden /\ FormaHw(hw') /\ hw'.idx = HcLugar.idx + 1 /\ hw'.ciclo = HcLugar.ciclo
        /\ \E cc, slot : ev' = Append(ev, Completa(HcLugar.idx, cc, slot))
        /\ hid' = hid /\ UNCHANGED <<an, buzonCmd, buzon, pc, loc, fantasma>>
<1> DEFINE c == an.celdas[HcLugar.idx]
           r == Efecto(c, HcTras)
<1>1. /\ HcOrden
      /\ \/ hw' = r.hw /\ ev' = Append(ev, Completa(HcLugar.idx, r.cc, r.slot))
         \/ hw' = HcTras /\ ev' = Append(ev, Completa(HcLugar.idx, 5, c.slot))
      /\ hid' = hid /\ UNCHANGED <<an, buzonCmd, buzon, pc, loc, fantasma>>
  BY DEF HcEjecuta, MarcoHc
<1>2. FormaHw(HcTras) /\ HcTras.idx = HcLugar.idx + 1 /\ HcTras.ciclo = HcLugar.ciclo
  BY TrasLugar DEF Forma
<1>3. FormaHw(r.hw) /\ r.hw.idx = HcTras.idx /\ r.hw.ciclo = HcTras.ciclo
  BY <1>2, EfectoLugar
<1> HIDE DEF r, c
<1>4. \E cc, slot : ev' = Append(ev, Completa(HcLugar.idx, cc, slot))
  BY <1>1
<1>5. FormaHw(hw') /\ hw'.idx = HcLugar.idx + 1 /\ hw'.ciclo = HcLugar.ciclo
  BY <1>1, <1>2, <1>3
<1> QED
  BY <1>1, <1>4, <1>5

LEMMA EjecutaRespuesta ==
  ASSUME RespuestaInv, HcEjecuta PROVE RespuestaInv'
<1> USE DEF RespuestaInv
<1>1. /\ HcOrden /\ FormaHw(hw') /\ hw'.idx = HcLugar.idx + 1 /\ hw'.ciclo = HcLugar.ciclo
      /\ hid' = hid /\ UNCHANGED <<an, buzonCmd, buzon, pc, loc, fantasma>>
  BY EjecutaPaso
<1>2. PICK cc, slot : ev' = Append(ev, Completa(HcLugar.idx, cc, slot))
  BY EjecutaPaso
<1>3. /\ EvForma(ev') /\ Ordenes(ev') = Ordenes(ev) \cup {Len(ev) + 1} /\ Len(ev) \in Nat
      /\ \A i \in Ordenes(ev) : ev'[i] = ev[i] /\ i \in 1..Len(ev)
      /\ ev'[Len(ev) + 1] = Completa(HcLugar.idx, cc, slot)
      /\ ev # <<>> => ev' # <<>> /\ Head(ev') = Head(ev)
  <2>1. PICK x : x = Completa(HcLugar.idx, cc, slot)
    OBVIOUS
  <2>2. EsCompletada(x) /\ EvForma(ev) /\ ev' = Append(ev, x)
    BY <1>2, <2>1 DEF EsCompletada
  <2>3. /\ EvForma(Append(ev, x)) /\ Ordenes(Append(ev, x)) = Ordenes(ev) \cup {Len(ev) + 1} /\ Len(ev) \in Nat
        /\ \A i \in Ordenes(ev) : Append(ev, x)[i] = ev[i] /\ i \in 1..Len(ev)
        /\ Append(ev, x)[Len(ev) + 1] = x
        /\ ev # <<>> => Append(ev, x) # <<>> /\ Head(Append(ev, x)) = Head(ev)
    BY <2>2, EvMasCompletada
  <2> QED
    BY <2>1, <2>2, <2>3
<1>4. Forma'
  BY <1>1 DEF Forma
<1>5. SUFFICES ASSUME fantasma.tapada = 0, an.disponible, EnOrden PROVE EnOrden'
  BY <1>1, <1>3, <1>4 DEF Respuestas, EvForma
<1>6. FormaAn(an) /\ LugarHw
  BY <1>5 DEF EnOrden
<1>7. ~AlDia
  BY <1>1, <1>6, AlDiaQuieto
<1>8. pc \in Orden /\ pc # "abortado"
  BY <1>5, <1>7 DEF EnOrden, Reposo, Abortado
<1>9. Pendiente
  BY <1>5, <1>7, <1>8 DEF EnOrden, EnCurso, Abortando, Orden
<1>10. AlDia' /\ hw'.idx > 0 /\ LugarHw' /\ HcLugar.idx = loc.espera /\ loc.espera \in Nat
  BY <1>1, <1>6, <1>9, PendienteTras DEF Pendiente
<1>11. FormaAn(an)' /\ pc' = pc /\ loc' = loc /\ buzonCmd' = buzonCmd
  BY <1>1, <1>6 DEF FormaAn
<1>12. PICK n : n = Len(ev) + 1
  OBVIOUS
<1>13. /\ n \in Nat /\ Ordenes(ev)' = Ordenes(ev) \cup {n} /\ ev'[n].vieja = 0 /\ ev'[n].par = HcLugar.idx
       /\ \A i \in Ordenes(ev) : ev'[i] = ev[i] /\ i \in Nat /\ i < n
  BY <1>3, <1>12 DEF Completa
<1>14. CASE pc = "comando"
  <2>1. EnCurso
    BY <1>5, <1>14 DEF EnOrden
  <2>2. \A i \in Ordenes(ev) : Anterior(ev[i])
    BY <1>7, <2>1 DEF EnCurso, Propia
  <2>3. buzonCmd # <<>> => Anterior(buzonCmd[1])
    BY <1>7, <2>1 DEF EnCurso, Propia
  <2>4. \A i \in Ordenes(ev) : Anterior(ev[i])'
    BY <1>11, <1>13, <2>2 DEF Anterior
  <2>5. buzonCmd' # <<>> => Anterior(buzonCmd[1])'
    BY <1>11, <2>3 DEF Anterior
  <2>6. Propia(ev[n])'
    BY <1>10, <1>13 DEF Propia
  <2>7. \A j \in Ordenes(ev)' : j <= n
    BY <1>13
  <2>8. \A i \in Ordenes(ev)' : Anterior(ev[i])' \/ (Propia(ev[i])' /\ \A j \in Ordenes(ev)' : j <= i)
    BY <1>13, <2>4, <2>6, <2>7
  <2>9. EnCurso'
    BY <1>10, <2>5, <2>8 DEF EnCurso
  <2> QED
    BY <1>10, <1>11, <1>14, <2>9 DEF EnOrden, Orden
<1>15. CASE pc = "abortando"
  <2>1. Abortando
    BY <1>5, <1>15 DEF EnOrden
  <2>2. ~Pendiente'
    <3> SUFFICES ASSUME Pendiente' PROVE FALSE
      OBVIOUS
    <3>1. an'.idx = loc'.espera /\ an'.idx \in 0..(TamAnillo - 2)
      BY <1>10, <1>11 DEF AlDia, Pendiente, PendienteEn, FormaAn
    <3> QED
      BY <3>1, AnilloAssumption DEF Pendiente, PendienteEn
  <2>3. ASSUME Tapado PROVE Tapado'
    <3>1. ev # <<>>
      BY <2>3 DEF Tapado, Bloqueado
    <3> QED
      BY <1>1, <1>3, <2>3, <3>1, TapadoSigue
  <2>4. ASSUME ~Tapado PROVE Contadas'
    <3>1. Ordenes(ev) = {}
      BY <1>9, <2>1, <2>4 DEF Abortando
    <3>2. buzonCmd' = <<>>
      BY <1>11, <2>1 DEF Abortando
    <3> QED
      BY <1>10, <1>13, <3>1, <3>2 DEF Contadas
  <2>5. Abortando'
    BY <1>10, <1>11, <2>1, <2>2, <2>3, <2>4 DEF Abortando
  <2> QED
    BY <1>10, <1>11, <1>15, <2>5 DEF EnOrden, Orden
<1> QED
  BY <1>8, <1>14, <1>15 DEF Orden

(* The controller stops in an abort.                                       *)
LEMMA ParaRespuesta ==
  ASSUME RespuestaInv, HcPara PROVE RespuestaInv'
<1> USE DEF RespuestaInv
<1> DEFINE h == IF HcOrden THEN HcTras ELSE hw
           fin == Completa(h.idx, 24, 0)
           hecha == Completa(HcLugar.idx, 25, 0)
           dos == Append(Append(ev, hecha), fin)
           uno == Append(ev, fin)
<1>1. /\ pc = "abortando" /\ pc' = "abortado" /\ hw' = h
      /\ ev' = ev \o (IF HcOrden THEN <<hecha, fin>> ELSE <<fin>>)
      /\ hid' = hid /\ UNCHANGED <<an, buzonCmd, buzon, loc, fantasma>>
  BY DEF HcPara
<1>2. ev' = IF HcOrden THEN dos ELSE uno
  <2>1. ev \in Seq({ev[i] : i \in DOMAIN ev})
    BY DEF EvForma, EsSec
  <2>2. ASSUME NEW S, NEW e \in Seq(S), NEW a, NEW b
        PROVE e \o <<a>> = Append(e, a) /\ e \o <<a, b>> = Append(Append(e, a), b)
    <3> DEFINE Z == S \cup {a, b}
    <3>1. Len(e) \in Nat /\ e \in [1..Len(e) -> S]
      BY <2>2
    <3>2. e \in Seq(Z) /\ a \in Z /\ b \in Z
      BY <3>1, <2>2
    <3> HIDE DEF Z
    <3>3. /\ Append(e, a) \in Seq(Z) /\ Append(Append(e, a), b) \in Seq(Z)
          /\ <<a>> \in Seq(Z) /\ <<a, b>> \in Seq(Z)
          /\ e \o <<a>> \in Seq(Z) /\ e \o <<a, b>> \in Seq(Z)
      BY <3>2
    <3>4. e \o <<a>> = Append(e, a)
      BY <3>2, <3>3
    <3>5. e \o <<a, b>> = Append(Append(e, a), b)
      BY <3>2, <3>3
    <3> QED
      BY <3>4, <3>5
  <2> HIDE DEF hecha, fin
  <2> QED
    BY <1>1, <2>1, <2>2
<1>3. FormaHw(h) /\ (HcOrden => h.idx = HcLugar.idx + 1 /\ h.ciclo = HcLugar.ciclo) /\ (~HcOrden => h = hw)
  BY TrasLugar DEF Forma
<1> HIDE DEF h
<1>7. fin.par = h.idx /\ hecha.par = HcLugar.idx /\ EsCompletada(fin) /\ EsCompletada(hecha)
  BY DEF Completa, EsCompletada
<1> HIDE DEF hecha, fin
<1>20. EvForma(ev)
  OBVIOUS
<1> HIDE DEF RespuestaInv
<1>4. /\ EvForma(Append(ev, hecha)) /\ Ordenes(Append(ev, hecha)) = Ordenes(ev) \cup {Len(ev) + 1} /\ Len(ev) \in Nat
      /\ \A i \in Ordenes(ev) : Append(ev, hecha)[i] = ev[i] /\ i \in 1..Len(ev)
      /\ Append(ev, hecha)[Len(ev) + 1] = hecha
      /\ ev # <<>> => Append(ev, hecha) # <<>> /\ Head(Append(ev, hecha)) = Head(ev)
  BY <1>7, <1>20, EvMasCompletada
<1>5. /\ EvForma(uno) /\ Ordenes(uno) = Ordenes(ev) \cup {Len(ev) + 1} /\ Len(ev) \in Nat
      /\ \A i \in Ordenes(ev) : uno[i] = ev[i] /\ i \in 1..Len(ev)
      /\ uno[Len(ev) + 1] = fin
      /\ ev # <<>> => uno # <<>> /\ Head(uno) = Head(ev)
  <2>1. /\ EvForma(Append(ev, fin)) /\ Ordenes(Append(ev, fin)) = Ordenes(ev) \cup {Len(ev) + 1} /\ Len(ev) \in Nat
        /\ \A i \in Ordenes(ev) : Append(ev, fin)[i] = ev[i] /\ i \in 1..Len(ev)
        /\ Append(ev, fin)[Len(ev) + 1] = fin
        /\ ev # <<>> => Append(ev, fin) # <<>> /\ Head(Append(ev, fin)) = Head(ev)
    BY <1>7, <1>20, EvMasCompletada
  <2> QED
    BY <2>1 DEF uno
<1>6. LET e == Append(ev, hecha)
      IN /\ EvForma(dos) /\ Ordenes(dos) = Ordenes(e) \cup {Len(e) + 1} /\ Len(e) \in Nat
         /\ \A i \in Ordenes(e) : dos[i] = e[i] /\ i \in 1..Len(e)
         /\ dos[Len(e) + 1] = fin
         /\ e # <<>> => dos # <<>> /\ Head(dos) = Head(e)
  <2> DEFINE e == Append(ev, hecha)
  <2>1. EvForma(e)
    BY <1>4
  <2> HIDE DEF e
  <2>2. /\ EvForma(Append(e, fin)) /\ Ordenes(Append(e, fin)) = Ordenes(e) \cup {Len(e) + 1} /\ Len(e) \in Nat
        /\ \A i \in Ordenes(e) : Append(e, fin)[i] = e[i] /\ i \in 1..Len(e)
        /\ Append(e, fin)[Len(e) + 1] = fin
        /\ e # <<>> => Append(e, fin) # <<>> /\ Head(Append(e, fin)) = Head(e)
    BY <1>7, <2>1, EvMasCompletada
  <2> QED
    BY <2>2 DEF e
<1> HIDE DEF dos, uno
<1> USE DEF RespuestaInv
<1>8. EvForma(ev)' /\ Forma'
  BY <1>1, <1>2, <1>3, <1>5, <1>6 DEF Forma
<1>9. SUFFICES ASSUME fantasma.tapada = 0, an.disponible, EnOrden PROVE EnOrden'
  BY <1>1, <1>8 DEF Respuestas, Orden
<1>10. FormaAn(an) /\ LugarHw /\ Abortando
  BY <1>1, <1>9 DEF EnOrden
<1>11. AlDia' /\ LugarHw' /\ h.idx > 0 /\ h.idx \in Nat
       /\ (HcOrden => Pendiente /\ HcLugar.idx \in Nat)
  <2>1. CASE Pendiente
    <3>1. HcOrden
      BY <1>10, <2>1, PendienteOrden DEF Pendiente
    <3>2. hw'.idx = HcLugar.idx + 1 /\ hw'.ciclo = HcLugar.ciclo /\ an' = an
      BY <1>1, <1>3, <3>1
    <3>3. AlDia' /\ hw'.idx > 0 /\ LugarHw' /\ HcLugar.idx \in Nat
      BY <1>10, <2>1, <3>2, PendienteTras DEF Pendiente
    <3> QED
      BY <1>1, <2>1, <3>3, AnilloAssumption DEF LugarHw
  <2>2. CASE ~Pendiente
    <3>1. AlDia /\ hw.idx > 0
      BY <1>10, <2>2 DEF Abortando
    <3>2. ~HcOrden
      BY <1>10, <3>1, AlDiaQuieto
    <3>3. hw' = hw /\ an' = an /\ h = hw
      BY <1>1, <1>3, <3>2
    <3>4. AlDia' /\ LugarHw'
      BY <1>10, <3>1, <3>3, LugarIgual
    <3> QED
      BY <1>10, <3>1, <3>2, <3>3, <3>4, AnilloAssumption DEF LugarHw
  <2> QED
    BY <2>1, <2>2
<1>12. ASSUME Tapado PROVE Tapado'
  <2>1. ev # <<>>
    BY <1>12 DEF Tapado, Bloqueado
  <2>2. ev' # <<>> /\ Head(ev') = Head(ev)
    BY <1>2, <1>4, <1>5, <1>6, <2>1
  <2> QED
    BY <1>1, <1>12, <2>2, TapadoSigue
<1>13. ASSUME ~Tapado PROVE Contadas'
  <2>1. Contadas /\ (Pendiente => Ordenes(ev) = {}) /\ buzonCmd' = <<>> /\ buzonCmd = <<>>
    BY <1>1, <1>10, <1>13 DEF Abortando
  <2>2. CASE HcOrden
    <3>1. Ordenes(ev) = {} /\ ev' = dos
      BY <1>2, <1>11, <2>1, <2>2
    <3>2. PICK n, m : n = Len(ev) + 1 /\ m = Len(Append(ev, hecha)) + 1
      OBVIOUS
    <3>3. n \in Nat /\ m \in Nat /\ n < m /\ Ordenes(dos) = {n, m}
      BY <1>4, <1>6, <3>1, <3>2
    <3>4. dos[n].par \in Nat /\ dos[m].par \in Nat /\ dos[m].par > 0
      BY <1>4, <1>6, <1>7, <1>11, <2>2, <3>2
    <3> QED
      BY <2>1, <3>1, <3>3, <3>4 DEF Contadas
  <2>3. CASE ~HcOrden
    <3>1. ev' = uno
      BY <1>2, <2>3
    <3>2. PICK n : n = Len(ev) + 1
      OBVIOUS
    <3>3. /\ n \in Nat /\ Ordenes(uno) = Ordenes(ev) \cup {n} /\ uno[n].par \in Nat /\ uno[n].par > 0
          /\ \A i \in Ordenes(ev) : uno[i] = ev[i] /\ i \in Nat /\ i < n
      BY <1>4, <1>5, <1>7, <1>11, <3>2
    <3> QED
      BY <2>1, <3>1, <3>3 DEF Contadas
  <2> QED
    BY <2>2, <2>3
<1>14. Abortado'
  BY <1>11, <1>12, <1>13 DEF Abortado
<1> QED
  BY <1>1, <1>10, <1>11, <1>14 DEF EnOrden, Orden

-----------------------------------------------------------------------------
(* The waits of a command.                                                  *)

LEMMA VenceRespuesta ==
  ASSUME RespuestaInv, ComandoVence PROVE RespuestaInv'
<1> USE DEF RespuestaInv
<1>1. /\ pc = "comando" /\ pc' = "abortando" /\ buzonCmd = <<>> /\ ~Extraible
      /\ UNCHANGED <<hw, ev, an, buzonCmd, buzon, hid, loc, fantasma>>
  BY DEF ComandoVence
<1>2. Forma' /\ EvForma(ev)'
  BY <1>1 DEF Forma
<1>3. SUFFICES ASSUME fantasma.tapada = 0, an.disponible, EnOrden PROVE EnOrden'
  BY <1>1, <1>2 DEF Respuestas, Orden
<1>4. FormaAn(an) /\ LugarHw /\ EnCurso
  BY <1>1, <1>3 DEF EnOrden
<1>5. HcLugar' = HcLugar /\ AlDia' = AlDia /\ LugarHw'
  BY <1>1, <1>4, LugarIgual
<1>6. Pendiente' = Pendiente
  BY <1>1, <1>5 DEF Pendiente, PendienteEn
<1>7. ev = <<>> \/ Tapado
  BY <1>1 DEF Extraible, Bloqueado, Tapado
<1>8. Tapado => Tapado'
  <2>1. Tapado => ev # <<>>
    BY DEF Tapado, Bloqueado
  <2> QED
    BY <1>1, <2>1, TapadoSigue
<1>9. ASSUME ev = <<>> PROVE Contadas' /\ Ordenes(ev)' = {}
  <2>1. DOMAIN ev = {}
    BY <1>9
  <2>2. Ordenes(ev)' = {}
    BY <1>1, <2>1 DEF Ordenes
  <2> QED
    BY <2>2 DEF Contadas
<1>10. Abortando'
  BY <1>1, <1>4, <1>5, <1>6, <1>7, <1>8, <1>9 DEF Abortando, EnCurso
<1> QED
  BY <1>1, <1>4, <1>5, <1>10 DEF EnOrden, Orden

LEMMA NoParaRespuesta ==
  ASSUME RespuestaInv, ComandoNoPara PROVE RespuestaInv'
<1> USE DEF RespuestaInv
<1>1. /\ pc = "abortando" /\ an' = [an EXCEPT !.disponible = FALSE] /\ pc' = loc.ret
      /\ loc' = [loc EXCEPT !.res = "mal"] /\ UNCHANGED <<hw, ev, hid, fantasma>>
  BY DEF ComandoNoPara
<1>2. FormaLoc(loc') /\ pc' \notin Orden
  BY <1>1 DEF FormaLoc, Forma
<1>3. Forma' /\ EvForma(ev)'
  BY <1>1, <1>2 DEF Forma
<1>4. SUFFICES ASSUME fantasma.tapada = 0 PROVE fantasma.ajena = 0 /\ ~an'.disponible
  BY <1>1, <1>2, <1>3 DEF Respuestas
<1>5. EnOrden /\ fantasma.ajena = 0
  BY <1>1, <1>4 DEF Respuestas, Orden
<1>6. "disponible" \in DOMAIN an
  BY <1>5 DEF EnOrden, FormaAn
<1> QED
  BY <1>1, <1>5, <1>6

LEMMA AnilloNuevo ==
  ASSUME NEW c
  PROVE FormaAn(Anillo(c)) /\ Anillo(c).disponible /\ Anillo(c).idx = 0 /\ Anillo(c).ciclo = 1
<1> DEFINE a == Anillo(c)
<1>1. /\ {"celdas", "idx", "ciclo", "disponible"} \subseteq DOMAIN a
      /\ a.idx = 0 /\ a.ciclo = 1 /\ a.disponible
      /\ a.celdas = [i \in 0..(TamAnillo - 1) |->
                       [ciclo |-> IF i = TamAnillo - 1 THEN c ELSE 0, tipo |-> "nada", slot |-> 0, p |-> 0]]
  BY DEF Anillo
<1>2. /\ DOMAIN a.celdas = 0..(TamAnillo - 1)
      /\ \A i \in 0..(TamAnillo - 1) : "ciclo" \in DOMAIN a.celdas[i]
      /\ \A i \in 0..(TamAnillo - 2) : a.celdas[i].ciclo = 0
  BY <1>1, AnilloAssumption
<1> HIDE DEF a
<1>3. 0 \in 0..(TamAnillo - 2) /\ \A i \in 0..(TamAnillo - 2) : ~(i < 0)
  BY AnilloAssumption
<1>4. FormaAn(a)
  BY <1>1, <1>2, <1>3 DEF FormaAn
<1> QED
  BY <1>1, <1>4 DEF a

LEMMA ReconstruyeRespuesta ==
  ASSUME RespuestaInv, Reconstruye PROVE RespuestaInv'
<1> USE DEF RespuestaInv
<1>1. /\ pc = "abortado" /\ ~Extraible /\ an' = Anillo(1) /\ hw' = [hw EXCEPT !.idx = 0, !.ciclo = 1]
      /\ pc' = loc.ret /\ loc' = [loc EXCEPT !.res = "mal"]
      /\ fantasma' = [fantasma EXCEPT !.tapada = IF Tapado THEN 1 ELSE @]
      /\ UNCHANGED <<ev, hid>>
  BY DEF Reconstruye
<1>2. FormaLoc(loc') /\ pc' \notin Orden
  BY <1>1 DEF FormaLoc, Forma
<1>3. FormaHw(hw') /\ hw'.idx = 0 /\ hw'.ciclo = 1
  BY <1>1 DEF FormaHw, Forma
<1>4. FormaFan(fantasma') /\ fantasma'.ajena = fantasma.ajena
      /\ (fantasma'.tapada = 0 => fantasma.tapada = 0 /\ ~Tapado)
  BY <1>1 DEF FormaFan, Forma
<1>5. Forma' /\ EvForma(ev)'
  BY <1>1, <1>2, <1>3, <1>4 DEF Forma
<1>6. SUFFICES ASSUME fantasma.tapada = 0, ~Tapado
               PROVE fantasma.ajena = 0 /\ an'.disponible /\ EnOrden'
  BY <1>4, <1>5 DEF Respuestas
<1>7. EnOrden /\ fantasma.ajena = 0
  BY <1>1, <1>6 DEF Respuestas, Orden
<1>8. Contadas
  BY <1>1, <1>6, <1>7 DEF EnOrden, Abortado
<1>9. FormaAn(an)' /\ an'.disponible /\ an'.idx = 0 /\ an'.ciclo = 1
  BY <1>1, AnilloNuevo
<1>10. LugarHw' /\ AlDia'
  <2>1. hw'.idx # TamAnillo - 1
    BY <1>3, AnilloAssumption
  <2>2. HcLugar' = [idx |-> 0, ciclo |-> 1]
    BY <1>3, <2>1 DEF HcLugar
  <2> QED
    BY <1>3, <1>9, <2>2, AnilloAssumption DEF LugarHw, AlDia
<1>11. \A i \in Ordenes(ev) : ev[i].par \in Nat /\ ev[i].par > 0
  <2> SUFFICES ASSUME NEW i \in Ordenes(ev), ev[i].par \in Nat, ~(ev[i].par > 0) PROVE FALSE
    BY <1>8 DEF Contadas
  <2>1. buzonCmd = <<>> /\ \A j \in Ordenes(ev) : i <= j
    BY <1>8 DEF Contadas
  <2>2. i \in DOMAIN ev
    BY DEF Ordenes
  <2>3. ev # <<>>
    BY <2>2
  <2> QED
    BY <1>1, <1>6, <2>1, <2>3 DEF Extraible, Bloqueado, Tapado
<1>12. Reposo'
  BY <1>1, <1>9, <1>10, <1>11 DEF Reposo
<1> QED
  BY <1>2, <1>7, <1>9, <1>10, <1>12 DEF EnOrden, Orden

LEMMA ListoRespuesta ==
  ASSUME RespuestaInv, ComandoListo PROVE RespuestaInv'
<1> USE DEF RespuestaInv
<1> DEFINE e == buzonCmd[1]
<1>1. pc = "comando" /\ buzonCmd # <<>> /\ buzonCmd' = <<>> /\ UNCHANGED <<hw, ev, an, hid>>
  BY DEF ComandoListo
<1>2. EvForma(ev)'
  BY <1>1
<1>3. CASE Atrasada
  <2>1. UNCHANGED <<pc, loc, fantasma>>
    BY <1>3 DEF ComandoListo
  <2>2. Forma'
    BY <1>1, <2>1 DEF Forma
  <2>3. SUFFICES ASSUME fantasma.tapada = 0, an.disponible, EnOrden PROVE EnOrden'
    BY <1>1, <1>2, <2>1, <2>2 DEF Respuestas
  <2>4. FormaAn(an) /\ LugarHw /\ EnCurso
    BY <1>1, <2>3 DEF EnOrden
  <2>5. HcLugar' = HcLugar /\ AlDia' = AlDia /\ LugarHw'
    BY <1>1, <2>4, LugarIgual
  <2>6. Pendiente' = Pendiente
    BY <1>1, <2>1, <2>5 DEF Pendiente, PendienteEn
  <2>7. \A i \in Ordenes(ev) : Anterior(ev[i])' = Anterior(ev[i]) /\ Propia(ev[i])' = Propia(ev[i])
    BY <1>1, <2>1, <2>5 DEF Anterior, Propia
  <2>8. \A i \in Ordenes(ev)' : Anterior(ev[i])' \/ (Propia(ev[i])' /\ \A j \in Ordenes(ev)' : j <= i)
    BY <1>1, <2>4, <2>7 DEF EnCurso
  <2>9. EnCurso'
    BY <1>1, <2>4, <2>5, <2>6, <2>8 DEF EnCurso
  <2> QED
    BY <1>1, <2>1, <2>4, <2>5, <2>9 DEF EnOrden, Orden
<1>4. CASE ~Atrasada
  <2>1. /\ pc' = loc.ret
        /\ loc' = [loc EXCEPT !.res = IF e.cc = 1 THEN "ok" ELSE "mal", !.s = IF loc.ret = "habilitado" THEN e.slot ELSE @]
        /\ fantasma' = [fantasma EXCEPT !.ajena = IF e.vieja = 1 THEN 1 ELSE @]
        /\ e.par = loc.espera
    BY <1>4 DEF ComandoListo, Atrasada
  <2> HIDE DEF e
  <2>2. FormaLoc(loc') /\ pc' \notin Orden
    BY <2>1 DEF FormaLoc, Forma
  <2>3. FormaFan(fantasma') /\ fantasma'.tapada = fantasma.tapada
        /\ (e.vieja = 0 => fantasma'.ajena = fantasma.ajena)
    BY <2>1 DEF FormaFan, Forma
  <2>4. Forma'
    BY <1>1, <2>2, <2>3 DEF Forma
  <2>5. SUFFICES ASSUME fantasma.tapada = 0, an.disponible, EnOrden, fantasma.ajena = 0
                 PROVE fantasma'.ajena = 0 /\ EnOrden'
    BY <1>1, <1>2, <2>3, <2>4 DEF Respuestas, Orden
  <2>6. FormaAn(an) /\ LugarHw /\ EnCurso
    BY <1>1, <2>5 DEF EnOrden
  <2>7. ~Anterior(e)
    BY <2>1 DEF Anterior
  <2>8. Propia(e) /\ Ordenes(ev) = {}
    BY <1>1, <2>6, <2>7 DEF EnCurso, e
  <2>9. fantasma'.ajena = 0 /\ AlDia
    BY <2>3, <2>5, <2>8 DEF Propia
  <2>10. AlDia' /\ LugarHw'
    BY <1>1, <2>6, <2>9, LugarIgual
  <2>11. Reposo'
    BY <1>1, <2>8, <2>10 DEF Reposo
  <2> QED
    BY <1>1, <2>2, <2>6, <2>9, <2>10, <2>11 DEF EnOrden, Orden
<1> QED
  BY <1>3, <1>4

(* The pump takes the head of the ring.                                    *)
LEMMA DespachaForma ==
  ASSUME Forma, NEW e, Despacha(e)
  PROVE /\ FormaHw(hw') /\ hw'.idx = hw.idx /\ hw'.ciclo = hw.ciclo /\ FormaHid(hid')
        /\ (e.t = "comando" /\ buzonCmd' = <<e>>) \/ (e.t # "comando" /\ buzonCmd' = buzonCmd)
<1>1. CASE e.t # "transfer"
  BY <1>1 DEF Despacha, Forma
<1>2. CASE e.t = "transfer" /\ ~EsHid(e.slot, e.d)
  BY <1>2 DEF Despacha, Forma
<1>3. CASE e.t = "transfer" /\ EsHid(e.slot, e.d)
  <2>1. buzonCmd' = buzonCmd /\ ProcesarHid(e)
    BY <1>3 DEF Despacha
  <2>2. hw' = [hw EXCEPT !.colas[e.slot][ENTRA] = Append(@, "hid")]
    BY <2>1 DEF ProcesarHid, Rearma
  <2>3. FormaHw(hw') /\ hw'.idx = hw.idx /\ hw'.ciclo = hw.ciclo
    BY <2>2 DEF FormaHw, Forma
  <2>4. FormaHid(hid')
    BY <2>1 DEF ProcesarHid, FormaHid, Forma
  <2> QED
    BY <1>3, <2>1, <2>3, <2>4
<1> QED
  BY <1>1, <1>2, <1>3

LEMMA BombeaRespuesta ==
  ASSUME RespuestaInv, Bombea PROVE RespuestaInv'
<1> USE DEF RespuestaInv
<1> DEFINE e == Head(ev)
<1>1. /\ pc \in Esperas \cup {"ocio", "abortado"} /\ Extraible /\ ev' = Tail(ev) /\ Despacha(e)
      /\ UNCHANGED <<an, pc, loc, fantasma>>
  BY DEF Bombea
<1>2. ev # <<>>
  BY <1>1 DEF Extraible
<1>3. /\ EvForma(ev') /\ e = ev[1] /\ Ordenes(ev) \subseteq Nat \ {0} /\ Ordenes(ev)' \subseteq Nat \ {0}
      /\ \A i \in Ordenes(ev)' : i + 1 \in Ordenes(ev) /\ ev'[i] = ev[i + 1]
      /\ e.t = "comando" => 1 \in Ordenes(ev)
  BY <1>1, <1>2, EvMenos
<1> HIDE DEF e
<1>4. /\ FormaHw(hw') /\ hw'.idx = hw.idx /\ hw'.ciclo = hw.ciclo /\ FormaHid(hid')
      /\ (e.t = "comando" /\ buzonCmd' = <<e>>) \/ (e.t # "comando" /\ buzonCmd' = buzonCmd)
  BY <1>1, DespachaForma
<1>5. Forma'
  BY <1>1, <1>4 DEF Forma
<1>6. SUFFICES ASSUME fantasma.tapada = 0, an.disponible, EnOrden PROVE EnOrden'
  BY <1>1, <1>3, <1>5 DEF Respuestas
<1>7. FormaAn(an) /\ LugarHw
  BY <1>6 DEF EnOrden
<1>8. HcLugar' = HcLugar /\ AlDia' = AlDia /\ LugarHw'
  BY <1>1, <1>4, <1>7, LugarIgual
<1>9. Pendiente' = Pendiente
  BY <1>1, <1>8 DEF Pendiente, PendienteEn
<1>10. e.t = "comando" => buzonCmd = <<>>
  BY <1>1 DEF Extraible, Bloqueado, e
<1>11. ASSUME Reposo PROVE Reposo'
  BY <1>1, <1>3, <1>8, <1>11 DEF Reposo
<1>12. ASSUME EnCurso PROVE EnCurso'
  <2>1. \A i \in Ordenes(ev)' : (Anterior(ev[i + 1]) => Anterior(ev[i])') /\ (Propia(ev[i + 1]) => Propia(ev[i])')
    BY <1>1, <1>3, <1>8 DEF Anterior, Propia
  <2>2. \A i \in Ordenes(ev)' : Anterior(ev[i])' \/ (Propia(ev[i])' /\ \A j \in Ordenes(ev)' : j <= i)
    <3> SUFFICES ASSUME NEW i \in Ordenes(ev)', ~Anterior(ev[i + 1])
                 PROVE Propia(ev[i])' /\ \A j \in Ordenes(ev)' : j <= i
      BY <2>1
    <3>1. Propia(ev[i + 1]) /\ \A j \in Ordenes(ev) : j <= i + 1
      BY <1>3, <1>12 DEF EnCurso
    <3> QED
      BY <1>3, <2>1, <3>1
  <2>3. CASE e.t = "comando"
    <3>1. buzonCmd' # <<>> /\ buzonCmd'[1] = ev[1] /\ 1 \in Ordenes(ev)
      <4>1. buzonCmd' = <<e>>
        BY <1>4, <2>3
      <4>2. <<e>> # <<>> /\ <<e>>[1] = e
        OBVIOUS
      <4> QED
        BY <1>3, <2>3, <4>1, <4>2
    <3>2. Anterior(ev[1]) => Anterior(buzonCmd[1])'
      BY <1>1, <3>1 DEF Anterior
    <3>3. ASSUME ~Anterior(ev[1]) PROVE Propia(buzonCmd[1])' /\ Ordenes(ev)' = {}
      <4>1. Propia(ev[1]) /\ \A j \in Ordenes(ev) : j <= 1
        BY <1>12, <3>1, <3>3 DEF EnCurso
      <4>2. Propia(buzonCmd[1])'
        BY <1>8, <3>1, <4>1 DEF Propia
      <4> QED
        BY <1>3, <4>1, <4>2
    <3>4. Anterior(buzonCmd[1])' \/ (Propia(buzonCmd[1])' /\ Ordenes(ev)' = {})
      BY <3>2, <3>3
    <3> QED
      BY <1>4, <1>8, <1>9, <1>12, <2>2, <3>4 DEF EnCurso
  <2>4. CASE e.t # "comando"
    <3>1. buzonCmd' = buzonCmd
      BY <1>4, <2>4
    <3>2. (Anterior(buzonCmd[1]) => Anterior(buzonCmd[1])') /\ (Propia(buzonCmd[1]) => Propia(buzonCmd[1])')
      BY <1>1, <1>8, <3>1 DEF Anterior, Propia
    <3>3. Ordenes(ev) = {} => Ordenes(ev)' = {}
      BY <1>3
    <3>4. buzonCmd' # <<>> => Anterior(buzonCmd[1])' \/ (Propia(buzonCmd[1])' /\ Ordenes(ev)' = {})
      BY <1>12, <3>1, <3>2, <3>3 DEF EnCurso
    <3> QED
      BY <1>4, <1>8, <1>9, <1>12, <2>2, <3>4 DEF EnCurso
  <2> QED
    BY <2>3, <2>4
<1>13. ASSUME Abortado PROVE Abortado'
  <2>1. Contadas
    <3>1. ~Tapado
      BY <1>1 DEF Extraible, Tapado
    <3> QED
      BY <1>13, <3>1 DEF Abortado
  <2>2. \A i \in Ordenes(ev)' : ev'[i].par \in Nat
    BY <1>3, <2>1 DEF Contadas
  <2>3. CASE e.t = "comando"
    <3>1. \A i \in Ordenes(ev)' : ev'[i].par > 0
      <4> SUFFICES ASSUME NEW i \in Ordenes(ev)' PROVE ev[i + 1].par > 0
        BY <1>3
      <4>1. i + 1 \in Ordenes(ev) /\ 1 \in Ordenes(ev) /\ i \in Nat /\ i > 0
        BY <1>3, <2>3
      <4>2. ~(i + 1 <= 1)
        BY <4>1
      <4> QED
        BY <2>1, <4>1, <4>2 DEF Contadas
    <3> QED
      BY <1>8, <1>13, <2>2, <3>1 DEF Abortado, Contadas
  <2>4. CASE e.t # "comando"
    <3>1. buzonCmd' = buzonCmd
      BY <1>4, <2>4
    <3>2. \A i \in Ordenes(ev)' : ev'[i].par > 0 \/ (buzonCmd = <<>> /\ \A j \in Ordenes(ev)' : i <= j)
      <4> SUFFICES ASSUME NEW i \in Ordenes(ev)', ~(ev[i + 1].par > 0)
                   PROVE buzonCmd = <<>> /\ \A j \in Ordenes(ev)' : i <= j
        BY <1>3
      <4>1. buzonCmd = <<>> /\ \A j \in Ordenes(ev) : i + 1 <= j
        BY <1>3, <2>1 DEF Contadas
      <4>2. \A j \in Ordenes(ev)' : i + 1 <= j + 1 /\ i \in Nat /\ j \in Nat
        BY <1>3, <4>1
      <4> QED
        BY <4>1, <4>2
    <3> QED
      BY <1>8, <1>13, <2>2, <3>1, <3>2 DEF Abortado, Contadas
  <2> QED
    BY <2>3, <2>4
<1>14. pc' = pc /\ an' = an /\ pc # "abortando"
  BY <1>1 DEF Esperas
<1> QED
  BY <1>6, <1>7, <1>8, <1>11, <1>12, <1>13, <1>14 DEF EnOrden

-----------------------------------------------------------------------------
(* The steps of the driver between commands.                                *)

(* What is known of the driver's place and stack after each kind of end.   *)
Llega == FormaLoc(loc') /\ FormaHw(hw') /\ (Callado \/ Enviado)

LEMMA EnviarLlega ==
  ASSUME Forma, pc \notin Orden, NEW l, FormaLoc(l), NEW tipo, NEW s, NEW ret, ret \notin Orden,
         EsOrden(tipo, ret), tipo = "enable" \/ s = l.s,
         EnviarComando(l, tipo, s, ret)
  PROVE Llega
<1>1. hw' = hw /\ FormaHw(hw')
  BY DEF EnviarComando, Forma
<1>2. CASE an.disponible
  <2>1. /\ an' = Encola(an, [ciclo |-> an.ciclo, tipo |-> tipo, slot |-> s, p |-> l.p])
        /\ buzonCmd' = <<>> /\ ev' = Envejece /\ pc' = "comando"
        /\ loc' = [l EXCEPT !.ret = ret, !.espera = an.idx]
    BY <1>2 DEF EnviarComando
  <2>2. FormaLoc(loc') /\ loc'.espera = an.idx /\ loc'.ret = ret /\ loc'.s = l.s
    BY <2>1 DEF FormaLoc
  <2>3. \E t, z, p : /\ an' = Encola(an, [ciclo |-> an.ciclo, tipo |-> t, slot |-> z, p |-> p])
                     /\ EsOrden(t, loc'.ret) /\ (t = "enable" \/ z = loc'.s)
    BY <2>1, <2>2
  <2> QED
    BY <1>1, <1>2, <2>1, <2>2, <2>3 DEF Llega, Enviado
<1>3. CASE ~an.disponible
  <2>1. pc' = ret /\ loc' = [l EXCEPT !.res = "mal"] /\ UNCHANGED <<an, buzonCmd, ev>>
    BY <1>3 DEF EnviarComando
  <2>2. FormaLoc(loc')
    BY <2>1 DEF FormaLoc
  <2> QED
    BY <1>1, <2>1, <2>2 DEF Llega, Callado
<1> QED
  BY <1>2, <1>3

LEMMA LiberarLlega ==
  ASSUME Forma, pc \notin Orden, NEW l, FormaLoc(l), Liberar(l) PROVE Llega
<1>1. EnviarComando(l, "disable", l.s, "libera") /\ "libera" \notin Orden /\ EsOrden("disable", "libera")
  BY DEF Liberar, Orden, EsOrden
<1> QED
  BY <1>1, EnviarLlega

LEMMA ControlLlega ==
  ASSUME Forma, pc \notin Orden, NEW l, FormaLoc(l), NEW ret, ret \notin Orden, Control(l, ret) PROVE Llega
<1>1. /\ hw' = [hw EXCEPT !.colas[l.s][EP0] = Append(@, "control")]
      /\ pc' = "control" /\ loc' = [l EXCEPT !.ret = ret, !.d = EP0] /\ UNCHANGED <<an, ev>>
  BY DEF Control
<1>2. FormaHw(hw') /\ hw'.idx = hw.idx /\ hw'.ciclo = hw.ciclo
  BY <1>1 DEF FormaHw, Forma
<1>3. FormaLoc(loc')
  BY <1>1 DEF FormaLoc
<1> QED
  BY <1>1, <1>2, <1>3 DEF Llega, Callado, Orden

LEMMA LocVacioForma ==
  /\ FormaLoc(LocVacio)
  /\ \A m, p : FormaLoc([LocVacio EXCEPT !.modo = m, !.p = p])
  /\ \A m, p, s : FormaLoc([LocVacio EXCEPT !.modo = m, !.p = p, !.s = s])
  /\ \A s, u : FormaLoc([LocVacio EXCEPT !.s = s, !.u = u])
<1>1. {"ret", "espera", "modo", "p", "s", "bufs", "op", "res", "u"} \subseteq DOMAIN LocVacio /\ LocVacio.ret = "ocio" /\ "ocio" \notin Orden
  BY DEF LocVacio, Orden
<1> QED
  BY <1>1 DEF FormaLoc

LEMMA VuelveLlega ==
  ASSUME Forma, pc \notin Orden, NEW l, Vuelve(l) PROVE Llega
<1>1. UNCHANGED <<an, ev, hw>> /\ pc' \in {"ocio", "escanea"}
      /\ (loc' = LocVacio \/ loc' = [LocVacio EXCEPT !.modo = l.modo, !.p = l.p + 1])
  BY DEF Vuelve
<1>2. FormaLoc(loc')
  <2>1. PICK m, p : m = l.modo /\ p = l.p + 1
    OBVIOUS
  <2>2. FormaLoc([LocVacio EXCEPT !.modo = m, !.p = p])
    BY LocVacioForma
  <2>3. loc' = LocVacio \/ loc' = [LocVacio EXCEPT !.modo = m, !.p = p]
    BY <1>1, <2>1
  <2> QED
    BY <2>2, <2>3, LocVacioForma
<1> QED
  BY <1>1, <1>2 DEF Llega, Callado, Orden, Forma

LEMMA BulkLlega ==
  ASSUME Forma, pc \notin Orden, NEW l, FormaLoc(l), NEW d, NEW trbs, NEW ret, ret \notin Orden, Bulk(l, d, trbs, ret)
  PROVE Llega
<1>1. UNCHANGED <<an, ev>>
  BY DEF Bulk
<1>2. CASE <<l.s, d>> \in tab.bulk
  <2>1. /\ hw' = [hw EXCEPT !.colas[l.s][d] = @ \o trbs]
        /\ pc' = (IF Len(trbs) > 1 THEN "segmentada" ELSE "bulk") /\ loc' = [l EXCEPT !.d = d, !.ret = ret]
    BY <1>2 DEF Bulk
  <2>2. FormaHw(hw') /\ hw'.idx = hw.idx /\ hw'.ciclo = hw.ciclo
    BY <2>1 DEF FormaHw, Forma
  <2>3. FormaLoc(loc')
    BY <2>1 DEF FormaLoc
  <2>4. pc' \notin Orden
    BY <2>1 DEF Orden
  <2> QED
    BY <1>1, <2>2, <2>3, <2>4 DEF Llega, Callado
<1>3. CASE <<l.s, d>> \notin tab.bulk
  <2>1. pc' = "fin" /\ loc' = [l EXCEPT !.res = "mal"] /\ hw' = hw
    BY <1>3 DEF Bulk
  <2>2. FormaLoc(loc')
    BY <2>1 DEF FormaLoc
  <2> QED
    BY <1>1, <2>1, <2>2 DEF Llega, Callado, Orden, Forma
<1> QED
  BY <1>2, <1>3

(* A step that sends nothing and leaves the stack.                         *)
LEMMA QuietoLlega ==
  ASSUME Forma, pc \notin Orden, pc' \notin Orden, UNCHANGED <<an, ev, loc>>, FormaHw(hw'),
         hw'.idx = hw.idx, hw'.ciclo = hw.ciclo
  PROVE Llega
BY DEF Llega, Callado, Forma

LEMMA LlegaSigue == ASSUME Llega, FormaHid(hid'), FanIgual PROVE Sigue
BY DEF Llega, Sigue

LEMMA FanQuieta == ASSUME Forma, UNCHANGED fantasma PROVE FanIgual
BY DEF FanIgual, Forma

LEMMA HidQuieto == ASSUME Forma, UNCHANGED hid PROVE FormaHid(hid')
BY DEF Forma

-----------------------------------------------------------------------------
(* The enumeration.                                                         *)

LEMMA HabilitadoSigue == ASSUME Forma, Habilitado PROVE Sigue
<1>1. pc = "habilitado" /\ pc \notin Orden
  BY DEF Habilitado, Tras, Orden
<1>2. CASE loc.res # "ok"
  <2>1. Vuelve(loc) /\ UNCHANGED <<hid, fantasma>>
    BY <1>2 DEF Habilitado, Quieto
  <2> QED
    BY <1>1, <2>1, VuelveLlega, LlegaSigue, FanQuieta, HidQuieto
<1>3. CASE loc.res = "ok"
  <2> DEFINE ctx == <<"ctx", NuevoCtx>>
             uno == [loc EXCEPT !.bufs = {ctx}]
             dos == [loc EXCEPT !.bufs = {ctx, <<"in", 0>>}]
  <2>1. /\ hid' = hid /\ fantasma' = [fantasma EXCEPT !.huerfanas = @ \ {loc.s}]
        /\ \/ EnviarComando(dos, "address", loc.s, "direccionado")
           \/ Liberar(loc)
           \/ Liberar(uno)
    BY <1>3 DEF Habilitado
  <2>2. FormaLoc(loc) /\ FormaLoc(uno) /\ FormaLoc(dos)
    BY DEF Forma, FormaLoc
  <2>3. FanIgual
    BY <2>1 DEF FanIgual, Forma, FormaFan
  <2>4. "direccionado" \notin Orden /\ EsOrden("address", "direccionado") /\ dos.s = loc.s
    BY DEF Orden, EsOrden, Forma, FormaLoc
  <2> HIDE DEF ctx, uno, dos
  <2>5. Llega
    BY <1>1, <2>1, <2>2, <2>4, EnviarLlega, LiberarLlega
  <2> QED
    BY <2>1, <2>3, <2>5, LlegaSigue, HidQuieto
<1> QED
  BY <1>2, <1>3

LEMMA DireccionadoSigue == ASSUME Forma, Direccionado PROVE Sigue
<1> DEFINE l == [loc EXCEPT !.bufs = @ \cup {<<"desc", 0>>}]
<1>1. pc \notin Orden /\ hid' = hid /\ fantasma' = fantasma /\ (Liberar(loc) \/ Control(l, "descriptor8"))
  BY DEF Direccionado, Tras, Quieto, Orden
<1>2. FormaLoc(loc) /\ FormaLoc(l) /\ "descriptor8" \notin Orden
  BY DEF Forma, FormaLoc, Orden
<1> HIDE DEF l
<1> QED
  BY <1>1, <1>2, LiberarLlega, ControlLlega, LlegaSigue, FanQuieta, HidQuieto

LEMMA DescriptoresSigue ==
  ASSUME Forma, Descriptor8 \/ Evaluado \/ Descriptor18 \/ CabeceraCfg \/ Configurado PROVE Sigue
<1>1. /\ pc \notin Orden /\ hid' = hid /\ fantasma' = fantasma
      /\ \/ Liberar(loc)
         \/ EnviarComando(loc, "evaluar", loc.s, "evaluado")
         \/ \E r \in {"descriptor18", "cabecera", "configuracion", "puesta"} : Control(loc, r)
  BY DEF Descriptor8, Evaluado, Descriptor18, CabeceraCfg, Configurado, Tras, Quieto, Orden
<1>2. FormaLoc(loc) /\ "evaluado" \notin Orden /\ EsOrden("evaluar", "evaluado")
      /\ \A r \in {"descriptor18", "cabecera", "configuracion", "puesta"} : r \notin Orden
  BY DEF Forma, Orden, EsOrden
<1>3. Llega
  BY <1>1, <1>2, LiberarLlega, ControlLlega, EnviarLlega
<1> QED
  BY <1>1, <1>3, LlegaSigue, FanQuieta, HidQuieto

LEMMA ConfiguracionSigue == ASSUME Forma, Configuracion PROVE Sigue
<1>1. /\ pc \notin Orden /\ fantasma' = fantasma
      /\ \/ Liberar(loc) /\ hid' = hid
         \/ /\ EnviarComando(loc, "configurar", loc.s, "configurado")
            /\ hid' = hid \/ hid' = [hid EXCEPT !.est[loc.s] = "armado", !.ultimo[loc.s] = 0]
  BY DEF Configuracion, Tras, Orden
<1>2. FormaLoc(loc) /\ "configurado" \notin Orden /\ EsOrden("configurar", "configurado")
  BY DEF Forma, Orden, EsOrden
<1>3. Llega
  BY <1>1, <1>2, LiberarLlega, EnviarLlega
<1>4. FormaHid(hid')
  BY <1>1 DEF FormaHid, Forma
<1> QED
  BY <1>1, <1>3, <1>4, LlegaSigue, FanQuieta

LEMMA PuestaSigue ==
  ASSUME Forma, Puesta \/ Protocolo \/ ProtocoloLimpio \/ Inactividad PROVE Sigue
<1>1. /\ pc \notin Orden /\ hid' = hid /\ fantasma' = fantasma
      /\ \/ Liberar(loc)
         \/ \E r \in {"protocolo", "protocoloLimpio", "inactividad", "armar"} : Control(loc, r)
         \/ pc' \in {"registrar", "apunta", "armar"} /\ UNCHANGED <<loc, an, ev, hw>>
  BY DEF Puesta, Protocolo, ProtocoloLimpio, Inactividad, Tras, Quieto, Orden
<1>2. FormaLoc(loc) /\ FormaHw(hw)
  BY DEF Forma
<1>3. \A r \in {"protocolo", "protocoloLimpio", "inactividad", "armar", "registrar", "apunta"} : r \notin Orden
  BY DEF Orden
<1>4. \/ Liberar(loc)
      \/ \E r : r \notin Orden /\ Control(loc, r)
      \/ pc' \notin Orden /\ UNCHANGED <<loc, an, ev, hw>>
  BY <1>1, <1>3, Zenon
<1>5. pc \notin Orden /\ hid' = hid /\ fantasma' = fantasma
  BY <1>1, Zenon
<1>6. ASSUME pc' \notin Orden, UNCHANGED <<loc, an, ev, hw>> PROVE Llega
  BY <1>2, <1>5, <1>6, QuietoLlega
<1>7. Llega
  BY <1>2, <1>4, <1>5, <1>6, LiberarLlega, ControlLlega
<1> QED
  BY <1>5, <1>7, LlegaSigue, FanQuieta, HidQuieto

LEMMA ArmarSigue == ASSUME Forma, Armar PROVE Sigue
<1>1. /\ pc \notin Orden /\ pc' \notin Orden /\ UNCHANGED <<loc, an, ev, fantasma>>
      /\ hw' = [hw EXCEPT !.colas[loc.s][ENTRA] = [i \in 1..Rafaga |-> "hid"]]
      /\ hid' = [hid EXCEPT !.est[loc.s] = "activo"]
  BY DEF Armar, Tras, Orden
<1>2. FormaHw(hw') /\ hw'.idx = hw.idx /\ hw'.ciclo = hw.ciclo
  <2>1. PICK w : w = [i \in 1..Rafaga |-> "hid"]
    OBVIOUS
  <2>2. hw' = [hw EXCEPT !.colas[loc.s][ENTRA] = w]
    BY <1>1, <2>1
  <2> QED
    BY <2>2 DEF FormaHw, Forma
<1>3. FormaHid(hid')
  BY <1>1 DEF FormaHid, Forma
<1> QED
  BY <1>1, <1>2, <1>3, QuietoLlega, LlegaSigue, FanQuieta

LEMMA ApuntaSigue == ASSUME Forma, Apunta PROVE Sigue
<1>1. pc \notin Orden /\ UNCHANGED <<hid, fantasma>> /\ Vuelve(loc)
  BY DEF Apunta, Tras, Orden
<1> QED
  BY <1>1, VuelveLlega, LlegaSigue, FanQuieta, HidQuieto

LEMMA LiberaSigue == ASSUME Forma, Libera PROVE Sigue
<1>1. /\ pc \notin Orden /\ hid' = hid /\ Vuelve(loc)
      /\ fantasma' = [fantasma EXCEPT !.huerfanas = Huerfanas(loc.s)]
  BY DEF Libera, Tras, Orden
<1>2. FanIgual
  BY <1>1 DEF FanIgual, Forma, FormaFan
<1> QED
  BY <1>1, <1>2, VuelveLlega, LlegaSigue, HidQuieto

-----------------------------------------------------------------------------
(* The ports.                                                               *)

LEMMA ApagaForma ==
  ASSUME Forma, NEW s, Apaga(s) PROVE FormaHid(hid') /\ FanIgual
<1>1. /\ hid' = [hid EXCEPT !.est[s] = "no"]
      /\ fantasma' = [fantasma EXCEPT !.retiradas = IF hid.est[s] = "activo" THEN @ \cup {<<s, ENTRA>>} ELSE @]
  BY DEF Apaga
<1>2. FanIgual
  BY <1>1 DEF FanIgual, Forma, FormaFan
<1>3. FormaHid(hid')
  BY <1>1 DEF FormaHid, Forma
<1> QED
  BY <1>2, <1>3

LEMMA RetiradaSigue == ASSUME Forma, Retirada PROVE Sigue
<1>1. pc \notin Orden /\ hid' = hid /\ fantasma' = [fantasma EXCEPT !.huerfanas = Huerfanas(loc.s)]
  BY DEF Retirada, Orden
<1>2. FanIgual
  BY <1>1 DEF FanIgual, Forma, FormaFan
<1>3. CASE loc.modo = "forzado"
  <2>1. pc' = "reset" /\ loc' = [loc EXCEPT !.s = 0] /\ UNCHANGED <<an, ev, hw>>
    BY <1>3 DEF Retirada
  <2>2. FormaLoc(loc') /\ FormaHw(hw')
    BY <2>1 DEF FormaLoc, Forma
  <2>3. Llega
    BY <1>1, <2>1, <2>2 DEF Llega, Callado, Orden
  <2> QED
    BY <1>1, <1>2, <2>3, LlegaSigue, HidQuieto
<1>4. CASE loc.modo # "forzado"
  <2>1. Vuelve(loc)
    BY <1>4 DEF Retirada
  <2> QED
    BY <1>1, <1>2, <2>1, VuelveLlega, LlegaSigue, HidQuieto
<1> QED
  BY <1>3, <1>4

LEMMA EscaneoSigue ==
  ASSUME Forma, NEW p, EscaneoInicial(p) \/ SinCambio(p) \/ Conexion(p) \/ Rebote PROVE Sigue
<1>1. /\ pc \notin Orden /\ UNCHANGED <<hid, fantasma>>
      /\ Vuelve(loc) \/ (pc' \in {"reset", "rebote"} /\ UNCHANGED <<loc, an, ev, hw>>)
  BY DEF EscaneoInicial, SinCambio, Conexion, Rebote, Escanea, Orden
<1>2. FormaHw(hw) /\ "reset" \notin Orden /\ "rebote" \notin Orden
  BY DEF Forma, Orden
<1>3. ASSUME pc' \in {"reset", "rebote"}, UNCHANGED <<loc, an, ev, hw>> PROVE Llega
  BY <1>1, <1>2, <1>3, QuietoLlega
<1>4. Llega
  BY <1>1, <1>3, VuelveLlega
<1> QED
  BY <1>1, <1>4, LlegaSigue, FanQuieta, HidQuieto

LEMMA DesconexionSigue == ASSUME Forma, NEW p, Desconexion(p) PROVE Sigue
<1> DEFINE s == tab.puertoSlot[p]
           l == [loc EXCEPT !.s = s]
<1>1. /\ pc \notin Orden
      /\ \/ Vuelve(loc) /\ UNCHANGED <<hid, fantasma>>
         \/ Apaga(s) /\ EnviarComando(l, "disable", s, "retirada")
  BY DEF Desconexion, Escanea, Orden
<1>2. FormaLoc(l) /\ "retirada" \notin Orden /\ EsOrden("disable", "retirada") /\ l.s = s
  BY DEF FormaLoc, Forma, Orden, EsOrden
<1> HIDE DEF s, l
<1>3. CASE Vuelve(loc) /\ UNCHANGED <<hid, fantasma>>
  BY <1>1, <1>3, VuelveLlega, LlegaSigue, FanQuieta, HidQuieto
<1>4. CASE Apaga(s) /\ EnviarComando(l, "disable", s, "retirada")
  BY <1>1, <1>2, <1>4, EnviarLlega, ApagaForma, LlegaSigue
<1> QED
  BY <1>1, <1>3, <1>4

LEMMA ResetearSigue == ASSUME Forma, ResetearPuerto PROVE Sigue
<1> DEFINE previo == tab.puertoSlot[loc.p]
           l == [loc EXCEPT !.s = previo]
           borra == [hid EXCEPT !.est[previo] = "no"]
           f == [fantasma EXCEPT !.pisada = TRUE,
                   !.retiradas = IF hid.est[previo] = "activo" THEN @ \cup {<<previo, ENTRA>>} ELSE @]
<1>1. /\ pc \notin Orden
      /\ \/ EnviarComando(loc, "enable", 0, "habilitado") /\ UNCHANGED <<hid, fantasma>>
         \/ EnviarComando(l, "disable", previo, "previo") /\ hid' = borra /\ fantasma' = f
         \/ Vuelve(loc) /\ UNCHANGED <<hid, fantasma>>
  BY DEF ResetearPuerto, Orden
<1>2. /\ FormaLoc(l) /\ FormaLoc(loc) /\ "previo" \notin Orden /\ "habilitado" \notin Orden
      /\ EsOrden("disable", "previo") /\ EsOrden("enable", "habilitado") /\ l.s = previo
  BY DEF FormaLoc, Forma, Orden, EsOrden
<1>3. FormaHid(borra)
  BY DEF FormaHid, Forma
<1>4. FormaFan(f) /\ f.tapada = fantasma.tapada /\ f.ajena = fantasma.ajena /\ f.pisada
  BY DEF FormaFan, Forma
<1> HIDE DEF previo, l, borra, f
<1>5. CASE EnviarComando(loc, "enable", 0, "habilitado") /\ UNCHANGED <<hid, fantasma>>
  BY <1>1, <1>2, <1>5, EnviarLlega, LlegaSigue, FanQuieta, HidQuieto
<1>6. CASE EnviarComando(l, "disable", previo, "previo") /\ hid' = borra /\ fantasma' = f
  <2>1. FanIgual /\ FormaHid(hid')
    BY <1>3, <1>4, <1>6 DEF FanIgual
  <2> QED
    BY <1>1, <1>2, <1>6, <2>1, EnviarLlega, LlegaSigue
<1>7. CASE Vuelve(loc) /\ UNCHANGED <<hid, fantasma>>
  BY <1>1, <1>7, VuelveLlega, LlegaSigue, FanQuieta, HidQuieto
<1> QED
  BY <1>1, <1>5, <1>6, <1>7

LEMMA PrevioSigue == ASSUME Forma, SlotPrevio PROVE Sigue
<1> DEFINE l == [loc EXCEPT !.s = 0]
<1>1. /\ pc \notin Orden /\ hid' = hid /\ fantasma' = [fantasma EXCEPT !.huerfanas = Huerfanas(loc.s)]
      /\ EnviarComando(l, "enable", 0, "habilitado")
  BY DEF SlotPrevio, Orden
<1>2. FormaLoc(l) /\ "habilitado" \notin Orden /\ EsOrden("enable", "habilitado")
  BY DEF FormaLoc, Forma, Orden, EsOrden
<1>3. FanIgual
  BY <1>1 DEF FanIgual, Forma, FormaFan
<1> HIDE DEF l
<1> QED
  BY <1>1, <1>2, <1>3, EnviarLlega, LlegaSigue, HidQuieto

LEMMA ForzarSigue == ASSUME Forma, NEW p, ForzarResetPuerto(p) PROVE Sigue
<1> DEFINE s == tab.puertoSlot[p]
           l == [LocVacio EXCEPT !.modo = "forzado", !.p = p, !.s = s]
<1>1. /\ pc \notin Orden
      /\ \/ pc' = "reset" /\ loc' = l /\ UNCHANGED <<an, ev, hw, hid, fantasma>>
         \/ Apaga(s) /\ EnviarComando(l, "disable", s, "retirada")
  BY DEF ForzarResetPuerto, Orden
<1>2. FormaLoc(l) /\ "retirada" \notin Orden /\ EsOrden("disable", "retirada") /\ l.s = s
  <2>1. FormaLoc(l)
    BY LocVacioForma
  <2>2. l.s = s
    BY DEF LocVacio
  <2> QED
    BY <2>1, <2>2 DEF Orden, EsOrden
<1> HIDE DEF s, l
<1>3. CASE pc' = "reset" /\ loc' = l /\ UNCHANGED <<an, ev, hw, hid, fantasma>>
  <2>1. Llega
    BY <1>1, <1>2, <1>3 DEF Llega, Callado, Orden, Forma
  <2> QED
    BY <1>3, <2>1, LlegaSigue, FanQuieta, HidQuieto
<1>4. CASE Apaga(s) /\ EnviarComando(l, "disable", s, "retirada")
  BY <1>1, <1>2, <1>4, EnviarLlega, ApagaForma, LlegaSigue
<1> QED
  BY <1>1, <1>3, <1>4

LEMMA OcioSigue == ASSUME Forma, Sondeo \/ LeerCaracter PROVE Sigue
<1>1. CASE Sondeo
  <2>1. /\ pc = "ocio" /\ pc' = "escanea" /\ loc' = [LocVacio EXCEPT !.modo = "escaneo", !.p = 1]
        /\ UNCHANGED <<an, ev, hw, hid, fantasma>>
    BY <1>1 DEF Sondeo
  <2>2. FormaLoc(loc')
    BY <2>1, LocVacioForma
  <2>3. Llega
    BY <2>1, <2>2 DEF Llega, Callado, Orden, Forma
  <2> QED
    BY <2>1, <2>3, LlegaSigue, FanQuieta, HidQuieto
<1>2. CASE LeerCaracter
  <2>1. pc = "ocio" /\ hid' = [hid EXCEPT !.teclas = Tail(@)] /\ UNCHANGED <<pc, loc, an, ev, hw, fantasma>>
    BY <1>2 DEF LeerCaracter
  <2>2. FormaHid(hid')
    BY <2>1 DEF FormaHid, Forma
  <2>3. Llega
    BY <2>1 DEF Llega, Callado, Orden, Forma
  <2> QED
    BY <2>1, <2>2, <2>3, LlegaSigue, FanQuieta
<1> QED
  BY <1>1, <1>2

LEMMA ControlEsperaSigue == ASSUME Forma, ControlListo \/ ControlVence PROVE Sigue
<1>1. /\ pc = "control" /\ pc' = loc.ret /\ UNCHANGED <<hw, ev, an, hid>>
      /\ \E r : loc' = [loc EXCEPT !.res = r]
      /\ fantasma' = fantasma \/ fantasma' = [fantasma EXCEPT !.vencidas = @ \cup {<<loc.s, EP0>>}]
  BY DEF ControlListo, ControlVence
<1>2. FormaLoc(loc') /\ pc' \notin Orden
  BY <1>1 DEF FormaLoc, Forma
<1>3. FanIgual
  BY <1>1 DEF FanIgual, Forma, FormaFan
<1>4. Llega
  BY <1>1, <1>2 DEF Llega, Callado, Orden, Forma
<1> QED
  BY <1>1, <1>3, <1>4, LlegaSigue, HidQuieto

-----------------------------------------------------------------------------
(* The disks: the driver of the units, between commands.                    *)

LEMMA TransaccionLlega ==
  ASSUME Forma, pc \notin Orden, NEW l, FormaLoc(l), NEW op, Transaccion(l, op) PROVE Llega
<1> DEFINE k == [l EXCEPT !.op = op, !.etiqueta = msc.etiqueta]
<1>1. Bulk(k, SALE, <<"cbw">>, "datos") /\ "datos" \notin Orden
  BY DEF Transaccion, Orden
<1>2. FormaLoc(k)
  BY DEF FormaLoc
<1> HIDE DEF k
<1> QED
  BY <1>1, <1>2, BulkLlega

LEMMA RegistroSigue == ASSUME Forma, Registrar PROVE Sigue
<1> DEFINE libres == {u \in DOMAIN unidades : ~unidades[u].activo}
           u == CHOOSE x \in libres : \A y \in libres : x <= y
           l == [loc EXCEPT !.u = u, !.intento = 1]
<1>1. /\ pc \notin Orden /\ UNCHANGED <<hid, fantasma>>
      /\ (pc' = "apunta" /\ UNCHANGED <<loc, hw, an, ev>>) \/ Transaccion(l, "tur")
  BY DEF Registrar, MarcoMsc, Orden
<1>2. FormaLoc(l)
  BY DEF FormaLoc, Forma
<1> HIDE DEF libres, u, l
<1>3. Llega
  <2>1. CASE pc' = "apunta" /\ UNCHANGED <<loc, hw, an, ev>>
    BY <1>1, <2>1 DEF Llega, Callado, Orden, Forma
  <2>2. CASE Transaccion(l, "tur")
    BY <1>1, <1>2, <2>2, TransaccionLlega
  <2> QED
    BY <1>1, <2>1, <2>2
<1> QED
  BY <1>1, <1>3, LlegaSigue, FanQuieta, HidQuieto

LEMMA RegistroTrasSigue == ASSUME Forma, RegistrarSigue PROVE Sigue
<1> DEFINE l == [loc EXCEPT !.intento = @ + 1]
<1>1. /\ pc \notin Orden /\ UNCHANGED <<hid, fantasma>>
      /\ \/ pc' = "apunta" /\ UNCHANGED <<loc, hw, an, ev>>
         \/ Transaccion(l, "tur")
         \/ Transaccion(loc, "inq")
         \/ Transaccion(loc, "cap")
  BY DEF RegistrarSigue, MarcoMsc, Orden
<1>2. FormaLoc(l) /\ FormaLoc(loc)
  BY DEF FormaLoc, Forma
<1> HIDE DEF l
<1>3. Llega
  <2>1. CASE pc' = "apunta" /\ UNCHANGED <<loc, hw, an, ev>>
    BY <1>1, <2>1 DEF Llega, Callado, Orden, Forma
  <2>2. CASE Transaccion(l, "tur") \/ Transaccion(loc, "inq") \/ Transaccion(loc, "cap")
    BY <1>1, <1>2, <2>2, TransaccionLlega
  <2> QED
    BY <1>1, <2>1, <2>2
<1> QED
  BY <1>1, <1>3, LlegaSigue, FanQuieta, HidQuieto

LEMMA FasesSigue == ASSUME Forma, FaseDatos \/ FaseCsw PROVE Sigue
<1>1. /\ pc \notin Orden /\ UNCHANGED <<hid, fantasma>>
      /\ \/ pc' = "copia" /\ UNCHANGED <<loc, hw, an, ev>>
         \/ Bulk(loc, IF loc.op = "escribe" THEN SALE ELSE ENTRA, TrbsDeDatos(loc.op), "copia")
         \/ Bulk(loc, ENTRA, <<"csw">>, "valida")
  BY DEF FaseDatos, FaseCsw, MarcoMsc, Orden
<1>2. FormaLoc(loc) /\ "copia" \notin Orden /\ "valida" \notin Orden
  BY DEF Forma, Orden
<1>3. Llega
  <2>1. CASE pc' = "copia" /\ UNCHANGED <<loc, hw, an, ev>>
    BY <1>1, <2>1 DEF Llega, Callado, Orden, Forma
  <2>2. CASE Bulk(loc, IF loc.op = "escribe" THEN SALE ELSE ENTRA, TrbsDeDatos(loc.op), "copia")
    BY <1>1, <1>2, <2>2, BulkLlega
  <2>3. CASE Bulk(loc, ENTRA, <<"csw">>, "valida")
    BY <1>1, <1>2, <2>3, BulkLlega
  <2> QED
    BY <1>1, <2>1, <2>2, <2>3
<1> QED
  BY <1>1, <1>3, LlegaSigue, FanQuieta, HidQuieto

(* The waits of a bulk transfer, the check of the CSW, the way back.       *)
LEMMA BulkEsperaSigue ==
  ASSUME Forma, BulkListo \/ SegmentadaListo \/ BulkVence \/ Valida \/ Responder PROVE Sigue
<1>1. /\ pc \notin Orden /\ UNCHANGED <<hw, ev, an, hid>>
      /\ pc' \in {loc.ret, "fin", "ocio"}
      /\ loc' = LocVacio \/ \E r : loc' = [loc EXCEPT !.res = r]
      /\ fantasma' = fantasma \/ fantasma' = [fantasma EXCEPT !.vencidas = @ \cup {<<loc.s, loc.d>>}]
  <2>1. ASSUME BulkListo
        PROVE pc = "bulk" /\ UNCHANGED <<hw, ev, an, hid, fantasma>> /\ pc' \in {loc.ret, "fin"}
              /\ \E r : loc' = [loc EXCEPT !.res = r]
    BY <2>1 DEF BulkListo, MarcoMsc
  <2>2. ASSUME SegmentadaListo
        PROVE pc = "segmentada" /\ UNCHANGED <<hw, ev, an, hid, fantasma>> /\ pc' \in {loc.ret, "fin"}
              /\ \E r : loc' = [loc EXCEPT !.res = r]
    <3> DEFINE bien == \A i \in 1..2 : captura.codigos[i] \in Bien
    <3>1. pc = "segmentada" /\ UNCHANGED <<hw, ev, an, hid, fantasma>>
          /\ pc' = (IF bien THEN loc.ret ELSE "fin") /\ loc' = [loc EXCEPT !.res = IF bien THEN "ok" ELSE "mal"]
      BY <2>2 DEF SegmentadaListo, MarcoMsc
    <3> HIDE DEF bien
    <3> QED
      BY <3>1
  <2>3. ASSUME BulkVence
        PROVE /\ pc \in {"bulk", "segmentada"} /\ UNCHANGED <<hw, ev, an, hid>> /\ pc' = "fin"
              /\ loc' = [loc EXCEPT !.res = "mal"]
              /\ fantasma' = [fantasma EXCEPT !.vencidas = @ \cup {<<loc.s, loc.d>>}]
    BY <2>3 DEF BulkVence, MarcoMsc
  <2>4. ASSUME Valida
        PROVE pc = "valida" /\ UNCHANGED <<hw, ev, an, hid, fantasma>> /\ pc' = "fin"
              /\ \E r : loc' = [loc EXCEPT !.res = r]
    <3>1. /\ pc = "valida" /\ UNCHANGED <<hw, ev, an, hid, fantasma>> /\ pc' = "fin"
          /\ loc' = [loc EXCEPT !.res = IF CswAceptado THEN "ok" ELSE "mal"]
      BY <2>4 DEF Valida, MarcoMsc
    <3> QED
      BY <3>1
  <2>5. ASSUME Responder
        PROVE pc = "fin" /\ UNCHANGED <<hw, ev, an, hid, fantasma>> /\ pc' = "ocio" /\ loc' = LocVacio
    BY <2>5 DEF Responder, MarcoMsc
  <2> QED
    BY <2>1, <2>2, <2>3, <2>4, <2>5 DEF Orden
<1>2. FormaLoc(loc')
  <2>1. CASE loc' = LocVacio
    BY <2>1, LocVacioForma
  <2>2. CASE \E r : loc' = [loc EXCEPT !.res = r]
    BY <2>2 DEF FormaLoc, Forma
  <2> QED
    BY <1>1, <2>1, <2>2
<1>3. pc' \notin Orden
  BY <1>1 DEF FormaLoc, Forma, Orden
<1>4. FanIgual
  BY <1>1 DEF FanIgual, Forma, FormaFan
<1>5. Llega
  BY <1>1, <1>2, <1>3 DEF Llega, Callado, Forma
<1> QED
  BY <1>1, <1>4, <1>5, LlegaSigue, HidQuieto

LEMMA SectorialSigue == ASSUME Forma, NEW u, NEW op, Sectorial(u, op) PROVE Sigue
<1> DEFINE l == [LocVacio EXCEPT !.s = unidades[u].slot, !.u = u]
           k == [l EXCEPT !.op = op, !.etiqueta = msc.etiqueta]
<1>1. pc \notin Orden /\ UNCHANGED <<hid, fantasma>> /\ Bulk(k, SALE, <<"cbw">>, "datos") /\ "datos" \notin Orden
  BY DEF Sectorial, MarcoMsc, Orden
<1>2. FormaLoc(k)
  <2>1. FormaLoc(l)
    BY LocVacioForma
  <2> HIDE DEF l
  <2> QED
    BY <2>1 DEF FormaLoc
<1> HIDE DEF l, k
<1> QED
  BY <1>1, <1>2, BulkLlega, LlegaSigue, FanQuieta, HidQuieto

-----------------------------------------------------------------------------
(* The controller, the devices and the hand.                                *)

MarcoAmbiente ==
  /\ pc' = pc /\ loc' = loc /\ an' = an /\ buzonCmd' = buzonCmd /\ buzon' = buzon /\ fantasma' = fantasma

LEMMA CierraAmbiente ==
  ASSUME Forma, MarcoAmbiente, NEW s, NEW d, NEW cc, HcCierra(s, d, cc), FormaHid(hid'), hid'.est = hid.est
  PROVE Ambiente
<1>1. /\ hw' = [hw EXCEPT !.colas[s][d] = Tail(@), !.paradas = IF cc \in Bien THEN @ ELSE @ \cup {<<s, d>>}]
      /\ ev' = Append(ev, [t |-> "transfer", slot |-> s, d |-> d, cc |-> cc])
  BY DEF HcCierra
<1>2. FormaHw(hw') /\ hw'.idx = hw.idx /\ hw'.ciclo = hw.ciclo
  BY <1>1 DEF FormaHw, Forma
<1>3. [t |-> "transfer", slot |-> s, d |-> d, cc |-> cc].t # "comando"
  OBVIOUS
<1>4. \E x : x.t # "comando" /\ ev' = Append(ev, x)
  BY <1>1, <1>3
<1> QED
  BY <1>2, <1>4 DEF Ambiente, MarcoAmbiente

LEMMA ManoAmbiente ==
  ASSUME Forma, NEW p, NEW t, Enchufa(p, t) \/ Desenchufa(p) PROVE Ambiente
<1>1. ev' = AvisoPuerto /\ UNCHANGED <<hw, hid>> /\ MarcoAmbiente
  BY DEF Enchufa, Desenchufa, MarcoHc, MarcoAmbiente
<1>2. [t |-> "puerto"].t # "comando"
  OBVIOUS
<1>3. ev' = ev \/ \E x : x.t # "comando" /\ ev' = Append(ev, x)
  BY <1>1, <1>2 DEF AvisoPuerto
<1> QED
  BY <1>1, <1>3 DEF Ambiente, MarcoAmbiente, Forma

LEMMA DispositivoAmbiente ==
  ASSUME Forma, NEW s, NEW d, HcControl(s) \/ HcReporte(s) \/ HcSinDispositivo(s, d) PROVE Ambiente
<1>1. CASE HcControl(s)
  <2>1. MarcoAmbiente /\ hid' = hid /\ (HcCierra(s, EP0, 1) \/ HcCierra(s, EP0, 6))
    BY <1>1 DEF HcControl, MarcoHc, MarcoAmbiente
  <2> QED
    BY <2>1, CierraAmbiente, HidQuieto
<1>2. CASE HcReporte(s)
  <2>1. MarcoAmbiente /\ hid' = [hid EXCEPT !.bufer[s] = 1 - @] /\ HcCierra(s, ENTRA, 1)
    BY <1>2 DEF HcReporte, MarcoHc, MarcoAmbiente
  <2>2. FormaHid(hid') /\ hid'.est = hid.est
    BY <2>1 DEF FormaHid, Forma
  <2> QED
    BY <2>1, <2>2, CierraAmbiente
<1>3. CASE HcSinDispositivo(s, d)
  <2>1. MarcoAmbiente /\ hid' = hid /\ HcCierra(s, d, 4)
    BY <1>3 DEF HcSinDispositivo, MarcoHc, MarcoAmbiente
  <2> QED
    BY <2>1, CierraAmbiente, HidQuieto
<1> QED
  BY <1>1, <1>2, <1>3

LEMMA DiscoAmbiente == ASSUME Forma, NEW s, Disco(s) PROVE Ambiente
<1> DEFINE g == hw.ran[s].g
<1>1. MarcoAmbiente /\ hid' = hid
  BY DEF Disco, MarcoHc, MarcoAmbiente
<1>2. DiscoRecibe(s, g, Head(hw.colas[s][SALE])) \/ DiscoEnvia(s, g, Head(hw.colas[s][ENTRA]))
  BY DEF Disco
<1>3. ASSUME NEW x, NEW trb, DiscoRecibe(s, x, trb) PROVE \E d, cc : HcCierra(s, d, cc)
  BY <1>3 DEF DiscoRecibe
<1>4. ASSUME NEW x, NEW trb, DiscoEnvia(s, x, trb) PROVE \E d, cc : HcCierra(s, d, cc)
  BY <1>4 DEF DiscoEnvia
<1>5. PICK d, cc : HcCierra(s, d, cc)
  BY <1>2, <1>3, <1>4
<1> QED
  BY <1>1, <1>5, CierraAmbiente, HidQuieto

-----------------------------------------------------------------------------
(* The invariant, and what follows from it.                                 *)

LEMMA RespuestaInicial == UsbInit => RespuestaInv
<1> SUFFICES ASSUME UsbInit PROVE RespuestaInv
  OBVIOUS
<1>1. /\ hw = HwInicio /\ ev = <<>> /\ an = Anillo(0) /\ hid = HidInicio /\ pc = "escanea"
      /\ loc = [LocVacio EXCEPT !.modo = "inicial", !.p = 1]
      /\ fantasma = [vencidas |-> {}, retiradas |-> {}, huerfanas |-> {}, pisada |-> FALSE, tapada |-> 0, ajena |-> 0]
  BY DEF UsbInit, XhciInit
<1>2. FormaLoc(loc)
  BY <1>1, LocVacioForma
<1>3. FormaHw(hw) /\ hw.idx = 0 /\ hw.ciclo = 1
  BY <1>1 DEF FormaHw, HwInicio
<1>4. FormaHid(hid)
  BY <1>1 DEF FormaHid, HidInicio
<1>5. FormaFan(fantasma) /\ fantasma.ajena = 0
  BY <1>1 DEF FormaFan
<1>6. Ordenes(ev) = {} /\ EvForma(ev)
  <2>1. DOMAIN ev = {} /\ ev \in Seq({})
    BY <1>1
  <2>2. {ev[i] : i \in DOMAIN ev} = {}
    BY <2>1
  <2>3. Ordenes(ev) = {}
    BY <2>1 DEF Ordenes
  <2> QED
    BY <2>1, <2>2, <2>3 DEF EvForma, EsSec
<1>7. FormaAn(an) /\ an.disponible /\ an.idx = 0 /\ an.ciclo = 1
  BY <1>1, AnilloNuevo
<1>8. LugarHw /\ AlDia
  <2>1. hw.idx # TamAnillo - 1
    BY <1>3, AnilloAssumption
  <2>2. HcLugar = [idx |-> 0, ciclo |-> 1]
    BY <1>3, <2>1 DEF HcLugar
  <2> QED
    BY <1>3, <1>7, <2>2, AnilloAssumption DEF LugarHw, AlDia
<1>9. EnOrden
  BY <1>1, <1>6, <1>7, <1>8 DEF EnOrden, Reposo, Orden
<1> QED
  BY <1>2, <1>3, <1>4, <1>5, <1>6, <1>7, <1>9 DEF RespuestaInv, Respuestas, Forma

LEMMA RespuestaPaso == RespuestaInv /\ [UsbNext]_usbVars => RespuestaInv'
<1> SUFFICES ASSUME RespuestaInv, [UsbNext]_usbVars PROVE RespuestaInv'
  OBVIOUS
<1>1. Forma
  BY DEF RespuestaInv
<1>2. ASSUME Enumeracion PROVE RespuestaInv'
  BY <1>1, <1>2, SigueRespuesta, HabilitadoSigue, DireccionadoSigue, DescriptoresSigue, ConfiguracionSigue, PuestaSigue,
     ArmarSigue, ApuntaSigue, LiberaSigue DEF Enumeracion
<1>3. ASSUME Espera PROVE RespuestaInv'
  BY <1>1, <1>3, SigueRespuesta, ListoRespuesta, VenceRespuesta, NoParaRespuesta, ReconstruyeRespuesta,
     ControlEsperaSigue DEF Espera
<1>4. ASSUME PuertosNext PROVE RespuestaInv'
  BY <1>1, <1>4, SigueRespuesta, EscaneoSigue, DesconexionSigue, ForzarSigue, RetiradaSigue, ResetearSigue,
     PrevioSigue DEF PuertosNext
<1>5. ASSUME Mundo PROVE RespuestaInv'
  BY <1>1, <1>5, AmbienteRespuesta, ManoAmbiente, DispositivoAmbiente, ParaRespuesta, EjecutaRespuesta DEF Mundo
<1>6. ASSUME XhciNext PROVE RespuestaInv'
  BY <1>1, <1>2, <1>3, <1>4, <1>5, <1>6, BombeaRespuesta, OcioSigue, SigueRespuesta DEF XhciNext
<1>7. ASSUME Discos PROVE RespuestaInv'
  BY <1>1, <1>7, SigueRespuesta, AmbienteRespuesta, RegistroSigue, RegistroTrasSigue, FasesSigue, BulkEsperaSigue,
     SectorialSigue, DiscoAmbiente DEF Discos, LeerSectores, EscribirSectores
<1>8. ASSUME UNCHANGED usbVars PROVE RespuestaInv'
  <2>1. Ambiente
    BY <1>1, <1>8 DEF usbVars, xhciVars, Ambiente, Forma
  <2> QED
    BY <2>1, AmbienteRespuesta
<1> QED
  BY <1>6, <1>7, <1>8 DEF UsbNext

(* The completion a command accepts is its own: one of an earlier command  *)
(* that timed out is dropped, because its TRB is another (xhci.c:919), or  *)
(* is gone when the ring is built again (xhci.c:1042); unless a transfer   *)
(* event that cannot be taken hid it then (xhci.c:402).                    *)
THEOREM RespuestaPropiaCorrecta == UsbSpec => []RespuestaPropia
<1>1. RespuestaInv => RespuestaPropia
  BY DEF RespuestaInv, Forma, FormaFan, Respuestas, RespuestaPropia
<1> QED
  BY <1>1, RespuestaInicial, RespuestaPaso, PTL DEF UsbSpec

-----------------------------------------------------------------------------
(* The tables.  Etapa is the stretch of the driver that runs, or the one   *)
(* that runs when the wait under way ends.                                 *)

EnEspera == Esperas \cup Orden
Etapa == IF pc \in EnEspera THEN loc.ret ELSE pc

Sueltas == {"ocio", "escanea", "rebote", "reset", "habilitado", "libera", "retirada"}
DeLectura == {"lee", "escribe"}
DeBulk == {"datos", "copia", "valida", "fin"}

(* A device is being enumerated: its slot and its buffers are in hand; its *)
(* unit may be active; its slot is in hand or on its way out.              *)
EnMano == Etapa \notin Sueltas /\ loc.op \notin DeLectura
Registrando == EnMano /\ Etapa \in DeBulk \cup {"apunta"}
Dispone == EnMano \/ Etapa = "libera"

Mapeada(s) == tab.slotPuerto[s] # 0
Retirando(s) == Etapa = "retirada" /\ loc.s = s
Ctx(s) == <<"ctx", tab.dcbaa[s]>>

FormaTab ==
  /\ {"puertoSlot", "slotPuerto", "slotCtx", "dcbaa", "bulk"} \subseteq DOMAIN tab
  /\ tab.puertoSlot \in [Puertos -> Ranuras \cup {0}] /\ tab.slotPuerto \in [Ranuras -> Puertos \cup {0}]
  /\ DOMAIN tab.slotCtx = Ranuras /\ DOMAIN tab.dcbaa = Ranuras
FormaRan == DOMAIN hw.ran = Ranuras /\ \A s \in Ranuras : {"est", "ctx"} \subseteq DOMAIN hw.ran[s]
FormaUni == DOMAIN unidades = 1..MaxUnidades /\ \A u \in 1..MaxUnidades : {"activo", "slot"} \subseteq DOMAIN unidades[u]
FormaTablas == FormaTab /\ FormaRan /\ FormaUni /\ IsFiniteSet(dma) /\ DOMAIN hid.est = Ranuras

(* The maps are inverse of each other; the slot in a map is one of the     *)
(* controller, with a context of its own.                                  *)
Mapas == \A p \in Puertos, s \in Ranuras : (tab.puertoSlot[p] = s) <=> (tab.slotPuerto[s] = p)
Mapeadas ==
  \A s \in Ranuras : Mapeada(s) =>
    /\ tab.dcbaa[s] = tab.slotCtx[s] /\ s \notin fantasma.huerfanas
    /\ Retirando(s) \/ hw.ran[s].est # "libre"
    /\ \A r \in Ranuras : Mapeada(r) /\ r # s => tab.slotCtx[r] # tab.slotCtx[s]

(* The DMA buffers are the contexts of the slots in the maps and what the  *)
(* call under way holds.                                                   *)
Guardado(b) == \E s \in Ranuras : Mapeada(s) /\ b = <<"ctx", tab.slotCtx[s]>>
Memoria == \A b : b \in dma <=> Guardado(b) \/ b \in loc.bufs

(* The call under way.                                                     *)
Llamada ==
  /\ Etapa \notin EnEspera \cup {"previo"}
  /\ Dispone =>
       /\ loc.p \in Puertos /\ loc.s \in Ranuras /\ tab.puertoSlot[loc.p] = 0 /\ ~Mapeada(loc.s)
       /\ loc.s \notin fantasma.huerfanas
       /\ loc.bufs \subseteq {Ctx(loc.s), <<"in", 0>>, <<"desc", 0>>}
       /\ Ctx(loc.s) \in loc.bufs => \A r \in Ranuras : Mapeada(r) => tab.slotCtx[r] # tab.dcbaa[loc.s]
  /\ EnMano => Ctx(loc.s) \in loc.bufs /\ hw.ran[loc.s].est # "libre"
  /\ ~Dispone => loc.bufs = {}
  /\ Etapa = "retirada" => loc.p \in Puertos /\ loc.s \in Ranuras /\ tab.puertoSlot[loc.p] = loc.s
  /\ Etapa = "habilitado" => loc.p \in Puertos /\ tab.puertoSlot[loc.p] = 0
  /\ Etapa \in {"reset", "rebote"} => loc.p \in Puertos
  /\ loc.op \in DeLectura => Etapa \in DeBulk

(* An addressed slot is in the maps or in hand, and its context alive.     *)
Direcciones ==
  \A s \in Ranuras : hw.ran[s].est = "dir" =>
    \/ s \in fantasma.huerfanas
    \/ Mapeada(s) /\ hw.ran[s].ctx = tab.slotCtx[s]
    \/ Dispone /\ loc.s = s /\ <<"ctx", hw.ran[s].ctx>> \in loc.bufs

(* Endpoints come in pairs; units and keyboards have a slot.               *)
Parejas ==
  /\ \A s \in Ranuras : <<s, SALE>> \in tab.bulk <=> <<s, ENTRA>> \in tab.bulk
  /\ Etapa = "registrar" => <<loc.s, SALE>> \in tab.bulk
ConRanura(s) == (s \in Ranuras /\ Mapeada(s) /\ ~Retirando(s)) \/ (Registrando /\ s = loc.s)
Unidades ==
  \A u \in DOMAIN unidades : unidades[u].activo =>
    /\ ConRanura(unidades[u].slot) /\ <<unidades[u].slot, SALE>> \in tab.bulk
    /\ \A v \in DOMAIN unidades : unidades[v].activo /\ unidades[v].slot = unidades[u].slot => v = u
Teclados ==
  \A s \in Ranuras : hid.est[s] = "activo" =>
    (Mapeada(s) /\ ~Retirando(s)) \/ (EnMano /\ Etapa = "apunta" /\ loc.s = s)

Tablas == FormaTablas /\ Mapas /\ Mapeadas /\ Memoria /\ Llamada /\ Direcciones /\ Parejas /\ Unidades /\ Teclados

-----------------------------------------------------------------------------
(* Commands and their answers.                                              *)

Contestas == {"habilitado", "direccionado", "libera", "retirada"}

(* What an answer that says yes means.                                     *)
Contestada ==
  loc.res = "ok" =>
  /\ pc = "habilitado" => loc.s \in Ranuras /\ hw.ran[loc.s].est = "habilitada" /\ ~Mapeada(loc.s)
  /\ pc \in {"libera", "retirada"} => hw.ran[loc.s].est = "libre"
Hecho(e) ==
  /\ loc.ret = "habilitado" => e.slot \in Ranuras /\ hw.ran[e.slot].est = "habilitada" /\ ~Mapeada(e.slot)
  /\ loc.ret \in {"libera", "retirada"} => hw.ran[loc.s].est = "libre"
Dicha(e) == e.vieja # 1 => AlDia /\ (e.cc = 1 => Hecho(e))

Esperando ==
  /\ pc = "control" => loc.ret \notin Contestas
  /\ pc \in {"bulk", "segmentada"} => loc.ret \in {"datos", "copia", "valida"}

(* The command awaited, while the ring is in use; the one the driver gave  *)
(* up, and that the controller may do at any later moment, after that.     *)
LaOrden(c) == EsOrden(c.tipo, loc.ret) /\ (c.tipo = "enable" \/ c.slot = loc.s)
EnUso ==
  /\ pc \notin {"comando", "abortando"} => AlDia
  /\ pc \in {"comando", "abortando"} => AlDia \/ (Pendiente /\ LaOrden(an.celdas[loc.espera]))
  /\ pc = "comando" => /\ \A i \in Ordenes(ev) : Dicha(ev[i])
                       /\ buzonCmd # <<>> => Dicha(buzonCmd[1])
Abandonada(c) ==
  /\ c.tipo = "disable" => c.slot \in fantasma.huerfanas \/ (loc.s = c.slot /\ pc \in {"libera", "retirada"})
  /\ c.tipo = "address" => \/ c.slot \in fantasma.huerfanas
                           \/ loc.s = c.slot /\ pc \in {"direccionado", "libera"} /\ Ctx(loc.s) \in loc.bufs
EnDesuso ==
  /\ pc \notin Orden
  /\ pc \in Contestas => loc.res # "ok"
  /\ AlDia \/ \E k : PendienteEn(k) /\ Abandonada(an.celdas[k])
Ordenada == FormaAn(an) /\ LugarHw /\ IF an.disponible THEN EnUso ELSE EnDesuso

Limpia == ~fantasma.pisada /\ fantasma.ajena = 0
Coherencia == Tablas /\ Contestada /\ Esperando /\ Ordenada
CoherenciaInv == RespuestaInv /\ (Limpia => Coherencia)

-----------------------------------------------------------------------------
(* Least elements, and the context that is taken.                           *)

LEMMA MenorDe ==
  ASSUME NEW S \in SUBSET Nat, S # {}
  PROVE  \E m \in S : \A y \in S : m <= y
<1> DEFINE R == OpToRel(<, Nat)
<1>1. IsWellFoundedOn(R, Nat)
  BY NatLessThanWellFounded
<1>2. R = {x \in Nat \X Nat : x[1] < x[2]}
  BY DEF OpToRel
<1> HIDE DEF R
<1>3. PICK m \in S : \A u \in S : <<u, m>> \notin R
  BY <1>1, WFMin
<1>4. \A u \in S : m <= u
  <2> SUFFICES ASSUME NEW u \in S PROVE m <= u
    OBVIOUS
  <2>1. m \in Nat /\ u \in Nat
    OBVIOUS
  <2>2. ~(u < m)
    BY <1>2, <1>3, <2>1
  <2> QED
    BY <2>1, <2>2
<1> QED
  BY <1>4

LEMMA CtxNuevo ==
  ASSUME IsFiniteSet(dma) PROVE <<"ctx", NuevoCtx>> \notin dma
<1> DEFINE c(k) == <<"ctx", k>>
           n == Cardinality(dma)
           K == {k \in 1..(n + 1) : c(k) \notin dma}
<1>1. n \in Nat
  BY FS_CardinalityType
<1> HIDE DEF n
<1>2. K # {}
  <2> SUFFICES ASSUME \A k \in 1..(n + 1) : c(k) \in dma PROVE FALSE
    OBVIOUS
  <2> DEFINE f == [k \in 1..(n + 1) |-> c(k)]
  <2>1. \A j, k : c(j) = c(k) => j = k
    OBVIOUS
  <2>2. f \in [1..(n + 1) -> dma] /\ \A k \in 1..(n + 1) : f[k] = c(k)
    OBVIOUS
  <2> HIDE DEF f, c
  <2>3. f \in Injection(1..(n + 1), dma)
    BY <2>1, <2>2 DEF Injection, IsInjective
  <2>4. Cardinality(1..(n + 1)) <= n
    BY <2>3, FS_Injection DEF n
  <2>5. Cardinality(1..(n + 1)) = n + 1
    <3>1. Cardinality(1..(n + 1)) = IF 1 > n + 1 THEN 0 ELSE n + 1 - 1 + 1
      BY <1>1, FS_Interval
    <3> QED
      BY <1>1, <3>1
  <2> QED
    BY <1>1, <2>4, <2>5
<1>3. K \in SUBSET Nat
  BY <1>1
<1>4. PICK m \in K : \A y \in K : m <= y
  BY <1>2, <1>3, MenorDe
<1>5. m \in 1..(n + 1) /\ c(m) \notin dma
  OBVIOUS
<1>6. \A j \in 1..(m - 1) : c(j) \in dma
  <2> SUFFICES ASSUME NEW j \in 1..(m - 1), c(j) \notin dma PROVE FALSE
    OBVIOUS
  <2>1. j \in 1..(n + 1) /\ j < m
    BY <1>1, <1>5
  <2>2. j \in K
    BY <2>1
  <2> QED
    BY <1>1, <1>4, <1>5, <2>1, <2>2
<1>7. NuevoCtx = CHOOSE k \in 1..(n + 1) : c(k) \notin dma /\ \A j \in 1..(k - 1) : c(j) \in dma
  BY DEF NuevoCtx, n
<1> DEFINE bueno(k) == k \in 1..(n + 1) /\ c(k) \notin dma /\ \A j \in 1..(k - 1) : c(j) \in dma
<1>8. NuevoCtx = CHOOSE k : bueno(k)
  BY <1>7
<1>9. bueno(m)
  BY <1>5, <1>6
<1> HIDE DEF bueno
<1>10. bueno(NuevoCtx)
  BY <1>8, <1>9
<1> QED
  BY <1>10 DEF bueno
-----------------------------------------------------------------------------
(* Steps that leave the tables: the stretch changes, and what is in hand   *)
(* stays in hand or nothing was.                                           *)

ConservaTab ==
  /\ DOMAIN tab' = DOMAIN tab /\ tab'.puertoSlot = tab.puertoSlot /\ tab'.slotPuerto = tab.slotPuerto
  /\ tab'.slotCtx = tab.slotCtx /\ tab'.dcbaa = tab.dcbaa
Conserva == ConservaTab /\ hw'.ran = hw.ran /\ fantasma'.huerfanas = fantasma.huerfanas
MarcoTab == ConservaTab /\ tab'.bulk = tab.bulk
MarcoTablas ==
  /\ MarcoTab /\ hw'.ran = hw.ran /\ hid'.est = hid.est /\ unidades' = unidades /\ dma' = dma
  /\ fantasma'.huerfanas = fantasma.huerfanas
MismaPila == loc'.p = loc.p /\ loc'.s = loc.s /\ loc'.bufs = loc.bufs

LEMMA MarcoForma == ASSUME FormaTablas, MarcoTablas PROVE FormaTablas'
<1>1. FormaTab'
  BY DEF FormaTablas, FormaTab, MarcoTablas, MarcoTab, ConservaTab
<1>2. FormaRan' /\ FormaUni'
  BY DEF FormaTablas, FormaRan, FormaUni, MarcoTablas
<1> QED
  BY <1>1, <1>2 DEF FormaTablas, MarcoTablas

LEMMA MarcoGuardado ==
  ASSUME ConservaTab
  PROVE /\ \A s : Mapeada(s)' = Mapeada(s)
        /\ \A b : Guardado(b)' = Guardado(b)
        /\ \A s : Ctx(s)' = Ctx(s)
        /\ Mapas => Mapas'
<1>1. \A s : Mapeada(s)' = Mapeada(s)
  BY DEF Mapeada, ConservaTab
<1>2. \A b : Guardado(b)' = Guardado(b)
  BY <1>1 DEF Guardado, ConservaTab
<1>3. Mapas => Mapas'
  BY DEF Mapas, ConservaTab
<1> QED
  BY <1>1, <1>2, <1>3 DEF Ctx, ConservaTab

LEMMA MismaEtapa ==
  ASSUME Tablas, MarcoTablas, MismaPila, loc'.op = loc.op, Etapa' = Etapa PROVE Tablas'
<1>1. FormaTablas'
  BY MarcoForma DEF Tablas
<1>2. EnMano' = EnMano /\ Dispone' = Dispone /\ Registrando' = Registrando /\ \A s : Retirando(s)' = Retirando(s)
  BY DEF EnMano, Dispone, Registrando, Retirando, MismaPila
<1>3. /\ \A s : Mapeada(s)' = Mapeada(s)
      /\ \A b : Guardado(b)' = Guardado(b)
      /\ \A s : Ctx(s)' = Ctx(s)
      /\ Mapas'
  BY MarcoGuardado DEF Tablas, MarcoTablas, MarcoTab
<1>4. Mapeadas'
  BY <1>2, <1>3 DEF Tablas, Mapeadas, MarcoTablas, MarcoTab, ConservaTab
<1>5. Memoria'
  BY <1>3 DEF Tablas, Memoria, MarcoTablas, MismaPila
<1>6. Llamada'
  BY <1>2, <1>3 DEF Tablas, Llamada, MarcoTablas, MarcoTab, ConservaTab, MismaPila
<1>7. Direcciones'
  BY <1>2, <1>3 DEF Tablas, Direcciones, MarcoTablas, MarcoTab, ConservaTab, MismaPila
<1>8. Parejas'
  BY DEF Tablas, Parejas, MarcoTablas, MarcoTab, ConservaTab, MismaPila
<1>9. Unidades'
  <2>1. \A s : ConRanura(s)' = ConRanura(s)
    BY <1>2, <1>3 DEF ConRanura, MismaPila
  <2> QED
    BY <2>1 DEF Tablas, Unidades, MarcoTablas, MarcoTab, ConservaTab
<1>10. Teclados'
  BY <1>2, <1>3 DEF Tablas, Teclados, MarcoTablas, MismaPila
<1> QED
  BY <1>1, <1>3, <1>4, <1>5, <1>6, <1>7, <1>8, <1>9, <1>10 DEF Tablas

(* The stretches an enumeration may go to: a device whose unit may be      *)
(* active is not given up, and a unit is registered with its endpoints.    *)
Adelante(r) ==
  /\ r \notin EnEspera \cup {"previo"} \cup (Sueltas \ {"libera"})
  /\ Registrando => r \in DeBulk \cup {"apunta"}
  /\ Etapa # "apunta"
  /\ r = "registrar" => <<loc.s, SALE>> \in tab.bulk

UnidadesQuedan ==
  /\ DOMAIN unidades' = DOMAIN unidades
  /\ \A u \in DOMAIN unidades : unidades'[u].activo => unidades[u].activo /\ unidades'[u].slot = unidades[u].slot

(* What an enumeration may change on its way: a buffer for descriptors,    *)
(* the endpoints of its slot.                                              *)
Toma(b) == b \subseteq {<<"desc", 0>>} /\ loc'.bufs = loc.bufs \cup b /\ dma' = dma \cup b
Extremos ==
  /\ \A s : <<s, SALE>> \in tab.bulk => <<s, SALE>> \in tab'.bulk
  /\ \A s \in Ranuras : <<s, SALE>> \in tab'.bulk <=> <<s, ENTRA>> \in tab'.bulk
  /\ DOMAIN hid'.est = DOMAIN hid.est
  /\ \A s \in Ranuras : hid'.est[s] = "activo" => hid.est[s] = "activo" \/ (s = loc.s /\ Etapa' = "apunta")

LEMMA AvanzaCon ==
  ASSUME Tablas, Conserva, EnMano, loc'.p = loc.p, loc'.s = loc.s, loc'.op \notin DeLectura, Adelante(Etapa'),
         NEW b, Toma(b), Extremos, FormaUni', UnidadesQuedan \/ Unidades'
  PROVE Tablas'
<1>1. FormaTablas'
  <2>1. FormaTab' /\ FormaRan'
    BY DEF Tablas, FormaTablas, FormaTab, FormaRan, Conserva, ConservaTab
  <2>2. IsFiniteSet(dma')
    <3>1. IsFiniteSet(dma \cup {<<"desc", 0>>})
      BY FS_AddElement DEF Tablas, FormaTablas
    <3>2. dma' \subseteq dma \cup {<<"desc", 0>>}
      BY DEF Toma
    <3> QED
      BY <3>1, <3>2, FS_Subset
  <2> QED
    BY <2>1, <2>2 DEF Tablas, FormaTablas, Extremos
<1>2. /\ Dispone /\ Dispone' /\ (Registrando => Registrando')
      /\ \A s : ~Retirando(s)' /\ ~Retirando(s)
  BY DEF EnMano, Dispone, Registrando, Retirando, Adelante, DeBulk, Sueltas
<1>3. /\ \A s : Mapeada(s)' = Mapeada(s)
      /\ \A d : Guardado(d)' = Guardado(d)
      /\ \A s : Ctx(s)' = Ctx(s)
      /\ Mapas'
  BY MarcoGuardado DEF Tablas, Conserva
<1>4. Mapeadas'
  BY <1>2, <1>3 DEF Tablas, Mapeadas, Conserva, ConservaTab
<1>5. Memoria'
  BY <1>3 DEF Tablas, Memoria, Toma
<1>6. Llamada'
  <2>1. Etapa' \notin EnEspera \cup {"previo", "retirada", "habilitado", "reset", "rebote"}
    BY DEF Adelante, Sueltas
  <2>2. Ctx(loc.s) # <<"desc", 0>>
    BY DEF Ctx
  <2> QED
    BY <1>2, <1>3, <2>1, <2>2 DEF Tablas, Llamada, Conserva, ConservaTab, Toma, DeLectura
<1>7. Direcciones'
  BY <1>2, <1>3 DEF Tablas, Direcciones, Conserva, ConservaTab, Toma
<1>8. Parejas'
  BY DEF Tablas, Parejas, Extremos, Adelante
<1>9. Unidades'
  <2>1. \A s : ConRanura(s) => ConRanura(s)'
    BY <1>2, <1>3 DEF ConRanura
  <2> QED
    <3>1. CASE UnidadesQuedan
      BY <2>1, <3>1 DEF Tablas, Unidades, Extremos, UnidadesQuedan
    <3> QED
      BY <3>1
<1>10. Teclados'
  BY <1>2, <1>3 DEF Tablas, Teclados, Extremos, Adelante, EnMano, Sueltas
<1> QED
  BY <1>1, <1>3, <1>4, <1>5, <1>6, <1>7, <1>8, <1>9, <1>10 DEF Tablas

LEMMA Avanza ==
  ASSUME Tablas, MarcoTablas, MismaPila, EnMano, loc'.op \notin DeLectura, Adelante(Etapa')
  PROVE Tablas'
<1>1. Conserva /\ Toma({}) /\ Extremos /\ FormaUni' /\ UnidadesQuedan
  BY MarcoForma DEF UnidadesQuedan, Tablas, FormaTablas, Parejas, Conserva, Toma, Extremos, MarcoTablas, MarcoTab, ConservaTab, MismaPila
<1> QED
  BY <1>1, AvanzaCon DEF MismaPila, MarcoTablas

(* The stretches of a call with nothing in hand, and no slot on its way    *)
(* out.                                                                    *)
Suelta(r, l) ==
  /\ r \notin EnEspera \cup {"previo", "libera", "retirada"} /\ l.bufs = {}
  /\ IF l.op \in DeLectura THEN r \in DeBulk ELSE r \in Sueltas
  /\ r = "habilitado" => l.p \in Puertos /\ tab.puertoSlot[l.p] = 0
  /\ r \in {"reset", "rebote"} => l.p \in Puertos

LEMMA SueltaTablas ==
  ASSUME Tablas, MarcoTablas, ~Dispone, Etapa # "retirada", Suelta(Etapa', loc') PROVE Tablas'
<1>1. FormaTablas'
  BY MarcoForma DEF Tablas
<1>2. /\ ~Dispone' /\ ~EnMano' /\ ~EnMano /\ ~Registrando /\ \A s : ~Retirando(s)' /\ ~Retirando(s)
  BY DEF EnMano, Dispone, Registrando, Retirando, Suelta
<1>3. /\ \A s : Mapeada(s)' = Mapeada(s)
      /\ \A b : Guardado(b)' = Guardado(b)
      /\ \A s : Ctx(s)' = Ctx(s)
      /\ Mapas'
  BY MarcoGuardado DEF Tablas, MarcoTablas, MarcoTab
<1>4. Mapeadas'
  BY <1>2, <1>3 DEF Tablas, Mapeadas, MarcoTablas, MarcoTab, ConservaTab
<1>5. loc.bufs = {} /\ loc'.bufs = {}
  BY <1>2 DEF Tablas, Llamada, Suelta
<1>6. Memoria'
  BY <1>3, <1>5 DEF Tablas, Memoria, MarcoTablas
<1>7. Llamada'
  BY <1>2, <1>5 DEF Tablas, Llamada, MarcoTablas, MarcoTab, ConservaTab, Suelta
<1>8. Direcciones'
  BY <1>2, <1>3 DEF Tablas, Direcciones, MarcoTablas, MarcoTab, ConservaTab
<1>9. Parejas'
  BY DEF Tablas, Parejas, MarcoTablas, MarcoTab, ConservaTab, Suelta, Sueltas, DeBulk
<1>10. Unidades'
  <2>1. \A s : ConRanura(s) => ConRanura(s)'
    BY <1>2, <1>3 DEF ConRanura
  <2> QED
    BY <2>1 DEF Tablas, Unidades, MarcoTablas, MarcoTab, ConservaTab
<1>11. Teclados'
  BY <1>2, <1>3 DEF Tablas, Teclados, MarcoTablas
<1> QED
  BY <1>1, <1>3, <1>4, <1>6, <1>7, <1>8, <1>9, <1>10, <1>11 DEF Tablas
-----------------------------------------------------------------------------
(* The ways a stretch ends, and what the ring of commands makes of it.      *)

Lleva(l, r) ==
  /\ Etapa' = r /\ loc'.p = l.p /\ loc'.s = l.s /\ loc'.bufs = l.bufs /\ loc'.op = l.op
  /\ hw'.ran = hw.ran
Calma == (pc' \in Contestas => loc'.res # "ok") /\ Esperando'
Desusa == ~an.disponible => \A c : Abandonada(c) => Abandonada(c)'
Cuida == Tablas' /\ Calma /\ Desusa

LEMMA EnviarLleva ==
  ASSUME NEW l, FormaLoc(l), NEW tipo, NEW s, NEW ret, ret \notin EnEspera, EnviarComando(l, tipo, s, ret)
  PROVE Lleva(l, ret) /\ Calma
<1>1. CASE an.disponible
  <2>1. pc' = "comando" /\ loc' = [l EXCEPT !.ret = ret, !.espera = an.idx] /\ hw' = hw
    BY <1>1 DEF EnviarComando
  <2>2. loc'.ret = ret /\ loc'.p = l.p /\ loc'.s = l.s /\ loc'.bufs = l.bufs /\ loc'.op = l.op
    BY <2>1 DEF FormaLoc
  <2> QED
    BY <2>1, <2>2 DEF Lleva, Calma, Etapa, EnEspera, Orden, Contestas, Esperando
<1>2. CASE ~an.disponible
  <2>1. pc' = ret /\ loc' = [l EXCEPT !.res = "mal"] /\ hw' = hw
    BY <1>2 DEF EnviarComando
  <2>2. loc'.res = "mal" /\ loc'.p = l.p /\ loc'.s = l.s /\ loc'.bufs = l.bufs /\ loc'.op = l.op
    BY <2>1 DEF FormaLoc
  <2> QED
    BY <2>1, <2>2 DEF Lleva, Calma, Etapa, EnEspera, Esperas, Esperando
<1> QED
  BY <1>1, <1>2

LEMMA LiberarLleva ==
  ASSUME NEW l, FormaLoc(l), Liberar(l) PROVE Lleva(l, "libera") /\ Calma
<1>1. EnviarComando(l, "disable", l.s, "libera") /\ "libera" \notin EnEspera
  BY DEF Liberar, EnEspera, Esperas, Orden
<1> QED
  BY <1>1, EnviarLleva

LEMMA ControlLleva ==
  ASSUME Forma, NEW l, FormaLoc(l), NEW ret, ret \notin EnEspera \cup Contestas, Control(l, ret)
  PROVE Lleva(l, ret) /\ Calma
<1>1. /\ hw' = [hw EXCEPT !.colas[l.s][EP0] = Append(@, "control")]
      /\ pc' = "control" /\ loc' = [l EXCEPT !.ret = ret, !.d = EP0]
  BY DEF Control
<1>2. loc'.ret = ret /\ loc'.p = l.p /\ loc'.s = l.s /\ loc'.bufs = l.bufs /\ loc'.op = l.op
  BY <1>1 DEF FormaLoc
<1>3. hw'.ran = hw.ran
  BY <1>1 DEF Forma, FormaHw
<1> QED
  BY <1>1, <1>2, <1>3 DEF Lleva, Calma, Etapa, EnEspera, Esperas, Contestas, Esperando

LEMMA BulkLleva ==
  ASSUME Forma, NEW l, FormaLoc(l), NEW d, NEW trbs, NEW ret, ret \in {"datos", "copia", "valida"}, Bulk(l, d, trbs, ret)
  PROVE (\E r \in {ret, "fin"} : Lleva(l, r)) /\ Calma
<1>1. CASE <<l.s, d>> \in tab.bulk
  <2>1. /\ hw' = [hw EXCEPT !.colas[l.s][d] = @ \o trbs]
        /\ pc' = (IF Len(trbs) > 1 THEN "segmentada" ELSE "bulk") /\ loc' = [l EXCEPT !.d = d, !.ret = ret]
    BY <1>1 DEF Bulk
  <2>2. loc'.ret = ret /\ loc'.p = l.p /\ loc'.s = l.s /\ loc'.bufs = l.bufs /\ loc'.op = l.op
    BY <2>1 DEF FormaLoc
  <2>3. hw'.ran = hw.ran
    BY <2>1 DEF Forma, FormaHw
  <2>4. pc' \in {"segmentada", "bulk"}
    BY <2>1
  <2>5. Lleva(l, ret)
    BY <2>2, <2>3, <2>4 DEF Lleva, Etapa, EnEspera, Esperas
  <2> QED
    BY <2>2, <2>4, <2>5 DEF Calma, Contestas, Esperando
<1>2. CASE <<l.s, d>> \notin tab.bulk
  <2>1. pc' = "fin" /\ loc' = [l EXCEPT !.res = "mal"] /\ hw' = hw
    BY <1>2 DEF Bulk
  <2>2. loc'.p = l.p /\ loc'.s = l.s /\ loc'.bufs = l.bufs /\ loc'.op = l.op
    BY <2>1 DEF FormaLoc
  <2>3. Lleva(l, "fin")
    BY <2>1, <2>2 DEF Lleva, Etapa, EnEspera, Esperas, Orden
  <2> QED
    BY <2>1, <2>3 DEF Calma, Contestas, Esperando
<1> QED
  BY <1>1, <1>2

LEMMA VuelveLleva ==
  ASSUME NEW l, Vuelve(l)
  PROVE /\ Etapa' \in {"ocio", "escanea"} /\ pc' = Etapa' /\ loc'.bufs = {} /\ loc'.op = "no" /\ hw' = hw
        /\ Calma
<1>1. UNCHANGED hw /\ pc' \in {"ocio", "escanea"}
      /\ (loc' = LocVacio \/ loc' = [LocVacio EXCEPT !.modo = l.modo, !.p = l.p + 1])
  BY DEF Vuelve
<1>2. loc'.bufs = {} /\ loc'.op = "no"
  <2>1. PICK m, p : m = l.modo /\ p = l.p + 1
    OBVIOUS
  <2>2. loc' = LocVacio \/ loc' = [LocVacio EXCEPT !.modo = m, !.p = p]
    BY <1>1, <2>1
  <2>3. LocVacio.bufs = {} /\ LocVacio.op = "no"
    BY DEF LocVacio
  <2>4. [LocVacio EXCEPT !.modo = m, !.p = p].bufs = LocVacio.bufs /\ [LocVacio EXCEPT !.modo = m, !.p = p].op = LocVacio.op
    BY LocVacioForma DEF FormaLoc
  <2> QED
    BY <2>2, <2>3, <2>4
<1> QED
  BY <1>1, <1>2 DEF Etapa, EnEspera, Esperas, Orden, Calma, Contestas, Esperando

(* The cell of the command that is sent.                                   *)
LEMMA EncolaCelda ==
  ASSUME NEW a, FormaAn(a), NEW trb
  PROVE Encola(a, trb).celdas[a.idx] = trb
<1> DEFINE con == [a.celdas EXCEPT ![a.idx] = trb]
           fin == [con EXCEPT ![TamAnillo - 1].ciclo = a.ciclo]
<1>1. /\ {"celdas", "idx", "ciclo", "disponible"} \subseteq DOMAIN a /\ DOMAIN a.celdas = 0..(TamAnillo - 1)
      /\ a.idx \in 0..(TamAnillo - 2) /\ a.idx \in 0..(TamAnillo - 1) /\ a.idx # TamAnillo - 1
  BY AnilloAssumption DEF FormaAn
<1>2. con[a.idx] = trb /\ DOMAIN con = 0..(TamAnillo - 1)
  BY <1>1
<1> HIDE DEF con
<1>3. fin[a.idx] = trb
  BY <1>1, <1>2
<1> HIDE DEF fin
<1>4. CASE a.idx + 1 >= TamAnillo - 1
  <2>1. Encola(a, trb) = [a EXCEPT !.celdas = fin, !.idx = 0, !.ciclo = 1 - a.ciclo]
    BY <1>4 DEF Encola, con, fin
  <2> QED
    BY <1>1, <1>3, <2>1
<1>5. CASE ~(a.idx + 1 >= TamAnillo - 1)
  <2>1. Encola(a, trb) = [a EXCEPT !.celdas = con, !.idx = a.idx + 1]
    BY <1>5 DEF Encola, con
  <2> QED
    BY <1>1, <1>2, <2>1
<1> QED
  BY <1>4, <1>5

LEMMA SigueOrdenada ==
  ASSUME EvForma(ev), Ordenada, Sigue, Calma, Desusa PROVE Ordenada'
<1>1. CASE Callado
  <2>1. HcLugar' = HcLugar /\ AlDia' = AlDia /\ LugarHw' /\ FormaAn(an)'
    BY <1>1, LugarIgual DEF Callado, Ordenada
  <2>2. pc \notin Orden /\ pc' \notin Orden /\ an' = an
    BY <1>1 DEF Callado
  <2>3. ASSUME an.disponible PROVE EnUso'
    BY <2>1, <2>2, <2>3 DEF Ordenada, EnUso, Orden
  <2>4. ASSUME ~an.disponible PROVE EnDesuso'
    <3>1. \A k : PendienteEn(k)' = PendienteEn(k)
      BY <2>1, <2>2 DEF PendienteEn
    <3>2. AlDia' \/ \E k : PendienteEn(k)' /\ Abandonada(an.celdas[k])'
      <4>1. AlDia \/ \E k : PendienteEn(k) /\ Abandonada(an.celdas[k])
        BY <2>4 DEF Ordenada, EnDesuso
      <4>2. ASSUME NEW k, PendienteEn(k), Abandonada(an.celdas[k])
            PROVE  PendienteEn(k)' /\ Abandonada(an.celdas[k])'
        <5>1. PICK c : c = an.celdas[k]
          OBVIOUS
        <5>2. Abandonada(c)'
          BY <2>4, <4>2, <5>1 DEF Desusa
        <5>3. c = an'.celdas[k]
          BY <2>2, <5>1
        <5>4. Abandonada(an.celdas[k])'
          BY <5>2, <5>3 DEF Abandonada
        <5> QED
          BY <3>1, <4>2, <5>4
      <4> QED
        BY <2>1, <4>1, <4>2
    <3>3. EnDesuso'
      <4>1. pc' \in Contestas => loc'.res # "ok"
        BY DEF Calma
      <4> QED
        BY <2>2, <3>2, <4>1 DEF EnDesuso
    <3> QED
      BY <3>3
  <2> QED
    BY <2>1, <2>2, <2>3, <2>4 DEF Ordenada
<1>2. CASE Enviado
  <2>1. FormaAn(an) /\ LugarHw /\ AlDia /\ an.disponible
    BY <1>2 DEF Ordenada, EnUso, Enviado, Orden
  <2>2. FormaAn(an') /\ LugarHw' /\ Pendiente' /\ an'.disponible
    BY <1>2, <2>1, EnviadoPendiente
  <2>3. PICK tipo, slot, p : /\ an' = Encola(an, [ciclo |-> an.ciclo, tipo |-> tipo, slot |-> slot, p |-> p])
                             /\ EsOrden(tipo, loc'.ret) /\ (tipo = "enable" \/ slot = loc'.s)
    BY <1>2 DEF Enviado
  <2>4. an'.celdas[an.idx] = [ciclo |-> an.ciclo, tipo |-> tipo, slot |-> slot, p |-> p]
    BY <2>1, <2>3, EncolaCelda
  <2>5. an'.celdas[loc'.espera].tipo = tipo /\ an'.celdas[loc'.espera].slot = slot
    BY <1>2, <2>4 DEF Enviado
  <2>6. LaOrden(an.celdas[loc.espera])'
    BY <2>3, <2>5 DEF LaOrden
  <2>7. \A i \in Ordenes(ev)' : Dicha(ev[i])'
    <3>1. Ordenes(Envejece) = Ordenes(ev) /\ \A i \in Ordenes(ev) : Envejece[i].vieja = 1
      BY EvEnvejece
    <3> QED
      BY <1>2, <3>1 DEF Enviado, Dicha
  <2>8. EnUso'
    BY <1>2, <2>2, <2>6, <2>7 DEF EnUso, Enviado
  <2> QED
    BY <2>2, <2>8 DEF Ordenada
<1> QED
  BY <1>1, <1>2 DEF Sigue

(* A stretch of the driver keeps the invariant if it keeps the tables.     *)

LEMMA SigueCoherencia ==
  ASSUME CoherenciaInv, Sigue, Limpia /\ Limpia' => Cuida PROVE CoherenciaInv'
<1>1. RespuestaInv'
  BY SigueRespuesta DEF CoherenciaInv
<1>2. SUFFICES ASSUME Limpia' PROVE Coherencia'
  BY <1>1 DEF CoherenciaInv
<1>3. Limpia
  BY <1>2 DEF Limpia, Sigue, FanIgual
<1>4. Tablas' /\ Calma /\ Desusa
  BY <1>2, <1>3 DEF Cuida
<1>5. Ordenada'
  BY <1>3, <1>4, SigueOrdenada DEF CoherenciaInv, Coherencia, RespuestaInv
<1>6. Contestada'
  BY <1>4 DEF Calma, Contestada, Contestas
<1> QED
  BY <1>4, <1>5, <1>6 DEF Coherencia, Calma
-----------------------------------------------------------------------------
(* The enumeration keeps the tables.                                        *)

Sano == CoherenciaInv /\ Limpia

LEMMA SanoDice ==
  ASSUME Sano PROVE Forma /\ FormaLoc(loc) /\ Tablas /\ Contestada /\ Esperando /\ Ordenada
BY DEF Sano, CoherenciaInv, Coherencia, RespuestaInv, Forma

(* With the ring given up no command was answered well.                    *)
LEMMA SanoResponde ==
  ASSUME Sano, pc \in Contestas, loc.res = "ok" PROVE an.disponible
BY SanoDice DEF Ordenada, EnDesuso

LEMMA DesusaQuieta ==
  ASSUME pc \notin {"direccionado", "libera", "retirada"}, fantasma.huerfanas \subseteq fantasma'.huerfanas
  PROVE Desusa
BY DEF Desusa, Abandonada

Enumeradas == {"direccionado", "descriptor8", "evaluado", "descriptor18", "cabecera", "configuracion", "configurado",
               "puesta", "protocolo", "protocoloLimpio", "inactividad", "armar", "registrar"}

LEMMA EnumeraMano ==
  ASSUME Tablas, pc \in Enumeradas PROVE Etapa = pc /\ EnMano /\ ~Registrando /\ loc.op \notin DeLectura
<1>1. Etapa = pc
  BY DEF Etapa, EnEspera, Esperas, Orden, Enumeradas
<1>2. loc.op \notin DeLectura
  BY <1>1 DEF Tablas, Llamada, DeBulk, Enumeradas
<1> QED
  BY <1>1, <1>2 DEF EnMano, Registrando, Sueltas, DeBulk, Enumeradas

Siguientes == (Enumeradas \ {"registrar"}) \cup {"libera", "apunta"}

LEMMA SigueAdelante ==
  ASSUME Tablas, pc \in Enumeradas, NEW r \in Siguientes PROVE Adelante(r)
BY EnumeraMano DEF Adelante, Siguientes, Enumeradas, EnEspera, Esperas, Orden, Sueltas

LEMMA QuietoMarco ==
  ASSUME UNCHANGED <<tab, hid, dma, unidades>>, fantasma'.huerfanas = fantasma.huerfanas, hw'.ran = hw.ran PROVE MarcoTablas
BY DEF MarcoTablas, MarcoTab, ConservaTab

LEMMA MarchaCuida ==
  ASSUME Sano, pc \in Enumeradas \ {"direccionado"}, NEW r \in Siguientes, Lleva(loc, r), Calma,
         UNCHANGED <<tab, hid, dma, fantasma, unidades>>
  PROVE Cuida
<1>1. Tablas /\ pc \in Enumeradas
  BY SanoDice
<1>2. MarcoTablas
  BY QuietoMarco DEF Lleva
<1>3. Tablas'
  BY <1>1, <1>2, EnumeraMano, SigueAdelante, Avanza DEF Lleva, MismaPila
<1>4. Desusa
  BY DesusaQuieta DEF Enumeradas
<1> QED
  BY <1>3, <1>4 DEF Cuida

LEMMA DescriptoresCuida ==
  ASSUME Sano, Descriptor8 \/ Evaluado \/ Descriptor18 \/ CabeceraCfg \/ Configurado \/ Protocolo \/ ProtocoloLimpio
  PROVE Cuida
<1>1. /\ pc \in Enumeradas \ {"direccionado"} /\ UNCHANGED <<tab, hid, dma, fantasma, unidades>>
      /\ \/ Liberar(loc)
         \/ EnviarComando(loc, "evaluar", loc.s, "evaluado")
         \/ \E r \in {"descriptor18", "cabecera", "configuracion", "puesta", "protocoloLimpio", "inactividad"} : Control(loc, r)
  BY DEF Descriptor8, Evaluado, Descriptor18, CabeceraCfg, Configurado, Protocolo, ProtocoloLimpio, Tras, Quieto,
         MarcoPaso, Enumeradas
<1>2. Forma /\ FormaLoc(loc)
  BY SanoDice
<1>3. \A r \in {"descriptor18", "cabecera", "configuracion", "puesta", "protocoloLimpio", "inactividad"} :
        r \notin EnEspera \cup Contestas /\ r \in Siguientes
  BY DEF EnEspera, Esperas, Orden, Contestas, Siguientes, Enumeradas
<1>4. "evaluado" \notin EnEspera /\ "evaluado" \in Siguientes /\ "libera" \in Siguientes
  BY DEF EnEspera, Esperas, Orden, Siguientes, Enumeradas
<1>5. \E r \in Siguientes : Lleva(loc, r) /\ Calma
  <2>1. CASE Liberar(loc)
    BY <1>2, <1>4, <2>1, LiberarLleva
  <2>2. CASE EnviarComando(loc, "evaluar", loc.s, "evaluado")
    BY <1>2, <1>4, <2>2, EnviarLleva
  <2>3. CASE \E r \in {"descriptor18", "cabecera", "configuracion", "puesta", "protocoloLimpio", "inactividad"} : Control(loc, r)
    BY <1>2, <1>3, <2>3, ControlLleva
  <2> QED
    BY <1>1, <2>1, <2>2, <2>3
<1> QED
  BY <1>1, <1>5, MarchaCuida

(* A stretch with nothing to wait for.                                     *)
LEMMA PasaLleva ==
  ASSUME NEW r, r \notin EnEspera \cup Contestas, pc' = r, loc' = loc, hw'.ran = hw.ran PROVE Lleva(loc, r) /\ Calma
BY DEF Lleva, Calma, Etapa, EnEspera, Esperas, Esperando

LEMMA PuestaCuida ==
  ASSUME Sano, Puesta \/ Inactividad PROVE Cuida
<1>1. Forma /\ FormaLoc(loc) /\ Tablas
  BY SanoDice
<1>2. /\ pc \in Enumeradas \ {"direccionado"} /\ UNCHANGED <<tab, hid, dma, fantasma, unidades>>
      /\ \/ Liberar(loc)
         \/ \E r \in {"protocolo", "armar"} : Control(loc, r)
         \/ pc' \in {"apunta", "armar"} /\ UNCHANGED <<loc, hw>>
         \/ pc' = "registrar" /\ <<loc.s, SALE>> \in tab.bulk /\ UNCHANGED <<loc, hw>>
  BY DEF Puesta, Inactividad, Tras, Quieto, MarcoPaso, Enumeradas
<1>3. \A r \in {"protocolo", "armar", "apunta", "registrar"} : r \notin EnEspera \cup Contestas
  BY DEF EnEspera, Esperas, Orden, Contestas
<1>4. {"protocolo", "armar", "apunta", "libera"} \subseteq Siguientes
  BY DEF Siguientes, Enumeradas
<1>5. CASE Liberar(loc)
  BY <1>1, <1>2, <1>4, <1>5, LiberarLleva, MarchaCuida
<1>6. CASE \E r \in {"protocolo", "armar"} : Control(loc, r)
  BY <1>1, <1>2, <1>3, <1>4, <1>6, ControlLleva, MarchaCuida
<1>7. CASE pc' \in {"apunta", "armar"} /\ UNCHANGED <<loc, hw>>
  BY <1>1, <1>2, <1>3, <1>4, <1>7, PasaLleva, MarchaCuida
<1>8. CASE pc' = "registrar" /\ <<loc.s, SALE>> \in tab.bulk /\ UNCHANGED <<loc, hw>>
  <2>1. Lleva(loc, "registrar") /\ Calma
    BY <1>3, <1>8, PasaLleva
  <2>2. MarcoTablas
    BY <1>2, <1>8, QuietoMarco
  <2>3. Etapa = pc /\ EnMano /\ ~Registrando /\ loc.op \notin DeLectura
    BY <1>1, <1>2, EnumeraMano
  <2>4. Adelante("registrar")
    BY <1>2, <1>8, <2>3 DEF Adelante, EnEspera, Esperas, Orden, Sueltas, Enumeradas
  <2>5. Tablas'
    BY <1>1, <2>1, <2>2, <2>3, <2>4, Avanza DEF Lleva, MismaPila
  <2>6. Desusa
    BY <1>2, DesusaQuieta DEF Enumeradas
  <2> QED
    BY <2>1, <2>5, <2>6 DEF Cuida
<1> QED
  BY <1>2, <1>5, <1>6, <1>7, <1>8

(* Address Device was answered: the slot goes, or a buffer comes.          *)
LEMMA LiberarDesusa ==
  ASSUME pc = "direccionado", FormaLoc(loc), Liberar(loc), UNCHANGED <<tab, fantasma>> PROVE Desusa
<1> SUFFICES ASSUME ~an.disponible PROVE \A c : Abandonada(c) => Abandonada(c)'
  BY DEF Desusa
<1>1. pc' = "libera" /\ loc'.s = loc.s /\ loc'.bufs = loc.bufs
  BY DEF Liberar, EnviarComando, FormaLoc
<1> QED
  BY <1>1 DEF Abandonada, Ctx

LEMMA DireccionadoCuida == ASSUME Sano, Direccionado PROVE Cuida
<1>1. Forma /\ FormaLoc(loc) /\ Tablas
  BY SanoDice
<1>2. pc = "direccionado" /\ pc \in Enumeradas /\ UNCHANGED <<tab, hid, fantasma, unidades>>
  BY DEF Direccionado, Tras, Quieto, MarcoPaso, Enumeradas
<1>3. Etapa = pc /\ EnMano /\ ~Registrando /\ loc.op \notin DeLectura
  BY <1>1, <1>2, EnumeraMano
<1>4. CASE Liberar(loc) /\ dma' = dma
  <2>1. Lleva(loc, "libera") /\ Calma
    BY <1>1, <1>4, LiberarLleva
  <2>2. MarcoTablas
    BY <1>2, <1>4, <2>1, QuietoMarco DEF Lleva
  <2>3. Adelante("libera")
    BY <1>1, <1>2, SigueAdelante DEF Siguientes
  <2>4. Tablas'
    BY <1>1, <1>3, <2>1, <2>2, <2>3, Avanza DEF Lleva, MismaPila
  <2>5. Desusa
    BY <1>1, <1>2, <1>4, LiberarDesusa
  <2> QED
    BY <2>1, <2>4, <2>5 DEF Cuida
<1> DEFINE l == [loc EXCEPT !.bufs = @ \cup {<<"desc", 0>>}]
<1>5. CASE loc.res = "ok" /\ Control(l, "descriptor8") /\ dma' = dma \cup {<<"desc", 0>>}
  <2>1. FormaLoc(l) /\ l.p = loc.p /\ l.s = loc.s /\ l.op = loc.op /\ l.bufs = loc.bufs \cup {<<"desc", 0>>}
    BY <1>1 DEF FormaLoc
  <2> HIDE DEF l
  <2>2. "descriptor8" \notin EnEspera \cup Contestas /\ "descriptor8" \in Siguientes
    BY DEF EnEspera, Esperas, Orden, Contestas, Siguientes, Enumeradas
  <2>3. Lleva(l, "descriptor8") /\ Calma
    BY <1>1, <1>5, <2>1, <2>2, ControlLleva
  <2>4. Adelante("descriptor8")
    BY <1>1, <1>2, <2>2, SigueAdelante
  <2>5. Toma({<<"desc", 0>>})
    BY <1>5, <2>1, <2>3 DEF Toma, Lleva
  <2>6. Conserva /\ Extremos /\ FormaUni' /\ UnidadesQuedan
    BY <1>1, <1>2, <2>3 DEF UnidadesQuedan, Conserva, ConservaTab, Extremos, Lleva, Tablas, FormaTablas, FormaUni, Parejas
  <2>7. Tablas'
    <3>1. loc'.p = loc.p /\ loc'.s = loc.s /\ loc'.op \notin DeLectura /\ Adelante(Etapa')
      BY <1>3, <2>1, <2>3, <2>4 DEF Lleva
    <3> QED
      BY <1>1, <1>2, <1>3, <2>5, <2>6, <3>1, AvanzaCon
  <2>8. Desusa
    BY <1>2, <1>5, SanoResponde DEF Desusa, Contestas
  <2> QED
    BY <2>3, <2>7, <2>8 DEF Cuida
<1> QED
  BY <1>4, <1>5 DEF Direccionado, Quieto
-----------------------------------------------------------------------------
(* The endpoints of the device.                                             *)

LEMMA ElegirBulkDice ==
  ASSUME Parejas, NEW z, NEW B, B = ElegirBulk(z)
  PROVE /\ \A s : <<s, SALE>> \in tab.bulk => <<s, SALE>> \in B
        /\ \A s \in Ranuras : <<s, SALE>> \in B <=> <<s, ENTRA>> \in B
<1>1. B = tab.bulk \/ B = BulkAjenos(z) \cup {<<z, SALE>>, <<z, ENTRA>>}
  BY DEF ElegirBulk
<1>2. \A s, d : <<s, d>> \in BulkAjenos(z) <=> <<s, d>> \in tab.bulk /\ s # z
  BY DEF BulkAjenos
<1>3. \A s : <<s, SALE>> # <<z, ENTRA>> /\ <<s, ENTRA>> # <<z, SALE>>
  BY DEF SALE, ENTRA
<1> QED
  BY <1>1, <1>2, <1>3 DEF Parejas

LEMMA ConfiguracionCuida == ASSUME Sano, Configuracion PROVE Cuida
<1>1. Forma /\ FormaLoc(loc) /\ Tablas
  BY SanoDice
<1>2. pc \in Enumeradas /\ pc # "direccionado" /\ UNCHANGED <<dma, fantasma, unidades>>
  BY DEF Configuracion, Tras, MarcoPaso, Enumeradas
<1>3. \/ Liberar(loc) /\ UNCHANGED <<tab, hid>>
      \/ /\ EnviarComando(loc, "configurar", loc.s, "configurado")
         /\ \/ tab' = tab /\ hid' = [hid EXCEPT !.est[loc.s] = "armado", !.ultimo[loc.s] = 0]
            \/ hid' = hid /\ tab' = [tab EXCEPT !.bulk = ElegirBulk(loc.s)]
  BY DEF Configuracion
<1>4. CASE Liberar(loc) /\ UNCHANGED <<tab, hid>>
  <2>1. "libera" \in Siguientes
    BY DEF Siguientes
  <2> QED
    BY <1>1, <1>2, <1>4, <2>1, LiberarLleva, MarchaCuida
<1>5. CASE /\ EnviarComando(loc, "configurar", loc.s, "configurado")
           /\ \/ tab' = tab /\ hid' = [hid EXCEPT !.est[loc.s] = "armado", !.ultimo[loc.s] = 0]
              \/ hid' = hid /\ tab' = [tab EXCEPT !.bulk = ElegirBulk(loc.s)]
  <2>1. "configurado" \notin EnEspera /\ "configurado" \in Siguientes
    BY DEF EnEspera, Esperas, Orden, Siguientes, Enumeradas
  <2>2. Lleva(loc, "configurado") /\ Calma
    BY <1>1, <1>5, <2>1, EnviarLleva
  <2>3. EnMano /\ Adelante("configurado") /\ loc.op \notin DeLectura
    BY <1>1, <1>2, <2>1, EnumeraMano, SigueAdelante
  <2>4. ConservaTab /\ \/ tab'.bulk = tab.bulk
                       \/ tab'.bulk = ElegirBulk(loc.s)
    BY <1>1, <1>5 DEF ConservaTab, Tablas, FormaTablas, FormaTab
  <2>5. /\ DOMAIN hid'.est = DOMAIN hid.est
        /\ \A s \in Ranuras : hid'.est[s] = "activo" => hid.est[s] = "activo"
    BY <1>1, <1>5 DEF Forma, FormaHid, Tablas, FormaTablas
  <2>6. Conserva /\ FormaUni' /\ UnidadesQuedan /\ Toma({})
    BY <1>1, <1>2, <2>2, <2>4 DEF Conserva, Lleva, UnidadesQuedan, Toma, Tablas, FormaTablas, FormaUni
  <2>7. Parejas
    BY <1>1 DEF Tablas
  <2>8. Extremos
    <3>1. /\ \A s : <<s, SALE>> \in tab.bulk => <<s, SALE>> \in tab'.bulk
          /\ \A s \in Ranuras : <<s, SALE>> \in tab'.bulk <=> <<s, ENTRA>> \in tab'.bulk
      <4>1. CASE tab'.bulk = tab.bulk
        BY <2>7, <4>1 DEF Parejas
      <4>2. CASE tab'.bulk = ElegirBulk(loc.s)
        BY <2>7, <4>2, ElegirBulkDice
      <4> QED
        BY <2>4, <4>1, <4>2
    <3> QED
      BY <2>5, <3>1 DEF Extremos
  <2>9. Tablas'
    BY <1>1, <2>2, <2>3, <2>6, <2>8, AvanzaCon DEF Lleva
  <2>10. Desusa
    BY <1>2, DesusaQuieta DEF Enumeradas
  <2> QED
    BY <2>2, <2>9, <2>10 DEF Cuida
<1> QED
  BY <1>3, <1>4, <1>5

LEMMA ArmarCuida == ASSUME Sano, Armar PROVE Cuida
<1>1. Forma /\ FormaLoc(loc) /\ Tablas
  BY SanoDice
<1>2. /\ pc \in Enumeradas /\ pc # "direccionado" /\ pc' = "apunta" /\ UNCHANGED <<loc, tab, dma, fantasma, unidades>>
      /\ hw' = [hw EXCEPT !.colas[loc.s][ENTRA] = [i \in 1..Rafaga |-> "hid"]]
      /\ hid' = [hid EXCEPT !.est[loc.s] = "activo"]
  BY DEF Armar, Tras, MarcoPaso, Enumeradas
<1>3. hw'.ran = hw.ran
  <2>1. PICK w : w = [i \in 1..Rafaga |-> "hid"]
    OBVIOUS
  <2>2. hw' = [hw EXCEPT !.colas[loc.s][ENTRA] = w]
    BY <1>2, <2>1
  <2> QED
    BY <1>1, <2>2 DEF Forma, FormaHw
<1>4. Lleva(loc, "apunta") /\ Calma
  <2>1. "apunta" \notin EnEspera \cup Contestas
    BY DEF EnEspera, Esperas, Orden, Contestas
  <2> QED
    BY <1>2, <1>3, <2>1, PasaLleva
<1>5. EnMano /\ Adelante("apunta") /\ loc.op \notin DeLectura
  <2>1. "apunta" \in Siguientes
    BY DEF Siguientes
  <2> QED
    BY <1>1, <1>2, <2>1, EnumeraMano, SigueAdelante
<1>6. Conserva /\ FormaUni' /\ UnidadesQuedan /\ Toma({})
  BY <1>1, <1>2, <1>3 DEF Conserva, ConservaTab, UnidadesQuedan, Toma, Tablas, FormaTablas, FormaUni
<1>7. Extremos
  <2>1. /\ DOMAIN hid'.est = DOMAIN hid.est
        /\ \A s \in Ranuras : hid'.est[s] = "activo" => hid.est[s] = "activo" \/ s = loc.s
    BY <1>1, <1>2 DEF Forma, FormaHid, Tablas, FormaTablas
  <2> QED
    BY <1>1, <1>2, <1>4, <2>1 DEF Extremos, Lleva, Tablas, Parejas
<1>8. Tablas'
  BY <1>1, <1>4, <1>5, <1>6, <1>7, AvanzaCon DEF Lleva
<1>9. Desusa
  BY <1>2, DesusaQuieta DEF Enumeradas
<1> QED
  BY <1>4, <1>8, <1>9 DEF Cuida

-----------------------------------------------------------------------------
(* The disks.                                                               *)

(* A transaction starts from the stack it is given.                        *)
LEMMA TransaccionLleva ==
  ASSUME Forma, NEW l, FormaLoc(l), NEW op, Transaccion(l, op)
  PROVE /\ Etapa' \in DeBulk /\ loc'.p = l.p /\ loc'.s = l.s /\ loc'.bufs = l.bufs /\ loc'.op = op
        /\ hw'.ran = hw.ran /\ Calma
<1> DEFINE k == [l EXCEPT !.op = op, !.etiqueta = msc.etiqueta]
<1>1. Bulk(k, SALE, <<"cbw">>, "datos")
  BY DEF Transaccion
<1>2. FormaLoc(k) /\ k.p = l.p /\ k.s = l.s /\ k.bufs = l.bufs /\ k.op = op
  BY DEF FormaLoc
<1> HIDE DEF k
<1>3. (\E r \in {"datos", "fin"} : Lleva(k, r)) /\ Calma
  BY <1>1, <1>2, BulkLleva
<1> QED
  BY <1>2, <1>3 DEF Lleva, DeBulk

(* The first free unit takes the slot in hand: no other unit has it.       *)
LEMMA RegistrarCuida == ASSUME Sano, Registrar PROVE Cuida
<1>1. Forma /\ FormaLoc(loc) /\ Tablas
  BY SanoDice
<1>2. pc = "registrar" /\ pc \in Enumeradas /\ UNCHANGED <<tab, hid, dma, fantasma>>
  BY DEF Registrar, MarcoMsc, Enumeradas
<1>3. Etapa = "registrar" /\ EnMano /\ ~Registrando /\ loc.op \notin DeLectura
  BY <1>1, <1>2, EnumeraMano
<1> DEFINE libres == {u \in DOMAIN unidades : ~unidades[u].activo}
           u == CHOOSE x \in libres : \A y \in libres : x <= y
           l == [loc EXCEPT !.u = u, !.intento = 1]
           una == [activo |-> TRUE, listo |-> FALSE, slot |-> loc.s, g |-> hw.ran[loc.s].g]
<1>4. CASE libres = {}
  <2>1. pc' = "apunta" /\ UNCHANGED <<unidades, loc, hw>>
    BY <1>4 DEF Registrar
  <2>2. "apunta" \notin EnEspera \cup Contestas /\ "apunta" \in Siguientes
    BY DEF EnEspera, Esperas, Orden, Contestas, Siguientes
  <2> QED
    BY <1>2, <2>1, <2>2, PasaLleva, MarchaCuida
<1>5. CASE libres # {}
  <2>1. unidades' = [unidades EXCEPT ![u] = una] /\ Transaccion(l, "tur")
    BY <1>5 DEF Registrar
  <2>2. FormaLoc(l) /\ l.p = loc.p /\ l.s = loc.s /\ l.bufs = loc.bufs
    BY <1>1 DEF FormaLoc
  <2>3. u \in libres
    <3>1. libres \in SUBSET Nat
      BY <1>1, UnidadesAssumption DEF Tablas, FormaTablas, FormaUni
    <3> HIDE DEF libres
    <3>2. \E m \in libres : \A y \in libres : m <= y
      BY <1>5, <3>1, MenorDe
    <3> QED
      BY <3>2
  <2> HIDE DEF u, l
  <2>4. u \in DOMAIN unidades
    BY <2>3
  <2> HIDE DEF libres
  <2>5. /\ Etapa' \in DeBulk /\ loc'.p = loc.p /\ loc'.s = loc.s /\ loc'.bufs = loc.bufs /\ loc'.op = "tur"
        /\ hw'.ran = hw.ran /\ Calma
    BY <1>1, <2>1, <2>2, TransaccionLleva
  <2>6. Conserva /\ Toma({}) /\ Extremos
    BY <1>1, <1>2, <2>5 DEF Conserva, ConservaTab, Toma, Extremos, Tablas, Parejas
  <2>7. una.activo /\ una.slot = loc.s /\ {"activo", "slot"} \subseteq DOMAIN una
    OBVIOUS
  <2>8. DOMAIN unidades' = DOMAIN unidades /\ unidades'[u] = una
        /\ \A v \in DOMAIN unidades : v # u => unidades'[v] = unidades[v]
    BY <2>1, <2>4
  <2> HIDE DEF una
  <2>9. FormaUni'
    BY <1>1, <2>7, <2>8 DEF Tablas, FormaTablas, FormaUni
  <2>10. Unidades'
    <3>1. loc.s \in Ranuras /\ ~Mapeada(loc.s) /\ <<loc.s, SALE>> \in tab.bulk
      BY <1>1, <1>3 DEF Tablas, Llamada, Parejas, Dispone
    <3>2. \A s : ConRanura(s)' <=> (s \in Ranuras /\ Mapeada(s)) \/ s = loc.s
      BY <1>2, <2>5 DEF ConRanura, Mapeada, Retirando, Registrando, EnMano, DeBulk, Sueltas, DeLectura
    <3>3. \A v \in DOMAIN unidades : unidades[v].activo =>
            unidades[v].slot \in Ranuras /\ Mapeada(unidades[v].slot) /\ <<unidades[v].slot, SALE>> \in tab.bulk
      BY <1>1, <1>3 DEF Tablas, Unidades, ConRanura
    <3> QED
      BY <1>1, <1>2, <2>7, <2>8, <3>1, <3>2, <3>3 DEF Tablas, Unidades
  <2>11. Adelante(Etapa')
    BY <1>3, <2>5 DEF Adelante, DeBulk, EnEspera, Esperas, Orden, Sueltas
  <2>12. Tablas'
    BY <1>1, <1>3, <2>5, <2>6, <2>9, <2>10, <2>11, AvanzaCon DEF DeLectura
  <2>13. Desusa
    BY <1>2, DesusaQuieta
  <2> QED
    BY <2>5, <2>12, <2>13 DEF Cuida
<1> QED
  BY <1>4, <1>5
(* The rest of the registration: the unit is known, its disk is asked.     *)
LEMMA RegistrarSigueCuida == ASSUME Sano, RegistrarSigue PROVE Cuida
<1>1. Forma /\ FormaLoc(loc) /\ Tablas
  BY SanoDice
<1> DEFINE l == [loc EXCEPT !.intento = @ + 1]
           f == [unidades EXCEPT ![loc.u].listo = loc.res = "ok" /\ msc.destino[1] = Geometria]
<1>2. /\ pc = "fin" /\ loc.op \in {"tur", "inq", "cap"} /\ UNCHANGED <<tab, hid, dma, fantasma>>
      /\ \/ pc' = "apunta" /\ UNCHANGED <<loc, hw>> /\ unidades' = f
         \/ unidades' = unidades /\ \/ Transaccion(l, "tur")
                                    \/ Transaccion(loc, "inq")
                                    \/ Transaccion(loc, "cap")
  BY DEF RegistrarSigue, MarcoMsc
<1>3. Etapa = "fin" /\ EnMano /\ loc.op \notin DeLectura
  BY <1>2 DEF Etapa, EnEspera, Esperas, Orden, EnMano, Sueltas, DeLectura
<1>4. FormaLoc(l) /\ l.p = loc.p /\ l.s = loc.s /\ l.bufs = loc.bufs
  BY <1>1 DEF FormaLoc
<1> HIDE DEF l
<1>5. /\ Etapa' \in DeBulk \cup {"apunta"} /\ loc'.p = loc.p /\ loc'.s = loc.s /\ loc'.bufs = loc.bufs
      /\ loc'.op \notin DeLectura /\ hw'.ran = hw.ran /\ Calma
  <2>1. CASE pc' = "apunta" /\ UNCHANGED <<loc, hw>>
    BY <1>3, <2>1 DEF Etapa, EnEspera, Esperas, Orden, Calma, Contestas, Esperando
  <2>2. CASE Transaccion(l, "tur") \/ Transaccion(loc, "inq") \/ Transaccion(loc, "cap")
    BY <1>1, <1>4, <2>2, TransaccionLleva DEF DeLectura
  <2> QED
    BY <1>2, <2>1, <2>2
<1>6. UnidadesQuedan /\ FormaUni'
  <2>1. CASE unidades' = f
    <3>1. PICK b : b = (loc.res = "ok" /\ msc.destino[1] = Geometria)
      OBVIOUS
    <3>2. unidades' = [unidades EXCEPT ![loc.u].listo = b]
      BY <2>1, <3>1
    <3> QED
      BY <1>1, <3>2 DEF UnidadesQuedan, Tablas, FormaTablas, FormaUni
  <2>2. CASE unidades' = unidades
    BY <1>1, <2>2 DEF UnidadesQuedan, Tablas, FormaTablas, FormaUni
  <2> QED
    BY <1>2, <2>1, <2>2
<1>7. Conserva /\ Toma({}) /\ Extremos
  BY <1>1, <1>2, <1>5 DEF Conserva, ConservaTab, Toma, Extremos, Tablas, Parejas
<1>8. Adelante(Etapa')
  BY <1>3, <1>5 DEF Adelante, DeBulk, EnEspera, Esperas, Orden, Sueltas
<1>9. Tablas'
  BY <1>1, <1>3, <1>5, <1>6, <1>7, <1>8, AvanzaCon
<1>10. Desusa
  BY <1>2, DesusaQuieta
<1> QED
  BY <1>5, <1>9, <1>10 DEF Cuida

(* The phases of a transaction, of a registration or of a read or a write. *)
LEMMA BulkCuida ==
  ASSUME Sano, Etapa \in DeBulk, pc \notin Contestas, Etapa' \in DeBulk, MismaPila, loc'.op = loc.op, hw'.ran = hw.ran,
         UNCHANGED <<tab, hid, dma, unidades>>, fantasma'.huerfanas = fantasma.huerfanas, Calma
  PROVE Cuida
<1>1. Tablas
  BY SanoDice
<1>2. MarcoTablas
  BY QuietoMarco
<1>3. Tablas'
  <2>1. CASE loc.op \in DeLectura
    <3>1. ~Dispone /\ loc.bufs = {}
      BY <1>1, <2>1 DEF Tablas, Llamada, Dispone, EnMano, DeBulk
    <3>2. Suelta(Etapa', loc')
      BY <2>1, <3>1 DEF Suelta, MismaPila, DeBulk, EnEspera, Esperas, Orden
    <3> QED
      BY <1>1, <1>2, <3>1, <3>2, SueltaTablas DEF DeBulk
  <2>2. CASE loc.op \notin DeLectura
    <3>1. EnMano /\ Adelante(Etapa')
      BY <2>2 DEF EnMano, Adelante, DeBulk, Sueltas, EnEspera, Esperas, Orden
    <3> QED
      BY <1>1, <1>2, <2>2, <3>1, Avanza
  <2> QED
    BY <2>1, <2>2
<1>4. Desusa
  BY DesusaQuieta DEF Contestas
<1> QED
  BY <1>3, <1>4 DEF Cuida

LEMMA FasesCuida == ASSUME Sano, FaseDatos \/ FaseCsw PROVE Cuida
<1>1. Forma /\ FormaLoc(loc)
  BY SanoDice
<1>2. /\ pc \in {"datos", "copia"} /\ UNCHANGED <<tab, hid, dma, unidades, fantasma>>
      /\ \/ pc' = "copia" /\ UNCHANGED <<loc, hw>>
         \/ Bulk(loc, IF loc.op = "escribe" THEN SALE ELSE ENTRA, TrbsDeDatos(loc.op), "copia")
         \/ Bulk(loc, ENTRA, <<"csw">>, "valida")
  BY DEF FaseDatos, FaseCsw, MarcoMsc
<1>3. Etapa \in DeBulk /\ pc \notin Contestas
  BY <1>2 DEF Etapa, EnEspera, Esperas, Orden, DeBulk, Contestas
<1>4. Calma /\ \E r \in DeBulk : Lleva(loc, r)
  <2>1. CASE pc' = "copia" /\ UNCHANGED <<loc, hw>>
    <3>1. "copia" \notin EnEspera \cup Contestas /\ "copia" \in DeBulk
      BY DEF EnEspera, Esperas, Orden, Contestas, DeBulk
    <3> QED
      BY <2>1, <3>1, PasaLleva
  <2>2. CASE Bulk(loc, IF loc.op = "escribe" THEN SALE ELSE ENTRA, TrbsDeDatos(loc.op), "copia")
    <3>1. (\E r \in {"copia", "fin"} : Lleva(loc, r)) /\ Calma
      BY <1>1, <2>2, BulkLleva
    <3> QED
      BY <3>1 DEF DeBulk
  <2>3. CASE Bulk(loc, ENTRA, <<"csw">>, "valida")
    <3>1. (\E r \in {"valida", "fin"} : Lleva(loc, r)) /\ Calma
      BY <1>1, <2>3, BulkLleva
    <3> QED
      BY <3>1 DEF DeBulk
  <2> QED
    BY <1>2, <2>1, <2>2, <2>3
<1> QED
  BY <1>2, <1>3, <1>4, BulkCuida DEF Lleva, MismaPila

LEMMA BulkEsperaCuida == ASSUME Sano, BulkListo \/ SegmentadaListo \/ BulkVence \/ Valida PROVE Cuida
<1>1. Forma /\ FormaLoc(loc) /\ Esperando
  BY SanoDice
<1>2. /\ pc \in {"bulk", "segmentada", "valida"} /\ UNCHANGED <<tab, hid, dma, unidades, hw>>
      /\ pc' = "fin" \/ (pc # "valida" /\ pc' = loc.ret)
      /\ \E r : loc' = [loc EXCEPT !.res = r]
      /\ fantasma' = fantasma \/ fantasma' = [fantasma EXCEPT !.vencidas = @ \cup {<<loc.s, loc.d>>}]
  <2>1. ASSUME BulkListo
        PROVE pc = "bulk" /\ UNCHANGED <<tab, hid, dma, unidades, hw, fantasma>> /\ pc' \in {loc.ret, "fin"}
              /\ \E r : loc' = [loc EXCEPT !.res = r]
    BY <2>1 DEF BulkListo, MarcoMsc
  <2>2. ASSUME SegmentadaListo
        PROVE pc = "segmentada" /\ UNCHANGED <<tab, hid, dma, unidades, hw, fantasma>> /\ pc' \in {loc.ret, "fin"}
              /\ \E r : loc' = [loc EXCEPT !.res = r]
    <3> DEFINE bien == \A i \in 1..2 : captura.codigos[i] \in Bien
    <3>1. pc = "segmentada" /\ UNCHANGED <<tab, hid, dma, unidades, hw, fantasma>>
          /\ pc' = (IF bien THEN loc.ret ELSE "fin") /\ loc' = [loc EXCEPT !.res = IF bien THEN "ok" ELSE "mal"]
      BY <2>2 DEF SegmentadaListo, MarcoMsc
    <3> HIDE DEF bien
    <3> QED
      BY <3>1
  <2>3. ASSUME BulkVence
        PROVE /\ pc \in {"bulk", "segmentada"} /\ UNCHANGED <<tab, hid, dma, unidades, hw>> /\ pc' = "fin"
              /\ loc' = [loc EXCEPT !.res = "mal"]
              /\ fantasma' = [fantasma EXCEPT !.vencidas = @ \cup {<<loc.s, loc.d>>}]
    BY <2>3 DEF BulkVence, MarcoMsc
  <2>4. ASSUME Valida
        PROVE pc = "valida" /\ UNCHANGED <<tab, hid, dma, unidades, hw, fantasma>> /\ pc' = "fin"
              /\ \E r : loc' = [loc EXCEPT !.res = r]
    <3>1. /\ pc = "valida" /\ UNCHANGED <<tab, hid, dma, unidades, hw, fantasma>> /\ pc' = "fin"
          /\ loc' = [loc EXCEPT !.res = IF CswAceptado THEN "ok" ELSE "mal"]
      BY <2>4 DEF Valida, MarcoMsc
    <3> QED
      BY <3>1
  <2> QED
    BY <2>1, <2>2, <2>3, <2>4
<1>3. loc.ret \in {"datos", "copia", "valida"} \/ pc = "valida"
  BY <1>1, <1>2 DEF Esperando
<1>4. Etapa \in DeBulk /\ pc \notin Contestas
  BY <1>2, <1>3 DEF Etapa, EnEspera, Esperas, Orden, DeBulk, Contestas
<1>5. pc' \in DeBulk /\ Etapa' \in DeBulk /\ Calma
  BY <1>2, <1>3 DEF Etapa, EnEspera, Esperas, Orden, DeBulk, Calma, Contestas, Esperando
<1>6. MismaPila /\ loc'.op = loc.op /\ fantasma'.huerfanas = fantasma.huerfanas
  BY <1>1, <1>2 DEF MismaPila, FormaLoc, Forma, FormaFan
<1> QED
  BY <1>2, <1>4, <1>5, <1>6, BulkCuida

(* A read or a write begins and ends with nothing in hand.                 *)
LEMMA OciosoSuelto == ASSUME Tablas, pc = "ocio" PROVE Etapa = "ocio" /\ ~Dispone
BY DEF Etapa, EnEspera, Esperas, Orden, Dispone, EnMano, Sueltas

LEMMA SectorialCuida == ASSUME Sano, NEW u, NEW op \in DeLectura, Sectorial(u, op) PROVE Cuida
<1>1. Forma /\ Tablas
  BY SanoDice
<1> DEFINE l == [LocVacio EXCEPT !.s = unidades[u].slot, !.u = u]
           k == [l EXCEPT !.op = op, !.etiqueta = msc.etiqueta]
<1>2. pc = "ocio" /\ UNCHANGED <<tab, hid, dma, unidades, fantasma>> /\ Bulk(k, SALE, <<"cbw">>, "datos")
  BY DEF Sectorial, MarcoMsc
<1>3. FormaLoc(l) /\ l.bufs = {}
  <2>1. PICK s : s = unidades[u].slot
    OBVIOUS
  <2>2. FormaLoc([LocVacio EXCEPT !.s = s, !.u = u])
    BY LocVacioForma
  <2>3. FormaLoc(LocVacio) /\ LocVacio.bufs = {}
    BY LocVacioForma DEF LocVacio
  <2> QED
    BY <2>1, <2>2, <2>3 DEF FormaLoc
<1> HIDE DEF l
<1>4. FormaLoc(k) /\ k.bufs = {} /\ k.op = op
  BY <1>3 DEF FormaLoc
<1> HIDE DEF k
<1>5. (\E r \in {"datos", "fin"} : Lleva(k, r)) /\ Calma
  BY <1>1, <1>2, <1>4, BulkLleva
<1>6. Etapa = "ocio" /\ ~Dispone
  BY <1>1, <1>2, OciosoSuelto
<1>7. Suelta(Etapa', loc')
  BY <1>4, <1>5 DEF Lleva, Suelta, DeBulk, EnEspera, Esperas, Orden
<1>8. MarcoTablas
  BY <1>2, <1>5, QuietoMarco DEF Lleva
<1>9. Tablas'
  BY <1>1, <1>6, <1>7, <1>8, SueltaTablas
<1>10. Desusa
  BY <1>2, DesusaQuieta
<1> QED
  BY <1>5, <1>9, <1>10 DEF Cuida

LEMMA ResponderCuida == ASSUME Sano, Responder PROVE Cuida
<1>1. Tablas
  BY SanoDice
<1>2. pc = "fin" /\ loc.op \in DeLectura /\ pc' = "ocio" /\ loc' = LocVacio /\ UNCHANGED <<tab, hid, dma, unidades, fantasma, hw>>
  BY DEF Responder, MarcoMsc, DeLectura
<1>3. Etapa = "fin" /\ ~Dispone /\ Etapa' = "ocio"
  BY <1>2 DEF Etapa, EnEspera, Esperas, Orden, Dispone, EnMano
<1>4. Suelta(Etapa', loc')
  BY <1>2, <1>3 DEF Suelta, LocVacio, DeLectura, Sueltas, EnEspera, Esperas, Orden
<1>5. MarcoTablas
  BY <1>2, QuietoMarco
<1>6. Tablas'
  BY <1>1, <1>3, <1>4, <1>5, SueltaTablas
<1>7. Desusa /\ Calma
  BY <1>2, DesusaQuieta DEF Calma, Contestas, Esperando
<1> QED
  BY <1>6, <1>7 DEF Cuida

(* A control transfer ends, well or not.                                   *)
LEMMA ControlEsperaCuida == ASSUME Sano, ControlListo \/ ControlVence PROVE Cuida
<1>1. Forma /\ FormaLoc(loc) /\ Tablas /\ Esperando
  BY SanoDice
<1>2. /\ pc = "control" /\ pc' = loc.ret /\ UNCHANGED <<hw, tab, hid, dma, unidades>>
      /\ \E r : loc' = [loc EXCEPT !.res = r]
      /\ fantasma' = fantasma \/ fantasma' = [fantasma EXCEPT !.vencidas = @ \cup {<<loc.s, EP0>>}]
  BY DEF ControlListo, ControlVence
<1>3. MismaPila /\ loc'.op = loc.op /\ fantasma'.huerfanas = fantasma.huerfanas
  BY <1>1, <1>2 DEF MismaPila, FormaLoc, Forma, FormaFan
<1>4. Etapa = loc.ret /\ loc.ret \notin EnEspera \cup Contestas
  BY <1>1, <1>2 DEF Etapa, EnEspera, Esperas, Tablas, Llamada, Esperando
<1>5. Etapa' = Etapa /\ Calma
  BY <1>2, <1>4 DEF Etapa, Calma, EnEspera, Esperas, Esperando
<1>6. MarcoTablas
  BY <1>2, <1>3, QuietoMarco
<1>7. Tablas'
  BY <1>1, <1>3, <1>5, <1>6, MismaEtapa
<1>8. Desusa
  BY <1>2, <1>3, DesusaQuieta
<1> QED
  BY <1>5, <1>7, <1>8 DEF Cuida
-----------------------------------------------------------------------------
(* The ports keep the tables.                                               *)

Reposos == {"ocio", "escanea", "rebote", "reset", "habilitado"}

LEMMA ReposaSuelto ==
  ASSUME Tablas, pc \in Reposos PROVE Etapa = pc /\ ~Dispone /\ Etapa # "retirada" /\ loc.bufs = {} /\ loc.op \notin DeLectura
<1>1. Etapa = pc /\ ~Dispone /\ Etapa # "retirada"
  BY DEF Reposos, Etapa, EnEspera, Esperas, Orden, Dispone, EnMano, Sueltas
<1> QED
  BY <1>1 DEF Tablas, Llamada, DeBulk, Reposos

LEMMA ReposaCuida ==
  ASSUME Sano, pc \in Reposos, MarcoTablas, Suelta(Etapa', loc'), Calma PROVE Cuida
<1>1. Tablas'
  BY SanoDice, ReposaSuelto, SueltaTablas
<1>2. Desusa
  BY DesusaQuieta DEF Reposos, MarcoTablas
<1> QED
  BY <1>1, <1>2 DEF Cuida

LEMMA VuelveSuelta ==
  ASSUME NEW l, Vuelve(l) PROVE Suelta(Etapa', loc') /\ hw' = hw /\ Calma
<1>1. /\ Etapa' \in {"ocio", "escanea"} /\ pc' = Etapa' /\ loc'.bufs = {} /\ loc'.op = "no" /\ hw' = hw
      /\ Calma
  BY VuelveLleva
<1> QED
  BY <1>1 DEF Suelta, EnEspera, Esperas, Orden, DeLectura, Sueltas

LEMMA EscaneoCuida ==
  ASSUME Sano, NEW p \in Puertos, EscaneoInicial(p) \/ SinCambio(p) \/ Conexion(p) \/ Rebote PROVE Cuida
<1>1. Forma /\ Tablas
  BY SanoDice
<1>2. /\ pc \in Reposos /\ UNCHANGED <<hid, dma, fantasma, unidades>>
      /\ tab' = tab \/ \E c : tab' = [tab EXCEPT !.ccs = c]
      /\ Vuelve(loc) \/ (pc' \in {"reset", "rebote"} /\ UNCHANGED <<loc, hw>>)
      /\ (pc = "escanea" /\ loc.p = p) \/ pc = "rebote"
  <2>1. ASSUME EscaneoInicial(p) \/ Conexion(p) PROVE \E c : tab' = [tab EXCEPT !.ccs = c]
    <3>1. PICK b : tab' = [tab EXCEPT !.ccs[p] = b]
      BY <2>1 DEF EscaneoInicial, Conexion
    <3>2. tab' = [tab EXCEPT !.ccs = [@ EXCEPT ![p] = b]]
      BY <3>1
    <3> QED
      BY <3>2
  <2> QED
    BY <2>1 DEF EscaneoInicial, SinCambio, Conexion, Rebote, Escanea, Reposos
<1>3. hw' = hw
  BY <1>2 DEF Vuelve
<1>4. MarcoTab
  BY <1>1, <1>2 DEF MarcoTab, ConservaTab, Tablas, FormaTablas, FormaTab
<1>5. MarcoTablas
  BY <1>2, <1>3, <1>4 DEF MarcoTablas
<1>6. CASE Vuelve(loc)
  BY <1>2, <1>5, <1>6, VuelveSuelta, ReposaCuida
<1>7. CASE pc' \in {"reset", "rebote"} /\ UNCHANGED <<loc, hw>>
  <2>1. Etapa = pc /\ loc.bufs = {} /\ loc.op \notin DeLectura
    BY <1>1, <1>2, ReposaSuelto
  <2>2. loc.p \in Puertos
    BY <1>1, <1>2, <2>1 DEF Tablas, Llamada
  <2>3. Suelta(Etapa', loc') /\ Calma
    BY <1>7, <2>1, <2>2 DEF Etapa, EnEspera, Esperas, Orden, Suelta, Sueltas, Calma, Contestas, Esperando
  <2> QED
    BY <1>2, <1>5, <2>3, ReposaCuida
<1> QED
  BY <1>2, <1>6, <1>7

LEMMA OcioCuida == ASSUME Sano, Sondeo \/ LeerCaracter PROVE Cuida
<1>1. Forma /\ Tablas
  BY SanoDice
<1>2. pc = "ocio" /\ pc \in Reposos /\ UNCHANGED <<hw, unidades, dma, fantasma>>
  BY DEF Sondeo, LeerCaracter, Reposos
<1>3. Etapa = pc /\ loc.bufs = {} /\ loc.op \notin DeLectura
  BY <1>1, <1>2, ReposaSuelto
<1>4. CASE Sondeo
  <2>1. /\ pc' = "escanea" /\ loc' = [LocVacio EXCEPT !.modo = "escaneo", !.p = 1] /\ hid' = hid
        /\ tab' = [tab EXCEPT !.cambio = FALSE]
    BY <1>4 DEF Sondeo
  <2>2. loc'.bufs = {} /\ loc'.op = "no"
    BY <2>1 DEF LocVacio
  <2>3. MarcoTab
    BY <1>1, <2>1 DEF MarcoTab, ConservaTab, Tablas, FormaTablas, FormaTab
  <2>4. MarcoTablas
    BY <1>2, <2>1, <2>3 DEF MarcoTablas
  <2>5. Suelta(Etapa', loc') /\ Calma
    BY <2>1, <2>2 DEF Etapa, EnEspera, Esperas, Orden, Suelta, Sueltas, DeLectura, Calma, Contestas, Esperando
  <2> QED
    BY <1>2, <2>4, <2>5, ReposaCuida
<1>5. CASE LeerCaracter
  <2>1. hid' = [hid EXCEPT !.teclas = Tail(@)] /\ UNCHANGED <<pc, loc, tab>>
    BY <1>5 DEF LeerCaracter
  <2>2. hid'.est = hid.est
    BY <1>1, <2>1 DEF Forma, FormaHid
  <2>3. MarcoTablas
    BY <1>2, <2>1, <2>2 DEF MarcoTablas, MarcoTab, ConservaTab
  <2>4. Suelta(Etapa', loc') /\ Calma
    BY <1>2, <1>3, <2>1 DEF Etapa, EnEspera, Esperas, Orden, Suelta, Sueltas, Calma, Contestas, Esperando
  <2> QED
    BY <1>2, <2>3, <2>4, ReposaCuida
<1> QED
  BY <1>4, <1>5

LEMMA ResetearCuida == ASSUME Sano, Limpia', ResetearPuerto PROVE Cuida
<1>1. Forma /\ FormaLoc(loc) /\ Tablas
  BY SanoDice
<1>2. pc = "reset" /\ pc \in Reposos /\ UNCHANGED <<tab, unidades, dma>>
  BY DEF ResetearPuerto, Reposos
<1>3. Etapa = pc /\ loc.bufs = {} /\ loc.op \notin DeLectura
  BY <1>1, <1>2, ReposaSuelto
<1>4. /\ UNCHANGED <<hid, fantasma>>
      /\ Vuelve(loc) \/ (tab.puertoSlot[loc.p] = 0 /\ EnviarComando(loc, "enable", 0, "habilitado"))
  <2>1. ASSUME fantasma' = [fantasma EXCEPT !.pisada = TRUE,
                              !.retiradas = IF hid.est[tab.puertoSlot[loc.p]] = "activo" THEN @ \cup {<<tab.puertoSlot[loc.p], ENTRA>>} ELSE @]
        PROVE FALSE
    BY <1>1, <2>1 DEF Limpia, Forma, FormaFan
  <2> QED
    BY <2>1 DEF ResetearPuerto
<1>5. CASE Vuelve(loc)
  <2>1. MarcoTablas
    BY <1>2, <1>4, <1>5, VuelveSuelta, QuietoMarco
  <2> QED
    BY <1>2, <1>5, <2>1, VuelveSuelta, ReposaCuida
<1>6. CASE tab.puertoSlot[loc.p] = 0 /\ EnviarComando(loc, "enable", 0, "habilitado")
  <2>1. "habilitado" \notin EnEspera
    BY DEF EnEspera, Esperas, Orden
  <2>2. Lleva(loc, "habilitado") /\ Calma
    BY <1>1, <1>6, <2>1, EnviarLleva
  <2>3. loc.p \in Puertos
    BY <1>1, <1>2, <1>3 DEF Tablas, Llamada
  <2>4. MarcoTablas
    BY <1>2, <1>4, <2>2, QuietoMarco DEF Lleva
  <2>5. Suelta(Etapa', loc')
    BY <1>2, <1>3, <1>6, <2>1, <2>2, <2>3 DEF Suelta, Lleva, Sueltas
  <2> QED
    BY <1>2, <2>2, <2>4, <2>5, ReposaCuida
<1> QED
  BY <1>4, <1>5, <1>6

(* A port is configured over its slot in no run the theorem speaks of.     *)
LEMMA PrevioCuida == ASSUME Sano, SlotPrevio PROVE Cuida
<1>1. Tablas
  BY SanoDice
<1>2. Etapa = "previo"
  BY DEF SlotPrevio, Etapa, EnEspera, Esperas, Orden
<1> QED
  BY <1>1, <1>2 DEF Tablas, Llamada

-----------------------------------------------------------------------------
(* A slot on its way out: its endpoints and its units go first.            *)

Despide(s, p) ==
  /\ ConservaTab /\ tab'.bulk = BulkAjenos(s) /\ Apaga(s) /\ hw'.ran = hw.ran /\ dma' = dma
  /\ s \in Ranuras /\ p \in Puertos /\ tab.puertoSlot[p] = s
  /\ Etapa' = "retirada" /\ loc'.s = s /\ loc'.p = p /\ loc'.bufs = {} /\ loc'.op \notin DeLectura

LEMMA DespideUnidades ==
  ASSUME FormaUni, NEW s, Apaga(s)
  PROVE /\ FormaUni'
        /\ \A u \in DOMAIN unidades : unidades'[u].activo =>
             unidades[u].activo /\ unidades'[u].slot = unidades[u].slot /\ unidades[u].slot # s
<1>1. unidades' = [u \in DOMAIN unidades |-> IF unidades[u].activo /\ unidades[u].slot = s THEN UnidadLibre ELSE unidades[u]]
  BY DEF Apaga, Desregistrar
<1>2. {"activo", "slot"} \subseteq DOMAIN UnidadLibre /\ ~UnidadLibre.activo
  BY DEF UnidadLibre
<1>3. DOMAIN unidades' = DOMAIN unidades
      /\ \A u \in DOMAIN unidades : \/ unidades'[u] = UnidadLibre
                                    \/ unidades'[u] = unidades[u] /\ ~(unidades[u].activo /\ unidades[u].slot = s)
  BY <1>1
<1>4. FormaUni'
  BY <1>2, <1>3 DEF FormaUni
<1> QED
  BY <1>2, <1>3, <1>4

LEMMA DespideTablas ==
  ASSUME Forma, Tablas, ~Dispone, Etapa # "retirada", NEW s, NEW p, Despide(s, p) PROVE Tablas'
<1>1. /\ ConservaTab /\ tab'.bulk = BulkAjenos(s) /\ Apaga(s) /\ hw'.ran = hw.ran /\ dma' = dma
      /\ s \in Ranuras /\ p \in Puertos /\ tab.puertoSlot[p] = s
      /\ Etapa' = "retirada" /\ loc'.s = s /\ loc'.p = p /\ loc'.bufs = {} /\ loc'.op \notin DeLectura
  BY DEF Despide
<1>2. /\ hid' = [hid EXCEPT !.est[s] = "no"]
      /\ fantasma'.huerfanas = fantasma.huerfanas
  BY <1>1 DEF Apaga, Forma, FormaFan
<1>3. /\ DOMAIN hid'.est = DOMAIN hid.est
      /\ \A r \in Ranuras : hid'.est[r] = "activo" => hid.est[r] = "activo" /\ r # s
  BY <1>1, <1>2 DEF Forma, FormaHid, Tablas, FormaTablas
<1>4. FormaUni
  BY DEF Tablas, FormaTablas
<1>5. /\ FormaUni'
      /\ \A u \in DOMAIN unidades : unidades'[u].activo =>
           unidades[u].activo /\ unidades'[u].slot = unidades[u].slot /\ unidades[u].slot # s
  BY <1>1, <1>4, DespideUnidades
<1>6. FormaTablas'
  <2>1. FormaTab' /\ FormaRan'
    BY <1>1 DEF Tablas, FormaTablas, FormaTab, FormaRan, ConservaTab
  <2> QED
    BY <1>1, <1>3, <1>5, <2>1 DEF Tablas, FormaTablas
<1>7. /\ \A r : Mapeada(r)' = Mapeada(r)
      /\ \A d : Guardado(d)' = Guardado(d)
      /\ \A r : Ctx(r)' = Ctx(r)
      /\ Mapas'
  BY <1>1, MarcoGuardado DEF Tablas
<1>8. ~EnMano /\ ~Registrando /\ ~Dispone' /\ ~EnMano' /\ ~Registrando' /\ (\A r : ~Retirando(r))
      /\ \A r : Retirando(r)' <=> r = s
  BY <1>1 DEF Dispone, EnMano, Registrando, Retirando, Sueltas
<1>9. Mapeadas'
  BY <1>1, <1>2, <1>7, <1>8 DEF Tablas, Mapeadas, ConservaTab
<1>10. loc.bufs = {}
  BY DEF Tablas, Llamada
<1>11. Memoria'
  BY <1>1, <1>7, <1>10 DEF Tablas, Memoria
<1>12. Llamada'
  BY <1>1, <1>8 DEF Llamada, ConservaTab, EnEspera, Esperas, Orden
<1>13. Direcciones'
  BY <1>1, <1>2, <1>7, <1>8 DEF Tablas, Direcciones, ConservaTab
<1>14. \A r, d : <<r, d>> \in tab'.bulk <=> <<r, d>> \in tab.bulk /\ r # s
  BY <1>1 DEF BulkAjenos
<1>15. Parejas'
  BY <1>1, <1>14 DEF Tablas, Parejas
<1>16. Unidades'
  <2>1. \A r : ConRanura(r) /\ r # s => ConRanura(r)'
    BY <1>7, <1>8 DEF ConRanura
  <2>2. DOMAIN unidades' = DOMAIN unidades
    BY <1>4, <1>5 DEF FormaUni
  <2> QED
    BY <1>5, <1>14, <2>1, <2>2 DEF Tablas, Unidades
<1>17. Teclados'
  BY <1>3, <1>7, <1>8 DEF Tablas, Teclados
<1> QED
  BY <1>6, <1>7, <1>9, <1>11, <1>12, <1>13, <1>15, <1>16, <1>17 DEF Tablas

LEMMA DespideCuida ==
  ASSUME Sano, pc \in {"ocio", "escanea"}, NEW s, NEW p, Despide(s, p), Calma PROVE Cuida
<1>1. Forma /\ Tablas /\ pc \in Reposos
  BY SanoDice DEF Reposos
<1>2. Tablas'
  BY <1>1, ReposaSuelto, DespideTablas
<1>3. fantasma'.huerfanas = fantasma.huerfanas
  BY <1>1 DEF Despide, Apaga, Forma, FormaFan
<1>4. Desusa
  BY <1>3, DesusaQuieta
<1> QED
  BY <1>2, <1>4 DEF Cuida

LEMMA RetiradaEspera == "retirada" \notin EnEspera
BY DEF EnEspera, Esperas, Orden

LEMMA DesconexionCuida == ASSUME Sano, NEW p \in Puertos, Desconexion(p) PROVE Cuida
<1>1. Forma /\ FormaLoc(loc) /\ Tablas
  BY SanoDice
<1> DEFINE s == tab.puertoSlot[p]
           t == [tab EXCEPT !.ccs[p] = 0]
           l == [loc EXCEPT !.s = s]
<1>2. /\ pc = "escanea" /\ loc.p = p /\ dma' = dma
      /\ \/ tab' = t /\ Vuelve(loc) /\ UNCHANGED <<hid, unidades, fantasma>>
         \/ /\ s # 0 /\ tab' = [t EXCEPT !.bulk = BulkAjenos(s)] /\ Apaga(s)
            /\ EnviarComando(l, "disable", s, "retirada")
  BY DEF Desconexion, Escanea
<1>3. Etapa = pc /\ loc.bufs = {} /\ loc.op \notin DeLectura /\ pc \in Reposos
  BY <1>1, <1>2, ReposaSuelto DEF Reposos
<1>4. /\ {"puertoSlot", "slotPuerto", "slotCtx", "dcbaa", "bulk"} \subseteq DOMAIN tab /\ s \in Ranuras \cup {0}
      /\ DOMAIN t = DOMAIN tab /\ t.puertoSlot = tab.puertoSlot /\ t.slotPuerto = tab.slotPuerto
      /\ t.slotCtx = tab.slotCtx /\ t.dcbaa = tab.dcbaa /\ t.bulk = tab.bulk
  BY <1>1 DEF Tablas, FormaTablas, FormaTab
<1>5. FormaLoc(l) /\ l.s = s /\ l.p = p /\ l.bufs = {} /\ l.op = loc.op
  BY <1>1, <1>2, <1>3 DEF FormaLoc
<1> HIDE DEF t, l
<1>6. CASE tab' = t /\ Vuelve(loc) /\ UNCHANGED <<hid, unidades, fantasma>>
  <2>1. Suelta(Etapa', loc') /\ hw' = hw /\ Calma
    BY <1>6, VuelveSuelta
  <2>2. MarcoTablas
    BY <1>2, <1>4, <1>6, <2>1 DEF MarcoTablas, MarcoTab, ConservaTab
  <2> QED
    BY <1>3, <2>1, <2>2, ReposaCuida
<1>7. CASE /\ s # 0 /\ tab' = [t EXCEPT !.bulk = BulkAjenos(s)] /\ Apaga(s)
           /\ EnviarComando(l, "disable", s, "retirada")
  <2>1. Lleva(l, "retirada") /\ Calma
    BY <1>5, <1>7, EnviarLleva, RetiradaEspera
  <2>2. ConservaTab /\ tab'.bulk = BulkAjenos(s)
    BY <1>4, <1>7 DEF ConservaTab
  <2>3. Despide(s, p)
    BY <1>2, <1>3, <1>4, <1>5, <1>7, <2>1, <2>2 DEF Despide, Lleva
  <2> QED
    BY <1>2, <2>1, <2>3, DespideCuida
<1> QED
  BY <1>2, <1>6, <1>7

LEMMA ForzarCuida == ASSUME Sano, NEW p \in Puertos, ForzarResetPuerto(p) PROVE Cuida
<1>1. Forma /\ FormaLoc(loc) /\ Tablas
  BY SanoDice
<1> DEFINE s == tab.puertoSlot[p]
           l == [LocVacio EXCEPT !.modo = "forzado", !.p = p, !.s = s]
<1>2. /\ pc = "ocio" /\ dma' = dma
      /\ \/ pc' = "reset" /\ loc' = l /\ UNCHANGED <<hw, tab, hid, unidades, fantasma>>
         \/ /\ s # 0 /\ tab' = [tab EXCEPT !.bulk = BulkAjenos(s)] /\ Apaga(s)
            /\ EnviarComando(l, "disable", s, "retirada")
  BY DEF ForzarResetPuerto
<1>3. pc \in Reposos
  BY <1>2 DEF Reposos
<1>4. {"puertoSlot", "slotPuerto", "slotCtx", "dcbaa", "bulk"} \subseteq DOMAIN tab /\ s \in Ranuras \cup {0}
  BY <1>1 DEF Tablas, FormaTablas, FormaTab
<1>5. FormaLoc(l) /\ l.s = s /\ l.p = p /\ l.bufs = {} /\ l.op = "no"
  <2>1. FormaLoc(l)
    BY LocVacioForma
  <2>2. l.s = s /\ l.p = p /\ l.bufs = {} /\ l.op = "no"
    BY DEF LocVacio
  <2> QED
    BY <2>1, <2>2
<1> HIDE DEF l
<1>6. CASE pc' = "reset" /\ loc' = l /\ UNCHANGED <<hw, tab, hid, unidades, fantasma>>
  <2>1. MarcoTablas
    BY <1>2, <1>6 DEF MarcoTablas, MarcoTab, ConservaTab
  <2>2. Suelta(Etapa', loc') /\ Calma
    BY <1>5, <1>6 DEF Etapa, EnEspera, Esperas, Orden, Suelta, Sueltas, DeLectura, Calma, Contestas, Esperando
  <2> QED
    BY <1>3, <2>1, <2>2, ReposaCuida
<1>7. CASE /\ s # 0 /\ tab' = [tab EXCEPT !.bulk = BulkAjenos(s)] /\ Apaga(s)
           /\ EnviarComando(l, "disable", s, "retirada")
  <2>1. Lleva(l, "retirada") /\ Calma
    BY <1>5, <1>7, EnviarLleva, RetiradaEspera
  <2>2. ConservaTab /\ tab'.bulk = BulkAjenos(s)
    BY <1>4, <1>7 DEF ConservaTab
  <2>3. Despide(s, p)
    BY <1>2, <1>4, <1>5, <1>7, <2>1, <2>2 DEF Despide, Lleva, DeLectura
  <2> QED
    BY <1>2, <2>1, <2>3, DespideCuida
<1> QED
  BY <1>2, <1>6, <1>7
-----------------------------------------------------------------------------
(* Slots that come, are kept or go.                                         *)

(* Enable Slot was answered: what is in hand is the slot, and the buffers  *)
(* there was memory for.                                                   *)
Habilita(B) ==
  /\ DOMAIN tab' = DOMAIN tab /\ tab'.puertoSlot = tab.puertoSlot /\ tab'.slotPuerto = tab.slotPuerto
  /\ tab'.slotCtx = tab.slotCtx /\ tab'.bulk = tab.bulk /\ DOMAIN tab'.dcbaa = Ranuras
  /\ \A r \in Ranuras : r # loc.s => tab'.dcbaa[r] = tab.dcbaa[r]
  /\ hw'.ran = hw.ran /\ hid' = hid /\ unidades' = unidades
  /\ fantasma'.huerfanas = fantasma.huerfanas \ {loc.s}
  /\ loc'.p = loc.p /\ loc'.s = loc.s /\ loc'.bufs = B /\ loc'.op = loc.op /\ dma' = dma \cup B
  /\ B = {} \/ (tab'.dcbaa[loc.s] = NuevoCtx /\ <<"ctx", NuevoCtx>> \in B)
  /\ B \subseteq {<<"ctx", NuevoCtx>>, <<"in", 0>>}
  /\ Etapa' = "libera" \/ (Etapa' = "direccionado" /\ B # {})

LEMMA HabilitaTablas ==
  ASSUME Tablas, Etapa = "habilitado", loc.s \in Ranuras, hw.ran[loc.s].est = "habilitada", ~Mapeada(loc.s),
         NEW B, Habilita(B)
  PROVE Tablas'
<1> DEFINE c == <<"ctx", NuevoCtx>>
           s == loc.s
<1>1. /\ DOMAIN tab' = DOMAIN tab /\ tab'.puertoSlot = tab.puertoSlot /\ tab'.slotPuerto = tab.slotPuerto
      /\ tab'.slotCtx = tab.slotCtx /\ tab'.bulk = tab.bulk /\ DOMAIN tab'.dcbaa = Ranuras
      /\ \A r \in Ranuras : r # s => tab'.dcbaa[r] = tab.dcbaa[r]
      /\ hw'.ran = hw.ran /\ hid' = hid /\ unidades' = unidades
      /\ fantasma'.huerfanas = fantasma.huerfanas \ {s}
      /\ loc'.p = loc.p /\ loc'.s = s /\ loc'.bufs = B /\ loc'.op = loc.op /\ dma' = dma \cup B
      /\ B = {} \/ (tab'.dcbaa[s] = NuevoCtx /\ c \in B)
      /\ B \subseteq {c, <<"in", 0>>}
      /\ Etapa' = "libera" \/ (Etapa' = "direccionado" /\ B # {})
  BY DEF Habilita
<1>2. c \notin dma
  BY CtxNuevo DEF Tablas, FormaTablas
<1>3. /\ ~Dispone /\ ~EnMano /\ ~Registrando /\ (\A r : ~Retirando(r)) /\ loc.bufs = {} /\ loc.op \notin DeLectura
      /\ loc.p \in Puertos /\ tab.puertoSlot[loc.p] = 0
  BY DEF Tablas, Llamada, Dispone, EnMano, Registrando, Retirando, Sueltas, DeBulk
<1>4. /\ Dispone' /\ ~Registrando' /\ (\A r : ~Retirando(r)') /\ (EnMano' => B # {})
      /\ Etapa' \notin EnEspera \cup {"previo", "retirada", "habilitado", "reset", "rebote", "registrar", "apunta"}
  BY <1>1, <1>3 DEF Dispone, EnMano, Registrando, Retirando, Sueltas, DeBulk, EnEspera, Esperas, Orden
<1>5. (\A r : Mapeada(r)' = Mapeada(r)) /\ \A d : Guardado(d)' = Guardado(d)
  <2>1. \A r : Mapeada(r)' = Mapeada(r)
    BY <1>1 DEF Mapeada
  <2> QED
    BY <1>1, <2>1 DEF Guardado
<1>6. FormaTablas'
  <2>1. IsFiniteSet(dma')
    <3>1. IsFiniteSet((dma \cup {c}) \cup {<<"in", 0>>})
      BY FS_AddElement DEF Tablas, FormaTablas
    <3>2. dma' \subseteq (dma \cup {c}) \cup {<<"in", 0>>}
      BY <1>1
    <3> QED
      BY <3>1, <3>2, FS_Subset
  <2>2. FormaTab' /\ FormaRan' /\ FormaUni'
    BY <1>1 DEF Tablas, FormaTablas, FormaTab, FormaRan, FormaUni
  <2> QED
    BY <1>1, <2>1, <2>2 DEF Tablas, FormaTablas
<1>7. Mapas'
  BY <1>1 DEF Tablas, Mapas
<1>8. Mapeadas'
  BY <1>1, <1>3, <1>4, <1>5 DEF Tablas, Mapeadas
<1>9. Memoria'
  BY <1>1, <1>3, <1>5 DEF Tablas, Memoria
<1>10. \A r \in Ranuras : Mapeada(r) => tab.slotCtx[r] # NuevoCtx
  BY <1>2 DEF Tablas, Memoria, Guardado
<1>11. Llamada'
  <2>1. B # {} => Ctx(loc.s)' = c /\ c \in B
    BY <1>1 DEF Ctx
  <2>2. c # <<"in", 0>> /\ Ctx(loc.s)' # <<"in", 0>>
    BY <1>1 DEF Ctx
  <2>3. B \subseteq {Ctx(loc.s)', <<"in", 0>>, <<"desc", 0>>}
    BY <1>1, <2>1
  <2>4. Ctx(loc.s)' \in B => \A r \in Ranuras : Mapeada(r) => tab.slotCtx[r] # tab'.dcbaa[s]
    BY <1>1, <1>10
  <2> HIDE DEF c
  <2> QED
    BY <1>1, <1>3, <1>4, <1>5, <2>1, <2>3, <2>4 DEF Tablas, Llamada, FormaTablas, DeLectura
<1>12. Direcciones'
  BY <1>1, <1>3, <1>4, <1>5 DEF Tablas, Direcciones
<1>13. Parejas'
  BY <1>1, <1>4 DEF Tablas, Parejas
<1>14. Unidades'
  <2>1. \A r : ConRanura(r) => ConRanura(r)'
    BY <1>3, <1>4, <1>5 DEF ConRanura
  <2> QED
    BY <1>1, <2>1 DEF Tablas, Unidades
<1>15. Teclados'
  BY <1>1, <1>3, <1>4, <1>5 DEF Tablas, Teclados
<1> QED
  BY <1>6, <1>7, <1>8, <1>9, <1>11, <1>12, <1>13, <1>14, <1>15 DEF Tablas

LEMMA HabilitadoCuida == ASSUME Sano, Habilitado PROVE Cuida
<1>1. Forma /\ FormaLoc(loc) /\ Tablas /\ Contestada
  BY SanoDice
<1>2. pc = "habilitado" /\ pc \in Reposos /\ pc \in Contestas /\ unidades' = unidades
  BY DEF Habilitado, Tras, MarcoPaso, Reposos, Contestas
<1>3. Etapa = "habilitado" /\ loc.bufs = {}
  BY <1>1, <1>2, ReposaSuelto
<1>4. CASE loc.res # "ok"
  <2>1. Vuelve(loc) /\ UNCHANGED <<tab, hid, dma, fantasma>>
    BY <1>4 DEF Habilitado, Quieto
  <2>2. MarcoTablas
    BY <1>2, <2>1, VuelveSuelta, QuietoMarco
  <2> QED
    BY <1>2, <2>1, <2>2, VuelveSuelta, ReposaCuida
<1>5. CASE loc.res = "ok"
  <2> DEFINE ctx == <<"ctx", NuevoCtx>>
             uno == [loc EXCEPT !.bufs = {ctx}]
             dos == [loc EXCEPT !.bufs = {ctx, <<"in", 0>>}]
             t == [tab EXCEPT !.dcbaa[loc.s] = ctx[2]]
  <2>1. /\ hid' = hid /\ fantasma' = [fantasma EXCEPT !.huerfanas = @ \ {loc.s}]
        /\ \/ /\ EnviarComando(dos, "address", loc.s, "direccionado")
              /\ dma' = dma \cup {ctx, <<"in", 0>>} /\ tab' = t
           \/ Liberar(loc) /\ UNCHANGED <<dma, tab>>
           \/ Liberar(uno) /\ dma' = dma \cup {ctx} /\ tab' = t
    BY <1>5 DEF Habilitado
  <2>2. /\ FormaLoc(uno) /\ uno.bufs = {ctx} /\ uno.p = loc.p /\ uno.s = loc.s /\ uno.op = loc.op
        /\ FormaLoc(dos) /\ dos.bufs = {ctx, <<"in", 0>>} /\ dos.p = loc.p /\ dos.s = loc.s /\ dos.op = loc.op
    BY <1>1 DEF FormaLoc
  <2>3. loc.s \in Ranuras /\ hw.ran[loc.s].est = "habilitada" /\ ~Mapeada(loc.s) /\ an.disponible
    BY <1>1, <1>2, <1>5, SanoResponde DEF Contestada
  <2>4. fantasma'.huerfanas = fantasma.huerfanas \ {loc.s}
    BY <1>1, <2>1 DEF Forma, FormaFan
  <2>5. /\ DOMAIN t = DOMAIN tab /\ t.puertoSlot = tab.puertoSlot /\ t.slotPuerto = tab.slotPuerto
        /\ t.slotCtx = tab.slotCtx /\ t.bulk = tab.bulk /\ DOMAIN t.dcbaa = Ranuras
        /\ t.dcbaa[loc.s] = NuevoCtx /\ \A r \in Ranuras : r # loc.s => t.dcbaa[r] = tab.dcbaa[r]
    BY <1>1, <2>3 DEF Tablas, FormaTablas, FormaTab
  <2>6. DOMAIN tab.dcbaa = Ranuras
    BY <1>1 DEF Tablas, FormaTablas, FormaTab
  <2> HIDE DEF uno, dos, t, ctx
  <2>7. "direccionado" \notin EnEspera
    BY DEF EnEspera, Esperas, Orden
  <2>8. (\E B : Habilita(B)) /\ Calma
    <3>1. CASE /\ EnviarComando(dos, "address", loc.s, "direccionado")
               /\ dma' = dma \cup {ctx, <<"in", 0>>} /\ tab' = t
      <4>1. Lleva(dos, "direccionado") /\ Calma
        BY <2>2, <2>7, <3>1, EnviarLleva
      <4>2. Habilita({ctx, <<"in", 0>>})
        BY <1>2, <2>1, <2>2, <2>4, <2>5, <3>1, <4>1 DEF Habilita, Lleva, ctx
      <4> QED
        BY <4>1, <4>2
    <3>2. CASE Liberar(loc) /\ UNCHANGED <<dma, tab>>
      <4>1. Lleva(loc, "libera") /\ Calma
        BY <1>1, <3>2, LiberarLleva
      <4>2. dma' = dma \cup {} /\ tab' = tab
        BY <3>2
      <4>3. loc'.bufs = {}
        BY <1>3, <4>1 DEF Lleva
      <4>4. Habilita({})
        BY <1>2, <2>1, <2>4, <2>6, <4>1, <4>2, <4>3 DEF Habilita, Lleva
      <4> QED
        BY <4>1, <4>4
    <3>3. CASE Liberar(uno) /\ dma' = dma \cup {ctx} /\ tab' = t
      <4>1. Lleva(uno, "libera") /\ Calma
        BY <2>2, <3>3, LiberarLleva
      <4>2. Habilita({ctx})
        BY <1>2, <2>1, <2>2, <2>4, <2>5, <3>3, <4>1 DEF Habilita, Lleva, ctx
      <4> QED
        BY <4>1, <4>2
    <3> QED
      BY <2>1, <3>1, <3>2, <3>3
  <2>9. Tablas'
    BY <1>1, <1>3, <2>3, <2>8, HabilitaTablas
  <2>10. Desusa
    BY <2>3 DEF Desusa
  <2> QED
    BY <2>8, <2>9, <2>10 DEF Cuida
<1> QED
  BY <1>4, <1>5

(* The slot of a port goes with its context, whatever the controller said. *)
LEMMA HuerfanasDe ==
  ASSUME Sano, pc \in {"libera", "retirada"}, fantasma' = [fantasma EXCEPT !.huerfanas = Huerfanas(loc.s)]
  PROVE /\ fantasma.huerfanas \subseteq fantasma'.huerfanas
        /\ \A s : s \in fantasma'.huerfanas => s \in fantasma.huerfanas \/ s = loc.s
        /\ hw.ran[loc.s].est = "libre" \/ loc.s \in fantasma'.huerfanas
        /\ Desusa
<1>1. fantasma'.huerfanas = IF loc.res = "ok" THEN fantasma.huerfanas ELSE fantasma.huerfanas \cup {loc.s}
  BY SanoDice DEF Huerfanas, Forma, FormaFan
<1>2. loc.res = "ok" => hw.ran[loc.s].est = "libre"
  BY SanoDice DEF Contestada
<1>3. ~an.disponible => loc.s \in fantasma'.huerfanas
  BY <1>1, SanoResponde DEF Contestas
<1>4. Desusa
  BY <1>1, <1>3 DEF Desusa, Abandonada
<1> QED
  BY <1>1, <1>2, <1>4

LEMMA LiberaCuida == ASSUME Sano, Libera PROVE Cuida
<1> DEFINE s == loc.s
<1>1. Forma /\ FormaLoc(loc) /\ Tablas
  BY SanoDice
<1>2. /\ pc = "libera" /\ unidades' = unidades /\ hid' = hid /\ Vuelve(loc)
      /\ tab' = [tab EXCEPT !.dcbaa[s] = 0] /\ dma' = dma \ loc.bufs
      /\ fantasma' = [fantasma EXCEPT !.huerfanas = Huerfanas(s)]
  BY DEF Libera, Tras, MarcoPaso
<1>3. /\ fantasma.huerfanas \subseteq fantasma'.huerfanas
      /\ \A r : r \in fantasma'.huerfanas => r \in fantasma.huerfanas \/ r = s
      /\ hw.ran[s].est = "libre" \/ s \in fantasma'.huerfanas
      /\ Desusa
  BY <1>2, HuerfanasDe
<1>4. Suelta(Etapa', loc') /\ Etapa' \in {"ocio", "escanea"} /\ loc'.bufs = {} /\ loc'.op = "no" /\ hw' = hw /\ Calma
  BY <1>2, VuelveSuelta, VuelveLleva
<1>5. Etapa = "libera" /\ Dispone /\ ~EnMano /\ ~Registrando /\ \A r : ~Retirando(r)
  BY <1>2 DEF Etapa, EnEspera, Esperas, Orden, Dispone, EnMano, Sueltas, Registrando, Retirando
<1>6. ~Dispone' /\ ~EnMano' /\ ~Registrando' /\ \A r : ~Retirando(r)'
  BY <1>4 DEF Dispone, EnMano, Sueltas, Registrando, Retirando
<1>7. /\ s \in Ranuras /\ ~Mapeada(s)
      /\ loc.bufs \subseteq {Ctx(s), <<"in", 0>>, <<"desc", 0>>}
      /\ Ctx(s) \in loc.bufs => \A r \in Ranuras : Mapeada(r) => tab.slotCtx[r] # tab.dcbaa[s]
  BY <1>1, <1>5 DEF Tablas, Llamada
<1>8. /\ DOMAIN tab' = DOMAIN tab /\ tab'.puertoSlot = tab.puertoSlot /\ tab'.slotPuerto = tab.slotPuerto
      /\ tab'.slotCtx = tab.slotCtx /\ tab'.bulk = tab.bulk /\ DOMAIN tab'.dcbaa = Ranuras
      /\ \A r \in Ranuras : r # s => tab'.dcbaa[r] = tab.dcbaa[r]
  BY <1>1, <1>2 DEF Tablas, FormaTablas, FormaTab
<1>9. (\A r : Mapeada(r)' = Mapeada(r)) /\ \A d : Guardado(d)' = Guardado(d)
  <2>1. \A r : Mapeada(r)' = Mapeada(r)
    BY <1>8 DEF Mapeada
  <2> QED
    BY <1>8, <2>1 DEF Guardado
<1>10. FormaTablas'
  <2>1. IsFiniteSet(dma')
    BY <1>1, <1>2, FS_Subset DEF Tablas, FormaTablas
  <2>2. FormaTab' /\ FormaRan' /\ FormaUni'
    BY <1>1, <1>2, <1>4, <1>8 DEF Tablas, FormaTablas, FormaTab, FormaRan, FormaUni
  <2> QED
    BY <1>1, <1>2, <2>1, <2>2 DEF Tablas, FormaTablas
<1>11. Mapas'
  BY <1>1, <1>8 DEF Tablas, Mapas
<1>12. Mapeadas'
  BY <1>1, <1>3, <1>4, <1>5, <1>6, <1>7, <1>8, <1>9 DEF Tablas, Mapeadas
<1>13. Memoria'
  <2>1. \A b : Guardado(b) => b \notin loc.bufs
    BY <1>7 DEF Guardado, Ctx
  <2> QED
    BY <1>1, <1>2, <1>4, <1>9, <2>1 DEF Tablas, Memoria
<1>14. Llamada'
  BY <1>4, <1>6 DEF Llamada, EnEspera, Esperas, Orden, DeLectura
<1>15. Direcciones'
  BY <1>1, <1>3, <1>4, <1>8, <1>9 DEF Tablas, Direcciones
<1>16. Parejas'
  BY <1>1, <1>4, <1>8 DEF Tablas, Parejas
<1>17. Unidades'
  <2>1. \A r : ConRanura(r) => ConRanura(r)'
    BY <1>5, <1>6, <1>9 DEF ConRanura
  <2> QED
    BY <1>1, <1>2, <1>8, <2>1 DEF Tablas, Unidades
<1>18. Teclados'
  BY <1>1, <1>2, <1>5, <1>6, <1>9 DEF Tablas, Teclados
<1>19. Tablas'
  BY <1>10, <1>11, <1>12, <1>13, <1>14, <1>15, <1>16, <1>17, <1>18 DEF Tablas
<1> QED
  BY <1>3, <1>4, <1>19 DEF Cuida
LEMMA RetiradaCuida == ASSUME Sano, Retirada PROVE Cuida
<1> DEFINE s == loc.s
           p == loc.p
           ctx == <<"ctx", tab.slotCtx[s]>>
<1>1. Forma /\ FormaLoc(loc) /\ Tablas
  BY SanoDice
<1>2. /\ pc = "retirada" /\ unidades' = unidades /\ hid' = hid
      /\ tab' = [tab EXCEPT !.dcbaa[s] = 0, !.slotCtx[s] = 0, !.slotPuerto[s] = 0, !.puertoSlot[p] = 0]
      /\ dma' = dma \ {ctx}
      /\ fantasma' = [fantasma EXCEPT !.huerfanas = Huerfanas(s)]
      /\ (pc' = "reset" /\ loc' = [loc EXCEPT !.s = 0] /\ hw' = hw) \/ Vuelve(loc)
  BY DEF Retirada
<1>3. /\ fantasma.huerfanas \subseteq fantasma'.huerfanas
      /\ \A r : r \in fantasma'.huerfanas => r \in fantasma.huerfanas \/ r = s
      /\ hw.ran[s].est = "libre" \/ s \in fantasma'.huerfanas
      /\ Desusa
  BY <1>2, HuerfanasDe
<1>4. /\ Etapa = "retirada" /\ ~Dispone /\ ~EnMano /\ ~Registrando /\ \A r : Retirando(r) <=> r = s
  BY <1>2 DEF Etapa, EnEspera, Esperas, Orden, Dispone, EnMano, Sueltas, Registrando, Retirando
<1>5. p \in Puertos /\ s \in Ranuras /\ tab.puertoSlot[p] = s /\ loc.bufs = {} /\ loc.op \notin DeLectura
  BY <1>1, <1>4 DEF Tablas, Llamada, DeBulk
<1>6. tab.slotPuerto[s] = p
  BY <1>1, <1>5 DEF Tablas, Mapas
<1>7. p # 0 /\ s # 0
  BY <1>5, PuertosAssumption, RanurasAssumption
<1>8. /\ hw' = hw /\ Calma /\ loc'.bufs = {} /\ loc'.op \notin DeLectura
      /\ Etapa' \in {"ocio", "escanea", "reset"} /\ (Etapa' = "reset" => loc'.p \in Puertos)
  <2>1. CASE Vuelve(loc)
    BY <2>1, VuelveLleva DEF DeLectura
  <2>2. CASE pc' = "reset" /\ loc' = [loc EXCEPT !.s = 0] /\ hw' = hw
    <3>1. loc'.bufs = loc.bufs /\ loc'.op = loc.op /\ loc'.p = p
      BY <1>1, <2>2 DEF FormaLoc
    <3> QED
      BY <1>5, <2>2, <3>1 DEF Calma, Contestas, Esperando, Etapa, EnEspera, Esperas, Orden
  <2> QED
    BY <1>2, <2>1, <2>2
<1>9. /\ ~Dispone' /\ ~EnMano' /\ ~Registrando' /\ (\A r : ~Retirando(r)')
      /\ Etapa' \notin EnEspera \cup {"previo", "retirada", "habilitado", "rebote", "registrar"}
  BY <1>8 DEF Dispone, EnMano, Sueltas, Registrando, Retirando, EnEspera, Esperas, Orden
<1>10. /\ DOMAIN tab' = DOMAIN tab /\ tab'.bulk = tab.bulk /\ DOMAIN tab'.dcbaa = Ranuras /\ DOMAIN tab'.slotCtx = Ranuras
       /\ tab'.puertoSlot \in [Puertos -> Ranuras \cup {0}] /\ tab'.slotPuerto \in [Ranuras -> Puertos \cup {0}]
       /\ tab'.puertoSlot[p] = 0 /\ \A q \in Puertos : q # p => tab'.puertoSlot[q] = tab.puertoSlot[q]
       /\ tab'.slotPuerto[s] = 0 /\ \A r \in Ranuras : r # s => tab'.slotPuerto[r] = tab.slotPuerto[r]
       /\ \A r \in Ranuras : r # s => tab'.dcbaa[r] = tab.dcbaa[r] /\ tab'.slotCtx[r] = tab.slotCtx[r]
  <2> DEFINE a == [tab EXCEPT !.dcbaa[s] = 0]
             b == [a EXCEPT !.slotCtx[s] = 0]
             c == [b EXCEPT !.slotPuerto[s] = 0]
             d == [c EXCEPT !.puertoSlot[p] = 0]
  <2>1. tab' = d
    BY <1>2
  <2>2. /\ {"puertoSlot", "slotPuerto", "slotCtx", "dcbaa", "bulk"} \subseteq DOMAIN tab
        /\ tab.puertoSlot \in [Puertos -> Ranuras \cup {0}] /\ tab.slotPuerto \in [Ranuras -> Puertos \cup {0}]
        /\ DOMAIN tab.slotCtx = Ranuras /\ DOMAIN tab.dcbaa = Ranuras
    BY <1>1 DEF Tablas, FormaTablas, FormaTab
  <2>3. /\ DOMAIN a = DOMAIN tab /\ a.puertoSlot = tab.puertoSlot /\ a.slotPuerto = tab.slotPuerto
        /\ a.slotCtx = tab.slotCtx /\ a.bulk = tab.bulk /\ a.dcbaa = [tab.dcbaa EXCEPT ![s] = 0]
    BY <2>2
  <2> HIDE DEF a
  <2>4. /\ DOMAIN b = DOMAIN tab /\ b.puertoSlot = tab.puertoSlot /\ b.slotPuerto = tab.slotPuerto
        /\ b.slotCtx = [tab.slotCtx EXCEPT ![s] = 0] /\ b.bulk = tab.bulk /\ b.dcbaa = [tab.dcbaa EXCEPT ![s] = 0]
    BY <2>2, <2>3
  <2> HIDE DEF b
  <2>5. /\ DOMAIN c = DOMAIN tab /\ c.puertoSlot = tab.puertoSlot /\ c.slotPuerto = [tab.slotPuerto EXCEPT ![s] = 0]
        /\ c.slotCtx = [tab.slotCtx EXCEPT ![s] = 0] /\ c.bulk = tab.bulk /\ c.dcbaa = [tab.dcbaa EXCEPT ![s] = 0]
    BY <2>2, <2>4
  <2> HIDE DEF c
  <2>6. /\ DOMAIN d = DOMAIN tab /\ d.puertoSlot = [tab.puertoSlot EXCEPT ![p] = 0] /\ d.slotPuerto = [tab.slotPuerto EXCEPT ![s] = 0]
        /\ d.slotCtx = [tab.slotCtx EXCEPT ![s] = 0] /\ d.bulk = tab.bulk /\ d.dcbaa = [tab.dcbaa EXCEPT ![s] = 0]
    BY <2>2, <2>5
  <2> HIDE DEF d
  <2> QED
    BY <1>5, <2>1, <2>2, <2>6
<1>11. \A r \in Ranuras : Mapeada(r)' <=> Mapeada(r) /\ r # s
  BY <1>10 DEF Mapeada
<1>12. Mapeada(s)
  BY <1>6, <1>7 DEF Mapeada
<1>13. FormaTablas'
  <2>1. IsFiniteSet(dma')
    BY <1>1, <1>2, FS_Subset DEF Tablas, FormaTablas
  <2>2. FormaTab' /\ FormaRan' /\ FormaUni'
    BY <1>1, <1>2, <1>8, <1>10 DEF Tablas, FormaTablas, FormaTab, FormaRan, FormaUni
  <2> QED
    BY <1>1, <1>2, <2>1, <2>2 DEF Tablas, FormaTablas
<1>14. Mapas'
  <2> SUFFICES ASSUME NEW q \in Puertos, NEW r \in Ranuras
               PROVE  (tab'.puertoSlot[q] = r) <=> (tab'.slotPuerto[r] = q)
    BY DEF Mapas
  <2>1. (tab.puertoSlot[q] = r) <=> (tab.slotPuerto[r] = q)
    BY <1>1 DEF Tablas, Mapas
  <2>2. q # 0 /\ r # 0
    BY PuertosAssumption, RanurasAssumption
  <2>3. r = s => tab.slotPuerto[r] = p
    BY <1>6
  <2>4. q = p => tab.puertoSlot[q] = s
    BY <1>5
  <2> HIDE DEF s, p
  <2> QED
    BY <1>10, <2>1, <2>2, <2>3, <2>4
<1>15. Mapeadas'
  BY <1>1, <1>3, <1>4, <1>8, <1>9, <1>10, <1>11 DEF Tablas, Mapeadas
<1>16. Memoria'
  <2>1. \A b : Guardado(b)' <=> Guardado(b) /\ b # ctx
    <3>1. \A r \in Ranuras : Mapeada(r) /\ r # s => tab.slotCtx[r] # tab.slotCtx[s]
      BY <1>1, <1>5, <1>12 DEF Tablas, Mapeadas
    <3> QED
      BY <1>10, <1>11, <3>1 DEF Guardado
  <2> QED
    BY <1>1, <1>2, <1>5, <1>8, <2>1 DEF Tablas, Memoria
<1>17. Llamada'
  BY <1>8, <1>9 DEF Llamada
<1>18. Direcciones'
  BY <1>1, <1>3, <1>4, <1>8, <1>10, <1>11 DEF Tablas, Direcciones
<1>19. Parejas'
  BY <1>1, <1>9, <1>10 DEF Tablas, Parejas
<1>20. Unidades'
  <2>1. \A r : ConRanura(r) => ConRanura(r)'
    BY <1>4, <1>9, <1>11 DEF ConRanura
  <2> QED
    BY <1>1, <1>2, <1>10, <2>1 DEF Tablas, Unidades
<1>21. Teclados'
  BY <1>1, <1>2, <1>4, <1>9, <1>11 DEF Tablas, Teclados
<1>22. Tablas'
  BY <1>13, <1>14, <1>15, <1>16, <1>17, <1>18, <1>19, <1>20, <1>21 DEF Tablas
<1> QED
  BY <1>3, <1>8, <1>22 DEF Cuida

(* The device enters the maps: its context is kept, the rest of what was   *)
(* in hand goes.                                                           *)
LEMMA ApuntaCuida == ASSUME Sano, Apunta PROVE Cuida
<1> DEFINE s == loc.s
           p == loc.p
           elegido == CHOOSE b \in loc.bufs : b[1] = "ctx"
<1>1. Forma /\ FormaLoc(loc) /\ Tablas
  BY SanoDice
<1>2. /\ pc = "apunta" /\ UNCHANGED <<unidades, hid, fantasma>> /\ Vuelve(loc)
      /\ tab' = [tab EXCEPT !.slotPuerto[s] = p, !.puertoSlot[p] = s, !.slotCtx[s] = elegido[2]]
      /\ dma' = dma \ (loc.bufs \ {elegido})
  BY DEF Apunta, Tras, MarcoPaso
<1>3. Etapa = "apunta"
  BY <1>2 DEF Etapa, EnEspera, Esperas, Orden
<1>4. loc.op \notin DeLectura
  BY <1>1, <1>3 DEF Tablas, Llamada, DeBulk
<1>5. EnMano /\ Dispone /\ \A r : ~Retirando(r)
  BY <1>3, <1>4 DEF EnMano, Sueltas, Dispone, Retirando
<1>6. /\ p \in Puertos /\ s \in Ranuras /\ tab.puertoSlot[p] = 0 /\ ~Mapeada(s) /\ s \notin fantasma.huerfanas
      /\ loc.bufs \subseteq {Ctx(s), <<"in", 0>>, <<"desc", 0>>} /\ Ctx(s) \in loc.bufs
      /\ (\A r \in Ranuras : Mapeada(r) => tab.slotCtx[r] # tab.dcbaa[s]) /\ hw.ran[s].est # "libre"
  BY <1>1, <1>5 DEF Tablas, Llamada
<1>7. p # 0 /\ s # 0 /\ tab.slotPuerto[s] = 0
  BY <1>6, PuertosAssumption, RanurasAssumption DEF Mapeada
<1>8. elegido = Ctx(s) /\ elegido[2] = tab.dcbaa[s]
  <2>1. Ctx(s)[1] = "ctx" /\ <<"in", 0>>[1] # "ctx" /\ <<"desc", 0>>[1] # "ctx" /\ Ctx(s)[2] = tab.dcbaa[s]
    BY DEF Ctx
  <2>2. \A b \in loc.bufs : b[1] = "ctx" => b = Ctx(s)
    BY <1>6, <2>1
  <2> QED
    BY <1>6, <2>1, <2>2
<1> HIDE DEF elegido
<1>9. /\ Etapa' \in {"ocio", "escanea"} /\ loc'.bufs = {} /\ loc'.op = "no" /\ hw' = hw /\ Calma
  BY <1>2, VuelveLleva
<1>10. /\ ~Dispone' /\ ~EnMano' /\ ~Registrando' /\ \A r : ~Retirando(r)'
  BY <1>9 DEF Dispone, EnMano, Sueltas, Registrando, Retirando
<1>11. /\ DOMAIN tab' = DOMAIN tab /\ tab'.bulk = tab.bulk /\ tab'.dcbaa = tab.dcbaa /\ DOMAIN tab'.slotCtx = Ranuras
       /\ tab'.puertoSlot \in [Puertos -> Ranuras \cup {0}] /\ tab'.slotPuerto \in [Ranuras -> Puertos \cup {0}]
       /\ tab'.puertoSlot[p] = s /\ \A q \in Puertos : q # p => tab'.puertoSlot[q] = tab.puertoSlot[q]
       /\ tab'.slotPuerto[s] = p /\ \A r \in Ranuras : r # s => tab'.slotPuerto[r] = tab.slotPuerto[r]
       /\ tab'.slotCtx[s] = tab.dcbaa[s] /\ \A r \in Ranuras : r # s => tab'.slotCtx[r] = tab.slotCtx[r]
  <2> DEFINE a == [tab EXCEPT !.slotPuerto[s] = p]
             b == [a EXCEPT !.puertoSlot[p] = s]
             c == [b EXCEPT !.slotCtx[s] = elegido[2]]
  <2>1. tab' = c
    BY <1>2
  <2>2. /\ {"puertoSlot", "slotPuerto", "slotCtx", "dcbaa", "bulk"} \subseteq DOMAIN tab
        /\ tab.puertoSlot \in [Puertos -> Ranuras \cup {0}] /\ tab.slotPuerto \in [Ranuras -> Puertos \cup {0}]
        /\ DOMAIN tab.slotCtx = Ranuras
    BY <1>1 DEF Tablas, FormaTablas, FormaTab
  <2>3. /\ DOMAIN a = DOMAIN tab /\ a.puertoSlot = tab.puertoSlot /\ a.slotPuerto = [tab.slotPuerto EXCEPT ![s] = p]
        /\ a.slotCtx = tab.slotCtx /\ a.bulk = tab.bulk /\ a.dcbaa = tab.dcbaa
    BY <2>2
  <2> HIDE DEF a
  <2>4. /\ DOMAIN b = DOMAIN tab /\ b.puertoSlot = [tab.puertoSlot EXCEPT ![p] = s] /\ b.slotPuerto = [tab.slotPuerto EXCEPT ![s] = p]
        /\ b.slotCtx = tab.slotCtx /\ b.bulk = tab.bulk /\ b.dcbaa = tab.dcbaa
    BY <2>2, <2>3
  <2> HIDE DEF b
  <2>5. /\ DOMAIN c = DOMAIN tab /\ c.puertoSlot = [tab.puertoSlot EXCEPT ![p] = s] /\ c.slotPuerto = [tab.slotPuerto EXCEPT ![s] = p]
        /\ c.slotCtx = [tab.slotCtx EXCEPT ![s] = elegido[2]] /\ c.bulk = tab.bulk /\ c.dcbaa = tab.dcbaa
    BY <2>2, <2>4
  <2> HIDE DEF c
  <2> QED
    BY <1>6, <1>8, <2>1, <2>2, <2>5
<1>12. \A r \in Ranuras : Mapeada(r)' <=> Mapeada(r) \/ r = s
  BY <1>7, <1>11 DEF Mapeada
<1>13. FormaTablas'
  <2>1. IsFiniteSet(dma')
    BY <1>1, <1>2, FS_Subset DEF Tablas, FormaTablas
  <2>2. FormaTab' /\ FormaRan' /\ FormaUni'
    BY <1>1, <1>2, <1>9, <1>11 DEF Tablas, FormaTablas, FormaTab, FormaRan, FormaUni
  <2> QED
    BY <1>1, <1>2, <2>1, <2>2 DEF Tablas, FormaTablas
<1>14. Mapas'
  <2> SUFFICES ASSUME NEW q \in Puertos, NEW r \in Ranuras
               PROVE  (tab'.puertoSlot[q] = r) <=> (tab'.slotPuerto[r] = q)
    BY DEF Mapas
  <2>1. (tab.puertoSlot[q] = r) <=> (tab.slotPuerto[r] = q)
    BY <1>1 DEF Tablas, Mapas
  <2>2. q # 0 /\ r # 0
    BY PuertosAssumption, RanurasAssumption
  <2>3. tab.slotPuerto[s] = 0 /\ tab.puertoSlot[p] = 0
    BY <1>6, <1>7
  <2> HIDE DEF s, p
  <2> QED
    BY <1>11, <2>1, <2>2, <2>3
<1>15. Mapeadas'
  BY <1>1, <1>2, <1>5, <1>6, <1>9, <1>10, <1>11, <1>12 DEF Tablas, Mapeadas
<1>16. Memoria'
  <2>1. \A b : Guardado(b)' <=> Guardado(b) \/ b = Ctx(s)
    BY <1>6, <1>11, <1>12 DEF Guardado, Ctx
  <2>2. \A b : Guardado(b) => b # <<"in", 0>> /\ b # <<"desc", 0>>
    BY DEF Guardado
  <2> QED
    BY <1>1, <1>2, <1>6, <1>8, <1>9, <2>1, <2>2 DEF Tablas, Memoria
<1>17. Llamada'
  BY <1>9, <1>10 DEF Llamada, EnEspera, Esperas, Orden, DeLectura
<1>18. Direcciones'
  <2>1. \A r : <<"ctx", r>> \in loc.bufs => r = tab.dcbaa[s]
    BY <1>6 DEF Ctx
  <2> SUFFICES ASSUME NEW r \in Ranuras, hw.ran[r].est = "dir", r \notin fantasma.huerfanas
               PROVE  Mapeada(r)' /\ hw.ran[r].ctx = tab'.slotCtx[r]
    BY <1>2, <1>9 DEF Direcciones
  <2>2. \/ Mapeada(r) /\ hw.ran[r].ctx = tab.slotCtx[r]
        \/ s = r /\ <<"ctx", hw.ran[r].ctx>> \in loc.bufs
    BY <1>1 DEF Tablas, Direcciones
  <2>3. CASE r = s
    BY <1>6, <1>11, <1>12, <2>1, <2>2, <2>3
  <2>4. CASE r # s
    BY <1>11, <1>12, <2>2, <2>4
  <2> QED
    BY <2>3, <2>4
<1>19. Parejas'
  BY <1>1, <1>9, <1>11 DEF Tablas, Parejas
<1>20. Unidades'
  <2>1. \A r : ConRanura(r) => ConRanura(r)'
    BY <1>6, <1>10, <1>12 DEF ConRanura
  <2> QED
    BY <1>1, <1>2, <1>11, <2>1 DEF Tablas, Unidades
<1>21. Teclados'
  BY <1>1, <1>2, <1>10, <1>12 DEF Tablas, Teclados
<1>22. Tablas'
  BY <1>13, <1>14, <1>15, <1>16, <1>17, <1>18, <1>19, <1>20, <1>21 DEF Tablas
<1>23. Desusa
  BY <1>2, DesusaQuieta
<1> QED
  BY <1>9, <1>22, <1>23 DEF Cuida
-----------------------------------------------------------------------------
(* The wait for a command keeps the invariant.                              *)

LEMMA EsperaTablas ==
  ASSUME Tablas, UNCHANGED <<tab, hid, dma, unidades>>, hw'.ran = hw.ran, fantasma'.huerfanas = fantasma.huerfanas,
         MismaPila, loc'.op = loc.op, Etapa' = Etapa
  PROVE Tablas'
BY QuietoMarco, MismaEtapa

LEMMA EtapaRetorno ==
  ASSUME Tablas, pc \in EnEspera
  PROVE /\ Etapa = loc.ret /\ loc.ret \notin EnEspera
        /\ pc' = loc.ret => Etapa' = loc.ret /\ pc' \notin EnEspera
BY DEF Etapa, Tablas, Llamada

LEMMA EnMarcha == ASSUME Ordenada, pc \in Orden PROVE an.disponible /\ FormaAn(an) /\ LugarHw /\ EnUso
BY DEF Ordenada, EnDesuso

(* The answer is taken, or dropped because it is not the one awaited.      *)
LEMMA ListoCoherencia == ASSUME Sano, Limpia', ComandoListo PROVE Coherencia'
<1>1. Forma /\ FormaLoc(loc) /\ Tablas /\ Ordenada
  BY SanoDice
<1> DEFINE e == buzonCmd[1]
<1>2. /\ pc = "comando" /\ buzonCmd # <<>> /\ buzonCmd' = <<>>
      /\ UNCHANGED <<hw, ev, an, tab, hid, unidades, dma>>
  BY DEF ComandoListo
<1>3. an.disponible /\ FormaAn(an) /\ LugarHw /\ EnUso
  BY <1>1, <1>2, EnMarcha DEF Orden
<1>4. AlDia' = AlDia /\ LugarHw' /\ FormaAn(an)' /\ an'.disponible
  BY <1>2, <1>3, LugarIgual
<1>5. Etapa = loc.ret /\ loc.ret \notin EnEspera
  BY <1>1, <1>2, EtapaRetorno DEF EnEspera, Orden
<1>6. CASE UNCHANGED <<pc, loc, fantasma>>
  <2>1. Tablas'
    BY <1>1, <1>2, <1>6, EsperaTablas DEF Etapa, MismaPila
  <2>2. PendienteEn(loc.espera)' = PendienteEn(loc.espera) /\ LaOrden(an.celdas[loc.espera])' = LaOrden(an.celdas[loc.espera])
    BY <1>2, <1>6 DEF PendienteEn, HcLugar, LaOrden
  <2>3. \A i \in Ordenes(ev)' : Dicha(ev[i])'
    <3>1. \A x : Dicha(x)' = Dicha(x)
      BY <1>2, <1>4, <1>6 DEF Dicha, Hecho, Mapeada
    <3>2. \A i \in Ordenes(ev) : Dicha(ev[i])
      BY <1>2, <1>3 DEF EnUso
    <3> QED
      BY <1>2, <3>1, <3>2 DEF Ordenes
  <2>4. EnUso'
    BY <1>2, <1>3, <1>4, <1>6, <2>2, <2>3 DEF EnUso, Pendiente
  <2> QED
    BY <1>2, <1>4, <1>6, <2>1, <2>4 DEF Coherencia, Contestada, Contestas, Esperando, Ordenada
<1>7. CASE /\ pc' = loc.ret
           /\ loc' = [loc EXCEPT !.res = IF e.cc = 1 THEN "ok" ELSE "mal", !.s = IF loc.ret = "habilitado" THEN e.slot ELSE @]
           /\ fantasma' = [fantasma EXCEPT !.ajena = IF e.vieja = 1 THEN 1 ELSE @]
  <2>1. /\ loc'.p = loc.p /\ loc'.bufs = loc.bufs /\ loc'.op = loc.op /\ loc'.ret = loc.ret
        /\ loc'.s = (IF loc.ret = "habilitado" THEN e.slot ELSE loc.s)
        /\ loc'.res = (IF e.cc = 1 THEN "ok" ELSE "mal")
        /\ fantasma'.huerfanas = fantasma.huerfanas /\ e.vieja # 1
    BY <1>1, <1>7 DEF FormaLoc, Forma, FormaFan, Limpia
  <2>2. AlDia /\ (e.cc = 1 => Hecho(e))
    BY <1>2, <1>3, <2>1 DEF EnUso, Dicha
  <2>3. Etapa' = loc.ret /\ pc' \notin EnEspera
    BY <1>5, <1>7 DEF Etapa
  <2>4. Tablas'
    <3>1. CASE loc.ret # "habilitado"
      BY <1>1, <1>2, <1>5, <2>1, <2>3, <3>1, EsperaTablas DEF MismaPila
    <3>2. CASE loc.ret = "habilitado"
      <4>1. ~Dispone /\ Etapa # "retirada" /\ loc.op \notin DeLectura /\ loc.p \in Puertos /\ tab.puertoSlot[loc.p] = 0
            /\ loc.bufs = {}
        BY <1>1, <1>5, <3>2 DEF Tablas, Llamada, Dispone, EnMano, Sueltas, DeBulk
      <4>2. MarcoTablas
        BY <1>2, <2>1, QuietoMarco
      <4>3. Suelta(Etapa', loc')
        BY <1>5, <2>1, <2>3, <3>2, <4>1 DEF Suelta, Sueltas
      <4> QED
        BY <1>1, <4>1, <4>2, <4>3, SueltaTablas
    <3> QED
      BY <3>1, <3>2
  <2>5. Contestada'
    <3>1. \A s : Mapeada(s)' = Mapeada(s)
      BY <1>2 DEF Mapeada
    <3> QED
      BY <1>2, <1>7, <2>1, <2>2, <3>1 DEF Contestada, Hecho
  <2>6. EnUso'
    BY <1>4, <2>2, <2>3 DEF EnUso, EnEspera, Orden
  <2> QED
    BY <1>4, <2>3, <2>4, <2>5, <2>6 DEF Coherencia, Esperando, Ordenada, EnEspera, Esperas
<1> QED
  BY <1>6, <1>7 DEF ComandoListo

(* The deadline passes, and the ring is told to abort.                     *)
LEMMA VenceCoherencia == ASSUME Sano, ComandoVence PROVE Coherencia'
<1>1. Forma /\ FormaLoc(loc) /\ Tablas /\ Ordenada
  BY SanoDice
<1>2. pc = "comando" /\ pc' = "abortando" /\ UNCHANGED <<hw, ev, an, tab, hid, unidades, dma, loc, fantasma>>
  BY DEF ComandoVence
<1>3. an.disponible /\ FormaAn(an) /\ LugarHw /\ EnUso
  BY <1>1, <1>2, EnMarcha DEF Orden
<1>4. AlDia' = AlDia /\ LugarHw' /\ FormaAn(an)' /\ an'.disponible
  BY <1>2, <1>3, LugarIgual
<1>5. Tablas'
  BY <1>1, <1>2, EsperaTablas DEF Etapa, MismaPila, EnEspera, Orden
<1>6. PendienteEn(loc.espera)' = PendienteEn(loc.espera) /\ LaOrden(an.celdas[loc.espera])' = LaOrden(an.celdas[loc.espera])
  BY <1>2 DEF PendienteEn, HcLugar, LaOrden
<1>7. EnUso'
  BY <1>2, <1>3, <1>4, <1>6 DEF EnUso, Pendiente
<1> QED
  BY <1>2, <1>4, <1>5, <1>7 DEF Coherencia, Contestada, Esperando, Ordenada

(* The controller stops: what it had to do it will not do.                 *)
LEMMA ParaCoherencia == ASSUME Sano, HcPara PROVE Coherencia'
<1>1. Forma /\ FormaLoc(loc) /\ Tablas /\ Ordenada
  BY SanoDice
<1>2. /\ pc = "abortando" /\ pc' = "abortado" /\ UNCHANGED <<an, tab, hid, unidades, dma, loc, fantasma>>
      /\ hw' = IF HcOrden THEN HcTras ELSE hw
  BY DEF HcPara
<1>3. an.disponible /\ FormaAn(an) /\ LugarHw /\ EnUso
  BY <1>1, <1>2, EnMarcha DEF Orden
<1>4. hw'.ran = hw.ran /\ FormaHw(hw')
  BY <1>1, <1>2 DEF HcTras, Forma, FormaHw
<1>5. AlDia' /\ LugarHw'
  <2>1. CASE AlDia
    <3>1. hw' = hw
      BY <1>2, <1>3, <2>1, AlDiaQuieto
    <3> QED
      BY <1>2, <1>3, <2>1, <3>1, LugarIgual
  <2>2. CASE Pendiente
    <3>1. HcOrden
      BY <1>3, <2>2, PendienteOrden DEF Pendiente
    <3>2. hw'.idx = HcLugar.idx + 1 /\ hw'.ciclo = HcLugar.ciclo
      BY <1>1, <1>2, <3>1, TrasLugar DEF Forma
    <3> QED
      BY <1>2, <1>3, <2>2, <3>2, PendienteTras DEF Pendiente
  <2> QED
    BY <1>2, <1>3, <2>1, <2>2 DEF EnUso
<1>6. Tablas'
  BY <1>1, <1>2, <1>4, EsperaTablas DEF Etapa, MismaPila, EnEspera, Orden
<1>7. FormaAn(an)' /\ an'.disponible
  BY <1>2, <1>3 DEF FormaAn
<1> QED
  BY <1>2, <1>5, <1>6, <1>7 DEF Coherencia, Contestada, Esperando, Ordenada, EnUso

(* The ring is given up: the command awaited stays in it.                  *)
LEMMA NoParaCoherencia == ASSUME Sano, ComandoNoPara PROVE Coherencia'
<1>1. Forma /\ FormaLoc(loc) /\ Tablas /\ Ordenada
  BY SanoDice
<1>2. /\ pc = "abortando" /\ pc' = loc.ret /\ UNCHANGED <<hw, ev, tab, hid, unidades, dma, fantasma>>
      /\ an' = [an EXCEPT !.disponible = FALSE] /\ loc' = [loc EXCEPT !.res = "mal"]
  BY DEF ComandoNoPara
<1>3. an.disponible /\ FormaAn(an) /\ LugarHw /\ EnUso
  BY <1>1, <1>2, EnMarcha DEF Orden
<1>4. /\ ~an'.disponible /\ an'.idx = an.idx /\ an'.ciclo = an.ciclo /\ an'.celdas = an.celdas
      /\ DOMAIN an' = DOMAIN an
  BY <1>2, <1>3 DEF FormaAn
<1>5. FormaAn(an)' /\ HcLugar' = HcLugar /\ AlDia' = AlDia /\ LugarHw' /\ \A k : PendienteEn(k)' = PendienteEn(k)
  BY <1>2, <1>3, <1>4 DEF FormaAn, HcLugar, AlDia, LugarHw, PendienteEn
<1>6. Etapa = loc.ret /\ Etapa' = loc.ret /\ pc' \notin EnEspera
  BY <1>1, <1>2, EtapaRetorno DEF EnEspera, Orden
<1>7. loc'.p = loc.p /\ loc'.s = loc.s /\ loc'.bufs = loc.bufs /\ loc'.op = loc.op /\ loc'.res = "mal"
  BY <1>1, <1>2 DEF FormaLoc
<1>8. Tablas'
  BY <1>1, <1>2, <1>6, <1>7, EsperaTablas DEF MismaPila
<1>9. ASSUME LaOrden(an.celdas[loc.espera]) PROVE Abandonada(an.celdas[loc.espera])'
  <2>1. PICK c : c = an.celdas[loc.espera]
    OBVIOUS
  <2>2. EsOrden(c.tipo, loc.ret) /\ (c.tipo = "enable" \/ c.slot = loc.s)
    BY <1>9, <2>1 DEF LaOrden
  <2>3. c.tipo = "disable" => c.slot = loc.s /\ loc.ret \in {"libera", "retirada"}
    BY <1>1, <1>6, <2>2 DEF EsOrden, Tablas, Llamada
  <2>4. c.tipo = "address" => c.slot = loc.s /\ loc.ret = "direccionado" /\ Ctx(loc.s) \in loc.bufs
    <3>1. Etapa = "direccionado" => Ctx(loc.s) \in loc.bufs
      BY <1>1 DEF Tablas, Llamada, EnMano, Sueltas, DeBulk
    <3> QED
      BY <1>6, <2>2, <3>1 DEF EsOrden
  <2>5. Abandonada(c)'
    BY <1>2, <1>7, <2>3, <2>4 DEF Abandonada, Ctx
  <2>6. c = an'.celdas[loc.espera] /\ loc'.espera = loc.espera
    BY <1>1, <1>2, <1>4, <2>1 DEF FormaLoc
  <2> QED
    BY <2>5, <2>6 DEF Abandonada
<1>10. AlDia' \/ \E k : PendienteEn(k)' /\ Abandonada(an.celdas[k])'
  <2>1. CASE AlDia
    BY <1>5, <2>1
  <2>2. CASE Pendiente /\ LaOrden(an.celdas[loc.espera])
    <3>1. PICK k : k = loc.espera
      OBVIOUS
    <3>2. loc'.espera = loc.espera
      BY <1>1, <1>2 DEF FormaLoc
    <3>3. PendienteEn(k)'
      BY <1>5, <2>2, <3>1 DEF Pendiente
    <3>4. Abandonada(an.celdas[k])'
      BY <1>9, <2>2, <3>1, <3>2 DEF Abandonada
    <3> QED
      BY <3>3, <3>4
  <2> QED
    BY <1>2, <1>3, <2>1, <2>2 DEF EnUso
<1>11. EnDesuso'
  BY <1>6, <1>7, <1>10 DEF EnDesuso, EnEspera
<1> QED
  BY <1>4, <1>5, <1>6, <1>7, <1>8, <1>11 DEF Coherencia, Contestada, Esperando, Ordenada, EnEspera, Esperas

(* The ring is built again, empty.                                         *)
LEMMA ReconstruyeCoherencia == ASSUME Sano, Reconstruye PROVE Coherencia'
<1>1. Forma /\ FormaLoc(loc) /\ Tablas /\ Ordenada
  BY SanoDice
<1>2. /\ pc = "abortado" /\ pc' = loc.ret /\ UNCHANGED <<tab, hid, unidades, dma>>
      /\ an' = Anillo(1) /\ hw' = [hw EXCEPT !.idx = 0, !.ciclo = 1] /\ loc' = [loc EXCEPT !.res = "mal"]
      /\ fantasma' = [fantasma EXCEPT !.tapada = IF Tapado THEN 1 ELSE @]
  BY DEF Reconstruye
<1>3. Etapa = loc.ret /\ Etapa' = loc.ret /\ pc' \notin EnEspera
  BY <1>1, <1>2, EtapaRetorno DEF EnEspera, Orden
<1>4. /\ loc'.p = loc.p /\ loc'.s = loc.s /\ loc'.bufs = loc.bufs /\ loc'.op = loc.op /\ loc'.res = "mal"
      /\ hw'.ran = hw.ran /\ hw'.idx = 0 /\ hw'.ciclo = 1 /\ fantasma'.huerfanas = fantasma.huerfanas
  BY <1>1, <1>2 DEF FormaLoc, Forma, FormaHw, FormaFan
<1>5. Tablas'
  BY <1>1, <1>2, <1>3, <1>4, EsperaTablas DEF MismaPila
<1>6. FormaAn(an)' /\ an'.disponible /\ an'.idx = 0 /\ an'.ciclo = 1
  BY <1>2, AnilloNuevo DEF FormaAn
<1>7. LugarHw' /\ AlDia'
  <2>1. hw'.idx # TamAnillo - 1
    BY <1>4, AnilloAssumption
  <2>2. HcLugar' = [idx |-> 0, ciclo |-> 1]
    BY <1>4, <2>1 DEF HcLugar
  <2> QED
    BY <1>4, <1>6, <2>2, AnilloAssumption DEF LugarHw, AlDia
<1> QED
  BY <1>3, <1>4, <1>5, <1>6, <1>7 DEF Coherencia, Contestada, Esperando, Ordenada, EnUso, EnEspera, Esperas, Orden
-----------------------------------------------------------------------------
(* The pump, the devices and the hand: no table changes, and no completion *)
(* is new.                                                                  *)

Ajeno ==
  /\ pc' = pc /\ loc' = loc /\ an' = an /\ fantasma' = fantasma /\ hw'.idx = hw.idx /\ hw'.ciclo = hw.ciclo
  /\ MarcoTablas
  /\ \A i \in Ordenes(ev)' : \E j \in Ordenes(ev) : ev'[i] = ev[j]
  /\ buzonCmd' = buzonCmd \/ \E j \in Ordenes(ev) : buzonCmd'[1] = ev[j]

LEMMA AjenoCoherencia == ASSUME Sano, Ajeno PROVE Coherencia'
<1>1. Tablas /\ Contestada /\ Esperando /\ Ordenada
  BY SanoDice
<1>2. pc' = pc /\ loc' = loc /\ an' = an /\ fantasma' = fantasma /\ hw'.ran = hw.ran /\ MarcoTablas
  BY DEF Ajeno, MarcoTablas
<1>3. HcLugar' = HcLugar /\ AlDia' = AlDia /\ LugarHw' /\ FormaAn(an)'
  BY <1>1, <1>2, LugarIgual DEF Ajeno, Ordenada
<1>4. /\ \A s : Mapeada(s)' = Mapeada(s)
      /\ \A s : Ctx(s)' = Ctx(s)
  BY <1>2, MarcoGuardado DEF MarcoTablas, MarcoTab
<1>5. Tablas'
  BY <1>1, <1>2, MismaEtapa DEF Etapa, MismaPila
<1>6. Contestada' /\ Esperando'
  BY <1>1, <1>2, <1>4 DEF Contestada, Esperando
<1>7. \A k : PendienteEn(k)' = PendienteEn(k)
  BY <1>2, <1>3 DEF PendienteEn
<1>8. ASSUME an.disponible, EnUso PROVE EnUso'
  <2>1. \A x : Dicha(x)' = Dicha(x)
    BY <1>2, <1>3, <1>4 DEF Dicha, Hecho
  <2>2. ASSUME pc = "comando" PROVE (\A i \in Ordenes(ev)' : Dicha(ev[i])') /\ (buzonCmd' # <<>> => Dicha(buzonCmd[1])')
    <3>1. (\A i \in Ordenes(ev) : Dicha(ev[i])) /\ (buzonCmd # <<>> => Dicha(buzonCmd[1]))
      BY <1>8, <2>2 DEF EnUso
    <3>2. \A i \in Ordenes(ev)' : Dicha(ev'[i])
      BY <3>1 DEF Ajeno
    <3>3. buzonCmd' # <<>> => Dicha(buzonCmd'[1])
      BY <3>1 DEF Ajeno
    <3>4. \A i : Dicha(ev[i])' = Dicha(ev'[i])
      BY <1>2, <1>3, <1>4 DEF Dicha, Hecho
    <3>5. Dicha(buzonCmd[1])' = Dicha(buzonCmd'[1])
      BY <1>2, <1>3, <1>4 DEF Dicha, Hecho
    <3> QED
      BY <3>2, <3>3, <3>4, <3>5
  <2>3. LaOrden(an.celdas[loc.espera])' = LaOrden(an.celdas[loc.espera]) /\ Pendiente' = Pendiente
    BY <1>2, <1>7 DEF LaOrden, Pendiente
  <2> QED
    BY <1>2, <1>3, <1>8, <2>2, <2>3 DEF EnUso
<1>9. ASSUME EnDesuso PROVE EnDesuso'
  <2>1. \A k : Abandonada(an.celdas[k])' = Abandonada(an.celdas[k])
    BY <1>2, <1>4 DEF Abandonada
  <2> QED
    BY <1>2, <1>3, <1>7, <1>9, <2>1 DEF EnDesuso
<1> QED
  BY <1>1, <1>2, <1>3, <1>5, <1>6, <1>8, <1>9 DEF Coherencia, Ordenada

LEMMA BombeaAjeno == ASSUME RespuestaInv, FormaTablas, Bombea PROVE Ajeno
<1> DEFINE e == Head(ev)
<1>1. /\ ev' = Tail(ev) /\ ev # <<>> /\ Despacha(e) /\ UNCHANGED <<an, pc, loc, fantasma, unidades, dma>>
  BY DEF Bombea, Extraible
<1>2. Forma /\ EvForma(ev)
  BY DEF RespuestaInv
<1>3. /\ e = ev[1] /\ \A i \in Ordenes(ev)' : i + 1 \in Ordenes(ev) /\ ev'[i] = ev[i + 1]
      /\ e.t = "comando" => 1 \in Ordenes(ev)
  BY <1>1, <1>2, EvMenos
<1> HIDE DEF e
<1>4. /\ hw'.idx = hw.idx /\ hw'.ciclo = hw.ciclo
      /\ (e.t = "comando" /\ buzonCmd' = <<e>>) \/ (e.t # "comando" /\ buzonCmd' = buzonCmd)
  BY <1>1, <1>2, DespachaForma
<1>5. hw'.ran = hw.ran /\ hid'.est = hid.est /\ MarcoTab
  <2>1. CASE e.t = "transfer" /\ EsHid(e.slot, e.d)
    <3>1. tab' = tab /\ ProcesarHid(e)
      BY <1>1, <2>1 DEF Despacha
    <3>2. hw' = [hw EXCEPT !.colas[e.slot][ENTRA] = Append(@, "hid")]
      BY <3>1 DEF ProcesarHid, Rearma
    <3>3. hw'.ran = hw.ran
      BY <1>2, <3>2 DEF Forma, FormaHw
    <3>4. PICK m, b : hid' = [hid EXCEPT !.teclas = m, !.ultimo[e.slot] = b] \/ hid' = hid
      BY <3>1 DEF ProcesarHid
    <3>5. hid'.est = hid.est
      BY <1>2, <3>4 DEF Forma, FormaHid
    <3> QED
      BY <3>1, <3>3, <3>5 DEF MarcoTab, ConservaTab
  <2>2. CASE ~(e.t = "transfer" /\ EsHid(e.slot, e.d))
    <3>1. hw' = hw /\ hid' = hid /\ (tab' = tab \/ tab' = [tab EXCEPT !.cambio = TRUE])
      BY <1>1, <2>2 DEF Despacha
    <3> QED
      BY <3>1 DEF FormaTablas, FormaTab, MarcoTab, ConservaTab
  <2> QED
    BY <2>1, <2>2
<1>6. MarcoTablas
  BY <1>1, <1>5 DEF MarcoTablas
<1>7. buzonCmd' = buzonCmd \/ \E j \in Ordenes(ev) : buzonCmd'[1] = ev[j]
  <2>1. CASE e.t = "comando"
    <3>1. buzonCmd'[1] = ev[1] /\ 1 \in Ordenes(ev)
      BY <1>3, <1>4, <2>1
    <3> QED
      BY <3>1
  <2> QED
    BY <1>4, <2>1
<1> QED
  BY <1>1, <1>3, <1>4, <1>6, <1>7 DEF Ajeno

LEMMA AmbienteAjeno ==
  ASSUME RespuestaInv, Ambiente, hw'.ran = hw.ran, UNCHANGED <<tab, unidades, dma>> PROVE Ajeno
<1>1. MarcoTablas
  BY DEF MarcoTablas, MarcoTab, ConservaTab, Ambiente
<1>2. \A i \in Ordenes(ev)' : \E j \in Ordenes(ev) : ev'[i] = ev[j]
  <2>1. CASE ev' = ev
    BY <2>1
  <2>2. ASSUME NEW x, x.t # "comando", ev' = Append(ev, x)
        PROVE  \A i \in Ordenes(ev)' : \E j \in Ordenes(ev) : ev'[i] = ev[j]
    <3>1. Ordenes(Append(ev, x)) = Ordenes(ev) /\ \A i \in Ordenes(ev) : Append(ev, x)[i] = ev[i]
      BY <2>2, EvMasOtro DEF RespuestaInv
    <3> QED
      BY <2>2, <3>1
  <2> QED
    BY <2>1, <2>2 DEF Ambiente
<1> QED
  BY <1>1, <1>2 DEF Ajeno, Ambiente

LEMMA CierraRan == ASSUME Forma, NEW s, NEW d, NEW cc, HcCierra(s, d, cc) PROVE hw'.ran = hw.ran
<1>1. PICK q, x : hw' = [hw EXCEPT !.colas[s][d] = q, !.paradas = x]
  BY DEF HcCierra
<1> QED
  BY <1>1 DEF Forma, FormaHw

LEMMA ManoAjena ==
  ASSUME RespuestaInv, NEW p, NEW t, Enchufa(p, t) \/ Desenchufa(p) PROVE Ajeno
<1>1. hw' = hw /\ UNCHANGED <<tab, unidades, dma>>
  BY DEF Enchufa, Desenchufa, MarcoHc
<1> QED
  BY <1>1, ManoAmbiente, AmbienteAjeno DEF RespuestaInv

LEMMA DispositivoAjeno ==
  ASSUME RespuestaInv, NEW s, NEW d, HcControl(s) \/ HcReporte(s) \/ HcSinDispositivo(s, d) PROVE Ajeno
<1>1. UNCHANGED <<tab, unidades, dma>> /\ \E k, cc : HcCierra(s, k, cc)
  BY DEF HcControl, HcReporte, HcSinDispositivo, MarcoHc
<1>2. hw'.ran = hw.ran /\ Ambiente
  BY <1>1, CierraRan, DispositivoAmbiente DEF RespuestaInv
<1> QED
  BY <1>1, <1>2, AmbienteAjeno

LEMMA DiscoAjeno == ASSUME RespuestaInv, NEW s, Disco(s) PROVE Ajeno
<1> DEFINE g == hw.ran[s].g
<1>1. UNCHANGED <<tab, unidades, dma>>
  BY DEF Disco, MarcoHc
<1>2. DiscoRecibe(s, g, Head(hw.colas[s][SALE])) \/ DiscoEnvia(s, g, Head(hw.colas[s][ENTRA]))
  BY DEF Disco
<1>3. ASSUME NEW x, NEW trb, DiscoRecibe(s, x, trb) PROVE \E d, cc : HcCierra(s, d, cc)
  BY <1>3 DEF DiscoRecibe
<1>4. ASSUME NEW x, NEW trb, DiscoEnvia(s, x, trb) PROVE \E d, cc : HcCierra(s, d, cc)
  BY <1>4 DEF DiscoEnvia
<1>5. hw'.ran = hw.ran /\ Ambiente
  BY <1>2, <1>3, <1>4, CierraRan, DiscoAmbiente DEF RespuestaInv
<1> QED
  BY <1>1, <1>5, AmbienteAjeno
-----------------------------------------------------------------------------
(* The controller does a command.                                           *)

(* The slot of a command, if it goes or is addressed, is the one in hand   *)
(* or one whose Disable Slot was never confirmed.                          *)
Debida(c) ==
  /\ c.tipo = "disable" => c.slot \in fantasma.huerfanas \/ (loc.s = c.slot /\ Etapa \in {"libera", "retirada"})
  /\ c.tipo = "address" => \/ c.slot \in fantasma.huerfanas
                           \/ loc.s = c.slot /\ Etapa \in {"direccionado", "libera"} /\ Ctx(loc.s) \in loc.bufs

Cambia(s, v) ==
  /\ DOMAIN hw'.ran = DOMAIN hw.ran
  /\ \A r \in DOMAIN hw.ran : hw'.ran[r] = IF r = s THEN v ELSE hw.ran[r]
Estrena(s) == s \in Ranuras /\ hw.ran[s].est = "libre" /\ Cambia(s, [hw.ran[s] EXCEPT !.est = "habilitada"])
Direcciona(s) == \E g : Cambia(s, [est |-> "dir", g |-> g, ctx |-> tab.dcbaa[s]])
Hace(c, cc, slot) ==
  \/ cc # 1 /\ hw'.ran = hw.ran
  \/ c.tipo = "enable" /\ Estrena(slot)
  \/ c.tipo = "disable" /\ Cambia(c.slot, RanuraLibre)
  \/ c.tipo = "address" /\ Direcciona(c.slot)
  \/ c.tipo \notin {"enable", "disable", "address"} /\ hw'.ran = hw.ran

LEMMA RanTablas ==
  ASSUME Tablas, UNCHANGED <<tab, hid, dma, unidades, pc, loc, fantasma>>,
         NEW s, NEW v, Cambia(s, v), {"est", "ctx"} \subseteq DOMAIN v,
         s \in Ranuras /\ v.est = "libre" => (Mapeada(s) => Retirando(s)) /\ (EnMano => loc.s # s),
         s \in Ranuras /\ v.est = "dir" =>
           s \in fantasma.huerfanas \/ (Dispone /\ loc.s = s /\ <<"ctx", v.ctx>> \in loc.bufs)
  PROVE  Tablas'
<1>1. /\ Etapa' = Etapa /\ EnMano' = EnMano /\ Dispone' = Dispone /\ Registrando' = Registrando
      /\ \A r : Retirando(r)' = Retirando(r)
  BY DEF Etapa, EnMano, Dispone, Registrando, Retirando
<1>2. /\ \A r : Mapeada(r)' = Mapeada(r)
      /\ \A b : Guardado(b)' = Guardado(b)
      /\ \A r : Ctx(r)' = Ctx(r)
      /\ Mapas'
  BY MarcoGuardado DEF Tablas, ConservaTab
<1>3. /\ DOMAIN hw'.ran = Ranuras /\ DOMAIN hw.ran = Ranuras
      /\ \A r \in Ranuras : r # s => hw'.ran[r] = hw.ran[r]
      /\ s \in Ranuras => hw'.ran[s] = v
  BY DEF Cambia, Tablas, FormaTablas, FormaRan
<1>4. FormaTablas'
  <2>1. \A r \in Ranuras : {"est", "ctx"} \subseteq DOMAIN hw'.ran[r]
    BY <1>3 DEF Tablas, FormaTablas, FormaRan
  <2> QED
    BY <1>3, <2>1 DEF Tablas, FormaTablas, FormaTab, FormaRan, FormaUni
<1>5. Mapeadas'
  <2>1. \A r \in Ranuras : Mapeada(r) => Retirando(r) \/ hw'.ran[r].est # "libre"
    BY <1>3 DEF Tablas, Mapeadas
  <2> QED
    BY <1>1, <1>2, <2>1 DEF Tablas, Mapeadas
<1>6. Memoria'
  BY <1>2 DEF Tablas, Memoria
<1>7. Llamada'
  <2>1. EnMano => hw'.ran[loc.s].est # "libre"
    <3>1. EnMano => loc.s \in Ranuras /\ hw.ran[loc.s].est # "libre"
      BY DEF Tablas, Llamada, Dispone
    <3> QED
      BY <1>3, <3>1
  <2> QED
    BY <1>1, <1>2, <2>1 DEF Tablas, Llamada
<1>8. Direcciones'
  <2>1. \A r \in Ranuras : hw'.ran[r].est = "dir" =>
          \/ r \in fantasma.huerfanas
          \/ Mapeada(r) /\ hw'.ran[r].ctx = tab.slotCtx[r]
          \/ Dispone /\ loc.s = r /\ <<"ctx", hw'.ran[r].ctx>> \in loc.bufs
    <3> SUFFICES ASSUME NEW r \in Ranuras, hw'.ran[r].est = "dir"
                 PROVE  \/ r \in fantasma.huerfanas
                        \/ Mapeada(r) /\ hw'.ran[r].ctx = tab.slotCtx[r]
                        \/ Dispone /\ loc.s = r /\ <<"ctx", hw'.ran[r].ctx>> \in loc.bufs
      OBVIOUS
    <3>1. CASE r = s
      BY <1>3, <3>1
    <3>2. CASE r # s
      BY <1>3, <3>2 DEF Tablas, Direcciones
    <3> QED
      BY <3>1, <3>2
  <2> QED
    BY <1>1, <1>2, <2>1 DEF Direcciones
<1>9. Parejas'
  BY <1>1 DEF Tablas, Parejas
<1>10. Unidades'
  <2>1. \A r : ConRanura(r)' = ConRanura(r)
    BY <1>1, <1>2 DEF ConRanura
  <2> QED
    BY <2>1 DEF Tablas, Unidades
<1>11. Teclados'
  BY <1>1, <1>2 DEF Tablas, Teclados
<1> QED
  BY <1>2, <1>4, <1>5, <1>6, <1>7, <1>8, <1>9, <1>10, <1>11 DEF Tablas

LEMMA HaceTablas ==
  ASSUME Tablas, UNCHANGED <<tab, hid, dma, unidades, pc, loc, fantasma>>,
         NEW c, NEW cc, NEW slot, Debida(c), Hace(c, cc, slot)
  PROVE  Tablas'
<1>1. CASE hw'.ran = hw.ran
  BY <1>1, EsperaTablas DEF MismaPila, Etapa
<1>2. CASE Estrena(slot)
  <2> DEFINE v == [hw.ran[slot] EXCEPT !.est = "habilitada"]
  <2>1. slot \in Ranuras /\ Cambia(slot, v)
    BY <1>2 DEF Estrena
  <2>2. {"est", "ctx"} \subseteq DOMAIN v /\ v.est = "habilitada"
    BY <2>1 DEF Tablas, FormaTablas, FormaRan
  <2> HIDE DEF v
  <2> QED
    BY <2>1, <2>2, RanTablas
<1>3. CASE c.tipo = "disable" /\ Cambia(c.slot, RanuraLibre)
  <2>1. {"est", "ctx"} \subseteq DOMAIN RanuraLibre /\ RanuraLibre.est = "libre"
    BY DEF RanuraLibre
  <2>2. c.slot \in fantasma.huerfanas \/ (loc.s = c.slot /\ Etapa \in {"libera", "retirada"})
    BY <1>3 DEF Debida
  <2>3. c.slot \in Ranuras => (Mapeada(c.slot) => Retirando(c.slot)) /\ (EnMano => loc.s # c.slot)
    <3>1. CASE c.slot \in fantasma.huerfanas
      BY <3>1 DEF Tablas, Mapeadas, Llamada, Dispone
    <3>2. CASE loc.s = c.slot /\ Etapa = "libera"
      BY <3>2 DEF Tablas, Llamada, Dispone, EnMano, Sueltas
    <3>3. CASE loc.s = c.slot /\ Etapa = "retirada"
      BY <3>3 DEF Retirando, EnMano, Sueltas
    <3> QED
      BY <2>2, <3>1, <3>2, <3>3
  <2> QED
    BY <1>3, <2>1, <2>3, RanTablas
<1>4. CASE c.tipo = "address" /\ Direcciona(c.slot)
  <2>1. PICK g : Cambia(c.slot, [est |-> "dir", g |-> g, ctx |-> tab.dcbaa[c.slot]])
    BY <1>4 DEF Direcciona
  <2> DEFINE v == [est |-> "dir", g |-> g, ctx |-> tab.dcbaa[c.slot]]
  <2>2. {"est", "ctx"} \subseteq DOMAIN v /\ v.est = "dir" /\ v.ctx = tab.dcbaa[c.slot] /\ Cambia(c.slot, v)
    BY <2>1
  <2> HIDE DEF v
  <2>3. c.slot \in fantasma.huerfanas \/ (Dispone /\ loc.s = c.slot /\ <<"ctx", v.ctx>> \in loc.bufs)
    <3>1. ASSUME Etapa = "direccionado" PROVE Dispone
      BY <3>1 DEF Tablas, Llamada, Dispone, EnMano, Sueltas, DeBulk
    <3>2. Etapa = "libera" => Dispone
      BY DEF Dispone
    <3> QED
      BY <1>4, <2>2, <3>1, <3>2 DEF Debida, Ctx
  <2> QED
    BY <2>2, <2>3, RanTablas
<1> QED
  BY <1>1, <1>2, <1>3, <1>4 DEF Hace

LEMMA EfectoHace ==
  ASSUME Tablas, NEW h, FormaHw(h), h.ran = hw.ran, NEW c, hw' = Efecto(c, h).hw
  PROVE  Hace(c, Efecto(c, h).cc, Efecto(c, h).slot)
<1>1. DOMAIN hw.ran = Ranuras
  BY DEF Tablas, FormaTablas, FormaRan
<1>2. ASSUME NEW s, NEW v, hw'.ran = [hw.ran EXCEPT ![s] = v] PROVE Cambia(s, v)
  BY <1>2 DEF Cambia
<1>3. CASE c.tipo = "enable"
  <2> DEFINE libres == {s \in Ranuras : Ranura(s).est = "libre"}
             s == CHOOSE x \in libres : \A y \in libres : x <= y
  <2>1. Efecto(c, h) = IF libres = {} THEN [hw |-> h, cc |-> 9, slot |-> 0]
                       ELSE [hw |-> [h EXCEPT !.ran[s].est = "habilitada"], cc |-> 1, slot |-> s]
    BY <1>3 DEF Efecto
  <2>2. libres # {} => s \in libres
    <3>1. libres \in SUBSET Nat
      BY RanurasAssumption
    <3>2. libres # {} => \E m \in libres : \A y \in libres : m <= y
      BY <3>1, MenorDe
    <3> QED
      BY <3>2
  <2>3. libres # {} => s \in Ranuras /\ hw.ran[s].est = "libre"
    BY <2>2 DEF Ranura
  <2> HIDE DEF libres, s
  <2>4. CASE libres = {}
    BY <2>1, <2>4 DEF Hace
  <2>5. CASE libres # {}
    <3>1. Efecto(c, h).cc = 1 /\ Efecto(c, h).slot = s /\ hw' = [h EXCEPT !.ran[s].est = "habilitada"]
      BY <2>1, <2>5
    <3>2. hw'.ran = [hw.ran EXCEPT ![s] = [hw.ran[s] EXCEPT !.est = "habilitada"]]
      BY <3>1 DEF FormaHw
    <3>3. Estrena(s)
      BY <1>2, <2>3, <2>5, <3>2 DEF Estrena
    <3> QED
      BY <1>3, <3>1, <3>3 DEF Hace
  <2> QED
    BY <2>4, <2>5
<1>4. CASE c.tipo = "disable"
  <2>1. PICK w, x : Efecto(c, h) =
         IF Ranura(c.slot).est = "libre" THEN [hw |-> h, cc |-> 11, slot |-> c.slot]
         ELSE [hw |-> [h EXCEPT !.ran[c.slot] = RanuraLibre, !.colas[c.slot] = w, !.paradas = x], cc |-> 1, slot |-> c.slot]
    BY <1>4 DEF Efecto
  <2>2. CASE Ranura(c.slot).est = "libre"
    BY <2>1, <2>2 DEF Hace
  <2>3. CASE Ranura(c.slot).est # "libre"
    <3>1. hw' = [h EXCEPT !.ran[c.slot] = RanuraLibre, !.colas[c.slot] = w, !.paradas = x]
      BY <2>1, <2>3
    <3>2. hw'.ran = [hw.ran EXCEPT ![c.slot] = RanuraLibre]
      BY <3>1 DEF FormaHw
    <3> QED
      BY <1>2, <1>4, <3>2 DEF Hace
  <2> QED
    BY <2>2, <2>3
<1>5. CASE c.tipo = "address"
  <2> DEFINE nueva == [est |-> "dir", g |-> bus[c.p], ctx |-> tab.dcbaa[c.slot]]
  <2>1. Efecto(c, h) =
         IF Ranura(c.slot).est = "libre" THEN [hw |-> h, cc |-> 11, slot |-> c.slot]
         ELSE IF bus[c.p] = 0 THEN [hw |-> h, cc |-> 4, slot |-> c.slot]
         ELSE [hw |-> [h EXCEPT !.ran[c.slot] = nueva], cc |-> 1, slot |-> c.slot]
    BY <1>5 DEF Efecto
  <2>2. \E g : nueva = [est |-> "dir", g |-> g, ctx |-> tab.dcbaa[c.slot]]
    OBVIOUS
  <2> HIDE DEF nueva
  <2>3. CASE hw' = h /\ Efecto(c, h).cc # 1
    BY <2>3 DEF Hace
  <2>4. CASE hw' = [h EXCEPT !.ran[c.slot] = nueva]
    <3>1. hw'.ran = [hw.ran EXCEPT ![c.slot] = nueva]
      BY <2>4 DEF FormaHw
    <3>2. Direcciona(c.slot)
      <4>1. Cambia(c.slot, nueva)
        BY <1>2, <3>1
      <4>2. PICK g : nueva = [est |-> "dir", g |-> g, ctx |-> tab.dcbaa[c.slot]]
        BY <2>2
      <4>3. Cambia(c.slot, [est |-> "dir", g |-> g, ctx |-> tab.dcbaa[c.slot]])
        BY <4>1, <4>2
      <4> QED
        BY <4>3 DEF Direcciona
    <3> QED
      BY <1>5, <3>2 DEF Hace
  <2> QED
    BY <2>1, <2>3, <2>4
<1>6. CASE c.tipo \notin {"enable", "disable", "address"}
  <2>1. Efecto(c, h) = [hw |-> h, cc |-> IF Ranura(c.slot).est = "dir" THEN 1 ELSE 19, slot |-> c.slot]
    BY <1>6 DEF Efecto
  <2> QED
    BY <1>6, <2>1 DEF Hace
<1> QED
  BY <1>3, <1>4, <1>5, <1>6

LEMMA EjecutaHace ==
  ASSUME Forma, Tablas, HcEjecuta
  PROVE  \E cc, slot : /\ ev' = Append(ev, Completa(HcLugar.idx, cc, slot))
                       /\ Hace(an.celdas[HcLugar.idx], cc, slot)
<1> DEFINE c == an.celdas[HcLugar.idx]
           r == Efecto(c, HcTras)
<1>1. FormaHw(HcTras) /\ HcTras.ran = hw.ran
  BY TrasLugar DEF Forma, FormaHw, HcTras
<1>2. CASE hw' = r.hw /\ ev' = Append(ev, Completa(HcLugar.idx, r.cc, r.slot))
  <2>1. Hace(c, r.cc, r.slot)
    BY <1>1, <1>2, EfectoHace
  <2> QED
    BY <1>2, <2>1
<1>3. CASE hw' = HcTras /\ ev' = Append(ev, Completa(HcLugar.idx, 5, c.slot))
  <2>1. Hace(c, 5, c.slot)
    BY <1>1, <1>3 DEF Hace
  <2> QED
    BY <1>3, <2>1
<1> QED
  BY <1>2, <1>3 DEF HcEjecuta

LEMMA EjecutaCoherencia == ASSUME Sano, HcEjecuta PROVE Coherencia'
<1> DEFINE c == an.celdas[HcLugar.idx]
<1>1. Forma /\ Tablas /\ Contestada /\ Esperando /\ Ordenada /\ EvForma(ev)
  BY SanoDice DEF Sano, CoherenciaInv, RespuestaInv
<1>2. /\ HcOrden /\ FormaHw(hw') /\ hw'.idx = HcLugar.idx + 1 /\ hw'.ciclo = HcLugar.ciclo
      /\ UNCHANGED <<hid, an, buzonCmd, pc, loc, fantasma>>
  BY <1>1, EjecutaPaso
<1>3. UNCHANGED <<tab, unidades, dma>>
  BY DEF HcEjecuta, MarcoHc
<1>4. PICK cc, slot : ev' = Append(ev, Completa(HcLugar.idx, cc, slot)) /\ Hace(c, cc, slot)
  BY <1>1, EjecutaHace
<1> HIDE DEF c
<1>5. FormaAn(an) /\ LugarHw /\ FormaAn(an)' /\ ~AlDia
  BY <1>1, <1>2, AlDiaQuieto DEF Ordenada
<1>6. ASSUME NEW k, PendienteEn(k) PROVE AlDia' /\ LugarHw' /\ HcLugar.idx = k
  BY <1>2, <1>5, <1>6, PendienteTras
<1>7. /\ \A r : Mapeada(r)' = Mapeada(r)
      /\ \A r : Ctx(r)' = Ctx(r)
  BY <1>3, MarcoGuardado DEF ConservaTab
<1>8. ASSUME Debida(c) PROVE Tablas'
  BY <1>1, <1>2, <1>3, <1>4, <1>8, HaceTablas
<1>9. Esperando'
  BY <1>1, <1>2 DEF Esperando
<1>10. CASE an.disponible
  <2>1. EnUso /\ pc \in {"comando", "abortando"} /\ Pendiente /\ LaOrden(an.celdas[loc.espera])
    BY <1>1, <1>5, <1>10 DEF Ordenada, EnUso
  <2>2. AlDia' /\ LugarHw' /\ LaOrden(c)
    BY <1>6, <2>1 DEF Pendiente, c
  <2>3. Etapa = loc.ret /\ pc \in Orden
    BY <2>1 DEF Etapa, EnEspera, Orden
  <2>4. Etapa # "previo" /\ (Etapa = "direccionado" => Ctx(loc.s) \in loc.bufs)
    BY <1>1 DEF Tablas, Llamada, EnMano, Sueltas, DeBulk
  <2>5. Debida(c)
    BY <2>2, <2>3, <2>4 DEF LaOrden, EsOrden, Debida
  <2>6. Tablas'
    BY <1>8, <2>5
  <2>7. Contestada'
    BY <1>2, <2>3 DEF Contestada, Orden
  <2>8. ASSUME NEW e, Dicha(e) PROVE Dicha(e)'
    BY <1>5, <2>8 DEF Dicha
  <2>x. PICK x : x = Completa(HcLugar.idx, cc, slot)
    OBVIOUS
  <2>y. x.slot = slot /\ x.cc = cc /\ EsCompletada(x) /\ ev' = Append(ev, x)
    BY <1>4, <2>x DEF EsCompletada, Completa
  <2>9. ASSUME cc = 1 PROVE Hecho(x)'
    <3>2. loc.ret = "habilitado" => slot \in Ranuras /\ hw'.ran[slot].est = "habilitada" /\ ~Mapeada(slot)
      <4> SUFFICES ASSUME loc.ret = "habilitado"
                   PROVE slot \in Ranuras /\ hw'.ran[slot].est = "habilitada" /\ ~Mapeada(slot)
        OBVIOUS
      <4>1. Estrena(slot)
        BY <1>4, <2>2, <2>9 DEF Hace, LaOrden, EsOrden
      <4>2. slot \in Ranuras /\ hw.ran[slot].est = "libre" /\ hw'.ran[slot].est = "habilitada"
        BY <1>1, <4>1 DEF Estrena, Cambia, Tablas, FormaTablas, FormaRan
      <4>3. ~Retirando(slot)
        BY <2>3 DEF Retirando
      <4> QED
        BY <1>1, <4>2, <4>3 DEF Tablas, Mapeadas
    <3>3. loc.ret \in {"libera", "retirada"} => hw'.ran[loc.s].est = "libre"
      <4> SUFFICES ASSUME loc.ret \in {"libera", "retirada"} PROVE hw'.ran[loc.s].est = "libre"
        OBVIOUS
      <4>1. c.slot = loc.s /\ Cambia(loc.s, RanuraLibre)
        BY <1>4, <2>2, <2>9 DEF Hace, LaOrden, EsOrden
      <4>2. loc.s \in Ranuras
        BY <1>1, <2>3 DEF Tablas, Llamada, Dispone
      <4> QED
        BY <1>1, <4>1, <4>2 DEF Cambia, RanuraLibre, Tablas, FormaTablas, FormaRan
    <3>6. loc'.ret = "habilitado" => slot \in Ranuras /\ hw'.ran[slot].est = "habilitada" /\ ~Mapeada(slot)'
      BY <1>2, <1>7, <3>2
    <3>7. loc'.ret \in {"libera", "retirada"} => hw'.ran[loc'.s].est = "libre"
      BY <1>2, <3>3
    <3> QED
      BY <2>y, <3>6, <3>7 DEF Hecho
  <2>10. \A i \in Ordenes(ev)' : pc = "comando" => Dicha(ev[i])'
    <3>3. /\ Ordenes(Append(ev, x)) = Ordenes(ev) \cup {Len(ev) + 1}
          /\ \A i \in Ordenes(ev) : Append(ev, x)[i] = ev[i]
          /\ Append(ev, x)[Len(ev) + 1] = x
      BY <1>1, <2>y, EvMasCompletada
    <3>5. Dicha(x)'
      BY <2>2, <2>9, <2>y DEF Dicha
    <3> SUFFICES ASSUME NEW i \in Ordenes(ev'), pc = "comando" PROVE Dicha(ev[i])'
      OBVIOUS
    <3>7. CASE i = Len(ev) + 1
      <4>1. ev'[i] = x
        BY <2>y, <3>3, <3>7
      <4> QED
        BY <3>5, <4>1 DEF Dicha, Hecho
    <3>8. CASE i \in Ordenes(ev)
      <4>1. ev'[i] = ev[i]
        BY <2>y, <3>3, <3>8
      <4>2. PICK e : e = ev[i]
        OBVIOUS
      <4>3. Dicha(e)'
        <5>1. Dicha(e)
          BY <2>1, <3>8, <4>2 DEF EnUso
        <5> QED
          BY <2>8, <5>1
      <4>4. e = ev'[i]
        BY <4>1, <4>2
      <4> QED
        BY <4>3, <4>4 DEF Dicha, Hecho
    <3> QED
      BY <2>y, <3>3, <3>7, <3>8
  <2>11. pc = "comando" /\ buzonCmd' # <<>> => Dicha(buzonCmd[1])'
    <3> SUFFICES ASSUME pc = "comando", buzonCmd' # <<>> PROVE Dicha(buzonCmd[1])'
      OBVIOUS
    <3>1. PICK e : e = buzonCmd[1]
      OBVIOUS
    <3>2. Dicha(e)
      BY <1>2, <2>1, <3>1 DEF EnUso
    <3>3. Dicha(e)'
      BY <2>8, <3>2
    <3>4. e = buzonCmd'[1]
      BY <1>2, <3>1
    <3> QED
      BY <3>3, <3>4 DEF Dicha, Hecho
  <2>12. EnUso'
    BY <1>2, <2>2, <2>10, <2>11 DEF EnUso
  <2> QED
    BY <1>2, <1>5, <1>9, <1>10, <2>2, <2>6, <2>7, <2>12 DEF Coherencia, Ordenada
<1>11. CASE ~an.disponible
  <2>1. EnDesuso
    BY <1>1, <1>11 DEF Ordenada
  <2>2. PICK k : PendienteEn(k) /\ Abandonada(an.celdas[k])
    BY <1>5, <2>1 DEF EnDesuso
  <2>3. AlDia' /\ LugarHw' /\ Abandonada(c)
    BY <1>6, <2>2 DEF c
  <2>4. Debida(c)
    <3>1. pc \in {"direccionado", "libera", "retirada"} => Etapa = pc
      BY DEF Etapa, EnEspera, Esperas, Orden
    <3> QED
      BY <2>3, <3>1 DEF Abandonada, Debida
  <2>5. Tablas'
    BY <1>8, <2>4
  <2>6. Contestada'
    BY <1>2, <2>1 DEF Contestada, EnDesuso, Contestas
  <2>7. EnDesuso'
    BY <1>2, <2>1, <2>3 DEF EnDesuso
  <2> QED
    BY <1>2, <1>5, <1>9, <1>11, <2>3, <2>5, <2>6, <2>7 DEF Coherencia, Ordenada
<1> QED
  BY <1>10, <1>11

-----------------------------------------------------------------------------
(* The tables at boot, and after every step.                                *)

LEMMA CoherenciaInicial == UsbInit => CoherenciaInv
<1> SUFFICES ASSUME UsbInit PROVE CoherenciaInv
  OBVIOUS
<1>1. RespuestaInv
  BY RespuestaInicial
<1>2. /\ hw = HwInicio /\ ev = <<>> /\ an = Anillo(0) /\ hid = HidInicio /\ pc = "escanea" /\ tab = TablasInicio
      /\ unidades = [u \in 1..MaxUnidades |-> UnidadLibre] /\ dma = {}
      /\ loc = [LocVacio EXCEPT !.modo = "inicial", !.p = 1]
      /\ fantasma = [vencidas |-> {}, retiradas |-> {}, huerfanas |-> {}, pisada |-> FALSE, tapada |-> 0, ajena |-> 0]
  BY DEF UsbInit, XhciInit
<1>3. loc.bufs = {} /\ loc.op = "no"
  BY <1>2 DEF LocVacio
<1>4. Etapa = "escanea" /\ ~EnMano /\ ~Dispone /\ ~Registrando /\ \A s : ~Retirando(s)
  BY <1>2 DEF Etapa, EnEspera, Esperas, Orden, EnMano, Sueltas, Dispone, Registrando, Retirando
<1>5. /\ \A p \in Puertos : tab.puertoSlot[p] = 0
      /\ \A s \in Ranuras : ~Mapeada(s) /\ hw.ran[s] = RanuraLibre /\ hid.est[s] = "no"
      /\ tab.bulk = {} /\ \A u \in DOMAIN unidades : ~unidades[u].activo
  BY <1>2 DEF TablasInicio, Mapeada, HwInicio, HidInicio, UnidadLibre
<1>6. FormaTablas
  <2>1. FormaTab
    BY <1>2 DEF FormaTab, TablasInicio
  <2>2. FormaRan
    BY <1>2 DEF FormaRan, HwInicio, RanuraLibre
  <2>3. FormaUni
    BY <1>2 DEF FormaUni, UnidadLibre
  <2>4. IsFiniteSet(dma) /\ DOMAIN hid.est = Ranuras
    BY <1>2, FS_EmptySet DEF HidInicio
  <2> QED
    BY <2>1, <2>2, <2>3, <2>4 DEF FormaTablas
<1>7. Mapas
  BY <1>5, PuertosAssumption, RanurasAssumption DEF Mapas, Mapeada
<1>8. Mapeadas /\ Memoria
  BY <1>2, <1>3, <1>5 DEF Mapeadas, Memoria, Guardado
<1>9. Llamada
  BY <1>3, <1>4 DEF Llamada, EnEspera, Esperas, Orden, DeLectura
<1>10. Direcciones /\ Parejas /\ Unidades /\ Teclados
  BY <1>4, <1>5 DEF Direcciones, Parejas, Unidades, Teclados, RanuraLibre
<1>11. Contestada /\ Esperando
  BY <1>2 DEF Contestada, Esperando
<1>12. FormaAn(an) /\ an.disponible /\ an.idx = 0 /\ an.ciclo = 1
  BY <1>2, AnilloNuevo
<1>13. LugarHw /\ AlDia
  <2>1. hw.idx = 0 /\ hw.ciclo = 1 /\ hw.idx # TamAnillo - 1
    BY <1>2, AnilloAssumption DEF HwInicio
  <2>2. HcLugar = [idx |-> 0, ciclo |-> 1]
    BY <2>1 DEF HcLugar
  <2> QED
    BY <1>12, <2>1, <2>2, AnilloAssumption DEF LugarHw, AlDia
<1>14. Ordenada
  BY <1>2, <1>12, <1>13 DEF Ordenada, EnUso
<1> QED
  BY <1>1, <1>6, <1>7, <1>8, <1>9, <1>10, <1>11, <1>14 DEF CoherenciaInv, Coherencia, Tablas

LEMMA ReboteCuida == ASSUME Sano, Rebote PROVE Cuida
<1>1. Tablas /\ Etapa = "rebote"
  BY SanoDice DEF Rebote, Etapa, EnEspera, Esperas, Orden
<1>2. loc.p \in Puertos
  BY <1>1 DEF Tablas, Llamada
<1> QED
  BY <1>2, EscaneoCuida

LEMMA CoherenciaPaso == CoherenciaInv /\ [UsbNext]_usbVars => CoherenciaInv'
<1> SUFFICES ASSUME CoherenciaInv, [UsbNext]_usbVars PROVE CoherenciaInv'
  OBVIOUS
<1>1. RespuestaInv /\ RespuestaInv' /\ Forma
  BY RespuestaPaso DEF CoherenciaInv, RespuestaInv
<1>2. ASSUME Sigue, Sano /\ Limpia' => Cuida PROVE CoherenciaInv'
  BY <1>2, SigueCoherencia DEF Sano
<1>3. ASSUME Limpia' => Limpia, Sano /\ Limpia' => Coherencia' PROVE CoherenciaInv'
  BY <1>1, <1>3 DEF CoherenciaInv, Sano
<1>4. ASSUME Ajeno PROVE CoherenciaInv'
  BY <1>3, <1>4, AjenoCoherencia DEF Ajeno, Limpia
<1>5. ASSUME Enumeracion PROVE CoherenciaInv'
  <2>1. Sigue
    BY <1>1, <1>5, HabilitadoSigue, DireccionadoSigue, DescriptoresSigue, ConfiguracionSigue, PuestaSigue, ArmarSigue,
       ApuntaSigue, LiberaSigue DEF Enumeracion
  <2>2. Sano => Cuida
    BY <1>5, HabilitadoCuida, DireccionadoCuida, DescriptoresCuida, ConfiguracionCuida, PuestaCuida, ArmarCuida,
       ApuntaCuida, LiberaCuida DEF Enumeracion
  <2> QED
    BY <1>2, <2>1, <2>2
<1>6. ASSUME Espera PROVE CoherenciaInv'
  <2>1. CASE ControlListo \/ ControlVence
    BY <1>1, <1>2, <2>1, ControlEsperaSigue, ControlEsperaCuida
  <2>2. CASE ComandoListo
    <3>1. PICK v : fantasma' = fantasma \/ fantasma' = [fantasma EXCEPT !.ajena = IF v = 1 THEN 1 ELSE @]
      BY <2>2 DEF ComandoListo
    <3>2. Limpia' => Limpia
      BY <1>1, <3>1 DEF Limpia, Forma, FormaFan
    <3> QED
      BY <1>3, <2>2, <3>2, ListoCoherencia
  <2>3. CASE ComandoVence
    BY <1>3, <2>3, VenceCoherencia DEF ComandoVence, Limpia
  <2>4. CASE ComandoNoPara
    BY <1>3, <2>4, NoParaCoherencia DEF ComandoNoPara, Limpia
  <2>5. CASE Reconstruye
    <3>1. PICK v : fantasma' = [fantasma EXCEPT !.tapada = v]
      BY <2>5 DEF Reconstruye
    <3>2. Limpia' => Limpia
      BY <1>1, <3>1 DEF Limpia, Forma, FormaFan
    <3> QED
      BY <1>3, <2>5, <3>2, ReconstruyeCoherencia
  <2> QED
    BY <1>6, <2>1, <2>2, <2>3, <2>4, <2>5 DEF Espera
<1>7. ASSUME PuertosNext PROVE CoherenciaInv'
  <2>1. Sigue
    BY <1>1, <1>7, EscaneoSigue, DesconexionSigue, ForzarSigue, RetiradaSigue, ResetearSigue, PrevioSigue DEF PuertosNext
  <2>2. Sano /\ Limpia' => Cuida
    BY <1>7, EscaneoCuida, DesconexionCuida, ForzarCuida, RetiradaCuida, ReboteCuida, ResetearCuida,
       PrevioCuida DEF PuertosNext
  <2> QED
    BY <1>2, <2>1, <2>2
<1>8. ASSUME Mundo PROVE CoherenciaInv'
  <2>1. CASE HcPara
    BY <1>3, <2>1, ParaCoherencia DEF HcPara, Limpia
  <2>2. CASE HcEjecuta
    BY <1>3, <2>2, EjecutaCoherencia DEF HcEjecuta, MarcoHc, Limpia
  <2>3. CASE (\E p \in Puertos : Desenchufa(p) \/ \E t \in Tipos : Enchufa(p, t))
             \/ (\E s \in Ranuras : HcControl(s) \/ HcReporte(s) \/ \E d \in Dci : HcSinDispositivo(s, d))
    BY <1>1, <1>4, <2>3, ManoAjena, DispositivoAjeno
  <2> QED
    BY <1>8, <2>1, <2>2, <2>3 DEF Mundo
<1>9. ASSUME XhciNext PROVE CoherenciaInv'
  <2>1. CASE Bombea
    <3>1. ASSUME Limpia, Limpia' PROVE Coherencia'
      BY <1>1, <2>1, <3>1, BombeaAjeno, AjenoCoherencia DEF Sano, CoherenciaInv, Coherencia, Tablas
    <3> QED
      BY <1>3, <2>1, <3>1 DEF Bombea, Limpia, Sano
  <2>2. CASE Sondeo \/ LeerCaracter
    BY <1>1, <1>2, <2>2, OcioSigue, OcioCuida
  <2> QED
    BY <1>5, <1>6, <1>7, <1>8, <1>9, <2>1, <2>2 DEF XhciNext
<1>10. ASSUME Discos PROVE CoherenciaInv'
  <2>1. CASE \E s \in Ranuras : Disco(s)
    BY <1>1, <1>4, <2>1, DiscoAjeno
  <2>2. CASE Registrar \/ RegistrarSigue \/ FaseDatos \/ FaseCsw \/ Valida \/ Responder \/ BulkListo \/ SegmentadaListo \/ BulkVence
    BY <1>1, <1>2, <2>2, RegistroSigue, RegistroTrasSigue, FasesSigue, BulkEsperaSigue, RegistrarCuida, RegistrarSigueCuida,
       FasesCuida, BulkEsperaCuida, ResponderCuida
  <2>3. ASSUME NEW u, LeerSectores(u) \/ EscribirSectores(u) PROVE CoherenciaInv'
    <3>1. PICK op \in DeLectura : Sectorial(u, op)
      BY <2>3 DEF LeerSectores, EscribirSectores, DeLectura
    <3> QED
      BY <1>1, <1>2, <3>1, SectorialSigue, SectorialCuida
  <2> QED
    BY <1>10, <2>1, <2>2, <2>3 DEF Discos
<1>11. ASSUME UNCHANGED usbVars PROVE CoherenciaInv'
  <2>1. Ambiente /\ hw' = hw /\ UNCHANGED <<tab, unidades, dma>>
    BY <1>1, <1>11 DEF usbVars, xhciVars, Ambiente, Forma
  <2> QED
    BY <1>1, <1>4, <2>1, AmbienteAjeno
<1> QED
  BY <1>9, <1>10, <1>11 DEF UsbNext

-----------------------------------------------------------------------------
(* What the tables promise follows from the invariant.                      *)

LEMMA TablasVivas == ASSUME Tablas PROVE ContextosVivos
<1> SUFFICES ASSUME NEW s \in Ranuras, hw.ran[s].est = "dir", s \notin fantasma.huerfanas
             PROVE  /\ <<"ctx", hw.ran[s].ctx>> \in dma
                    /\ \A r \in Ranuras \ {s} :
                         hw.ran[r].est = "dir" /\ r \notin fantasma.huerfanas => hw.ran[r].ctx # hw.ran[s].ctx
  BY DEF ContextosVivos
<1> DEFINE mia(r) == Mapeada(r) /\ hw.ran[r].ctx = tab.slotCtx[r]
           enMano(r) == Dispone /\ loc.s = r /\ <<"ctx", hw.ran[r].ctx>> \in loc.bufs
<1>1. \A r \in Ranuras : hw.ran[r].est = "dir" /\ r \notin fantasma.huerfanas => mia(r) \/ enMano(r)
  BY DEF Tablas, Direcciones
<1>2. <<"ctx", hw.ran[s].ctx>> \in dma
  <2>1. ASSUME mia(s) PROVE Guardado(<<"ctx", hw.ran[s].ctx>>)
    BY <2>1 DEF Guardado
  <2> QED
    BY <1>1, <2>1 DEF Tablas, Memoria
<1>3. \A r \in Ranuras : enMano(r) =>
        hw.ran[r].ctx = tab.dcbaa[r] /\ \A q \in Ranuras : Mapeada(q) => tab.slotCtx[q] # tab.dcbaa[r]
  BY DEF Tablas, Llamada, Ctx
<1>4. \A r, q \in Ranuras : mia(r) /\ mia(q) /\ r # q => hw.ran[r].ctx # hw.ran[q].ctx
  BY DEF Tablas, Mapeadas
<1>5. \A r, q \in Ranuras : enMano(r) /\ mia(q) => hw.ran[r].ctx # hw.ran[q].ctx
  BY <1>3
<1>6. \A r, q \in Ranuras : enMano(r) /\ enMano(q) => r = q
  OBVIOUS
<1> HIDE DEF mia, enMano
<1>7. \A r \in Ranuras \ {s} : hw.ran[r].est = "dir" /\ r \notin fantasma.huerfanas => hw.ran[r].ctx # hw.ran[s].ctx
  BY <1>1, <1>4, <1>5, <1>6
<1> QED
  BY <1>2, <1>7

LEMMA CoherenciaTablas == CoherenciaInv => TablasCoherentes
<1> SUFFICES ASSUME CoherenciaInv, Limpia PROVE TablasCoherentes
  BY DEF TablasCoherentes, Limpia
<1>1. Tablas
  BY DEF CoherenciaInv, Coherencia
<1>2. ContextosVivos
  BY <1>1, TablasVivas
<1>3. ASSUME pc = "ocio"
      PROVE  /\ \A p \in Puertos, s \in Ranuras : (tab.puertoSlot[p] = s) <=> (tab.slotPuerto[s] = p)
             /\ dma = {<<"ctx", tab.slotCtx[s]>> : s \in {r \in Ranuras : tab.slotPuerto[r] # 0}}
             /\ \A u \in DOMAIN unidades : unidades[u].activo =>
                  /\ tab.slotPuerto[unidades[u].slot] # 0
                  /\ {<<unidades[u].slot, SALE>>, <<unidades[u].slot, ENTRA>>} \subseteq tab.bulk
                  /\ \A v \in DOMAIN unidades \ {u} : ~unidades[v].activo \/ unidades[v].slot # unidades[u].slot
             /\ \A s \in Ranuras : hid.est[s] = "activo" => tab.slotPuerto[s] # 0
  <2>1. ~EnMano /\ ~Dispone /\ ~Registrando
    BY <1>3 DEF Etapa, EnEspera, Esperas, Orden, EnMano, Sueltas, Dispone, Registrando
  <2>2. loc.bufs = {}
    BY <1>1, <2>1 DEF Tablas, Llamada
  <2>3. dma = {<<"ctx", tab.slotCtx[s]>> : s \in {r \in Ranuras : tab.slotPuerto[r] # 0}}
    BY <1>1, <2>2 DEF Tablas, Memoria, Guardado, Mapeada
  <2>4. ASSUME NEW u \in DOMAIN unidades, unidades[u].activo
        PROVE  /\ tab.slotPuerto[unidades[u].slot] # 0
               /\ {<<unidades[u].slot, SALE>>, <<unidades[u].slot, ENTRA>>} \subseteq tab.bulk
               /\ \A v \in DOMAIN unidades \ {u} : ~unidades[v].activo \/ unidades[v].slot # unidades[u].slot
    <3>1. /\ unidades[u].slot \in Ranuras /\ Mapeada(unidades[u].slot)
          /\ <<unidades[u].slot, SALE>> \in tab.bulk
          /\ \A v \in DOMAIN unidades : unidades[v].activo /\ unidades[v].slot = unidades[u].slot => v = u
      BY <1>1, <2>1, <2>4 DEF Tablas, Unidades, ConRanura
    <3>2. <<unidades[u].slot, ENTRA>> \in tab.bulk
      BY <1>1, <3>1 DEF Tablas, Parejas
    <3> QED
      BY <3>1, <3>2 DEF Mapeada
  <2>5. \A s \in Ranuras : hid.est[s] = "activo" => tab.slotPuerto[s] # 0
    BY <1>1, <2>1 DEF Tablas, Teclados, Mapeada
  <2> QED
    BY <1>1, <2>3, <2>4, <2>5 DEF Tablas, Mapas
<1> QED
  BY <1>2, <1>3 DEF TablasCoherentes

(* The tables of the two drivers agree with each other and with the        *)
(* controller, whatever is plugged, unplugged, answered late or never      *)
(* (xhci.c:1752, 3229; usb_msc.c:379): the controller only writes contexts *)
(* that are allocated and belong to one slot, and between two calls ports  *)
(* and slots are inverse maps, nothing else is allocated, and every active *)
(* unit and keyboard has a slot of its own.  Two things break it: a port   *)
(* configured over its slot (xhci.c:1787) and a completion taken for that  *)
(* of another command (RespuestaPropiaCorrecta).                           *)
THEOREM TablasCoherentesCorrectas == UsbSpec => []TablasCoherentes
<1> QED
  BY CoherenciaInicial, CoherenciaPaso, CoherenciaTablas, PTL DEF UsbSpec
=============================================================================
