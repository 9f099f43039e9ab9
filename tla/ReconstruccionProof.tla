------------------------ MODULE ReconstruccionProof ------------------------
(***************************************************************************)
(* Proofs about module Reconstruccion, for every picture size, slice and   *)
(* number of executors: type correctness, the dependency of intra          *)
(* macroblocks on the row above, and what a successful return means.       *)
(***************************************************************************)
EXTENDS Reconstruccion, TLAPS

-----------------------------------------------------------------------------
(* Geometry of a slice.                                                     *)

Trozo(p, f) == p \in Nat /\ f \in Nat /\ p < f /\ f <= Ancho * Alto

LEMMA Division ==
  ASSUME NEW a \in Nat, NEW b \in Nat \ {0}, NEW m \in Nat, a < b * m
  PROVE  a \div b \in 0..(m - 1) /\ a % b \in 0..(b - 1)
<1>1. a = b * (a \div b) + (a % b) /\ a \div b \in Nat /\ a % b \in 0..(b - 1) BY SMT
<1>2. ASSUME a \div b >= m PROVE FALSE
  <2>1. b * (a \div b) >= b * m BY <1>1, <1>2, SMT
  <2> QED BY <1>1, <2>1, SMT
<1> QED BY <1>1, <1>2, SMT

LEMMA DivisionMonotona ==
  ASSUME NEW a \in Nat, NEW c \in Nat, NEW b \in Nat \ {0}, a <= c
  PROVE  a \div b <= c \div b
<1>1. a = b * (a \div b) + (a % b) /\ a \div b \in Nat /\ a % b \in 0..(b - 1) BY SMT
<1>2. c = b * (c \div b) + (c % b) /\ c \div b \in Nat /\ c % b \in 0..(b - 1) BY SMT
<1>3. ASSUME a \div b >= (c \div b) + 1 PROVE FALSE
  <2>1. b * (a \div b) >= b * ((c \div b) + 1) BY <1>1, <1>2, <1>3, SMT
  <2>2. b * ((c \div b) + 1) = b * (c \div b) + b BY <1>2, SMT
  <2> QED BY <1>1, <1>2, <2>1, <2>2, SMT
<1> QED BY <1>1, <1>2, <1>3, SMT

\* The rows of a slice lie in the picture, its columns in the row.
LEMMA Geometria ==
  ASSUME Trozo(primero, fin)
  PROVE  /\ PrimeraFila \in Filas /\ UltimaFila \in Filas /\ PrimeraFila <= UltimaFila
         /\ \A y \in Filas : Desde(y) \in 0..Ancho /\ Hasta(y) \in 0..Ancho
<1>1. PrimeraFila \in Filas /\ primero % Ancho \in 0..(Ancho - 1)
  <2>1. primero \in Nat /\ primero < Ancho * Alto
    BY AnchoAssumption, AltoAssumption DEF Trozo
  <2> QED BY <2>1, Division, AnchoAssumption, AltoAssumption DEF PrimeraFila, Filas
<1>2. UltimaFila \in Filas /\ (fin - 1) % Ancho \in 0..(Ancho - 1)
  <2>1. fin - 1 \in Nat /\ fin - 1 < Ancho * Alto
    BY AnchoAssumption, AltoAssumption DEF Trozo
  <2> QED BY <2>1, Division, AnchoAssumption, AltoAssumption DEF UltimaFila, Filas
<1>3. PrimeraFila <= UltimaFila
  <2>1. fin - 1 \in Nat /\ primero \in Nat /\ primero <= fin - 1 BY DEF Trozo
  <2> QED BY <2>1, DivisionMonotona, AnchoAssumption DEF PrimeraFila, UltimaFila
<1>4. \A y \in Filas : Desde(y) \in 0..Ancho /\ Hasta(y) \in 0..Ancho
  BY <1>1, <1>2, AnchoAssumption DEF Desde, Hasta
<1> QED BY <1>1, <1>2, <1>3, <1>4

-----------------------------------------------------------------------------
(* The inductive invariant.                                                 *)

Reparto == Trozo(primero, fin) /\ (abierto = 1 \/ resultado # "nada" => n = UltimaFila - PrimeraFila + 1)

\* What the points of fila at which a macroblock is under way have in common.
EnMb == {"pedir", "fallar", "visitar", "esperar", "comprobar", "comprobarIntra",
         "inter", "residuo", "intra", "malo", "avanzar"}

\* Executor c holds the region the pool gave it, and is at one of its columns.
Tenencia(c) ==
  /\ paso[c] # "libre" => abierto = 1 /\ mia[c] < n
  /\ paso[c] = "tomada" => estado[mia[c]] = "tomada"
  /\ paso[c] \in PasosFila => estado[mia[c]] = "corriendo"
  /\ paso[c] \in EnMb => x[c] < Hasta(Y(c))
  /\ paso[c] = "esperar" => mia[c] > 0

Exclusiva ==
  \A c, d \in Ejecutor : paso[c] # "libre" /\ paso[d] # "libre" /\ mia[c] = mia[d] => c = d

\* The rows are told before the pool is.
Aviso ==
  /\ servicio # "no" => abierto = 1 /\ paso[0] \in {"libre", "pedir"}
  /\ servicio = "lote" => fallo = 1
  /\ cancelado = 1 => fallo = 1

\* The first m columns of row y (those in the slice) are reconstructed, unless
\* something failed.
HechoHasta(y, m) == \A col \in DelTrozo(y) : col < m => <<col, y>> \in listos \/ fallo = 1

Progreso(c) ==
  /\ paso[c] \in PasosFila => HechoHasta(Y(c), x[c])
  /\ paso[c] = "avanzar" => HechoHasta(Y(c), x[c] + 1)
  /\ paso[c] \in {"rematar", "salir"} => HechoHasta(Y(c), Ancho)
  /\ paso[c] = "comprobarIntra" /\ mia[c] > 0 => HechoHasta(Y(c) - 1, x[c] + 2)
  /\ paso[c] = "intra" /\ mia[c] > 0 =>
       \A col \in DelTrozo(Y(c) - 1) : col < x[c] + 2 => <<col, Y(c) - 1>> \in listos
  /\ paso[c] = "intra" => \A col \in DelTrozo(Y(c)) : col < x[c] => <<col, Y(c)>> \in listos

FilasHechas ==
  \A r \in Indices : r < n =>
    /\ HechoHasta(PrimeraFila + r, avance[PrimeraFila + r])
    /\ estado[r] = "hecha" => HechoHasta(PrimeraFila + r, Ancho)
    /\ estado[r] = "saltada" => cancelado = 1

Devuelto ==
  resultado # "nada" => abierto = 0 /\ \A r \in 0..(n - 1) : estado[r] \in {"hecha", "saltada"}

Exito == resultado = "ok" => fallo = 0

Inv ==
  /\ TypeOK /\ Reparto /\ Aviso /\ Exclusiva /\ FilasHechas /\ Devuelto /\ Exito
  /\ \A c \in Ejecutor : Tenencia(c) /\ Progreso(c)

LEMMA Inicial == Init => Inv
<1> SUFFICES ASSUME Init PROVE Inv OBVIOUS
<1>1. Trozo(primero, fin)
  BY AnchoAssumption, AltoAssumption, SMT DEF Init, Trozo
<1>2. PrimeraFila \in Filas BY <1>1, Geometria
<1>3. PrimeraFila + n <= Alto BY <1>2, AltoAssumption DEF Filas, Init, LoteInit
<1>4. TypeOK
  BY <1>3, AnchoAssumption, AltoAssumption, MaxLotesAssumption
     DEF TypeOK, Init, LoteInit, Indices, Estados, Pasos
<1>5. \A c \in Ejecutor : paso[c] = "libre" BY DEF Init
<1>6. Reparto /\ Aviso /\ Exclusiva /\ Devuelto /\ Exito /\ FilasHechas
  BY <1>1, <1>5 DEF Init, LoteInit, Reparto, Aviso, Exclusiva, Devuelto, Exito, FilasHechas, Indices
<1>7. \A c \in Ejecutor : Tenencia(c) /\ Progreso(c)
  BY <1>5 DEF Tenencia, Progreso, PasosFila, PasosIntra, EnMb
<1> QED BY <1>4, <1>6, <1>7 DEF Inv

\* While the slice stays the same, what is reconstructed stays so.
LEMMA Monotono ==
  ASSUME UNCHANGED <<primero, fin>>, listos \subseteq listos', fallo = 1 => fallo' = 1
  PROVE  /\ PrimeraFila' = PrimeraFila /\ UltimaFila' = UltimaFila
         /\ \A y \in Int : Hasta(y)' = Hasta(y) /\ DelTrozo(y)' = DelTrozo(y)
         /\ \A y, m \in Int : HechoHasta(y, m) => HechoHasta(y, m)'
<1>1. PrimeraFila' = PrimeraFila /\ UltimaFila' = UltimaFila BY DEF PrimeraFila, UltimaFila
<1>2. \A y \in Int : Hasta(y)' = Hasta(y) /\ Desde(y)' = Desde(y) BY <1>1 DEF Hasta, Desde
<1>3. \A y \in Int : DelTrozo(y)' = DelTrozo(y) BY <1>2 DEF DelTrozo
<1>4. \A y, m \in Int : HechoHasta(y, m) => HechoHasta(y, m)' BY <1>3 DEF HechoHasta
<1> QED BY <1>1, <1>2, <1>3, <1>4

\* The row of an executor lies in the picture.
LEMMA FilaValida ==
  ASSUME Inv, NEW c \in Ejecutor, paso[c] # "libre"
  PROVE  /\ Y(c) \in Filas /\ Y(c) \in Int /\ mia[c] \in Nat /\ mia[c] \in Indices
         /\ mia[c] < n /\ abierto = 1 /\ resultado = "nada"
         /\ mia[c] > 0 => Y(c) - 1 \in Filas
<1>1. mia[c] \in Indices /\ mia[c] < n /\ abierto = 1 BY DEF Inv, TypeOK, Tenencia
<1>2. n = UltimaFila - PrimeraFila + 1 BY <1>1 DEF Inv, Reparto
<1>3. PrimeraFila \in Filas /\ UltimaFila \in Filas BY Geometria DEF Inv, Reparto
<1>4. resultado = "nada" BY <1>1 DEF Inv, Devuelto
<1> QED BY <1>1, <1>2, <1>3, <1>4, AltoAssumption DEF Filas, Y, Indices

LEMMA IndiceValido ==
  ASSUME Inv, NEW r \in Indices, r < n
  PROVE  PrimeraFila + r \in Filas /\ PrimeraFila + r \in Int
<1>1. PrimeraFila \in Nat /\ PrimeraFila + n <= Alto /\ n \in Nat /\ r \in Nat
  BY Geometria, AltoAssumption DEF Inv, Reparto, TypeOK, Filas, Indices
<1> QED BY <1>1, AltoAssumption DEF Filas

\* A step of executor c inside its row, which leaves the pool alone.
LEMMA EnFilaMarco ==
  ASSUME Inv, NEW c \in Ejecutor, NEW d \in PasosFila,
         UNCHANGED <<loteVars, trozo, mia, servicio, abortar, resultado>>,
         paso[c] \in PasosFila \ {"pedir"}, Ir(c, d),
         x' \in [Ejecutor -> 0..Ancho], \A b \in Ejecutor \ {c} : x'[b] = x[b],
         listos \subseteq listos', listos' \subseteq Columnas \X Filas,
         fallo' \in {0, 1}, fallo = 1 => fallo' = 1,
         avance' \in [Filas -> 0..Ancho],
         \A y \in Filas : avance'[y] = avance[y] \/ HechoHasta(y, avance[y])',
         Tenencia(c)', Progreso(c)'
  PROVE  Inv'
<1>1. paso' \in [Ejecutor -> Pasos] /\ paso'[c] = d /\ \A b \in Ejecutor \ {c} : paso'[b] = paso[b]
  BY DEF Inv, TypeOK, Ir, Pasos
<1>m. /\ PrimeraFila' = PrimeraFila /\ UltimaFila' = UltimaFila
      /\ \A y \in Int : Hasta(y)' = Hasta(y) /\ DelTrozo(y)' = DelTrozo(y)
      /\ \A y, m \in Int : HechoHasta(y, m) => HechoHasta(y, m)'
  BY Monotono DEF trozo
<1>f. paso[c] # "libre" /\ d # "libre" BY DEF PasosFila, PasosIntra
<1>2. TypeOK' BY <1>1, <1>m DEF Inv, TypeOK, loteVars, trozo
<1>3. Reparto' BY <1>m DEF Inv, Reparto, Trozo, loteVars, trozo
<1>n. /\ abierto' = abierto /\ n' = n /\ cancelado' = cancelado /\ estado' = estado
      /\ servicio' = servicio /\ resultado' = resultado /\ mia' = mia
  BY DEF loteVars
<1>4. Aviso'
  <2>1. 0 \in Ejecutor BY EjecutoresAssumption DEF Ejecutor
  <2>2. servicio # "no" => c # 0
    BY <2>1, <1>f DEF Inv, Aviso, PasosFila, PasosIntra
  <2> QED BY <1>1, <1>n, <2>1, <2>2 DEF Inv, Aviso
<1>5. Exclusiva' BY <1>1, <1>n, <1>f DEF Inv, Exclusiva
<1>6. FilasHechas'
  <2> SUFFICES ASSUME NEW r \in Indices, r < n
               PROVE  (/\ HechoHasta(PrimeraFila + r, avance[PrimeraFila + r])
                       /\ estado[r] = "hecha" => HechoHasta(PrimeraFila + r, Ancho)
                       /\ estado[r] = "saltada" => cancelado = 1)'
    BY <1>n DEF FilasHechas
  <2>1. PrimeraFila + r \in Filas /\ PrimeraFila + r \in Int BY IndiceValido
  <2>2. avance[PrimeraFila + r] \in Int /\ Ancho \in Int
    BY <2>1, AnchoAssumption DEF Inv, TypeOK
  <2>3. HechoHasta(PrimeraFila + r, avance[PrimeraFila + r])
    BY DEF Inv, FilasHechas
  <2>4. HechoHasta(PrimeraFila + r, avance[PrimeraFila + r])'
    <3>1. HechoHasta(PrimeraFila + r, avance[PrimeraFila + r])' <=>
            \A col \in DelTrozo(PrimeraFila + r) :
               col < avance'[PrimeraFila + r] => <<col, PrimeraFila + r>> \in listos' \/ fallo' = 1
      BY <1>m, <2>1 DEF HechoHasta
    <3>2. CASE avance'[PrimeraFila + r] = avance[PrimeraFila + r]
      BY <3>1, <3>2, <2>3 DEF HechoHasta
    <3> QED BY <3>1, <3>2, <2>1, <1>m DEF HechoHasta
  <2> QED BY <1>m, <1>n, <2>1, <2>2, <2>4 DEF Inv, FilasHechas
<1>7. Devuelto' /\ Exito'
  BY <1>n, <1>f, FilaValida DEF Inv, Devuelto, Exito
<1>8. ASSUME NEW b \in Ejecutor, b # c PROVE (Tenencia(b) /\ Progreso(b))'
  <2>1. Tenencia(b) /\ Progreso(b) BY DEF Inv
  <2>2. paso'[b] = paso[b] /\ x'[b] = x[b] /\ mia'[b] = mia[b] BY <1>8, <1>1, <1>n
  <2>3. CASE paso[b] = "libre"
    BY <2>2, <2>3 DEF Tenencia, Progreso, PasosFila, PasosIntra, EnMb
  <2>4. CASE paso[b] # "libre"
    <3>1. Y(b)' = Y(b) /\ Y(b) \in Int /\ mia[b] \in Nat /\ x[b] \in Int
      BY <2>2, <2>4, <1>m, FilaValida DEF Y, Inv, TypeOK
    <3>2. Tenencia(b)' BY <2>1, <2>2, <3>1, <1>m, <1>n DEF Tenencia
    <3>3. Progreso(b)'
      BY <2>1, <2>2, <3>1, <1>m, AnchoAssumption DEF Progreso
    <3> QED BY <3>2, <3>3
  <2> QED BY <2>3, <2>4
<1> QED BY <1>2, <1>3, <1>4, <1>5, <1>6, <1>7, <1>8 DEF Inv

\* The steps of fila between its entry and its return.
LEMMA FilaInterior ==
  ASSUME Inv, NEW c \in Ejecutor,
         \/ Columna(c) \/ Fallar(c) \/ Visitar(c) \/ Esperar(c) \/ Comprobar(c)
         \/ Compensar(c) \/ AplicarResiduo(c) \/ Malo(c) \/ Avanzar(c) \/ Rematar(c)
  PROVE  Inv'
<1>a. paso \in [Ejecutor -> Pasos] /\ x \in [Ejecutor -> 0..Ancho] /\ mia \in [Ejecutor -> Indices]
      /\ avance \in [Filas -> 0..Ancho] /\ fallo \in {0, 1} /\ listos \subseteq Columnas \X Filas
  BY DEF Inv, TypeOK
<1>b. Tenencia(c) /\ Progreso(c) BY DEF Inv
<1>c. paso[c] \in PasosFila \ {"pedir"} /\ paso[c] # "libre"
  BY DEF Columna, Fallar, Visitar, Esperar, Comprobar, Compensar, AplicarResiduo, Malo, Avanzar, Rematar,
         PasosFila, PasosIntra
<1>d. /\ Y(c) \in Filas /\ Y(c) \in Int /\ mia[c] \in Nat /\ mia[c] < n
      /\ abierto = 1 /\ estado[mia[c]] = "corriendo"
      /\ mia[c] > 0 => Y(c) - 1 \in Filas
  BY <1>b, <1>c, FilaValida DEF Tenencia
<1>e. Hasta(Y(c)) \in 0..Ancho /\ Ancho \in Nat /\ x[c] \in 0..Ancho
  BY <1>a, <1>d, Geometria, AnchoAssumption DEF Inv, Reparto
<1>g. HechoHasta(Y(c), x[c]) BY <1>b, <1>c DEF Progreso
\* Steps that only move the executor.
<1>q. ASSUME NEW d \in PasosFila, Ir(c, d),
             UNCHANGED <<loteVars, trozo, fallo, avance, filas, servicio, abortar, resultado, listos>>,
             d \in EnMb => x[c] < Hasta(Y(c)), d = "esperar" => mia[c] > 0, d # "avanzar",
             d \in {"rematar", "salir"} => HechoHasta(Y(c), Ancho),
             d = "comprobarIntra" /\ mia[c] > 0 => HechoHasta(Y(c) - 1, x[c] + 2),
             d = "intra" /\ mia[c] > 0 =>
               \A col \in DelTrozo(Y(c) - 1) : col < x[c] + 2 => <<col, Y(c) - 1>> \in listos,
             d = "intra" => \A col \in DelTrozo(Y(c)) : col < x[c] => <<col, Y(c)>> \in listos
      PROVE  Inv'
  <2>1. paso'[c] = d /\ mia' = mia /\ x' = x /\ avance' = avance /\ listos' = listos /\ fallo' = fallo
    BY <1>a, <1>q DEF Ir, filas
  <2>m. /\ PrimeraFila' = PrimeraFila
        /\ \A y \in Int : Hasta(y)' = Hasta(y) /\ DelTrozo(y)' = DelTrozo(y)
        /\ \A y, m \in Int : HechoHasta(y, m) => HechoHasta(y, m)'
    BY <1>q, Monotono DEF trozo
  <2>2. Y(c)' = Y(c) BY <2>1, <2>m DEF Y
  <2>3. Tenencia(c)' BY <1>b, <1>d, <1>q, <2>1, <2>2, <2>m DEF Tenencia, loteVars, PasosFila, PasosIntra
  <2>4. Progreso(c)' BY <1>d, <1>e, <1>g, <1>q, <2>1, <2>2, <2>m DEF Progreso
  <2> QED BY <1>a, <1>c, <1>q, <2>1, <2>3, <2>4, EnFilaMarco DEF filas
<1>1. CASE Columna(c)
  <2>1. CASE x[c] >= Hasta(Y(c))
    <3>1. HechoHasta(Y(c), Ancho) BY <1>e, <1>g, <2>1 DEF HechoHasta, DelTrozo, Columnas
    <3> QED BY <1>1, <1>q, <2>1, <3>1 DEF Columna, PasosFila, PasosIntra, EnMb
  <2>2. CASE x[c] < Hasta(Y(c))
    BY <1>1, <1>e, <1>q, <2>2 DEF Columna, PasosFila, PasosIntra, EnMb
  <2> QED BY <1>e, <2>1, <2>2
<1>2. CASE Visitar(c)
  <2>1. x[c] < Hasta(Y(c)) BY <1>2, <1>b DEF Visitar, Tenencia, EnMb
  <2> QED BY <1>2, <1>q, <2>1, <1>d DEF Visitar, PasosFila, PasosIntra
<1>3. CASE Esperar(c)
  <2>1. x[c] < Hasta(Y(c)) /\ mia[c] > 0 BY <1>3, <1>b DEF Esperar, Tenencia, EnMb
  <2>2. HechoHasta(Y(c) - 1, x[c] + 2)
    <3>1. CASE fallo = 1 BY <3>1 DEF HechoHasta
    <3>2. CASE avance[Y(c) - 1] >= Requerido(x[c])
      <4>1. mia[c] - 1 \in Indices /\ mia[c] - 1 < n /\ PrimeraFila + (mia[c] - 1) = Y(c) - 1
        <5>1. n \in Nat /\ PrimeraFila \in Nat
          BY Geometria DEF Inv, Reparto, TypeOK, Filas
        <5>2. mia[c] \in 0..MaxRegiones BY <1>a DEF Indices
        <5> QED BY <5>1, <5>2, <1>d, <2>1, AltoAssumption DEF Y, Indices
      <4>2. HechoHasta(Y(c) - 1, avance[Y(c) - 1]) BY <4>1 DEF Inv, FilasHechas
      <4>3. avance[Y(c) - 1] \in Int BY <1>a, <1>d, <2>1
      <4> QED BY <3>2, <4>2, <4>3, <1>e DEF HechoHasta, Requerido, DelTrozo, Columnas
    <3> QED BY <1>3, <3>1, <3>2 DEF Esperar
  <2> QED BY <1>3, <1>q, <2>1, <2>2 DEF Esperar, PasosFila, PasosIntra
<1>4. CASE Comprobar(c)
  <2>1. x[c] < Hasta(Y(c)) BY <1>4, <1>b DEF Comprobar, Tenencia, EnMb
  <2>2. CASE fallo = 1
    <3>1. HechoHasta(Y(c), Ancho) BY <2>2 DEF HechoHasta
    <3> QED BY <1>4, <1>q, <2>1, <2>2, <3>1 DEF Comprobar, PasosFila, PasosIntra, EnMb
  <2>3. CASE fallo # 1 /\ paso[c] = "comprobar"
    BY <1>4, <1>q, <2>1, <2>3 DEF Comprobar, PasosFila, PasosIntra
  <2>4. CASE fallo # 1 /\ paso[c] = "comprobarIntra"
    <3>1. mia[c] > 0 =>
            \A col \in DelTrozo(Y(c) - 1) : col < x[c] + 2 => <<col, Y(c) - 1>> \in listos
      BY <1>b, <2>4 DEF Progreso, HechoHasta
    <3>2. \A col \in DelTrozo(Y(c)) : col < x[c] => <<col, Y(c)>> \in listos
      BY <1>g, <2>4 DEF HechoHasta
    <3> QED BY <1>4, <1>q, <2>1, <2>4, <3>1, <3>2 DEF Comprobar, PasosFila, PasosIntra
  <2> QED BY <1>4, <2>2, <2>3, <2>4 DEF Comprobar
\* Steps that change what the others see.
<1>v. ASSUME NEW d \in PasosFila, Ir(c, d), mia' = mia,
             UNCHANGED <<loteVars, trozo, servicio, abortar, resultado>>,
             x' = x \/ (x' = [x EXCEPT ![c] = @ + 1] /\ x[c] < Ancho),
             listos \subseteq listos', listos' \subseteq Columnas \X Filas,
             fallo' \in {0, 1}, fallo = 1 => fallo' = 1,
             avance' \in [Filas -> 0..Ancho],
             \A y \in Filas : avance'[y] = avance[y] \/ HechoHasta(y, avance[y])',
             d \in EnMb => x'[c] < Hasta(Y(c)), d = "esperar" => mia[c] > 0,
             HechoHasta(Y(c), x[c])',
             d = "avanzar" => HechoHasta(Y(c), x[c] + 1)',
             d \in {"rematar", "salir"} => HechoHasta(Y(c), Ancho)',
             d \notin PasosIntra
      PROVE  Inv'
  <2>1. paso'[c] = d BY <1>a, <1>v DEF Ir
  <2>m. PrimeraFila' = PrimeraFila /\ \A y \in Int : Hasta(y)' = Hasta(y)
    BY <1>v, Monotono DEF trozo
  <2>2. Y(c)' = Y(c) BY <1>v, <2>m DEF Y
  <2>3. Tenencia(c)' BY <1>b, <1>d, <1>v, <2>1, <2>2, <2>m DEF Tenencia, loteVars, PasosFila, PasosIntra
  <2>4. Progreso(c)' BY <1>v, <2>1, <2>2 DEF Progreso, PasosIntra
  <2>5. x' \in [Ejecutor -> 0..Ancho] /\ \A b \in Ejecutor \ {c} : x'[b] = x[b]
    BY <1>a, <1>e, <1>v
  <2> QED BY <1>c, <1>v, <2>3, <2>4, <2>5, EnFilaMarco
<1>5. CASE Fallar(c)
  <2>1. x[c] < Hasta(Y(c)) BY <1>5, <1>b DEF Fallar, Tenencia, EnMb
  <2>2. HechoHasta(Y(c), x[c])' BY <1>5 DEF Fallar, HechoHasta
  <2> QED BY <1>5, <1>a, <1>v, <2>1, <2>2 DEF Fallar, filas, PasosFila, PasosIntra
<1>6. CASE Malo(c)
  <2>1. x[c] < Hasta(Y(c)) BY <1>6, <1>b DEF Malo, Tenencia, EnMb
  <2>2. HechoHasta(Y(c), x[c])' /\ HechoHasta(Y(c), x[c] + 1)' BY <1>6 DEF Malo, HechoHasta
  <2> QED BY <1>6, <1>a, <1>v, <2>1, <2>2 DEF Malo, filas, PasosFila, PasosIntra
<1>0. CASE Compensar(c)
  <2>1. x[c] < Hasta(Y(c)) BY <1>0, <1>b DEF Compensar, Tenencia, EnMb
  <2> QED BY <1>0, <1>q, <2>1 DEF Compensar, PasosFila, PasosIntra
<1>7. CASE AplicarResiduo(c)
  <2>1. x[c] < Hasta(Y(c)) BY <1>7, <1>b DEF AplicarResiduo, Tenencia, EnMb
  <2>m. /\ PrimeraFila' = PrimeraFila
        /\ \A y \in Int : DelTrozo(y)' = DelTrozo(y)
        /\ \A y, m \in Int : HechoHasta(y, m) => HechoHasta(y, m)'
    BY <1>7, Monotono DEF AplicarResiduo, trozo
  <2>2. Y(c)' = Y(c) /\ x' = x BY <1>7, <2>m DEF Y, AplicarResiduo, filas
  <2>3. HechoHasta(Y(c), x[c])'
    BY <1>d, <1>e, <1>g, <2>2, <2>m
  <2>4. CASE Ir(c, "malo") /\ listos' = listos
    BY <1>7, <1>a, <1>v, <2>1, <2>2, <2>3, <2>4 DEF AplicarResiduo, filas, PasosFila, PasosIntra
  <2>5. CASE Ir(c, "avanzar") /\ listos' = listos \cup {<<x[c], Y(c)>>}
    <3>1. HechoHasta(Y(c), x[c] + 1)'
      <4>1. \A col \in DelTrozo(Y(c)) : col < x[c] + 1 => col < x[c] \/ col = x[c]
        BY <1>e DEF DelTrozo, Columnas
      <4>2. DelTrozo(Y(c))' = DelTrozo(Y(c)) BY <1>d, <2>2, <2>m
      <4>3. \A col \in DelTrozo(Y(c)) : col < x[c] => <<col, Y(c)>> \in listos \/ fallo = 1
        BY <1>g DEF HechoHasta
      <4> QED BY <1>7, <2>2, <2>5, <4>1, <4>2, <4>3 DEF HechoHasta, AplicarResiduo
    <3>2. listos' \subseteq Columnas \X Filas
      BY <1>a, <1>d, <1>e, <2>1, <2>5 DEF Columnas
    <3> QED BY <1>7, <1>a, <1>v, <2>1, <2>2, <2>3, <2>5, <3>1, <3>2
            DEF AplicarResiduo, filas, PasosFila, PasosIntra
  <2> QED BY <1>7, <2>4, <2>5 DEF AplicarResiduo
<1>8. CASE Avanzar(c)
  <2>1. x[c] < Hasta(Y(c)) BY <1>8, <1>b DEF Avanzar, Tenencia, EnMb
  <2>2. HechoHasta(Y(c), x[c] + 1) BY <1>8, <1>b DEF Avanzar, Progreso
  <2>m. /\ PrimeraFila' = PrimeraFila
        /\ \A y \in Int : DelTrozo(y)' = DelTrozo(y)
        /\ \A y, m \in Int : HechoHasta(y, m) => HechoHasta(y, m)'
    BY <1>8, Monotono DEF Avanzar, trozo
  <2>3. Y(c)' = Y(c) /\ x'[c] = x[c] + 1 /\ x[c] < Ancho /\ avance'[Y(c)] = x[c] + 1
    BY <1>8, <1>a, <1>d, <1>e, <2>1, <2>m DEF Avanzar, Y
  <2>4. HechoHasta(Y(c), x[c])' BY <2>2, <2>3, <2>m, <1>d, <1>e
  <2>5. \A y \in Filas : avance'[y] = avance[y] \/ HechoHasta(y, avance[y])'
    <3> SUFFICES ASSUME NEW y \in Filas, y = Y(c) PROVE HechoHasta(y, avance[y])'
      BY <1>8, <1>a DEF Avanzar
    <3>1. y \in Int /\ DelTrozo(y)' = DelTrozo(y) /\ avance'[y] = avance'[Y(c)] BY <2>m, <1>d
    <3> QED BY <1>8, <2>2, <2>3, <3>1 DEF HechoHasta, Avanzar
  <2>6. avance' \in [Filas -> 0..Ancho]
    <3>1. avance' = [avance EXCEPT ![Y(c)] = x[c] + 1] BY <1>8 DEF Avanzar
    <3>2. x[c] + 1 \in 0..Ancho BY <1>e, <2>3
    <3> QED BY <1>a, <3>1, <3>2
  <2> QED BY <1>8, <1>a, <1>v, <2>3, <2>4, <2>5, <2>6 DEF Avanzar, PasosFila, PasosIntra, EnMb
<1>9. CASE Rematar(c)
  <2>2. HechoHasta(Y(c), Ancho) BY <1>9, <1>b DEF Rematar, Progreso
  <2>m. /\ PrimeraFila' = PrimeraFila
        /\ \A y \in Int : DelTrozo(y)' = DelTrozo(y)
        /\ \A y, m \in Int : HechoHasta(y, m) => HechoHasta(y, m)'
    BY <1>9, Monotono DEF Rematar, trozo
  <2>3. Y(c)' = Y(c) /\ x' = x /\ mia' = mia /\ avance'[Y(c)] = Ancho
    BY <1>9, <1>a, <1>d, <2>m DEF Rematar, Y, filas
  <2>4. HechoHasta(Y(c), x[c])' /\ HechoHasta(Y(c), Ancho)'
    BY <2>2, <2>3, <2>m, <1>d, <1>e, <1>g
  <2>5. \A y \in Filas : avance'[y] = avance[y] \/ HechoHasta(y, avance[y])'
    <3> SUFFICES ASSUME NEW y \in Filas, y = Y(c) PROVE HechoHasta(y, avance[y])'
      BY <1>9, <1>a DEF Rematar
    <3>1. y \in Int /\ DelTrozo(y)' = DelTrozo(y) /\ avance'[y] = avance'[Y(c)] BY <2>m, <1>d
    <3> QED BY <1>9, <2>2, <2>3, <3>1 DEF HechoHasta, Rematar
  <2>6. avance' \in [Filas -> 0..Ancho]
    <3>1. avance' = [avance EXCEPT ![Y(c)] = Ancho] BY <1>9 DEF Rematar
    <3>2. Ancho \in 0..Ancho BY <1>e
    <3> QED BY <1>a, <3>1, <3>2
  <2> QED BY <1>9, <1>a, <1>v, <2>3, <2>4, <2>5, <2>6 DEF Rematar, PasosFila, PasosIntra, EnMb
<1> QED BY <1>0, <1>1, <1>2, <1>3, <1>4, <1>5, <1>6, <1>7, <1>8, <1>9

\* A step in which executor c takes, enters, skips or leaves region r.
LEMMA RegionMarco ==
  ASSUME Inv, NEW c \in Ejecutor, NEW d \in Pasos, NEW r \in Indices, NEW v \in Estados,
         UNCHANGED <<abierto, n, cancelado, trozo, fallo, avance, servicio, abortar, resultado, listos>>,
         abierto = 1, Ir(c, d), estado' = [estado EXCEPT ![r] = v],
         x' \in [Ejecutor -> 0..Ancho], \A b \in Ejecutor \ {c} : x'[b] = x[b],
         mia' \in [Ejecutor -> Indices], \A b \in Ejecutor \ {c} : mia'[b] = mia[b],
         \A b \in Ejecutor \ {c} : paso[b] # "libre" => mia[b] # r,
         d # "libre" => mia'[c] = r,
         c = 0 => servicio = "no",
         v = "hecha" => HechoHasta(PrimeraFila + r, Ancho),
         v = "saltada" => cancelado = 1,
         Tenencia(c)', Progreso(c)'
  PROVE  Inv'
<1>1. paso' \in [Ejecutor -> Pasos] /\ paso'[c] = d /\ \A b \in Ejecutor \ {c} : paso'[b] = paso[b]
  BY DEF Inv, TypeOK, Ir
<1>m. /\ PrimeraFila' = PrimeraFila /\ UltimaFila' = UltimaFila
      /\ \A y \in Int : Hasta(y)' = Hasta(y) /\ DelTrozo(y)' = DelTrozo(y)
      /\ \A y, m \in Int : HechoHasta(y, m) => HechoHasta(y, m)'
  BY Monotono DEF trozo
<1>n. estado \in [Indices -> Estados] /\ estado' \in [Indices -> Estados]
      /\ estado'[r] = v /\ \A q \in Indices \ {r} : estado'[q] = estado[q]
  BY DEF Inv, TypeOK
<1>2. TypeOK' BY <1>1, <1>m, <1>n DEF Inv, TypeOK, trozo
<1>3. Reparto' BY <1>m DEF Inv, Reparto, Trozo, trozo
<1>4. Aviso'
  <2>1. 0 \in Ejecutor BY EjecutoresAssumption DEF Ejecutor
  <2> QED BY <1>1, <2>1 DEF Inv, Aviso
<1>5. Exclusiva' BY <1>1 DEF Inv, Exclusiva
<1>6. FilasHechas'
  <2> SUFFICES ASSUME NEW q \in Indices, q < n
               PROVE  (/\ HechoHasta(PrimeraFila + q, avance[PrimeraFila + q])
                       /\ estado[q] = "hecha" => HechoHasta(PrimeraFila + q, Ancho)
                       /\ estado[q] = "saltada" => cancelado = 1)'
    BY DEF FilasHechas
  <2>1. PrimeraFila + q \in Filas /\ PrimeraFila + q \in Int BY IndiceValido
  <2>2. avance[PrimeraFila + q] \in Int /\ Ancho \in Int
    BY <2>1, AnchoAssumption DEF Inv, TypeOK
  <2>3. /\ HechoHasta(PrimeraFila + q, avance[PrimeraFila + q])
        /\ estado[q] = "hecha" => HechoHasta(PrimeraFila + q, Ancho)
        /\ estado[q] = "saltada" => cancelado = 1
    BY DEF Inv, FilasHechas
  <2>4. CASE q = r BY <1>m, <1>n, <2>1, <2>2, <2>3, <2>4
  <2>5. CASE q # r BY <1>m, <1>n, <2>1, <2>2, <2>3, <2>5
  <2> QED BY <2>4, <2>5
<1>7. Devuelto' /\ Exito' BY DEF Inv, Devuelto, Exito
<1>8. ASSUME NEW b \in Ejecutor, b # c PROVE (Tenencia(b) /\ Progreso(b))'
  <2>1. Tenencia(b) /\ Progreso(b) BY DEF Inv
  <2>2. paso'[b] = paso[b] /\ x'[b] = x[b] /\ mia'[b] = mia[b] BY <1>8, <1>1
  <2>3. CASE paso[b] = "libre"
    BY <2>2, <2>3 DEF Tenencia, Progreso, PasosFila, PasosIntra, EnMb
  <2>4. CASE paso[b] # "libre"
    <3>1. Y(b)' = Y(b) /\ Y(b) \in Int /\ mia[b] \in Nat /\ mia[b] \in Indices /\ x[b] \in Int
      BY <2>2, <2>4, <1>m, FilaValida DEF Y, Inv, TypeOK
    <3>2. estado'[mia[b]] = estado[mia[b]] BY <1>8, <1>n, <2>4, <3>1
    <3>3. Tenencia(b)' BY <2>1, <2>2, <3>1, <3>2, <1>m DEF Tenencia
    <3>4. Progreso(b)' BY <2>1, <2>2, <3>1, <1>m, AnchoAssumption DEF Progreso
    <3> QED BY <3>3, <3>4
  <2> QED BY <2>3, <2>4
<1> QED BY <1>2, <1>3, <1>4, <1>5, <1>6, <1>7, <1>8 DEF Inv

LEMMA RegionPaso ==
  ASSUME Inv, NEW c \in Ejecutor,
         (\E r \in Indices : Tomar(c, r)) \/ Entrar(c) \/ Omitir(c) \/ Salir(c)
  PROVE  Inv'
<1>a. paso \in [Ejecutor -> Pasos] /\ x \in [Ejecutor -> 0..Ancho] /\ mia \in [Ejecutor -> Indices]
      /\ estado \in [Indices -> Estados]
  BY DEF Inv, TypeOK
<1>b. Tenencia(c) /\ Progreso(c) /\ \A b \in Ejecutor : Tenencia(b) BY DEF Inv
<1>c. paso[c] # "libre" => \A b \in Ejecutor \ {c} : paso[b] # "libre" => mia[b] # mia[c]
  BY DEF Inv, Exclusiva
<1>d. c = 0 /\ paso[c] \notin {"libre", "pedir"} => servicio = "no" BY DEF Inv, Aviso
<1>1. ASSUME NEW r \in Indices, Tomar(c, r) PROVE Inv'
  <2>1. \A b \in Ejecutor \ {c} : paso[b] # "libre" => mia[b] # r
    <3> SUFFICES ASSUME NEW b \in Ejecutor, paso[b] # "libre", mia[b] = r PROVE FALSE OBVIOUS
    <3>1. paso[b] = "tomada" \/ paso[b] \in PasosFila BY <1>a DEF Pasos
    <3> QED BY <1>1, <1>b, <3>1 DEF Tomar, TomarRegion, Tenencia
  <2>2. paso'[c] = "tomada" /\ mia'[c] = r /\ estado'[r] = "tomada" /\ mia' \in [Ejecutor -> Indices]
    BY <1>1, <1>a DEF Tomar, TomarRegion, Ir
  <2>3. Tenencia(c)' /\ Progreso(c)'
    BY <1>1, <2>2 DEF Tomar, TomarRegion, Tenencia, Progreso, PasosFila, PasosIntra, EnMb
  <2> QED BY <1>1, <1>a, <2>1, <2>2, <2>3, RegionMarco DEF Tomar, TomarRegion, Pasos, Estados
<1>2. CASE Entrar(c)
  <2>1. paso[c] # "libre" BY <1>2 DEF Entrar
  <2>2. Y(c) \in Filas /\ Y(c) \in Int /\ mia[c] \in Indices /\ abierto = 1 /\ mia[c] < n
    BY <2>1, FilaValida
  <2>3. Desde(Y(c)) \in 0..Ancho BY <2>2, Geometria DEF Inv, Reparto
  <2>4. paso'[c] = "columna" /\ mia' = mia /\ x'[c] = Desde(Y(c)) /\ estado'[mia[c]] = "corriendo"
    BY <1>2, <1>a, <2>2 DEF Entrar, Empezar, Ir
  <2>5. Y(c)' = Y(c) /\ DelTrozo(Y(c))' = DelTrozo(Y(c)) /\ PrimeraFila' = PrimeraFila
    <3>1. UNCHANGED <<primero, fin, listos, fallo>> BY <1>2 DEF Entrar, trozo
    <3>2. PrimeraFila' = PrimeraFila /\ \A y \in Int : DelTrozo(y)' = DelTrozo(y)
      BY <3>1, Monotono
    <3>3. Y(c)' = Y(c) BY <2>4, <3>2 DEF Y
    <3> QED BY <2>2, <3>2, <3>3
  <2>6. HechoHasta(Y(c), x[c])'
    BY <2>3, <2>4, <2>5 DEF HechoHasta, DelTrozo, Columnas
  <2>7. Tenencia(c)' /\ Progreso(c)'
    BY <1>2, <2>2, <2>4, <2>6 DEF Entrar, Empezar, Tenencia, Progreso, PasosFila, PasosIntra, EnMb
  <2> QED BY <1>2, <1>a, <1>c, <1>d, <2>1, <2>2, <2>3, <2>4, <2>7, RegionMarco
          DEF Entrar, Empezar, Pasos, PasosFila, Estados
<1>3. CASE Omitir(c)
  <2>1. paso[c] # "libre" /\ paso[c] # "pedir" BY <1>3 DEF Omitir
  <2>2. mia[c] \in Indices /\ abierto = 1 BY <2>1, FilaValida
  <2>3. paso'[c] = "libre" /\ mia' = mia /\ x' = x BY <1>3, <1>a DEF Omitir, Ir, filas
  <2>4. Tenencia(c)' /\ Progreso(c)' BY <2>3 DEF Tenencia, Progreso, PasosFila, PasosIntra, EnMb
  <2> QED BY <1>3, <1>a, <1>c, <1>d, <2>1, <2>2, <2>3, <2>4, RegionMarco
          DEF Omitir, Saltar, Pasos, Estados
<1>4. CASE Salir(c)
  <2>1. paso[c] # "libre" /\ paso[c] # "pedir" BY <1>4 DEF Salir
  <2>2. mia[c] \in Indices /\ abierto = 1 BY <2>1, FilaValida
  <2>3. paso'[c] = "libre" /\ mia' = mia /\ x' = x BY <1>4, <1>a DEF Salir, Ir, filas
  <2>4. Tenencia(c)' /\ Progreso(c)' BY <2>3 DEF Tenencia, Progreso, PasosFila, PasosIntra, EnMb
  <2>5. HechoHasta(PrimeraFila + mia[c], Ancho) BY <1>4, <1>b DEF Salir, Progreso, Y
  <2> QED BY <1>4, <1>a, <1>c, <1>d, <2>1, <2>2, <2>3, <2>4, <2>5, RegionMarco
          DEF Salir, Acabar, Pasos, Estados
<1> QED BY <1>1, <1>2, <1>3, <1>4

\* A step of servir_coordinador, between rows or inside one.
LEMMA ServicioPaso == ASSUME Inv, ServirEntreFilas \/ Servicio PROVE Inv'
<1>z. 0 \in Ejecutor BY EjecutoresAssumption DEF Ejecutor
<1>a. paso \in [Ejecutor -> Pasos] /\ fallo \in {0, 1} /\ cancelado \in {0, 1} /\ abortar \in {0, 1}
  BY DEF Inv, TypeOK
<1>b. Aviso /\ Tenencia(0) BY <1>z DEF Inv
<1>1. /\ abierto = 1 /\ UNCHANGED <<abierto, n, estado, trozo, avance, filas, resultado, listos>>
      /\ fallo' \in {0, 1} /\ (fallo = 1 => fallo' = 1)
      /\ cancelado' \in {0, 1} /\ (cancelado = 1 => cancelado' = 1) /\ (cancelado' = 1 => fallo' = 1)
      /\ abortar' \in {0, 1} /\ servicio' \in {"no", "fallo", "lote"}
  BY <1>a, <1>b DEF Aviso, Tenencia, Servicio, ServirEntreFilas, ServirEnFila, CancelarFilas, CancelarPool,
                    CancelarLote, loteVars
<1>2. /\ paso' \in [Ejecutor -> Pasos] /\ \A b \in Ejecutor \ {0} : paso'[b] = paso[b]
      /\ paso'[0] = paso[0] \/ (paso[0] = "pedir" /\ paso'[0] \in {"fallar", "visitar"})
  BY <1>a, <1>z DEF Servicio, ServirEntreFilas, ServirEnFila, CancelarFilas, CancelarPool, Ir, Pasos, PasosFila
<1>3. Aviso'
  BY <1>a, <1>b, <1>z DEF Aviso, Tenencia, Servicio, ServirEntreFilas, ServirEnFila, CancelarFilas, CancelarPool,
                          CancelarLote, loteVars, Ir
<1>m. /\ PrimeraFila' = PrimeraFila /\ UltimaFila' = UltimaFila
      /\ \A y \in Int : Hasta(y)' = Hasta(y) /\ DelTrozo(y)' = DelTrozo(y)
      /\ \A y, m \in Int : HechoHasta(y, m) => HechoHasta(y, m)'
  BY <1>1, Monotono DEF trozo
<1>4. TypeOK' BY <1>1, <1>2, <1>m DEF Inv, TypeOK, trozo, filas
<1>5. Reparto' BY <1>1, <1>m DEF Inv, Reparto, Trozo, trozo
<1>6. Exclusiva' BY <1>1, <1>2 DEF Inv, Exclusiva, filas
<1>7. Devuelto' /\ Exito' BY <1>1 DEF Inv, Devuelto, Exito
<1>8. FilasHechas'
  <2> SUFFICES ASSUME NEW q \in Indices, q < n
               PROVE  (/\ HechoHasta(PrimeraFila + q, avance[PrimeraFila + q])
                       /\ estado[q] = "hecha" => HechoHasta(PrimeraFila + q, Ancho)
                       /\ estado[q] = "saltada" => cancelado = 1)'
    BY <1>1 DEF FilasHechas
  <2>1. PrimeraFila + q \in Filas /\ PrimeraFila + q \in Int BY IndiceValido
  <2>2. avance[PrimeraFila + q] \in Int /\ Ancho \in Int
    BY <2>1, AnchoAssumption DEF Inv, TypeOK
  <2> QED BY <1>1, <1>m, <2>1, <2>2 DEF Inv, FilasHechas
<1>9. ASSUME NEW b \in Ejecutor PROVE (Tenencia(b) /\ Progreso(b))'
  <2>1. Tenencia(b) /\ Progreso(b) BY DEF Inv
  <2>2. /\ x'[b] = x[b] /\ mia'[b] = mia[b]
        /\ paso'[b] = paso[b] \/ (paso[b] = "pedir" /\ paso'[b] \in {"fallar", "visitar"})
    BY <1>1, <1>2 DEF filas
  <2>3. CASE paso[b] = "libre"
    BY <2>2, <2>3 DEF Tenencia, Progreso, PasosFila, PasosIntra, EnMb
  <2>4. CASE paso[b] # "libre"
    <3>1. Y(b)' = Y(b) /\ Y(b) \in Int /\ mia[b] \in Nat /\ x[b] \in Int
      BY <2>2, <2>4, <1>m, FilaValida DEF Y, Inv, TypeOK
    <3>2. CASE paso'[b] = paso[b]
      <4>1. Tenencia(b)' BY <2>1, <2>2, <3>1, <3>2, <1>1, <1>m DEF Tenencia
      <4>2. Progreso(b)' BY <2>1, <2>2, <3>1, <3>2, <1>1, <1>m, AnchoAssumption DEF Progreso
      <4> QED BY <4>1, <4>2
    <3>3. CASE paso[b] = "pedir" /\ paso'[b] \in {"fallar", "visitar"}
      <4>1. paso[b] \in PasosFila /\ paso[b] \in EnMb BY <3>3 DEF PasosFila, EnMb
      <4>2. Tenencia(b)' BY <2>1, <2>2, <3>1, <3>3, <4>1, <1>1, <1>m DEF Tenencia
      <4>3. Progreso(b)' BY <2>1, <2>2, <3>1, <3>3, <4>1, <1>m DEF Progreso
      <4> QED BY <4>2, <4>3
    <3> QED BY <2>2, <3>2, <3>3
  <2> QED BY <2>3, <2>4
<1> QED BY <1>3, <1>4, <1>5, <1>6, <1>7, <1>8, <1>9 DEF Inv

LEMMA CuentaDeFilas ==
  ASSUME NEW a \in Filas, NEW b \in Filas, a <= b
  PROVE  b - a + 1 \in 0..Alto /\ a + (b - a + 1) <= Alto /\ a \in Nat
  BY AltoAssumption DEF Filas

LEMMA FilaEnImagen ==
  ASSUME NEW a \in Nat, NEW m \in Nat, NEW r \in Nat, a + m <= Alto, r < m PROVE a + r \in Filas
  BY AltoAssumption DEF Filas

LEMMA EjecutarPaso ==
  ASSUME Inv, NEW t \in Trozos, NEW bsp \in {0, 1}, Ejecutar(t, bsp) PROVE Inv'
<1>1. abierto = 0 /\ servicio = "no" /\ \A c \in Ejecutor : paso[c] = "libre"
  BY DEF Inv, Aviso, Tenencia, Ejecutar, Abrir
<1>2. /\ Trozo(primero, fin)' /\ n' = UltimaFila' - PrimeraFila' + 1
  BY TrozosAssumption DEF Ejecutar, Abrir, Trozo, UltimaFila, PrimeraFila
<1>3. PrimeraFila' \in Filas /\ UltimaFila' \in Filas /\ PrimeraFila' <= UltimaFila'
  <2>1. (Trozo(primero, fin) => /\ PrimeraFila \in Filas /\ UltimaFila \in Filas
                                /\ PrimeraFila <= UltimaFila)'
    BY Geometria, PTL
  <2> QED BY <1>2, <2>1
<1>4. n' \in 0..Alto /\ PrimeraFila' + n' <= Alto /\ PrimeraFila' \in Nat
  BY <1>2, <1>3, CuentaDeFilas
<1>5. TypeOK'
  BY <1>4, AnchoAssumption, MaxLotesAssumption
     DEF Inv, TypeOK, Ejecutar, Abrir, filas, Indices, Estados
<1>6. Reparto' /\ Aviso' /\ Exclusiva' /\ Devuelto' /\ Exito'
  BY <1>1, <1>2, EjecutoresAssumption
     DEF Ejecutar, Abrir, Reparto, Aviso, Exclusiva, Devuelto, Exito
<1>7. FilasHechas'
  <2> SUFFICES ASSUME NEW r \in Indices, r < n'
               PROVE  (/\ HechoHasta(PrimeraFila + r, avance[PrimeraFila + r])
                       /\ estado[r] = "hecha" => HechoHasta(PrimeraFila + r, Ancho)
                       /\ estado[r] = "saltada" => cancelado = 1)'
    BY DEF FilasHechas
  <2>1. estado'[r] = "pendiente" BY DEF Ejecutar, Abrir
  <2>2. PrimeraFila' + r \in Filas
    <3>1. n' \in Nat /\ r \in Nat BY <1>4, AltoAssumption DEF Indices
    <3> QED BY <1>4, <3>1, FilaEnImagen
  <2>3. avance'[PrimeraFila' + r] = 0 BY <2>2 DEF Ejecutar
  <2>4. HechoHasta(PrimeraFila + r, avance[PrimeraFila + r])'
    BY <2>3, AnchoAssumption DEF HechoHasta, DelTrozo, Columnas
  <2> QED BY <2>1, <2>4
<1>8. \A c \in Ejecutor : (Tenencia(c) /\ Progreso(c))'
  BY <1>1 DEF Ejecutar, Tenencia, Progreso, PasosFila, PasosIntra, EnMb
<1> QED BY <1>5, <1>6, <1>7, <1>8 DEF Inv

LEMMA VolverPaso == ASSUME Inv, Volver PROVE Inv'
<1>1. abierto = 1 /\ servicio = "no" /\ \A r \in 0..(n - 1) : estado[r] \in {"hecha", "saltada"}
  BY DEF Volver, Devolver
<1>2. ASSUME NEW c \in Ejecutor PROVE paso[c] = "libre"
  <2>1. SUFFICES ASSUME paso[c] # "libre" PROVE FALSE OBVIOUS
  <2>2. mia[c] \in Nat /\ mia[c] < n /\ n \in Nat BY <2>1, FilaValida DEF Inv, TypeOK
  <2>3. paso[c] = "tomada" \/ paso[c] \in PasosFila BY <2>1 DEF Inv, TypeOK, Pasos
  <2>4. estado[mia[c]] \in {"tomada", "corriendo"} BY <2>3 DEF Inv, Tenencia
  <2> QED BY <1>1, <2>2, <2>4
<1>m. /\ PrimeraFila' = PrimeraFila /\ UltimaFila' = UltimaFila
      /\ \A y, m \in Int : HechoHasta(y, m) => HechoHasta(y, m)'
  BY Monotono DEF Volver, trozo
<1>3. TypeOK' BY <1>m DEF Inv, TypeOK, Volver, Devolver, trozo, filas
<1>4. Reparto' BY <1>1, <1>m DEF Inv, Reparto, Trozo, Volver, Devolver, trozo
<1>5. Aviso' /\ Exclusiva' /\ Devuelto' /\ Exito'
  BY <1>1, <1>2 DEF Inv, Aviso, Exclusiva, Devuelto, Exito, Volver, Devolver, filas
<1>6. FilasHechas'
  <2> SUFFICES ASSUME NEW q \in Indices, q < n
               PROVE  (/\ HechoHasta(PrimeraFila + q, avance[PrimeraFila + q])
                       /\ estado[q] = "hecha" => HechoHasta(PrimeraFila + q, Ancho)
                       /\ estado[q] = "saltada" => cancelado = 1)'
    BY DEF FilasHechas, Volver, Devolver
  <2>1. PrimeraFila + q \in Filas /\ PrimeraFila + q \in Int BY IndiceValido
  <2>2. avance[PrimeraFila + q] \in Int /\ Ancho \in Int
    BY <2>1, AnchoAssumption DEF Inv, TypeOK
  <2> QED BY <1>m, <2>1, <2>2 DEF Inv, FilasHechas, Volver, Devolver
<1>7. \A c \in Ejecutor : (Tenencia(c) /\ Progreso(c))'
  BY <1>2 DEF Volver, Tenencia, Progreso, PasosFila, PasosIntra, EnMb
<1> QED BY <1>3, <1>4, <1>5, <1>6, <1>7 DEF Inv

LEMMA Quieto == ASSUME Inv, UNCHANGED vars PROVE Inv'
  BY DEF Inv, TypeOK, Reparto, Trozo, Aviso, Exclusiva, FilasHechas, HechoHasta, DelTrozo, Desde, Hasta,
         PrimeraFila, UltimaFila, Devuelto, Exito, Tenencia, Progreso, Y,
         vars, loteVars, trozo, filas

LEMMA Paso == Inv /\ [Next]_vars => Inv'
  BY FilaInterior, RegionPaso, ServicioPaso, EjecutarPaso, VolverPaso, Quieto
     DEF Next, Fila, Fin

LEMMA Siempre == Spec => []Inv
  BY Inicial, Paso, PTL DEF Spec

\* Every row and column an executor works on lies in the picture, for any
\* slice the parser can deliver (fila, h264_reconstruccion_ejecutar).
THEOREM TipoCorrecto == Spec => []TypeOK
<1>1. Inv => TypeOK BY DEF Inv
<1> QED BY <1>1, Siempre, PTL

\* The wait on avance, and the order in which fila stores fallo and avance,
\* keep an intra macroblock from being predicted from one that is not ready.
THEOREM IntraConVecinosCorrecto == Spec => []IntraConVecinos
<1>1. Inv => IntraConVecinos
  <2> SUFFICES ASSUME Inv, NEW c \in Ejecutor, paso[c] = "intra"
               PROVE  Vecinos(x[c], Y(c)) \subseteq listos
    BY DEF IntraConVecinos
  <2>1. x[c] \in Int /\ mia[c] \in Nat /\ PrimeraFila \in Int
    <3>1. PrimeraFila \in Int BY Geometria, AltoAssumption DEF Inv, Reparto, Filas
    <3>2. mia[c] \in Nat BY FilaValida
    <3>3. x[c] \in Int BY AnchoAssumption DEF Inv, TypeOK
    <3> QED BY <3>1, <3>2, <3>3
  <2>2. Y(c) > PrimeraFila => mia[c] > 0 BY <2>1 DEF Y
  <2>3. {<<a, Y(c)>> : a \in DelTrozo(Y(c)) \cap {x[c] - 1}} \subseteq listos
    BY <2>1 DEF Inv, Progreso
  <2>4. Y(c) > PrimeraFila =>
          {<<a, Y(c) - 1>> : a \in DelTrozo(Y(c) - 1) \cap (x[c] - 1)..(x[c] + 1)} \subseteq listos
    BY <2>1, <2>2 DEF Inv, Progreso
  <2> QED BY <2>3, <2>4 DEF Vecinos
<1> QED BY <1>1, Siempre, PTL

\* A return of 1 means that the whole slice was reconstructed, however rows,
\* failures and cancellations interleave.
THEOREM ExitoReconstruidoCorrecto == Spec => []ExitoReconstruido
<1>1. Inv => ExitoReconstruido
  <2> SUFFICES ASSUME Inv, resultado = "ok", NEW y \in PrimeraFila..UltimaFila, NEW col \in DelTrozo(y)
               PROVE  <<col, y>> \in listos
    BY DEF ExitoReconstruido
  <2>1. n = UltimaFila - PrimeraFila + 1 /\ fallo = 0 BY DEF Inv, Reparto, Exito
  <2>2. PrimeraFila \in Filas /\ UltimaFila \in Filas BY Geometria DEF Inv, Reparto
  <2> DEFINE r == y - PrimeraFila
  <2>3. r \in Indices /\ r \in 0..(n - 1) /\ r < n /\ PrimeraFila + r = y
    BY <2>1, <2>2, AltoAssumption DEF Filas, Indices
  <2>4. estado[r] = "hecha"
    <3>1. estado[r] \in {"hecha", "saltada"} BY <2>3 DEF Inv, Devuelto
    <3>2. estado[r] = "saltada" => fallo = 1 BY <2>3 DEF Inv, FilasHechas, Aviso
    <3> QED BY <2>1, <3>1, <3>2
  <2>5. HechoHasta(y, Ancho) BY <2>3, <2>4 DEF Inv, FilasHechas
  <2> QED BY <2>1, <2>5, AnchoAssumption DEF HechoHasta, DelTrozo, Columnas
<1> QED BY <1>1, Siempre, PTL
=============================================================================
