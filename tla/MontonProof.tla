---------------------------- MODULE MontonProof -----------------------------
(***************************************************************************)
(* Proofs about the allocators of module Monton, for any sizes, any memory *)
(* map and any number of clients: nothing is given to two owners, the list *)
(* of blocks keeps its links through splits, growths and joins, an         *)
(* allocation only fails when no block is large enough, and the counters   *)
(* are exactly what clients and arenas hold.                               *)
(***************************************************************************)
EXTENDS Monton, SequenceTheorems, FiniteSetTheorems, WellFoundedInduction, TLAPS

-----------------------------------------------------------------------------
(* Numbers.                                                                 *)

\* Units and the frames they lie in.
LEMMA Cociente ==
  ASSUME NEW x \in Nat, NEW t \in Nat \ {0}
  PROVE  x \div t \in Nat /\ \A a \in Nat : (a <= x \div t <=> a * t <= x) /\ (a * t) \div t = a
OBVIOUS

LEMMA MarcoDeUnidad ==
  ASSUME NEW a \in Nat, NEW m \in Nat, NEW x \in Nat, NEW t \in Nat \ {0},
         a * t <= x, x < a * t + m * t
  PROVE  x \div t \in a..(a + m - 1)
OBVIOUS

LEMMA MinimoDe ==
  ASSUME NEW S \in SUBSET Nat, S # {}
  PROVE  Min(S) \in S /\ \A y \in S : Min(S) <= y
<1> DEFINE R == OpToRel(<, Nat)
<1>1. IsWellFoundedOn(R, Nat) BY NatLessThanWellFounded
<1>2. R = {p \in Nat \X Nat : p[1] < p[2]} BY DEF OpToRel
<1> HIDE DEF R
<1>3. PICK m \in S : \A u \in S : <<u, m>> \notin R BY <1>1, WFMin
<1>4. \A u \in S : m <= u
  <2> SUFFICES ASSUME NEW u \in S PROVE m <= u OBVIOUS
  <2>1. m \in Nat /\ u \in Nat OBVIOUS
  <2>2. ~(u < m) BY <1>2, <1>3, <2>1
  <2> QED BY <2>1, <2>2
<1> QED BY <1>4 DEF Min

LEMMA MaximoDe ==
  ASSUME NEW S \in SUBSET Nat, S # {}, NEW b \in Nat, \A x \in S : x <= b
  PROVE  Max(S) \in S /\ \A y \in S : Max(S) >= y
<1> DEFINE U == {c \in Nat : \A x \in S : x <= c}
           m == Min(U)
<1>1. U \in SUBSET Nat /\ b \in U OBVIOUS
<1>2. m \in U /\ \A c \in U : m <= c
  <2> HIDE DEF U
  <2>1. U # {} BY <1>1
  <2> QED BY <1>1, <2>1, MinimoDe
<1> HIDE DEF m
<1>3. m \in Nat /\ \A x \in S : x <= m BY <1>2
<1>4. m \in S
  <2> SUFFICES ASSUME m \notin S PROVE FALSE OBVIOUS
  <2>1. ASSUME NEW x \in S PROVE x \in Nat /\ x <= m - 1 BY <1>3
  <2>2. m - 1 \in Nat
    <3>1. PICK x \in S : TRUE OBVIOUS
    <3> QED BY <1>3, <2>1, <3>1
  <2>3. m - 1 \in U BY <2>1, <2>2
  <2>4. m <= m - 1 BY <1>2, <2>3
  <2> QED BY <1>3, <2>4
<1>5. \A y \in S : m >= y BY <1>3
<1> QED BY <1>4, <1>5 DEF Max

LEMMA Mayor == ASSUME NEW u \in Nat, NEW v \in Nat PROVE \E w \in Nat : u <= w /\ v <= w
<1>1. CASE u <= v BY <1>1
<1>2. CASE v <= u BY <1>2
<1> QED BY <1>1, <1>2

LEMMA Transitivo == ASSUME NEW u \in Nat, NEW v \in Nat, NEW w \in Nat, u <= v, v <= w PROVE u <= w
OBVIOUS

\* The elements of a sequence of numbers are bounded.
LEMMA Acotada ==
  ASSUME NEW n \in Nat, NEW f \in [1..n -> Nat]
  PROVE  \E b \in Nat : \A l \in 1..n : f[l] <= b
<1> DEFINE P(k) == \E b \in Nat : \A l \in 1..k : f[l] <= b
           S == {k \in 0..n : ~P(k)}
           m == Min(S)
<1>1. S \in SUBSET Nat OBVIOUS
<1>2. \A k \in 0..n : k \in S <=> ~P(k) OBVIOUS
<1>3. P(0) OBVIOUS
<1> HIDE DEF S
<1> SUFFICES ASSUME ~P(n) PROVE FALSE OBVIOUS
<1>4. S # {}
  <2>1. n \in 0..n OBVIOUS
  <2>2. n \in S BY <1>2, <2>1
  <2> QED BY <2>2
<1>5. m \in S /\ \A y \in S : m <= y BY <1>1, <1>4, MinimoDe
<1> HIDE DEF m
<1>6. m \in 0..n BY <1>5 DEF S
<1>7. m # 0
  <2>1. ~P(m) BY <1>2, <1>5, <1>6
  <2> HIDE DEF P
  <2> QED BY <1>3, <2>1
<1>8. m - 1 \in 0..n /\ m \in 1..n BY <1>6, <1>7
<1>9. m - 1 \notin S
  <2>1. ~(m <= m - 1) BY <1>6
  <2> QED BY <1>5, <2>1
<1>10. P(m - 1)
  <2> HIDE DEF P
  <2> QED BY <1>2, <1>8, <1>9
<1>11. PICK b \in Nat : \A l \in 1..(m - 1) : f[l] <= b BY <1>10
<1>12. f[m] \in Nat BY <1>8
<1>13. PICK c \in Nat : b <= c /\ f[m] <= c BY <1>12, Mayor
<1>14. \A l \in 1..m : f[l] <= c
  <2> SUFFICES ASSUME NEW l \in 1..m PROVE f[l] <= c OBVIOUS
  <2>1. CASE l = m BY <1>13, <2>1
  <2>2. CASE l # m
    <3>1. l \in 1..(m - 1) /\ l \in 1..n BY <1>8, <2>2
    <3>2. f[l] <= b /\ f[l] \in Nat BY <1>11, <3>1
    <3> QED BY <1>13, <3>2, Transitivo
  <2> QED BY <2>1, <2>2
<1>15. P(m) BY <1>13, <1>14
<1> HIDE DEF P
<1> QED BY <1>2, <1>5, <1>6, <1>15

USE TamPaginaAssumption, CabeceraAssumption

-----------------------------------------------------------------------------
(* The list of blocks g with head c.                                        *)

Registro(D) == [libre : {0, 1}, tam : Nat \ {0}, siguiente : D \cup {0}, anterior : D \cup {0}]

Bloques(g, c) ==
  /\ c \in DOMAIN g /\ DOMAIN g \subseteq Nat \ {0}
  /\ \A h \in DOMAIN g : g[h] \in Registro(DOMAIN g)

Enlazada(g, c) ==
  /\ g[c].anterior = 0
  /\ \A h \in DOMAIN g :
       /\ g[h].siguiente # 0 => g[g[h].siguiente].anterior = h
       /\ g[h].anterior # 0 => g[g[h].anterior].siguiente = h
       /\ g[h].anterior = 0 => h = c

\* One block ends the list, and every block is on the way to it from the head.
Acaba(g) ==
  \E u \in DOMAIN g : \A v \in DOMAIN g : g[v].siguiente = 0 <=> v = u

Cerrado(g, S) == \A h \in S : g[h].siguiente \in S \cup {0}
Conexa(g, c) == \A S \in SUBSET DOMAIN g : c \in S /\ Cerrado(g, S) => S = DOMAIN g

Separada(g) == \A a, b \in DOMAIN g : a < b => a + Cabecera + g[a].tam <= b

Lista(g, c) == Bloques(g, c) /\ Enlazada(g, c) /\ Acaba(g) /\ Conexa(g, c) /\ Separada(g)

Unidades(g) == {x \in Nat : \E h \in DOMAIN g : h <= x /\ x < h + Cabecera + g[h].tam}

\* Blocks in use keep their place and have at least the size they had.
Conserva(g, r) ==
  \A a \in DOMAIN g : g[a].libre = 0 => a \in DOMAIN r /\ r[a].libre = 0 /\ r[a].tam >= g[a].tam

\* The same blocks are in use, with the sizes they had.
MismoUso(g, r) == EnUso(r) = EnUso(g) /\ \A a \in EnUso(g) : r[a].tam = g[a].tam

LEMMA CamposDe ==
  ASSUME NEW g, NEW c, Bloques(g, c), NEW h \in DOMAIN g
  PROVE  /\ h \in Nat \ {0} /\ g[h].libre \in {0, 1} /\ g[h].tam \in Nat \ {0}
         /\ g[h].siguiente \in DOMAIN g \cup {0} /\ g[h].anterior \in DOMAIN g \cup {0}
BY DEF Bloques, Registro

\* No block follows itself, nor the one it follows.
LEMMA SinCiclo ==
  ASSUME NEW g, NEW c, Lista(g, c), NEW h \in DOMAIN g, g[h].siguiente # 0
  PROVE  /\ g[h].siguiente \in DOMAIN g /\ g[h].siguiente # h
         /\ g[g[h].siguiente].siguiente \in (DOMAIN g \cup {0}) \ {h, g[h].siguiente}
<1> DEFINE s == g[h].siguiente
<1>a. Bloques(g, c) /\ Enlazada(g, c) /\ Conexa(g, c) BY DEF Lista
<1>1. s \in DOMAIN g /\ 0 \notin DOMAIN g /\ c \in DOMAIN g BY <1>a, CamposDe DEF Bloques
<1>2. g[s].anterior = h BY <1>a DEF Enlazada
<1>3. ASSUME NEW C \in SUBSET DOMAIN g, C # {}, \A a \in C : g[a].anterior \in C PROVE FALSE
  <2> DEFINE S == DOMAIN g \ C
  <2>1. g[c].anterior = 0 /\ c \in S BY <1>a, <1>1, <1>3 DEF Enlazada
  <2>2. Cerrado(g, S)
    <3> SUFFICES ASSUME NEW a \in S, g[a].siguiente \in C PROVE FALSE
      BY <1>a, CamposDe DEF Cerrado
    <3>1. g[g[a].siguiente].anterior = a BY <1>a, <1>1 DEF Enlazada
    <3> QED BY <1>3, <3>1
  <2>3. S = DOMAIN g BY <1>a, <2>1, <2>2 DEF Conexa
  <2> QED BY <1>3, <2>3
<1> HIDE DEF s
<1>4. s # h
  <2> SUFFICES ASSUME s = h PROVE FALSE OBVIOUS
  <2>1. \A a \in {h} : g[a].anterior \in {h} BY <1>2
  <2>2. {h} \in SUBSET DOMAIN g /\ {h} # {} OBVIOUS
  <2> QED BY <1>3, <2>1, <2>2
<1>5. g[s].siguiente \in DOMAIN g \cup {0} BY <1>a, <1>1, CamposDe
<1>6. g[s].siguiente # s
  <2> SUFFICES ASSUME g[s].siguiente = s PROVE FALSE OBVIOUS
  <2>1. g[s].anterior = s BY <1>a, <1>1 DEF Enlazada
  <2> QED BY <1>2, <1>4, <2>1
<1>7. g[s].siguiente # h
  <2> SUFFICES ASSUME g[s].siguiente = h PROVE FALSE OBVIOUS
  <2>1. g[h].anterior = s BY <1>a, <1>1 DEF Enlazada
  <2>2. \A a \in {h, s} : g[a].anterior \in {h, s} BY <1>2, <2>1
  <2>3. {h, s} \in SUBSET DOMAIN g /\ {h, s} # {} BY <1>1
  <2> QED BY <1>3, <2>2, <2>3
<1> QED BY <1>1, <1>4, <1>5, <1>6, <1>7 DEF s

\* Only the state of block h changes.
Marca(g, r, h, v) ==
  /\ DOMAIN r = DOMAIN g /\ v \in {0, 1}
  /\ \A a \in DOMAIN g :
       /\ r[a] \in Registro(DOMAIN g) /\ r[a].libre = IF a = h THEN v ELSE g[a].libre
       /\ r[a].tam = g[a].tam /\ r[a].siguiente = g[a].siguiente /\ r[a].anterior = g[a].anterior

LEMMA MarcaLista ==
  ASSUME NEW g, NEW c, Lista(g, c), NEW h \in DOMAIN g, NEW r, NEW v, Marca(g, r, h, v)
  PROVE  Lista(r, c) /\ Unidades(r) = Unidades(g)
<1>1. Bloques(r, c) BY DEF Lista, Bloques, Marca
<1>2. Acaba(r) BY DEF Lista, Acaba, Marca
<1>6. Enlazada(r, c)
  <2>1. r[c].anterior = 0 BY DEF Lista, Bloques, Enlazada, Marca
  <2>2. ASSUME NEW a \in DOMAIN g
        PROVE  /\ r[a].siguiente # 0 => r[r[a].siguiente].anterior = a
               /\ r[a].anterior # 0 => r[r[a].anterior].siguiente = a
               /\ r[a].anterior = 0 => a = c
    <3>1. g[a].siguiente \in DOMAIN g \cup {0} /\ g[a].anterior \in DOMAIN g \cup {0}
      BY CamposDe DEF Lista
    <3> QED BY <3>1 DEF Lista, Enlazada, Marca
  <2>3. DOMAIN r = DOMAIN g BY DEF Marca
  <2> QED BY <2>1, <2>2, <2>3 DEF Enlazada
<1>3. Conexa(r, c)
  <2> SUFFICES ASSUME NEW S \in SUBSET DOMAIN g, c \in S, Cerrado(r, S) PROVE S = DOMAIN g
    BY DEF Conexa, Marca
  <2>1. Cerrado(g, S) BY DEF Cerrado, Marca
  <2> QED BY <2>1 DEF Lista, Conexa
<1>4. Separada(r) BY DEF Lista, Separada, Marca
<1>5. Unidades(r) = Unidades(g) BY DEF Unidades, Marca
<1> QED BY <1>1, <1>2, <1>3, <1>4, <1>5, <1>6 DEF Lista

LEMMA MarcaDe ==
  ASSUME NEW g, NEW c, Lista(g, c), NEW h \in DOMAIN g, NEW v \in {0, 1}
  PROVE  Marca(g, [g EXCEPT ![h].libre = v], h, v)
BY CamposDe DEF Marca, Lista, Bloques, Registro

\* Block h absorbs s, the free block that follows it in the list and in memory.
Funde(g, r, h, s) ==
  /\ h \in DOMAIN g /\ g[h].siguiente = s /\ s # 0 /\ g[s].libre = 1
  /\ h + Cabecera + g[h].tam = s
  /\ DOMAIN r = DOMAIN g \ {s}
  /\ \A a \in DOMAIN r :
       /\ r[a] \in Registro(DOMAIN g) /\ r[a].libre = g[a].libre
       /\ r[a].tam = IF a = h THEN g[h].tam + Cabecera + g[s].tam ELSE g[a].tam
       /\ r[a].siguiente = IF a = h THEN g[s].siguiente ELSE g[a].siguiente
       /\ r[a].anterior = IF a = g[s].siguiente THEN h ELSE g[a].anterior

LEMMA FundeLista ==
  ASSUME NEW g, NEW c, Lista(g, c), NEW r, NEW h, NEW s, Funde(g, r, h, s)
  PROVE  Lista(r, c) /\ h \in DOMAIN r /\ Unidades(r) = Unidades(g) /\ Conserva(g, r)
<1>a. Bloques(g, c) /\ Enlazada(g, c) /\ Acaba(g) /\ Conexa(g, c) /\ Separada(g) BY DEF Lista
<1>b. /\ h \in DOMAIN g /\ g[h].siguiente = s /\ s # 0 /\ DOMAIN r = DOMAIN g \ {s}
      /\ g[s].libre = 1 /\ h + Cabecera + g[h].tam = s
  BY DEF Funde
<1> DEFINE n == g[s].siguiente
<1>c. s \in DOMAIN g /\ s # h /\ n \in (DOMAIN g \cup {0}) \ {h, s} /\ 0 \notin DOMAIN g
  BY <1>a, <1>b, SinCiclo DEF Bloques
<1>d. g[s].anterior = h /\ c # s /\ (n # 0 => g[n].anterior = s)
  <2>1. g[s].anterior = h BY <1>a, <1>b DEF Enlazada
  <2>2. h # 0 BY <1>b, <1>c
  <2> QED BY <1>a, <1>c, <2>1, <2>2 DEF Enlazada
\* Who pointed to s.
<1>e. ASSUME NEW a \in DOMAIN g
      PROVE  (g[a].siguiente = s <=> a = h) /\ (g[a].anterior = s <=> n # 0 /\ a = n)
  BY <1>a, <1>b, <1>c, <1>d DEF Enlazada
<1> HIDE DEF n
<1>f. ASSUME NEW a \in DOMAIN g \ {s}
      PROVE  /\ r[a] \in Registro(DOMAIN g) /\ r[a].libre = g[a].libre
             /\ r[a].tam = IF a = h THEN g[h].tam + Cabecera + g[s].tam ELSE g[a].tam
             /\ r[a].siguiente = IF a = h THEN n ELSE g[a].siguiente
             /\ r[a].anterior = IF a = n THEN h ELSE g[a].anterior
  BY DEF Funde, n
<1>1. h \in DOMAIN r /\ c \in DOMAIN r BY <1>a, <1>b, <1>c, <1>d DEF Bloques
<1>2. ASSUME NEW a \in DOMAIN r
      PROVE  r[a].siguiente \in DOMAIN r \cup {0} /\ r[a].anterior \in DOMAIN r \cup {0}
  BY <1>a, <1>b, <1>c, <1>e, <1>f, CamposDe
<1>3. Bloques(r, c)
  <2>1. \A a \in DOMAIN r : r[a] \in Registro(DOMAIN r) BY <1>b, <1>2, <1>f DEF Registro
  <2> QED BY <1>a, <1>b, <1>1, <2>1 DEF Bloques
<1>4. Enlazada(r, c)
  <2>1. r[c].anterior = 0
    <3>1. g[c].anterior = 0 /\ c \in DOMAIN g BY <1>a DEF Enlazada, Bloques
    <3>2. c # n BY <1>c, <1>d, <3>1
    <3> QED BY <1>d, <1>f, <3>1, <3>2
  <2>2. ASSUME NEW a \in DOMAIN r
        PROVE  /\ r[a].siguiente # 0 => r[r[a].siguiente].anterior = a
               /\ r[a].anterior # 0 => r[r[a].anterior].siguiente = a
               /\ r[a].anterior = 0 => a = c
    <3>1. a \in DOMAIN g \ {s} BY <1>b
    <3>2. ASSUME r[a].siguiente # 0 PROVE r[r[a].siguiente].anterior = a
      <4>1. r[a].siguiente \in DOMAIN g \ {s} BY <1>2, <1>b, <3>2
      <4>2. CASE a = h BY <1>f, <3>1, <4>1, <4>2
      <4>3. CASE a # h
        <5>1. r[a].siguiente = g[a].siguiente BY <1>f, <3>1, <4>3
        <5>2. g[g[a].siguiente].anterior = a BY <1>a, <3>1, <3>2, <5>1 DEF Enlazada
        <5>3. g[a].siguiente # n BY <1>d, <3>1, <3>2, <5>1, <5>2
        <5> QED BY <1>f, <4>1, <5>1, <5>2, <5>3
      <4> QED BY <4>2, <4>3
    <3>3. ASSUME r[a].anterior # 0 PROVE r[r[a].anterior].siguiente = a
      <4>1. r[a].anterior \in DOMAIN g \ {s} BY <1>2, <1>b, <3>3
      <4>2. CASE a = n
        <5>1. r[a].anterior = h BY <1>f, <3>1, <4>2
        <5> QED BY <1>f, <4>1, <4>2, <5>1
      <4>3. CASE a # n
        <5>1. r[a].anterior = g[a].anterior BY <1>f, <3>1, <4>3
        <5>2. g[g[a].anterior].siguiente = a BY <1>a, <3>1, <3>3, <5>1 DEF Enlazada
        <5>3. g[a].anterior # h BY <1>b, <3>1, <5>2
        <5> QED BY <1>f, <4>1, <5>1, <5>2, <5>3
      <4> QED BY <4>2, <4>3
    <3>4. ASSUME r[a].anterior = 0 PROVE a = c
      <4>1. a # n BY <1>b, <1>c, <1>f, <3>1, <3>4
      <4>2. g[a].anterior = 0 BY <1>f, <3>1, <3>4, <4>1
      <4> QED BY <1>a, <3>1, <4>2 DEF Enlazada
    <3> QED BY <3>2, <3>3, <3>4
  <2> QED BY <2>1, <2>2 DEF Enlazada
<1>5. Acaba(r)
  <2>1. PICK u \in DOMAIN g : \A v \in DOMAIN g : g[v].siguiente = 0 <=> v = u BY <1>a DEF Acaba
  <2>2. CASE u = s
    <3>1. \A v \in DOMAIN r : r[v].siguiente = 0 <=> v = h BY <1>b, <1>c, <1>f, <2>1, <2>2 DEF n
    <3> QED BY <1>1, <3>1 DEF Acaba
  <2>3. CASE u # s
    <3>1. n # 0 /\ u # h BY <1>b, <1>c, <2>1, <2>3 DEF n
    <3>2. \A v \in DOMAIN r : r[v].siguiente = 0 <=> v = u BY <1>b, <1>f, <2>1, <3>1
    <3>3. u \in DOMAIN r BY <1>b, <2>3
    <3> QED BY <3>2, <3>3 DEF Acaba
  <2> QED BY <2>2, <2>3
<1>6. Conexa(r, c)
  <2> SUFFICES ASSUME NEW S \in SUBSET DOMAIN r, c \in S, Cerrado(r, S) PROVE S = DOMAIN r
    BY DEF Conexa
  <2>1. \A a \in S : a \in DOMAIN g \ {s} /\ r[a].siguiente \in S \cup {0} BY <1>b DEF Cerrado
  <2>2. CASE h \in S
    <3> DEFINE Q == S \cup {s}
    <3>1. Cerrado(g, Q)
      <4> SUFFICES ASSUME NEW a \in Q PROVE g[a].siguiente \in Q \cup {0} BY DEF Cerrado
      <4>1. CASE a = h BY <1>b, <4>1
      <4>2. CASE a = s BY <1>f, <2>1, <2>2, <4>2 DEF n
      <4>3. CASE a # h /\ a # s BY <1>f, <2>1, <4>3
      <4> QED BY <4>1, <4>2, <4>3
    <3>2. Q \in SUBSET DOMAIN g /\ c \in Q BY <1>c, <2>1
    <3> HIDE DEF Q
    <3>3. Q = DOMAIN g BY <1>a, <3>1, <3>2 DEF Conexa
    <3> QED BY <1>b, <2>1, <3>3 DEF Q
  <2>3. CASE h \notin S
    <3>1. \A a \in S : g[a].siguiente \in S \cup {0} BY <1>f, <2>1, <2>3
    <3>2. S \in SUBSET DOMAIN g BY <2>1
    <3>3. S = DOMAIN g BY <1>a, <3>1, <3>2 DEF Conexa, Cerrado
    <3> QED BY <1>b, <2>3, <3>3
  <2> QED BY <2>2, <2>3
<1>g. ASSUME NEW a \in DOMAIN g PROVE a \in Nat \ {0} /\ g[a].tam \in Nat \ {0} BY <1>a, CamposDe
<1>7. Separada(r)
  <2> SUFFICES ASSUME NEW a \in DOMAIN r, NEW b \in DOMAIN r, a < b
               PROVE  a + Cabecera + r[a].tam <= b
    BY DEF Separada
  <2>1. a \in DOMAIN g \ {s} /\ b \in DOMAIN g \ {s} BY <1>b
  <2>2. CASE a = h
    <3>1. s <= b
      <4>1. h + Cabecera + g[h].tam <= b BY <1>a, <2>1, <2>2 DEF Separada
      <4> QED BY <1>b, <4>1
    <3>2. s < b BY <1>c, <1>g, <2>1, <3>1
    <3>3. s + Cabecera + g[s].tam <= b BY <1>a, <1>c, <2>1, <3>2 DEF Separada
    <3>4. r[a].tam = g[h].tam + Cabecera + g[s].tam BY <1>f, <2>1, <2>2
    <3> QED BY <1>b, <1>c, <1>g, <2>1, <2>2, <3>3, <3>4
  <2>3. CASE a # h
    <3>1. r[a].tam = g[a].tam BY <1>f, <2>1, <2>3
    <3> QED BY <1>a, <2>1, <3>1 DEF Separada
  <2> QED BY <2>2, <2>3
<1>8. ASSUME NEW x \in Unidades(r) PROVE x \in Unidades(g)
  <2>1. x \in Nat BY DEF Unidades
  <2>2. PICK a \in DOMAIN r : a <= x /\ x < a + Cabecera + r[a].tam BY DEF Unidades
  <2>3. a \in DOMAIN g \ {s} BY <1>b
  <2>4. CASE a = h
    <3>1. r[a].tam = g[h].tam + Cabecera + g[s].tam BY <1>f, <2>3, <2>4
    <3>2. \/ h <= x /\ x < h + Cabecera + g[h].tam
          \/ s <= x /\ x < s + Cabecera + g[s].tam
      BY <1>b, <1>c, <1>g, <2>1, <2>2, <2>3, <2>4, <3>1
    <3> QED BY <1>b, <1>c, <2>1, <3>2 DEF Unidades
  <2>5. CASE a # h
    <3>1. r[a].tam = g[a].tam BY <1>f, <2>3, <2>5
    <3> QED BY <2>1, <2>2, <2>3, <3>1 DEF Unidades
  <2> QED BY <2>4, <2>5
<1>9. Conserva(g, r)
  <2> SUFFICES ASSUME NEW a \in DOMAIN g, g[a].libre = 0
               PROVE  a \in DOMAIN r /\ r[a].libre = 0 /\ r[a].tam >= g[a].tam
    BY DEF Conserva
  <2>1. a \in DOMAIN g \ {s} BY <1>b
  <2> QED BY <1>b, <1>c, <1>f, <1>g, <2>1
<1>10. ASSUME NEW x \in Unidades(g) PROVE x \in Unidades(r)
  <2>1. x \in Nat BY DEF Unidades
  <2>2. PICK a \in DOMAIN g : a <= x /\ x < a + Cabecera + g[a].tam BY DEF Unidades
  <2>3. CASE a = h \/ a = s
    <3>1. h \in DOMAIN r /\ r[h].tam = g[h].tam + Cabecera + g[s].tam BY <1>b, <1>c, <1>f
    <3>2. h <= x /\ x < h + Cabecera + (g[h].tam + Cabecera + g[s].tam)
      BY <1>b, <1>c, <1>g, <2>1, <2>2, <2>3
    <3>3. h <= x /\ x < h + Cabecera + r[h].tam BY <3>1, <3>2
    <3> QED BY <2>1, <3>1, <3>3 DEF Unidades
  <2>4. CASE a # h /\ a # s
    <3>1. a \in DOMAIN r /\ r[a].tam = g[a].tam BY <1>b, <1>f, <2>4
    <3> QED BY <2>1, <2>2, <3>1 DEF Unidades
  <2> QED BY <2>3, <2>4
<1> QED BY <1>1, <1>3, <1>4, <1>5, <1>6, <1>7, <1>8, <1>9, <1>10 DEF Lista

\* A free block that absorbs another leaves the blocks in use alone.
LEMMA FundeUso ==
  ASSUME NEW g, NEW r, NEW h, NEW s, Funde(g, r, h, s), g[h].libre = 1
  PROVE  MismoUso(g, r)
BY DEF Funde, MismoUso, EnUso

\* Block h is split: s takes what is left of it after n units.
Divide(g, r, h, s, n) ==
  /\ h \in DOMAIN g /\ n \in Nat \ {0} /\ s = h + Cabecera + n
  /\ g[h].tam >= n + Cabecera + 1
  /\ DOMAIN r = DOMAIN g \cup {s}
  /\ \A a \in DOMAIN r :
       /\ r[a] \in Registro(DOMAIN r)
       /\ r[a].libre = IF a = s THEN 1 ELSE IF a = h THEN 0 ELSE g[a].libre
       /\ r[a].tam = IF a = s THEN g[h].tam - n - Cabecera ELSE IF a = h THEN n ELSE g[a].tam
       /\ r[a].siguiente = IF a = s THEN g[h].siguiente ELSE IF a = h THEN s ELSE g[a].siguiente
       /\ r[a].anterior = IF a = s THEN h ELSE IF a = g[h].siguiente THEN s ELSE g[a].anterior

LEMMA DivideLista ==
  ASSUME NEW g, NEW c, Lista(g, c), NEW r, NEW h, NEW s, NEW n, Divide(g, r, h, s, n)
  PROVE  Lista(r, c) /\ Unidades(r) = Unidades(g) /\ s \notin DOMAIN g
<1>a. Bloques(g, c) /\ Enlazada(g, c) /\ Acaba(g) /\ Conexa(g, c) /\ Separada(g) BY DEF Lista
<1>b. /\ h \in DOMAIN g /\ n \in Nat \ {0} /\ s = h + Cabecera + n
      /\ g[h].tam >= n + Cabecera + 1 /\ DOMAIN r = DOMAIN g \cup {s}
  BY DEF Divide
<1>g. ASSUME NEW a \in DOMAIN g PROVE a \in Nat \ {0} /\ g[a].tam \in Nat \ {0} BY <1>a, CamposDe
<1>c. s \in Nat \ {0} /\ h < s /\ s < h + Cabecera + g[h].tam BY <1>b, <1>g
<1>d. s \notin DOMAIN g
  <2> SUFFICES ASSUME s \in DOMAIN g PROVE FALSE OBVIOUS
  <2>1. h + Cabecera + g[h].tam <= s BY <1>a, <1>b, <1>c DEF Separada
  <2> QED BY <1>b, <1>c, <1>g, <2>1
<1> DEFINE m == g[h].siguiente
<1>e. m \in DOMAIN g \cup {0} /\ m # h /\ 0 \notin DOMAIN g
  <2>1. 0 \notin DOMAIN g BY <1>a DEF Bloques
  <2> QED BY <1>a, <1>b, <2>1, CamposDe, SinCiclo
<1> HIDE DEF m
<1>f. /\ r[s].siguiente = m /\ r[s].anterior = h /\ r[s].tam = g[h].tam - n - Cabecera
      /\ r[h].siguiente = s /\ r[h].tam = n /\ r[h].anterior = g[h].anterior
      /\ \A a \in DOMAIN g \ {h} :
           /\ r[a].tam = g[a].tam /\ r[a].siguiente = g[a].siguiente
           /\ r[a].anterior = IF a = m THEN s ELSE g[a].anterior
  BY <1>b, <1>d, <1>e DEF Divide, m
<1>1. Bloques(r, c) BY <1>a, <1>b, <1>c DEF Bloques, Divide
<1>2. Enlazada(r, c)
  <2>1. r[c].anterior = 0
    <3>1. g[c].anterior = 0 /\ c \in DOMAIN g BY <1>a DEF Enlazada, Bloques
    <3>2. c # m
      <4>1. m # 0 => g[m].anterior = h BY <1>a, <1>b DEF Enlazada, m
      <4> QED BY <1>b, <1>e, <3>1, <4>1
    <3> QED BY <1>f, <3>1, <3>2
  <2>2. ASSUME NEW a \in DOMAIN r
        PROVE  /\ r[a].siguiente # 0 => r[r[a].siguiente].anterior = a
               /\ r[a].anterior # 0 => r[r[a].anterior].siguiente = a
               /\ r[a].anterior = 0 => a = c
    <3>1. CASE a = s
      <4>1. m # 0 => m \in DOMAIN g \ {h} BY <1>e
      <4>2. h # 0 BY <1>b, <1>e
      <4> QED BY <1>f, <3>1, <4>1, <4>2
    <3>2. CASE a = h
      <4>1. g[h].anterior \in DOMAIN g \cup {0} BY <1>a, <1>b, CamposDe
      <4>2. g[h].anterior # 0 => g[g[h].anterior].siguiente = h BY <1>a, <1>b DEF Enlazada
      <4>3. g[h].anterior # h
        <5> SUFFICES ASSUME g[h].anterior = h PROVE FALSE OBVIOUS
        <5> QED BY <1>b, <1>e, <4>2 DEF m
      <4>4. g[h].anterior = 0 => h = c BY <1>a, <1>b DEF Enlazada
      <4>5. g[h].anterior # 0 => r[g[h].anterior].siguiente = h BY <1>f, <4>1, <4>2, <4>3
      <4> QED BY <1>f, <3>2, <4>4, <4>5
    <3>3. CASE a # s /\ a # h
      <4>1. a \in DOMAIN g \ {h} BY <1>b, <3>3
      <4>2. ASSUME r[a].siguiente # 0 PROVE r[r[a].siguiente].anterior = a
        <5>1. g[a].siguiente # 0 /\ r[a].siguiente = g[a].siguiente BY <1>f, <4>1, <4>2
        <5>2. g[a].siguiente \in DOMAIN g /\ g[g[a].siguiente].anterior = a
          BY <1>a, <4>1, <5>1, CamposDe DEF Enlazada
        <5>3. g[a].siguiente # m
          <6> SUFFICES ASSUME g[a].siguiente = m PROVE FALSE OBVIOUS
          <6>1. g[m].anterior = h BY <1>a, <1>b, <5>1 DEF Enlazada, m
          <6> QED BY <3>3, <5>2, <6>1
        <5> QED BY <1>f, <5>1, <5>2, <5>3
      <4>3. ASSUME r[a].anterior # 0 PROVE r[r[a].anterior].siguiente = a
        <5>1. CASE a = m BY <1>f, <4>1, <5>1
        <5>2. CASE a # m
          <6>1. r[a].anterior = g[a].anterior BY <1>f, <4>1, <5>2
          <6>2. g[a].anterior \in DOMAIN g /\ g[g[a].anterior].siguiente = a
            BY <1>a, <4>1, <4>3, <6>1, CamposDe DEF Enlazada
          <6>3. g[a].anterior # h BY <5>2, <6>2 DEF m
          <6> QED BY <1>f, <6>1, <6>2, <6>3
        <5> QED BY <5>1, <5>2
      <4>4. ASSUME r[a].anterior = 0 PROVE a = c
        <5>1. g[a].anterior = 0 BY <1>c, <1>f, <4>1, <4>4
        <5> QED BY <1>a, <4>1, <5>1 DEF Enlazada
      <4> QED BY <4>2, <4>3, <4>4
    <3> QED BY <3>1, <3>2, <3>3
  <2> QED BY <2>1, <2>2 DEF Enlazada
<1>3. Acaba(r)
  <2>1. PICK u \in DOMAIN g : \A v \in DOMAIN g : g[v].siguiente = 0 <=> v = u BY <1>a DEF Acaba
  <2>2. CASE u = h
    <3>1. ASSUME NEW v \in DOMAIN r PROVE r[v].siguiente = 0 <=> v = s
      <4>1. CASE v = s BY <1>b, <1>f, <2>1, <2>2, <4>1 DEF m
      <4>2. CASE v = h BY <1>c, <1>f, <4>2
      <4>3. CASE v # s /\ v # h BY <1>b, <1>f, <2>1, <2>2, <4>3
      <4> QED BY <4>1, <4>2, <4>3
    <3>2. s \in DOMAIN r BY <1>b
    <3> QED BY <3>1, <3>2 DEF Acaba
  <2>3. CASE u # h
    <3>1. ASSUME NEW v \in DOMAIN r PROVE r[v].siguiente = 0 <=> v = u
      <4>1. CASE v = s BY <1>b, <1>d, <1>f, <2>1, <2>3, <4>1 DEF m
      <4>2. CASE v = h BY <1>c, <1>f, <2>3, <4>2
      <4>3. CASE v # s /\ v # h BY <1>b, <1>f, <2>1, <4>3
      <4> QED BY <4>1, <4>2, <4>3
    <3>2. u \in DOMAIN r BY <1>b
    <3> QED BY <3>1, <3>2 DEF Acaba
  <2> QED BY <2>2, <2>3
<1>4. Conexa(r, c)
  <2> SUFFICES ASSUME NEW S \in SUBSET DOMAIN r, c \in S, Cerrado(r, S) PROVE S = DOMAIN r
    BY DEF Conexa
  <2>1. \A a \in S : r[a].siguiente \in S \cup {0} BY DEF Cerrado
  <2> DEFINE Q == S \ {s}
  <2>2. Cerrado(g, Q)
    <3> SUFFICES ASSUME NEW a \in Q PROVE g[a].siguiente \in Q \cup {0} BY DEF Cerrado
    <3>1. a \in DOMAIN g /\ g[a].siguiente \in DOMAIN g \cup {0} BY <1>a, <1>b, CamposDe
    <3>2. g[a].siguiente # s BY <1>c, <1>d, <3>1
    <3>3. CASE a = h
      <4>1. s \in S BY <1>c, <1>f, <2>1, <3>3
      <4>2. m \in S \cup {0} BY <1>f, <2>1, <4>1
      <4> QED BY <3>2, <3>3, <4>2 DEF m
    <3>4. CASE a # h BY <1>f, <2>1, <3>1, <3>2, <3>4
    <3> QED BY <3>3, <3>4
  <2>3. Q \in SUBSET DOMAIN g /\ c \in Q
    <3>1. c \in DOMAIN g BY <1>a DEF Bloques
    <3> QED BY <1>b, <1>d, <3>1
  <2> HIDE DEF Q
  <2>4. Q = DOMAIN g BY <1>a, <2>2, <2>3 DEF Conexa
  <2>5. h \in S BY <1>b, <2>4 DEF Q
  <2>6. s \in S BY <1>c, <1>f, <2>1, <2>5
  <2> QED BY <1>b, <2>4, <2>6 DEF Q
<1>5. Separada(r)
  <2> SUFFICES ASSUME NEW a \in DOMAIN r, NEW b \in DOMAIN r, a < b
               PROVE  a + Cabecera + r[a].tam <= b
    BY DEF Separada
  <2>1. CASE a = s
    <3>1. b \in DOMAIN g /\ b # h BY <1>b, <1>c, <1>g, <2>1
    <3>2. h < b BY <1>b, <1>c, <1>g, <2>1, <3>1
    <3>3. h + Cabecera + g[h].tam <= b BY <1>a, <1>b, <3>1, <3>2 DEF Separada
    <3> QED BY <1>b, <1>f, <1>g, <2>1, <3>1, <3>3
  <2>2. CASE a = h
    <3>1. CASE b = s BY <1>b, <1>f, <1>g, <2>2, <3>1
    <3>2. CASE b # s
      <4>1. b \in DOMAIN g BY <1>b, <3>2
      <4>2. h + Cabecera + g[h].tam <= b BY <1>a, <1>b, <2>2, <4>1 DEF Separada
      <4> QED BY <1>b, <1>f, <1>g, <2>2, <4>1, <4>2
    <3> QED BY <3>1, <3>2
  <2>3. CASE a # s /\ a # h
    <3>1. a \in DOMAIN g \ {h} /\ r[a].tam = g[a].tam BY <1>b, <1>f, <2>3
    <3>2. CASE b = s
      <4>1. a < h
        <5> SUFFICES ASSUME ~(a < h) PROVE FALSE OBVIOUS
        <5>1. h < a BY <1>b, <1>g, <3>1
        <5>2. h + Cabecera + g[h].tam <= a BY <1>a, <1>b, <3>1, <5>1 DEF Separada
        <5> QED BY <1>b, <1>c, <1>g, <3>1, <3>2, <5>2
      <4>2. a + Cabecera + g[a].tam <= h BY <1>a, <1>b, <3>1, <4>1 DEF Separada
      <4> QED BY <1>b, <1>c, <1>g, <3>1, <3>2, <4>2
    <3>3. CASE b # s
      <4>1. b \in DOMAIN g BY <1>b, <3>3
      <4> QED BY <1>a, <3>1, <4>1 DEF Separada
    <3> QED BY <3>2, <3>3
  <2> QED BY <2>1, <2>2, <2>3
<1>6. ASSUME NEW x \in Unidades(r) PROVE x \in Unidades(g)
  <2>1. x \in Nat BY DEF Unidades
  <2>2. PICK a \in DOMAIN r : a <= x /\ x < a + Cabecera + r[a].tam BY DEF Unidades
  <2>3. CASE a = s \/ a = h
    <3>1. h <= x /\ x < h + Cabecera + g[h].tam
      BY <1>b, <1>f, <1>g, <2>1, <2>2, <2>3
    <3> QED BY <1>b, <2>1, <3>1 DEF Unidades
  <2>4. CASE a # s /\ a # h
    <3>1. a \in DOMAIN g /\ r[a].tam = g[a].tam BY <1>b, <1>f, <2>4
    <3> QED BY <2>1, <2>2, <3>1 DEF Unidades
  <2> QED BY <2>3, <2>4
<1>7. ASSUME NEW x \in Unidades(g) PROVE x \in Unidades(r)
  <2>1. x \in Nat BY DEF Unidades
  <2>2. PICK a \in DOMAIN g : a <= x /\ x < a + Cabecera + g[a].tam BY DEF Unidades
  <2>3. CASE a = h
    <3>1. /\ h \in DOMAIN r /\ s \in DOMAIN r /\ r[h].tam = n /\ r[s].tam = g[h].tam - n - Cabecera
      BY <1>b, <1>d DEF Divide
    <3>2. \/ h <= x /\ x < h + Cabecera + n
          \/ s <= x /\ x < s + Cabecera + (g[h].tam - n - Cabecera)
      BY <1>b, <1>g, <2>1, <2>2, <2>3
    <3> QED BY <2>1, <3>1, <3>2 DEF Unidades
  <2>4. CASE a # h
    <3>1. a \in DOMAIN r /\ a # s /\ r[a].tam = g[a].tam BY <1>b, <1>d, <2>4 DEF Divide
    <3> QED BY <2>1, <2>2, <3>1 DEF Unidades
  <2> QED BY <2>3, <2>4
<1> QED BY <1>1, <1>2, <1>3, <1>4, <1>5, <1>6, <1>7, <1>d DEF Lista

\* A free block k of t units of data, in memory of no other block, is added
\* after u, the last of the list.
Agrega(g, r, u, k, t) ==
  /\ u \in DOMAIN g /\ g[u].siguiente = 0 /\ k \in Nat \ {0} /\ t \in Nat \ {0}
  /\ \A x \in Nat : k <= x /\ x < k + Cabecera + t => x \notin Unidades(g)
  /\ DOMAIN r = DOMAIN g \cup {k}
  /\ \A a \in DOMAIN r :
       /\ r[a] \in Registro(DOMAIN r)
       /\ r[a].libre = IF a = k THEN 1 ELSE g[a].libre
       /\ r[a].tam = IF a = k THEN t ELSE g[a].tam
       /\ r[a].siguiente = IF a = k THEN 0 ELSE IF a = u THEN k ELSE g[a].siguiente
       /\ r[a].anterior = IF a = k THEN u ELSE g[a].anterior

LEMMA AgregaLista ==
  ASSUME NEW g, NEW c, Lista(g, c), NEW r, NEW u, NEW k, NEW t, Agrega(g, r, u, k, t)
  PROVE  /\ Lista(r, c) /\ k \notin DOMAIN g
         /\ \A x \in Unidades(r) : x \in Unidades(g) \/ (k <= x /\ x < k + Cabecera + t)
         /\ \A x \in Nat : x \in Unidades(g) \/ (k <= x /\ x < k + Cabecera + t) => x \in Unidades(r)
         /\ MismoUso(g, r)
<1>a. Bloques(g, c) /\ Enlazada(g, c) /\ Acaba(g) /\ Conexa(g, c) /\ Separada(g) BY DEF Lista
<1>b. /\ u \in DOMAIN g /\ g[u].siguiente = 0 /\ k \in Nat \ {0} /\ t \in Nat \ {0}
      /\ DOMAIN r = DOMAIN g \cup {k}
  BY DEF Agrega
<1>c. ASSUME NEW x \in Nat, k <= x, x < k + Cabecera + t PROVE x \notin Unidades(g) BY <1>c DEF Agrega
<1>g. ASSUME NEW a \in DOMAIN g PROVE a \in Nat \ {0} /\ g[a].tam \in Nat \ {0} BY <1>a, CamposDe
<1>d. k \notin DOMAIN g
  <2> SUFFICES ASSUME k \in DOMAIN g PROVE FALSE OBVIOUS
  <2>1. k <= k /\ k < k + Cabecera + g[k].tam /\ k < k + Cabecera + t BY <1>b, <1>g
  <2>2. k \in Unidades(g) BY <1>b, <2>1 DEF Unidades
  <2> QED BY <1>b, <1>c, <2>1, <2>2
<1>f. /\ r[k].siguiente = 0 /\ r[k].anterior = u /\ r[k].tam = t /\ r[u].siguiente = k
      /\ \A a \in DOMAIN g :
           /\ r[a].tam = g[a].tam /\ r[a].anterior = g[a].anterior
           /\ a # u => r[a].siguiente = g[a].siguiente
  BY <1>b, <1>d DEF Agrega
<1>e. 0 \notin DOMAIN g /\ \A a \in DOMAIN g : g[a].siguiente = 0 <=> a = u
  BY <1>a, <1>b DEF Acaba, Bloques
<1>1. Bloques(r, c) BY <1>a, <1>b DEF Bloques, Agrega
<1>2. Enlazada(r, c)
  <2>1. r[c].anterior = 0 BY <1>a, <1>f DEF Enlazada, Bloques
  <2>2. ASSUME NEW a \in DOMAIN r
        PROVE  /\ r[a].siguiente # 0 => r[r[a].siguiente].anterior = a
               /\ r[a].anterior # 0 => r[r[a].anterior].siguiente = a
               /\ r[a].anterior = 0 => a = c
    <3>1. CASE a = k BY <1>b, <1>e, <1>f, <3>1
    <3>2. CASE a # k
      <4>1. a \in DOMAIN g BY <1>b, <3>2
      <4>2. g[a].siguiente \in DOMAIN g \cup {0} /\ g[a].anterior \in DOMAIN g \cup {0} BY <1>a, <4>1, CamposDe
      <4>3. r[a].siguiente # 0 => r[r[a].siguiente].anterior = a
        <5>1. CASE a = u BY <1>f, <5>1
        <5>2. CASE a # u
          <6>1. g[a].siguiente # 0 => g[g[a].siguiente].anterior = a BY <1>a, <4>1 DEF Enlazada
          <6> QED BY <1>f, <4>1, <4>2, <5>2, <6>1
        <5> QED BY <5>1, <5>2
      <4>4. r[a].anterior # 0 => r[r[a].anterior].siguiente = a
        <5>1. g[a].anterior # 0 => g[g[a].anterior].siguiente = a BY <1>a, <4>1 DEF Enlazada
        <5>2. g[a].anterior # u BY <1>b, <1>e, <4>1, <5>1
        <5> QED BY <1>f, <4>1, <4>2, <5>1, <5>2
      <4>5. r[a].anterior = 0 => a = c BY <1>a, <1>f, <4>1 DEF Enlazada
      <4> QED BY <4>3, <4>4, <4>5
    <3> QED BY <3>1, <3>2
  <2> QED BY <2>1, <2>2 DEF Enlazada
<1>3. Acaba(r)
  <2>1. \A v \in DOMAIN r : r[v].siguiente = 0 <=> v = k BY <1>b, <1>d, <1>e, <1>f
  <2> QED BY <1>b, <2>1 DEF Acaba
<1>4. Conexa(r, c)
  <2> SUFFICES ASSUME NEW S \in SUBSET DOMAIN r, c \in S, Cerrado(r, S) PROVE S = DOMAIN r
    BY DEF Conexa
  <2>1. \A a \in S : r[a].siguiente \in S \cup {0} BY DEF Cerrado
  <2> DEFINE Q == S \ {k}
  <2>2. Cerrado(g, Q)
    <3> SUFFICES ASSUME NEW a \in Q PROVE g[a].siguiente \in Q \cup {0} BY DEF Cerrado
    <3>1. a \in DOMAIN g /\ g[a].siguiente \in DOMAIN g \cup {0} BY <1>a, <1>b, CamposDe
    <3>2. CASE a = u BY <1>b, <3>2
    <3>3. CASE a # u BY <1>b, <1>d, <1>f, <2>1, <3>1, <3>3
    <3> QED BY <3>2, <3>3
  <2>3. Q \in SUBSET DOMAIN g /\ c \in Q
    <3>1. c \in DOMAIN g BY <1>a DEF Bloques
    <3> QED BY <1>b, <1>d, <3>1
  <2> HIDE DEF Q
  <2>4. Q = DOMAIN g BY <1>a, <2>2, <2>3 DEF Conexa
  <2>5. u \in S BY <1>b, <2>4 DEF Q
  <2>6. k \in S BY <1>b, <1>f, <2>1, <2>5
  <2> QED BY <1>b, <2>4, <2>6 DEF Q
<1>5. Separada(r)
  <2> SUFFICES ASSUME NEW a \in DOMAIN r, NEW b \in DOMAIN r, a < b
               PROVE  a + Cabecera + r[a].tam <= b
    BY DEF Separada
  <2>1. CASE a = k
    <3>1. b \in DOMAIN g /\ b \in Nat /\ b <= b /\ b < b + Cabecera + g[b].tam BY <1>b, <1>g, <2>1
    <3>2. b \in Unidades(g) BY <3>1 DEF Unidades
    <3>3. ~(b < k + Cabecera + t) BY <1>b, <1>c, <2>1, <3>1, <3>2
    <3> QED BY <1>b, <1>f, <2>1, <3>1, <3>3
  <2>2. CASE a # k /\ b = k
    <3>1. a \in DOMAIN g BY <1>b, <2>2
    <3>2. k <= k /\ k < k + Cabecera + t BY <1>b
    <3>3. k \notin Unidades(g) BY <1>b, <1>c, <3>2
    <3>4. a <= k BY <1>b, <1>g, <2>2, <3>1
    <3>5. ~(k < a + Cabecera + g[a].tam) BY <1>b, <3>1, <3>3, <3>4 DEF Unidades
    <3> QED BY <1>b, <1>f, <1>g, <2>2, <3>1, <3>5
  <2>3. CASE a # k /\ b # k BY <1>a, <1>b, <1>f, <2>3 DEF Separada
  <2> QED BY <2>1, <2>2, <2>3
<1>6. ASSUME NEW x \in Unidades(r) PROVE x \in Unidades(g) \/ (k <= x /\ x < k + Cabecera + t)
  <2>1. x \in Nat BY DEF Unidades
  <2>2. PICK a \in DOMAIN r : a <= x /\ x < a + Cabecera + r[a].tam BY DEF Unidades
  <2>3. CASE a = k BY <1>f, <2>2, <2>3
  <2>4. CASE a # k
    <3>1. a \in DOMAIN g /\ r[a].tam = g[a].tam BY <1>b, <1>f, <2>4
    <3> QED BY <2>1, <2>2, <3>1 DEF Unidades
  <2> QED BY <2>3, <2>4
<1>7. ASSUME NEW x \in Nat, x \in Unidades(g) \/ (k <= x /\ x < k + Cabecera + t) PROVE x \in Unidades(r)
  <2>1. CASE x \in Unidades(g) BY <1>b, <1>f, <2>1 DEF Unidades
  <2>2. CASE k <= x /\ x < k + Cabecera + t BY <1>b, <1>f, <2>2 DEF Unidades
  <2> QED BY <1>7, <2>1, <2>2
<1>8. MismoUso(g, r) BY <1>b, <1>d DEF Agrega, MismoUso, EnUso
<1> QED BY <1>1, <1>2, <1>3, <1>4, <1>5, <1>6, <1>7, <1>8, <1>d DEF Lista

-----------------------------------------------------------------------------
(* What liberar_memoria and asignar_memoria do to the list.                 *)

\* The updates of a header.
Actualizado(e, q, t, n) == q = [e EXCEPT !.tam = t, !.siguiente = n]

LEMMA Actualiza ==
  ASSUME NEW D, NEW e \in Registro(D), NEW t \in Nat \ {0}, NEW n \in D \cup {0}, NEW q,
         Actualizado(e, q, t, n)
  PROVE  /\ q \in Registro(D) /\ q.tam = t /\ q.siguiente = n
         /\ q.libre = e.libre /\ q.anterior = e.anterior
BY DEF Registro, Actualizado

\* The list as it was, or h has absorbed the next block.
LEMMA AbsorberEs ==
  ASSUME NEW g, NEW c, Lista(g, c), NEW h \in DOMAIN g
  PROVE  Absorber(g, h) = g \/ Funde(g, Absorber(g, h), h, g[h].siguiente)
<1> DEFINE s == g[h].siguiente
<1>1. CASE s # 0 /\ g[s].libre = 1 /\ Datos(h) + g[h].tam = s
  <2> DEFINE r == [a \in DOMAIN g \ {s} |->
                     CASE a = h -> [g[h] EXCEPT !.tam = @ + Cabecera + g[s].tam,
                                                !.siguiente = g[s].siguiente]
                       [] a = g[s].siguiente -> [g[a] EXCEPT !.anterior = h]
                       [] OTHER -> g[a]]
  <2>1. Absorber(g, h) = r BY <1>1 DEF Absorber
  <2>2. Bloques(g, c) /\ s \in DOMAIN g /\ s # h /\ g[s].siguiente \in (DOMAIN g \cup {0}) \ {h, s}
    BY <1>1, SinCiclo DEF Lista
  <2>3. ASSUME NEW a \in DOMAIN g \ {s}
        PROVE  /\ r[a] \in Registro(DOMAIN g) /\ r[a].libre = g[a].libre
               /\ r[a].tam = IF a = h THEN g[h].tam + Cabecera + g[s].tam ELSE g[a].tam
               /\ r[a].siguiente = IF a = h THEN g[s].siguiente ELSE g[a].siguiente
               /\ r[a].anterior = IF a = g[s].siguiente THEN h ELSE g[a].anterior
    <3>1. g[a] \in Registro(DOMAIN g) /\ g[h] \in Registro(DOMAIN g) /\ g[s].tam \in Nat
      BY <2>2, CamposDe DEF Bloques
    <3> HIDE DEF s
    <3>2. CASE a = h
      <4> DEFINE t == g[h].tam + Cabecera + g[s].tam
      <4>1. r[a] = [g[h] EXCEPT !.tam = t, !.siguiente = g[s].siguiente] BY <2>2, <3>2
      <4>2. t \in Nat \ {0}
        <5>1. g[h].tam \in Nat \ {0} BY <2>2, CamposDe
        <5> QED BY <3>1, <5>1
      <4> HIDE DEF r, t
      <4>3. g[s].siguiente \in DOMAIN g \cup {0} BY <2>2
      <4>4. /\ r[a] \in Registro(DOMAIN g) /\ r[a].tam = t /\ r[a].siguiente = g[s].siguiente
            /\ r[a].libre = g[h].libre /\ r[a].anterior = g[h].anterior
        <5>1. Actualizado(g[h], r[a], t, g[s].siguiente) BY <4>1 DEF Actualizado
        <5> QED BY <3>1, <4>2, <4>3, <5>1, Actualiza
      <4> QED BY <2>2, <3>2, <4>4 DEF t
    <3>3. CASE a # h /\ a = g[s].siguiente
      <4>1. r[a] = [g[a] EXCEPT !.anterior = h] BY <3>3
      <4> HIDE DEF r
      <4> QED BY <2>2, <3>1, <3>3, <4>1 DEF Registro
    <3>4. CASE a # h /\ a # g[s].siguiente
      <4>1. r[a] = g[a] BY <3>4
      <4> HIDE DEF r
      <4> QED BY <3>1, <3>4, <4>1
    <3> QED BY <3>2, <3>3, <3>4
  <2>4. DOMAIN r = DOMAIN g \ {s} OBVIOUS
  <2> HIDE DEF r
  <2>5. Funde(g, r, h, s) BY <1>1, <2>3, <2>4 DEF Funde, Datos
  <2> QED BY <2>1, <2>5
<1>2. CASE ~(s # 0 /\ g[s].libre = 1 /\ Datos(h) + g[h].tam = s)
  <2>1. Absorber(g, h) = g BY <1>2 DEF Absorber
  <2> QED BY <2>1
<1> QED BY <1>1, <1>2

LEMMA AbsorberLista ==
  ASSUME NEW g, NEW c, Lista(g, c), NEW h \in DOMAIN g
  PROVE  /\ Lista(Absorber(g, h), c) /\ h \in DOMAIN Absorber(g, h)
         /\ Unidades(g) = Unidades(Absorber(g, h)) /\ Conserva(g, Absorber(g, h))
         /\ g[h].libre = 1 => MismoUso(g, Absorber(g, h))
<1>1. CASE Absorber(g, h) = g
  <2>1. Conserva(g, g) BY CamposDe DEF Lista, Conserva
  <2> QED BY <1>1, <2>1 DEF MismoUso
<1>2. CASE Funde(g, Absorber(g, h), h, g[h].siguiente)
  <2> DEFINE r == Absorber(g, h)  s == g[h].siguiente
  <2>1. Funde(g, r, h, s) BY <1>2
  <2> HIDE DEF r, s
  <2>2. /\ Lista(r, c) /\ h \in DOMAIN r /\ Unidades(r) = Unidades(g) /\ Conserva(g, r)
        /\ g[h].libre = 1 => MismoUso(g, r)
    BY <2>1, FundeLista, FundeUso
  <2> QED BY <2>2 DEF r
<1> QED BY <1>1, <1>2, AbsorberEs

\* liberar_memoria keeps the list and the other blocks in use.
LEMMA FusionadoLista ==
  ASSUME Lista(hdr, cabeza), NEW h \in DOMAIN hdr
  PROVE  /\ Lista(Fusionado(h), cabeza) /\ Unidades(Fusionado(h)) = Unidades(hdr)
         /\ EnUso(Fusionado(h)) = EnUso(hdr) \ {h}
         /\ \A a \in EnUso(hdr) \ {h} : Fusionado(h)[a].tam = hdr[a].tam
         /\ \A a \in DOMAIN hdr \ {h} : hdr[a].libre = 0 =>
              /\ a \in DOMAIN Fusionado(h) /\ Fusionado(h)[a].libre = 0
              /\ Fusionado(h)[a].tam >= hdr[a].tam
<1> DEFINE g0 == [hdr EXCEPT ![h].libre = 1]
           g1 == Absorber(g0, h)
           p == g1[h].anterior
           r == Absorber(g1, p)
<1>1. Marca(hdr, g0, h, 1) BY MarcaDe
<1>2. DOMAIN g0 = DOMAIN hdr OBVIOUS
<1>f. Fusionado(h) = IF p # 0 /\ g1[p].libre = 1 THEN r ELSE g1 BY DEF Fusionado
<1> HIDE DEF g0
<1>3. Lista(g0, cabeza) /\ Unidades(g0) = Unidades(hdr) BY <1>1, MarcaLista
<1>4. /\ Lista(g1, cabeza) /\ h \in DOMAIN g1 /\ Unidades(g1) = Unidades(g0)
      /\ Conserva(g0, g1) /\ MismoUso(g0, g1)
  <2>1. g0[h].libre = 1 BY <1>1 DEF Marca
  <2> QED BY <1>2, <1>3, <2>1, AbsorberLista
<1>8. EnUso(g1) = EnUso(hdr) \ {h} /\ \A a \in EnUso(hdr) \ {h} : g1[a].tam = hdr[a].tam
  <2> HIDE DEF g1
  <2>1. EnUso(g0) = EnUso(hdr) \ {h} /\ \A a \in EnUso(hdr) \ {h} : g0[a].tam = hdr[a].tam
    BY <1>1, <1>2 DEF Marca, EnUso
  <2> QED BY <1>4, <2>1 DEF MismoUso
<1>5. ASSUME NEW a \in DOMAIN hdr \ {h}, hdr[a].libre = 0
      PROVE  /\ a \in DOMAIN g1 /\ g1[a].libre = 0 /\ g1[a].tam >= hdr[a].tam
             /\ hdr[a].tam \in Nat /\ g1[a].tam \in Nat
  <2> HIDE DEF g1
  <2>1. a \in DOMAIN g0 /\ g0[a].libre = 0 /\ g0[a].tam = hdr[a].tam BY <1>1, <1>2, <1>5 DEF Marca
  <2>2. a \in DOMAIN g1 /\ g1[a].libre = 0 /\ g1[a].tam >= hdr[a].tam BY <1>4, <2>1 DEF Conserva
  <2>3. Bloques(hdr, cabeza) /\ Bloques(g1, cabeza) BY <1>4 DEF Lista
  <2> QED BY <2>2, <2>3, CamposDe
<1> HIDE DEF g1
<1>6. CASE p # 0 /\ g1[p].libre = 1
  <2>1. p \in DOMAIN g1 BY <1>4, <1>6, CamposDe DEF Lista
  <2> HIDE DEF p
  <2>2. /\ Lista(r, cabeza) /\ Unidades(r) = Unidades(g1) /\ Conserva(g1, r) /\ MismoUso(g1, r)
    BY <1>4, <1>6, <2>1, AbsorberLista
  <2> HIDE DEF r
  <2>3. Fusionado(h) = r BY <1>6, <1>f
  <2>4. ASSUME NEW a \in DOMAIN hdr \ {h}, hdr[a].libre = 0
        PROVE  a \in DOMAIN r /\ r[a].libre = 0 /\ r[a].tam >= hdr[a].tam
    <3>1. /\ a \in DOMAIN g1 /\ g1[a].libre = 0 /\ g1[a].tam >= hdr[a].tam
          /\ hdr[a].tam \in Nat /\ g1[a].tam \in Nat
      BY <1>5, <2>4
    <3>2. a \in DOMAIN r /\ r[a].libre = 0 /\ r[a].tam >= g1[a].tam BY <2>2, <3>1 DEF Conserva
    <3>3. r[a].tam \in Nat BY <2>2, <3>2, CamposDe DEF Lista
    <3> QED BY <3>1, <3>2, <3>3
  <2>5. EnUso(r) = EnUso(hdr) \ {h} /\ \A a \in EnUso(hdr) \ {h} : r[a].tam = hdr[a].tam
    BY <1>8, <2>2 DEF MismoUso
  <2> QED BY <1>3, <1>4, <2>2, <2>3, <2>4, <2>5
<1>7. CASE ~(p # 0 /\ g1[p].libre = 1)
  <2>1. Fusionado(h) = g1 BY <1>7, <1>f
  <2> HIDE DEF p
  <2> QED BY <1>3, <1>4, <1>5, <1>8, <2>1
<1> QED BY <1>6, <1>7

\* asignar_memoria takes the free block h for n units.
LEMMA PartidoLista ==
  ASSUME Lista(hdr, cabeza), NEW h \in DOMAIN hdr, NEW n \in Nat \ {0},
         hdr[h].libre = 1, hdr[h].tam >= n
  PROVE  /\ Lista(Partido(h, n), cabeza) /\ Unidades(Partido(h, n)) = Unidades(hdr)
         /\ EnUso(Partido(h, n)) = EnUso(hdr) \cup {h}
         /\ \A a \in EnUso(hdr) : Partido(h, n)[a].tam = hdr[a].tam
         /\ h \in DOMAIN Partido(h, n) /\ Partido(h, n)[h].libre = 0 /\ Partido(h, n)[h].tam >= n
         /\ Conserva(hdr, Partido(h, n))
<1> DEFINE s == Datos(h) + n
           m == hdr[h].siguiente
<1>a. Bloques(hdr, cabeza) /\ Separada(hdr) BY DEF Lista
<1>1. CASE hdr[h].tam >= n + Cabecera + Resto
  <2> DEFINE r == [a \in DOMAIN hdr \cup {s} |->
          CASE a = s -> [libre |-> 1, tam |-> hdr[h].tam - n - Cabecera,
                         siguiente |-> hdr[h].siguiente, anterior |-> h]
            [] a = h -> [hdr[h] EXCEPT !.libre = 0, !.tam = n, !.siguiente = s]
            [] a = hdr[h].siguiente -> [hdr[a] EXCEPT !.anterior = s]
            [] OTHER -> hdr[a]]
  <2>1. Partido(h, n) = r BY <1>1 DEF Partido
  <2>2. DOMAIN r = DOMAIN hdr \cup {s} OBVIOUS
  <2>3. h \in Nat \ {0} /\ hdr[h].tam \in Nat \ {0} /\ m \in DOMAIN hdr \cup {0} BY <1>a, CamposDe
  <2>4. s = h + Cabecera + n /\ hdr[h].tam >= n + Cabecera + 1 BY <1>1, <2>3 DEF Datos
  <2>5. s # h /\ hdr[h].tam - n - Cabecera \in Nat \ {0} BY <2>3, <2>4
  <2>6. s \notin DOMAIN hdr
    <3> SUFFICES ASSUME s \in DOMAIN hdr PROVE FALSE OBVIOUS
    <3>1. h < s /\ s < h + Cabecera + hdr[h].tam BY <2>3, <2>4
    <3> HIDE DEF s
    <3>2. s \in Nat BY <1>a, CamposDe
    <3>3. h + Cabecera + hdr[h].tam <= s BY <1>a, <3>1 DEF Separada
    <3> QED BY <2>3, <3>1, <3>2, <3>3
  <2>12. s # h /\ s # m /\ m # h
    <3>1. 0 \notin DOMAIN hdr /\ s # 0 BY <1>a, <2>3, <2>4 DEF Bloques
    <3>2. m # h BY <3>1, SinCiclo
    <3> HIDE DEF m, s
    <3> QED BY <2>3, <2>5, <2>6, <3>1, <3>2
  <2> HIDE DEF s, m
  <2>7. ASSUME NEW a \in DOMAIN hdr \cup {s}
        PROVE  /\ r[a] \in Registro(DOMAIN hdr \cup {s})
               /\ r[a].libre = IF a = s THEN 1 ELSE IF a = h THEN 0 ELSE hdr[a].libre
               /\ r[a].tam = IF a = s THEN hdr[h].tam - n - Cabecera ELSE IF a = h THEN n ELSE hdr[a].tam
               /\ r[a].siguiente = IF a = s THEN m ELSE IF a = h THEN s ELSE hdr[a].siguiente
               /\ r[a].anterior = IF a = s THEN h ELSE IF a = m THEN s ELSE hdr[a].anterior
    <3>1. CASE a = s
      <4> DEFINE t == hdr[h].tam - n - Cabecera
      <4>1. r[a] = [libre |-> 1, tam |-> t, siguiente |-> m, anterior |-> h] BY <2>12, <3>1 DEF m
      <4>2. t \in Nat \ {0} BY <2>5
      <4> HIDE DEF r, t
      <4>3. r[a] \in Registro(DOMAIN hdr \cup {s}) BY <2>3, <4>1, <4>2 DEF Registro
      <4>4. r[a].libre = 1 /\ r[a].tam = t /\ r[a].siguiente = m /\ r[a].anterior = h BY <4>1
      <4> QED BY <3>1, <4>3, <4>4 DEF t
    <3>2. CASE a = h
      <4>1. r[a] = [hdr[h] EXCEPT !.libre = 0, !.tam = n, !.siguiente = s] BY <2>12, <3>2 DEF m
      <4>2. hdr[h] \in Registro(DOMAIN hdr) BY <1>a DEF Bloques
      <4> HIDE DEF r
      <4> QED BY <2>3, <2>12, <3>2, <4>1, <4>2 DEF Registro
    <3>3. CASE a # s /\ a # h /\ a = m
      <4>1. r[a] = [hdr[a] EXCEPT !.anterior = s] BY <3>3 DEF m
      <4>2. hdr[a] \in Registro(DOMAIN hdr) BY <1>a, <3>3 DEF Bloques
      <4> HIDE DEF r
      <4> QED BY <2>3, <3>3, <4>1, <4>2 DEF Registro
    <3>4. CASE a # s /\ a # h /\ a # m
      <4>1. r[a] = hdr[a] BY <3>4 DEF m
      <4>2. hdr[a] \in Registro(DOMAIN hdr) BY <1>a, <3>4 DEF Bloques
      <4> HIDE DEF r
      <4> QED BY <3>4, <4>1, <4>2 DEF Registro
    <3> QED BY <3>1, <3>2, <3>3, <3>4
  <2> HIDE DEF r
  <2>8. Divide(hdr, r, h, s, n) BY <2>2, <2>4, <2>7 DEF Divide, m
  <2>9. Lista(r, cabeza) /\ Unidades(r) = Unidades(hdr) BY <2>8, DivideLista
  <2>10. h \in DOMAIN r /\ r[h].libre = 0 /\ r[h].tam = n BY <2>2, <2>5, <2>7
  <2>11. Conserva(hdr, r)
    <3> SUFFICES ASSUME NEW a \in DOMAIN hdr, hdr[a].libre = 0
                 PROVE  a \in DOMAIN r /\ r[a].libre = 0 /\ r[a].tam >= hdr[a].tam
      BY DEF Conserva
    <3>1. a # s /\ a # h /\ a \in DOMAIN r BY <2>2, <2>6
    <3>2. r[a].libre = 0 /\ r[a].tam = hdr[a].tam BY <2>7, <3>1
    <3>3. hdr[a].tam \in Nat BY <1>a, CamposDe
    <3> QED BY <3>1, <3>2, <3>3
  <2>13. EnUso(r) = EnUso(hdr) \cup {h} /\ \A a \in EnUso(hdr) : r[a].tam = hdr[a].tam
    BY <2>2, <2>6, <2>7, <2>10 DEF EnUso
  <2> QED BY <2>1, <2>9, <2>10, <2>11, <2>13
<1>2. CASE ~(hdr[h].tam >= n + Cabecera + Resto)
  <2> DEFINE r == [hdr EXCEPT ![h].libre = 0]
  <2>1. Partido(h, n) = r BY <1>2 DEF Partido
  <2>2. Marca(hdr, r, h, 0) BY MarcaDe
  <2> HIDE DEF r
  <2>3. Lista(r, cabeza) /\ Unidades(r) = Unidades(hdr) BY <2>2, MarcaLista
  <2>4. DOMAIN r = DOMAIN hdr /\ r[h].libre = 0 /\ r[h].tam = hdr[h].tam BY <2>2 DEF Marca
  <2>5. Conserva(hdr, r)
    <3> SUFFICES ASSUME NEW a \in DOMAIN hdr, hdr[a].libre = 0
                 PROVE  a \in DOMAIN r /\ r[a].libre = 0 /\ r[a].tam >= hdr[a].tam
      BY DEF Conserva
    <3>1. a # h BY <2>4
    <3>2. r[a].libre = 0 /\ r[a].tam = hdr[a].tam BY <2>2, <3>1 DEF Marca
    <3>3. hdr[a].tam \in Nat BY <1>a, CamposDe
    <3> QED BY <2>4, <3>2, <3>3
  <2>6. EnUso(r) = EnUso(hdr) \cup {h} /\ \A a \in EnUso(hdr) : r[a].tam = hdr[a].tam
    BY <2>2 DEF Marca, EnUso
  <2> QED BY <2>1, <2>3, <2>4, <2>5, <2>6
<1> QED BY <1>1, <1>2

-----------------------------------------------------------------------------
(* The inductive invariant.                                                 *)

\* Frame f is memory of the heap: of the initial arena, or taken from the PMM
\* for it.
DelMonton(f) == f \in ArenaInicial \/ (f \in Marcos /\ marco[f] = 2 /\ f \notin paginas)

IPmm ==
  /\ pila \in Seq(Marcos) /\ IsInjective(pila)
  /\ marco \in [Marcos -> {0, 1, 2}] /\ Range(pila) = {f \in Marcos : marco[f] = 1}
  /\ paginas \subseteq Marcos /\ \A f \in paginas : marco[f] = 2
ICuentas ==
  /\ paginas_libres \in Nat /\ paginas_en_uso \in Nat
  /\ capacidad \in Nat /\ bytes_en_uso \in Nat /\ bloques_activos \in Nat
IMonton == Lista(hdr, cabeza) /\ \A x \in Unidades(hdr) : DelMonton(x \div TamPagina)
IPunteros ==
  \A p \in DOMAIN punteros :
    /\ p \in Nat \ {0} /\ p - Cabecera \in DOMAIN hdr /\ punteros[p] \in Nat
    /\ hdr[p - Cabecera].libre = 0 /\ hdr[p - Cabecera].tam >= punteros[p]
ILlamada ==
  /\ pc \in {"libre", "buscar", "crecer", "mover"} /\ bytes \in Pedidos \cup {0}
  /\ (pc # "libre" => bytes \in Pedidos) /\ (pc = "libre" => viejo = 0)
  /\ (pc = "mover" => viejo \in DOMAIN punteros) /\ viejo \in DOMAIN punteros \cup {0}
  /\ (pc = "buscar" => bloque \in DOMAIN hdr) /\ intento \in 0..MaxIntentos

\* Block h serves the request.
Cabe(h) == hdr[h].libre = 1 /\ hdr[h].tam >= bytes
\* The search has left behind the blocks of V, from the head to the cursor.
Pasados(V) ==
  /\ bloque # cabeza => cabeza \in V
  /\ \A h \in V : ~Cabe(h) /\ hdr[h].siguiente \in V \cup {bloque}
IBusqueda == pc = "buscar" => \E V \in SUBSET DOMAIN hdr : Pasados(V)

Inv == IPmm /\ ICuentas /\ IMonton /\ IPunteros /\ ILlamada /\ IBusqueda /\ FracasoJusto

-----------------------------------------------------------------------------
(* The stack of frames.                                                     *)

SinPrimeros(s, k, r) == r = SubSeq(s, k + 1, Len(s))
ConPrimero(f, s, r) == r = <<f>> \o s

LEMMA QuitaPrimeros ==
  ASSUME NEW S, NEW s \in Seq(S), IsInjective(s), NEW k \in 0..Len(s), NEW r, SinPrimeros(s, k, r)
  PROVE  /\ r \in Seq(S) /\ IsInjective(r) /\ Range(r) = Range(s) \ {s[l] : l \in 1..k}
         /\ Len(r) = Len(s) - k
<1>1. Len(s) \in Nat /\ s \in [1..Len(s) -> S] BY LenProperties
<1>2. r \in Seq(S) /\ Len(r) = Len(s) - k /\ \A i \in 1..(Len(s) - k) : r[i] = s[k + i]
  <2>1. k + 1 \in Int /\ Len(s) \in Int /\ k \in Nat /\ k <= Len(s) BY <1>1
  <2>2. \A i \in (k + 1)..Len(s) : s[i] \in S BY <1>1, <2>1
  <2>3. /\ r \in Seq(S) /\ Len(r) = IF k + 1 <= Len(s) THEN Len(s) - (k + 1) + 1 ELSE 0
        /\ \A i \in 1..(Len(s) - (k + 1) + 1) : r[i] = s[(k + 1) + i - 1]
    <3> DEFINE m == k + 1  n == Len(s)
    <3>1. m \in Int /\ n \in Int /\ \A i \in m..n : s[i] \in S BY <2>1, <2>2
    <3>2. r = SubSeq(s, m, n) BY DEF SinPrimeros
    <3> HIDE DEF m, n
    <3>3. /\ SubSeq(s, m, n) \in Seq(S) /\ Len(SubSeq(s, m, n)) = IF m <= n THEN n - m + 1 ELSE 0
          /\ \A i \in 1..(n - m + 1) : SubSeq(s, m, n)[i] = s[m + i - 1]
      BY <3>1, SubSeqProperties
    <3>4. /\ r \in Seq(S) /\ Len(r) = IF m <= n THEN n - m + 1 ELSE 0
          /\ \A i \in 1..(n - m + 1) : r[i] = s[m + i - 1]
      BY ONLY <3>2, <3>3
    <3> QED BY ONLY <3>4 DEF m, n
  <2>4. Len(r) = Len(s) - k
    <3>1. Len(s) \in Nat /\ k \in Nat /\ k <= Len(s) BY <1>1
    <3>2. (IF k + 1 <= Len(s) THEN Len(s) - (k + 1) + 1 ELSE 0) = Len(s) - k BY ONLY <3>1
    <3> QED BY ONLY <2>3, <3>2
  <2>5. ASSUME NEW i \in 1..(Len(s) - k) PROVE r[i] = s[k + i]
    <3>1. i \in 1..(Len(s) - (k + 1) + 1) /\ (k + 1) + i - 1 = k + i BY <1>1, <2>1
    <3> QED BY <2>3, <3>1
  <2> QED BY <2>3, <2>4, <2>5
<1>3. r \in [1..(Len(s) - k) -> S] BY <1>2, LenProperties
<1>4. IsInjective(r)
  <2> SUFFICES ASSUME NEW a \in 1..(Len(s) - k), NEW b \in 1..(Len(s) - k), r[a] = r[b] PROVE a = b
    BY <1>3 DEF IsInjective
  <2>1. k + a \in 1..Len(s) /\ k + b \in 1..Len(s) BY <1>1
  <2>2. s[k + a] = s[k + b] BY <1>2
  <2>3. k + a = k + b BY <1>1, <2>1, <2>2 DEF IsInjective
  <2> QED BY <2>3
<1>5. ASSUME NEW y \in Range(r) PROVE y \in Range(s) \ {s[l] : l \in 1..k}
  <2>1. PICK a \in 1..(Len(s) - k) : y = r[a] BY <1>3 DEF Range
  <2>2. k + a \in 1..Len(s) /\ y = s[k + a]
    <3>1. k + a \in 1..Len(s) BY <1>1
    <3> QED BY <1>2, <2>1, <3>1
  <2>3. ASSUME NEW l \in 1..k PROVE y # s[l]
    <3>1. l \in 1..Len(s) /\ l # k + a BY <1>1
    <3> QED BY <1>1, <2>2, <3>1 DEF IsInjective
  <2> QED BY <1>1, <2>2, <2>3 DEF Range
<1>6. ASSUME NEW y \in Range(s) \ {s[l] : l \in 1..k} PROVE y \in Range(r)
  <2>1. PICK a \in 1..Len(s) : y = s[a] BY <1>1 DEF Range
  <2>2. a \notin 1..k BY <1>6, <2>1
  <2>3. a - k \in 1..(Len(s) - k) /\ k + (a - k) = a BY <1>1, <2>2
  <2>4. r[a - k] = y BY <1>2, <2>1, <2>3
  <2> QED BY <1>3, <2>3, <2>4 DEF Range
<1> QED BY <1>2, <1>4, <1>5, <1>6

LEMMA PonePrimero ==
  ASSUME NEW S, NEW s \in Seq(S), IsInjective(s), NEW f \in S, f \notin Range(s), NEW r, ConPrimero(f, s, r)
  PROVE  r \in Seq(S) /\ IsInjective(r) /\ Range(r) = Range(s) \cup {f} /\ Len(r) = Len(s) + 1
<1>1. Len(s) \in Nat /\ s \in [1..Len(s) -> S] BY LenProperties
<1>2. /\ r \in Seq(S) /\ Len(r) = Len(s) + 1 /\ r[1] = f
      /\ \A i \in 1..(Len(s) + 1) : i # 1 => r[i] = s[i - 1]
  BY <1>1 DEF ConPrimero
<1>3. r \in [1..(Len(s) + 1) -> S] BY <1>2, LenProperties
<1>4. ASSUME NEW i \in 1..(Len(s) + 1), i # 1 PROVE i - 1 \in 1..Len(s) /\ r[i] = s[i - 1]
  BY <1>1, <1>2, <1>4
<1>5. IsInjective(r)
  <2> SUFFICES ASSUME NEW a \in 1..(Len(s) + 1), NEW b \in 1..(Len(s) + 1), r[a] = r[b] PROVE a = b
    BY <1>3 DEF IsInjective
  <2>1. CASE a # 1 /\ b # 1
    <3>1. a - 1 = b - 1 BY <1>1, <1>4, <2>1 DEF IsInjective
    <3> QED BY <3>1
  <2>2. CASE a = 1 /\ b # 1 BY <1>1, <1>2, <1>4, <2>2 DEF Range
  <2>3. CASE a # 1 /\ b = 1 BY <1>1, <1>2, <1>4, <2>3 DEF Range
  <2> QED BY <2>1, <2>2, <2>3
<1>6. ASSUME NEW y \in Range(r) PROVE y \in Range(s) \cup {f}
  <2>1. PICK a \in 1..(Len(s) + 1) : y = r[a] BY <1>3 DEF Range
  <2> QED BY <1>1, <1>2, <1>4, <2>1 DEF Range
<1>7. ASSUME NEW y \in Range(s) \cup {f} PROVE y \in Range(r)
  <2>1. CASE y = f
    <3>1. 1 \in 1..(Len(s) + 1) BY <1>1
    <3> QED BY <1>2, <1>3, <2>1, <3>1 DEF Range
  <2>2. CASE y \in Range(s)
    <3>1. PICK a \in 1..Len(s) : y = s[a] BY <1>1, <2>2 DEF Range
    <3>2. a + 1 \in 1..(Len(s) + 1) /\ a + 1 # 1 /\ (a + 1) - 1 = a BY <1>1
    <3>3. r[a + 1] = y BY <1>2, <3>1, <3>2
    <3> QED BY <1>3, <3>2, <3>3 DEF Range
  <2> QED BY <2>1, <2>2
<1> QED BY <1>2, <1>5, <1>6, <1>7

LEMMA MarcosNat == Marcos \subseteq Nat \ {0} /\ Marcos \cap ArenaInicial = {}
<1>1. Usables \in Seq(Nat \ {0}) /\ Range(Usables) \cap ArenaInicial = {} BY UsablesAssumption
<1>2. Usables \in [1..Len(Usables) -> Nat \ {0}] BY <1>1, LenProperties
<1> QED BY <1>1, <1>2 DEF Marcos, Range

\* The different numbers at the top of a stack whose extremes are as far as
\* their number fill the interval between these.
Apretados(n, f, S) ==
  /\ n \in Nat \ {0} /\ f \in [1..n -> Nat] /\ \A a, b \in 1..n : f[a] = f[b] => a = b
  /\ S = {f[l] : l \in 1..n} /\ Max(S) - Min(S) = n - 1

LEMMA Intervalo ==
  ASSUME NEW n, NEW f, NEW S, Apretados(n, f, S)
  PROVE  Min(S) \in S /\ S = Min(S)..(Min(S) + n - 1)
<1> n \in Nat \ {0} /\ f \in [1..n -> Nat] BY DEF Apretados
<1> (\A a, b \in 1..n : f[a] = f[b] => a = b) /\ S = {f[l] : l \in 1..n} /\ Max(S) - Min(S) = n - 1
  BY DEF Apretados
<1>1. S \in SUBSET Nat OBVIOUS
<1>2. S # {}
  <2>1. 1 \in 1..n OBVIOUS
  <2>2. f[1] \in S BY <2>1
  <2> QED BY <2>2
<1>3. Min(S) \in S /\ \A y \in S : Min(S) <= y BY <1>1, <1>2, MinimoDe
<1>4. Max(S) \in S /\ \A y \in S : Max(S) >= y
  <2>1. PICK b \in Nat : \A l \in 1..n : f[l] <= b BY Acotada
  <2>2. \A x \in S : x <= b BY <2>1
  <2> QED BY <1>1, <1>2, <2>2, MaximoDe
<1> DEFINE lo == Min(S)  hi == Max(S)
<1>5. lo \in Nat /\ hi \in Nat /\ hi = lo + n - 1 BY <1>1, <1>3, <1>4
<1> HIDE DEF lo, hi
<1>6. \A l \in 1..n : f[l] \in lo..hi
  <2> SUFFICES ASSUME NEW l \in 1..n PROVE f[l] \in lo..hi OBVIOUS
  <2>1. f[l] \in S /\ f[l] \in Nat OBVIOUS
  <2>2. lo <= f[l] /\ hi >= f[l] BY <1>3, <1>4, <2>1 DEF lo, hi
  <2> QED BY <1>5, <2>1, <2>2
<1>7. f \in Injection(1..n, lo..hi)
  <2>1. f \in [1..n -> lo..hi] BY <1>6
  <2> QED BY <2>1 DEF Injection, IsInjective
<1>8. IsFiniteSet(lo..hi) /\ Cardinality(lo..hi) = n /\ Cardinality(1..n) = n
  <2>1. lo \in Int /\ hi \in Int /\ n \in Int /\ 1 \in Int BY <1>5
  <2>2. /\ IsFiniteSet(lo..hi) /\ Cardinality(lo..hi) = IF lo > hi THEN 0 ELSE hi - lo + 1
        /\ Cardinality(1..n) = IF 1 > n THEN 0 ELSE n - 1 + 1
    BY <2>1, FS_Interval
  <2> QED BY <1>5, <2>2
<1>9. f \in Surjection(1..n, lo..hi) BY <1>7, <1>8, FS_Injection
<1>10. \A y \in lo..hi : \E l \in 1..n : f[l] = y BY <1>9 DEF Surjection
<1>11. S = lo..hi BY <1>6, <1>10
<1> QED BY <1>3, <1>5, <1>11 DEF lo

-----------------------------------------------------------------------------
(* The arena a growth adds.                                                 *)

LEMMA UnoSolo == ASSUME NEW a \in Nat PROVE Max({a}) - Min({a}) = 0
<1>1. {a} \in SUBSET Nat /\ {a} # {} /\ \A x \in {a} : x <= a OBVIOUS
<1>2. Min({a}) \in {a} BY <1>1, MinimoDe
<1>3. Max({a}) \in {a} BY <1>1, MaximoDe
<1>4. Min({a}) = a /\ Max({a}) = a BY <1>2, <1>3
<1> QED BY <1>4

LEMMA NecesariasMin == ASSUME bytes \in Nat PROVE Necesarias \in Nat \ {0}
<1> DEFINE n == bytes + Cabecera + TamPagina + TamPagina - 1
           p == n \div TamPagina
<1>1. n \in Nat OBVIOUS
<1>2. TamPagina \in Nat \ {0} OBVIOUS
<1> HIDE DEF n
<1>3. p \in Nat BY <1>1, <1>2, Cociente
<1>4. Necesarias = IF p < MinPaginas THEN MinPaginas ELSE p BY DEF Necesarias, n
<1> HIDE DEF p
<1>5. MinPaginas \in Nat \ {0} BY CrecerAssumption
<1> QED BY <1>3, <1>4, <1>5

\* The frames that come out of the stack are an interval.
LEMMA ObtenidasSon ==
  ASSUME IPmm, pila # <<>>, bytes \in Nat
  PROVE  /\ Obtenidas \in 1..Len(pila)
         /\ Min({pila[l] : l \in 1..Obtenidas}) \in Nat \ {0}
         /\ {pila[l] : l \in 1..Obtenidas}
              = Min({pila[l] : l \in 1..Obtenidas})..(Min({pila[l] : l \in 1..Obtenidas}) + Obtenidas - 1)
<1> DEFINE n == Len(pila)
           C == {m \in 1..n : m <= Necesarias /\ Corrida(m)}
<1>1. pila \in Seq(Marcos) /\ IsInjective(pila) BY DEF IPmm
<1>2. n \in Nat \ {0} /\ pila \in [1..n -> Marcos]
  <2>1. n \in Nat /\ pila \in [1..n -> Marcos] BY <1>1, LenProperties
  <2>2. Len(pila) # 0 BY <1>1, EmptySeq
  <2> QED BY <2>1, <2>2
<1>3. \A l \in 1..n : pila[l] \in Nat \ {0} BY <1>2, MarcosNat
<1>4. \A a, b \in 1..n : pila[a] = pila[b] => a = b BY <1>1, <1>2 DEF IsInjective
<1> HIDE DEF n
<1>5. 1 \in C
  <2>1. 1 \in 1..n BY <1>2
  <2>2. 1 <= Necesarias BY NecesariasMin
  <2>3. Corrida(1)
    <3> SUFFICES ASSUME NEW j \in 1..1
                 PROVE  Max({pila[l] : l \in 1..j}) - Min({pila[l] : l \in 1..j}) = j - 1
      BY DEF Corrida
    <3> DEFINE T == {pila[l] : l \in 1..j}
    <3>1. T = {pila[1]} /\ j - 1 = 0 OBVIOUS
    <3> HIDE DEF T
    <3>2. Max({pila[1]}) - Min({pila[1]}) = 0 BY <1>3, <2>1, UnoSolo
    <3>3. Max(T) - Min(T) = j - 1 BY ONLY <3>1, <3>2
    <3> QED BY <3>3 DEF T
  <2> QED BY <2>1, <2>2, <2>3
<1>6. C \in SUBSET Nat /\ C # {} /\ \A x \in C : x <= n BY <1>2, <1>5
<1>7. \A m \in C : m \in 1..n /\ Corrida(m) OBVIOUS
<1>8. Obtenidas = Max(C) BY DEF Obtenidas, n
<1> HIDE DEF C
<1>9. Obtenidas \in C BY <1>2, <1>6, <1>8, MaximoDe
<1> DEFINE m == Obtenidas
           S == {pila[l] : l \in 1..m}
<1>10. m \in 1..n /\ Corrida(m) BY <1>7, <1>9
<1> HIDE DEF m
<1>11. m \in Nat \ {0} /\ m \in 1..m /\ \A l \in 1..m : l \in 1..n BY <1>2, <1>10
<1>12. Max(S) - Min(S) = m - 1 BY <1>10, <1>11 DEF Corrida
<1> DEFINE f == [l \in 1..m |-> pila[l]]
<1>13. f \in [1..m -> Nat] /\ \A a, b \in 1..m : f[a] = f[b] => a = b BY <1>3, <1>4, <1>11
<1>14. S = {f[l] : l \in 1..m} OBVIOUS
<1>15. \A y \in S : y \in Nat \ {0} BY <1>3, <1>11
<1> HIDE DEF f, S
<1>16. Min(S) \in S /\ S = Min(S)..(Min(S) + m - 1)
  <2>1. Apretados(m, f, S) BY ONLY <1>11, <1>12, <1>13, <1>14 DEF Apretados
  <2> QED BY ONLY <2>1, Intervalo
<1>17. Min(S) \in Nat \ {0} BY <1>15, <1>16
<1> QED BY <1>10, <1>16, <1>17 DEF m, S, n

\* The new arena is free memory, and it becomes a block at the end of the list.
LEMMA CreceLista ==
  ASSUME IPmm, IMonton, NEW lo \in Nat \ {0}, NEW m \in Nat \ {0},
         \A f \in lo..(lo + m - 1) : f \in Marcos /\ marco[f] = 1,
         AgregarArena(Dir(lo), m * TamPagina)
  PROVE  \E u \in DOMAIN hdr : Agrega(hdr, hdr', u, Dir(lo), m * TamPagina - Cabecera)
<1> DEFINE k == Dir(lo)
           n == m * TamPagina
<1>a. Lista(hdr, cabeza) BY DEF IMonton
<1>b. Bloques(hdr, cabeza) /\ Acaba(hdr) BY <1>a DEF Lista
<1>1. k \in Nat \ {0} /\ n \in Nat /\ n > Cabecera
  <2>1. lo * TamPagina \in Nat \ {0} /\ m * TamPagina >= TamPagina /\ m * TamPagina \in Nat OBVIOUS
  <2> QED BY <2>1 DEF Dir
<1>2. ASSUME NEW x \in Nat, k <= x, x < k + n PROVE x \notin Unidades(hdr)
  <2>1. x \div TamPagina \in lo..(lo + m - 1)
    <3>1. lo * TamPagina <= x /\ x < lo * TamPagina + m * TamPagina BY <1>2 DEF Dir
    <3>2. lo \in Nat /\ m \in Nat /\ TamPagina \in Nat \ {0} OBVIOUS
    <3> QED BY <3>1, <3>2, MarcoDeUnidad
  <2>2. x \div TamPagina \in Marcos /\ marco[x \div TamPagina] = 1 BY <2>1
  <2>3. ~DelMonton(x \div TamPagina) BY <2>2, MarcosNat DEF DelMonton
  <2> QED BY <2>3 DEF IMonton
<1>3. k \notin DOMAIN hdr
  <2> SUFFICES ASSUME k \in DOMAIN hdr PROVE FALSE OBVIOUS
  <2>1. hdr[k].tam \in Nat \ {0} BY <1>b, CamposDe
  <2> HIDE DEF k, n
  <2>2. k <= k /\ k < k + Cabecera + hdr[k].tam /\ k < k + n BY <1>1, <2>1
  <2>3. k \in Unidades(hdr) BY <1>1, <2>2 DEF Unidades
  <2> QED BY <1>1, <1>2, <2>2, <2>3
<1> DEFINE u == CHOOSE v \in DOMAIN hdr : hdr[v].siguiente = 0
<1>4. u \in DOMAIN hdr /\ hdr[u].siguiente = 0
  <2>1. \E v \in DOMAIN hdr : hdr[v].siguiente = 0 BY <1>b DEF Acaba
  <2> QED BY <2>1
<1>6. hdr' = [a \in DOMAIN hdr \cup {k} |->
                CASE a = k -> [libre |-> 1, tam |-> n - Cabecera, siguiente |-> 0, anterior |-> u]
                  [] a = u -> [hdr[a] EXCEPT !.siguiente = k]
                  [] OTHER -> hdr[a]]
  BY DEF AgregarArena
<1> HIDE DEF k, n, u
<1> DEFINE r == hdr'
<1>7. DOMAIN r = DOMAIN hdr \cup {k} BY <1>6
<1>5. u # k BY <1>3, <1>4
<1>8. ASSUME NEW a \in DOMAIN hdr \cup {k}
      PROVE  /\ r[a] \in Registro(DOMAIN hdr \cup {k})
             /\ r[a].libre = IF a = k THEN 1 ELSE hdr[a].libre
             /\ r[a].tam = IF a = k THEN n - Cabecera ELSE hdr[a].tam
             /\ r[a].siguiente = IF a = k THEN 0 ELSE IF a = u THEN k ELSE hdr[a].siguiente
             /\ r[a].anterior = IF a = k THEN u ELSE hdr[a].anterior
  <2>1. CASE a = k
    <3> DEFINE t == n - Cabecera
    <3>1. r[a] = [libre |-> 1, tam |-> t, siguiente |-> 0, anterior |-> u] BY <1>5, <1>6, <2>1
    <3>2. t \in Nat \ {0} BY <1>1
    <3> HIDE DEF r, t
    <3>3. r[a] \in Registro(DOMAIN hdr \cup {k}) BY <1>4, <3>1, <3>2 DEF Registro
    <3>4. r[a].libre = 1 /\ r[a].tam = t /\ r[a].siguiente = 0 /\ r[a].anterior = u BY <3>1
    <3> QED BY <2>1, <3>3, <3>4 DEF t
  <2>2. CASE a # k /\ a = u
    <3>1. r[a] = [hdr[a] EXCEPT !.siguiente = k] BY <1>6, <2>2
    <3>2. hdr[a] \in Registro(DOMAIN hdr) BY <1>b, <2>2 DEF Bloques
    <3> HIDE DEF r
    <3> QED BY <2>2, <3>1, <3>2 DEF Registro
  <2>3. CASE a # k /\ a # u
    <3>1. r[a] = hdr[a] BY <1>6, <2>3
    <3>2. hdr[a] \in Registro(DOMAIN hdr) BY <1>b, <2>3 DEF Bloques
    <3> HIDE DEF r
    <3> QED BY <2>3, <3>1, <3>2 DEF Registro
  <2> QED BY <2>1, <2>2, <2>3
<1>9. n - Cabecera \in Nat \ {0} BY <1>1
<1>10. \A x \in Nat : k <= x /\ x < k + Cabecera + (n - Cabecera) => x \notin Unidades(hdr)
  <2> SUFFICES ASSUME NEW x \in Nat, k <= x, x < k + Cabecera + (n - Cabecera)
               PROVE  x \notin Unidades(hdr)
    OBVIOUS
  <2>1. x < k + n BY <1>1
  <2> QED BY <1>2, <2>1
<1> HIDE DEF r
<1>11. Agrega(hdr, r, u, k, n - Cabecera) BY <1>1, <1>4, <1>7, <1>8, <1>9, <1>10 DEF Agrega
<1> QED BY <1>4, <1>11 DEF r, k, n

-----------------------------------------------------------------------------
(* Each step keeps the invariant.                                           *)

LEMMA IPmmIgual == ASSUME IPmm, UNCHANGED <<pila, marco, paginas>> PROVE IPmm'
BY DEF IPmm

LEMMA IMontonEncoge ==
  ASSUME IMonton, Lista(hdr, cabeza)', Unidades(hdr)' \subseteq Unidades(hdr),
         UNCHANGED <<marco, paginas>>
  PROVE  IMonton'
BY DEF IMonton, DelMonton

\* The frames of the heap keep being so if those in use stay in use.
LEMMA IMontonMarcos ==
  ASSUME IMonton, UNCHANGED <<hdr, cabeza>>,
         \A f \in Marcos : marco[f] = 2 /\ f \notin paginas => marco'[f] = 2 /\ f \notin paginas'
  PROVE  IMonton'
BY DEF IMonton, DelMonton, Marcos

LEMMA IPunterosIgual == ASSUME IPunteros, UNCHANGED <<hdr, punteros>> PROVE IPunteros'
BY DEF IPunteros

\* The block of a live pointer.
LEMMA BloqueDe ==
  ASSUME IMonton, IPunteros, NEW p \in DOMAIN punteros
  PROVE  /\ p \in Nat \ {0} /\ p - Cabecera \in DOMAIN hdr /\ hdr[p - Cabecera].libre = 0
         /\ hdr[p - Cabecera].tam \in Nat \ {0} /\ punteros[p] \in Nat
         /\ hdr[p - Cabecera].tam >= punteros[p]
BY CamposDe DEF IPunteros, IMonton, Lista

LEMMA RestaNat == ASSUME NEW a \in Nat, NEW b \in Nat PROVE Resta(a, b) \in Nat
BY DEF Resta

LEMMA InitInv == Init => Inv
<1> SUFFICES ASSUME Init PROVE Inv OBVIOUS
<1>a. /\ pila = Reverse(Usables) /\ marco = [f \in Marcos |-> 1] /\ paginas = {}
      /\ paginas_libres = Len(Usables) /\ paginas_en_uso = 0 /\ bytes_en_uso = 0 /\ bloques_activos = 0
      /\ cabeza = Dir(Min(ArenaInicial)) /\ capacidad = Cardinality(ArenaInicial) * TamPagina
      /\ hdr = [h \in {cabeza} |-> [libre |-> 1, tam |-> capacidad - Cabecera,
                                    siguiente |-> 0, anterior |-> 0]]
      /\ pc = "libre" /\ bytes = 0 /\ intento = 0 /\ viejo = 0 /\ DOMAIN punteros = {}
  BY DEF Init
<1> DEFINE lo == Min(ArenaInicial)  hi == Max(ArenaInicial)  m == Cardinality(ArenaInicial)
<1>1. ArenaInicial \in SUBSET (Nat \ {0}) /\ ArenaInicial # {} /\ ArenaInicial = lo..hi /\ m \in Nat
  BY ArenaAssumption, FS_CardinalityType
<1>2. lo \in Nat \ {0} /\ lo \in ArenaInicial BY <1>1, MinimoDe
<1>3. hi \in Nat /\ m \in Nat \ {0} /\ hi = lo + m - 1
  <2>1. \A x \in ArenaInicial : lo <= x BY <1>1, MinimoDe
  <2> HIDE DEF lo, hi, m
  <2>2. hi \in Int
    <3>1. \E b \in Nat : \A x \in ArenaInicial : x <= b
      <4>1. PICK f \in Bijection(1..m, ArenaInicial) : TRUE
        BY ArenaAssumption, FS_CardinalityType DEF ExistsBijection, m
      <4>2. f \in [1..m -> Nat] /\ \A x \in ArenaInicial : \E l \in 1..m : f[l] = x
        BY <1>1, <4>1 DEF Bijection, Injection, Surjection
      <4>3. PICK b \in Nat : \A l \in 1..m : f[l] <= b BY <1>1, <4>2, Acotada
      <4> QED BY <4>2, <4>3
    <3>2. PICK b \in Nat : \A x \in ArenaInicial : x <= b BY <3>1
    <3>3. ArenaInicial \in SUBSET Nat BY <1>1
    <3>4. Max(ArenaInicial) \in ArenaInicial BY <1>1, <3>2, <3>3, MaximoDe
    <3>5. hi \in ArenaInicial BY <3>4 DEF hi
    <3> QED BY ONLY <3>3, <3>5
  <2>3. Cardinality(lo..hi) = IF lo > hi THEN 0 ELSE hi - lo + 1 BY <1>2, <2>2, FS_Interval
  <2>4. lo <= hi BY <1>1, <1>2, <2>2
  <2>5. m = hi - lo + 1 BY <1>1, <1>2, <2>2, <2>3, <2>4 DEF m
  <2> QED BY <1>2, <2>2, <2>4, <2>5
<1> HIDE DEF lo, hi, m
<1>4. /\ lo * TamPagina \in Nat \ {0} /\ m * TamPagina \in Nat /\ m * TamPagina > Cabecera
      /\ m * TamPagina - Cabecera \in Nat \ {0}
  BY <1>2, <1>3
<1>5. /\ DOMAIN hdr = {cabeza} /\ cabeza = lo * TamPagina /\ capacidad = m * TamPagina
      /\ hdr[cabeza] = [libre |-> 1, tam |-> capacidad - Cabecera, siguiente |-> 0, anterior |-> 0]
  BY <1>a DEF Dir, lo, m
<1>6. /\ cabeza \in Nat \ {0} /\ hdr[cabeza].libre = 1 /\ hdr[cabeza].tam = capacidad - Cabecera
      /\ hdr[cabeza].siguiente = 0 /\ hdr[cabeza].anterior = 0
      /\ hdr[cabeza] \in Registro({cabeza})
  BY <1>4, <1>5 DEF Registro
<1>7. IPmm
  <2>1. Usables \in Seq(Marcos) /\ IsInjective(Usables) /\ Len(Usables) \in Nat
    <3>1. Usables \in Seq(Nat \ {0}) /\ IsInjective(Usables) BY UsablesAssumption
    <3>2. Usables \in [1..Len(Usables) -> Nat \ {0}] /\ Len(Usables) \in Nat BY <3>1, LenProperties
    <3>3. \A i \in 1..Len(Usables) : Usables[i] \in Marcos BY <3>2 DEF Marcos, Range
    <3> QED BY <3>1, <3>2, <3>3
  <2>2. Usables \in [1..Len(Usables) -> Marcos] BY <2>1, LenProperties
  <2> DEFINE n == Len(Usables)
  <2>3. pila = [i \in 1..n |-> Usables[n - i + 1]] BY <1>a DEF Reverse
  <2> HIDE DEF n
  <2>4. n \in Nat /\ \A i \in 1..n : n - i + 1 \in 1..n BY <2>1 DEF n
  <2>5. pila \in [1..n -> Marcos] BY <2>2, <2>3, <2>4 DEF n
  <2>6. pila \in Seq(Marcos) BY <2>4, <2>5
  <2>7. IsInjective(pila)
    <3> SUFFICES ASSUME NEW a \in 1..n, NEW b \in 1..n, pila[a] = pila[b] PROVE a = b
      BY <2>5 DEF IsInjective
    <3>1. Usables[n - a + 1] = Usables[n - b + 1] BY <2>3
    <3>2. n - a + 1 = n - b + 1 BY <2>1, <2>2, <2>4, <3>1 DEF IsInjective, n
    <3> QED BY <2>4, <3>2
  <2>8. Range(pila) = Marcos
    <3>1. ASSUME NEW y \in Marcos PROVE y \in Range(pila)
      <4>1. PICK i \in 1..n : y = Usables[i] BY <2>2 DEF Marcos, Range, n
      <4>2. n - i + 1 \in 1..n /\ n - (n - i + 1) + 1 = i BY <2>4
      <4>3. pila[n - i + 1] = y BY <2>3, <4>1, <4>2
      <4> QED BY <2>5, <4>2, <4>3 DEF Range
    <3>2. Range(pila) \subseteq Marcos BY <2>5 DEF Range
    <3> QED BY <3>1, <3>2
  <2>9. Marcos = {f \in Marcos : marco[f] = 1} BY <1>a
  <2> QED BY <1>a, <2>6, <2>7, <2>8, <2>9 DEF IPmm
<1>8. ICuentas
  <2>1. Len(Usables) \in Nat BY UsablesAssumption, LenProperties
  <2> QED BY <1>a, <1>4, <1>5, <2>1 DEF ICuentas
<1>9. IMonton
  <2>1. Bloques(hdr, cabeza) /\ Enlazada(hdr, cabeza) BY <1>5, <1>6 DEF Bloques, Enlazada
  <2>2. Acaba(hdr) /\ Conexa(hdr, cabeza) BY <1>5, <1>6 DEF Acaba, Conexa
  <2>3. Separada(hdr) BY <1>5, <1>6 DEF Separada
  <2>4. ASSUME NEW x \in Unidades(hdr) PROVE x \div TamPagina \in ArenaInicial
    <3>1. x \in Nat /\ cabeza <= x /\ x < cabeza + Cabecera + hdr[cabeza].tam BY <1>5 DEF Unidades
    <3>2. x < lo * TamPagina + m * TamPagina BY <1>4, <1>5, <1>6, <3>1
    <3>3. x \div TamPagina \in lo..(lo + m - 1)
      <4>1. lo \in Nat /\ m \in Nat /\ TamPagina \in Nat \ {0} /\ lo * TamPagina <= x
        BY <1>2, <1>3, <1>5, <3>1
      <4> QED BY <3>1, <3>2, <4>1, MarcoDeUnidad
    <3> QED BY <1>1, <1>3, <3>3
  <2> QED BY <2>1, <2>2, <2>3, <2>4 DEF IMonton, Lista, DelMonton
<1>10. IPunteros /\ ILlamada /\ IBusqueda /\ FracasoJusto
  BY <1>a, CrecerAssumption DEF IPunteros, ILlamada, IBusqueda, FracasoJusto
<1> QED BY <1>7, <1>8, <1>9, <1>10 DEF Inv

LEMMA InvAsignarPagina == ASSUME Inv, AsignarPagina PROVE Inv'
<1> DEFINE f == Head(pila)
<1>a. IPmm /\ ICuentas /\ IMonton /\ IPunteros /\ ILlamada /\ IBusqueda /\ FracasoJusto BY DEF Inv
<1>b. /\ pc = "libre" /\ pila # <<>> /\ pila' = Tail(pila) /\ marco' = [marco EXCEPT ![f] = 2]
      /\ paginas_libres' = Resta(paginas_libres, 1) /\ paginas_en_uso' = paginas_en_uso + 1
      /\ paginas' = paginas \cup {f}
      /\ UNCHANGED <<hdr, cabeza, capacidad, bytes_en_uso, bloques_activos>>
      /\ UNCHANGED <<pc, bytes, bloque, intento, viejo, punteros>>
  BY DEF AsignarPagina, heap, llamada
<1>1. pila \in Seq(Marcos) /\ IsInjective(pila) BY <1>a DEF IPmm
<1>2. Len(pila) \in Nat \ {0} /\ pila \in [1..Len(pila) -> Marcos]
  BY <1>1, <1>b, LenProperties, EmptySeq
<1>3. f = pila[1] /\ f \in Marcos /\ f \in Range(pila) BY <1>1, <1>2 DEF Range
<1> HIDE DEF f
<1>4. marco[f] = 1 BY <1>a, <1>3 DEF IPmm
<1>5. pila' \in Seq(Marcos) /\ IsInjective(pila') /\ Range(pila') = Range(pila) \ {f}
  <2>1. pila' = SubSeq(pila, 2, Len(pila)) BY <1>1, <1>b, TailIsSubSeq
  <2>2. SinPrimeros(pila, 1, pila') BY <2>1 DEF SinPrimeros
  <2>3. 1 \in 0..Len(pila) BY <1>2
  <2>4. {pila[l] : l \in 1..1} = {f} BY <1>3
  <2>5. /\ pila' \in Seq(Marcos) /\ IsInjective(pila')
        /\ Range(pila') = Range(pila) \ {pila[l] : l \in 1..1}
    BY <1>1, <2>2, <2>3, QuitaPrimeros
  <2> QED BY <2>4, <2>5
<1>6. IPmm' BY <1>a, <1>b, <1>3, <1>4, <1>5 DEF IPmm
<1>7. ICuentas' BY <1>a, <1>b, RestaNat DEF ICuentas
<1>8. IMonton'
  <2>1. \A g \in Marcos : marco[g] = 2 /\ g \notin paginas => marco'[g] = 2 /\ g \notin paginas'
    BY <1>a, <1>b, <1>3, <1>4 DEF IPmm
  <2> QED BY <1>a, <1>b, <2>1, IMontonMarcos
<1>9. IPunteros' BY <1>a, <1>b, IPunterosIgual
<1>10. ILlamada' /\ IBusqueda' /\ FracasoJusto' BY <1>a, <1>b DEF ILlamada, IBusqueda, FracasoJusto
<1> QED BY <1>6, <1>7, <1>8, <1>9, <1>10 DEF Inv

LEMMA InvLiberarPagina == ASSUME Inv, NEW f \in Marcos, LiberarPagina(f) PROVE Inv'
<1>a. IPmm /\ ICuentas /\ IMonton /\ IPunteros /\ ILlamada /\ IBusqueda /\ FracasoJusto BY DEF Inv
<1>b. /\ pc = "libre" /\ f \in paginas /\ pila' = <<f>> \o pila /\ marco' = [marco EXCEPT ![f] = 1]
      /\ paginas_libres' = paginas_libres + 1 /\ paginas_en_uso' = Resta(paginas_en_uso, 1)
      /\ paginas' = paginas \ {f}
      /\ UNCHANGED <<hdr, cabeza, capacidad, bytes_en_uso, bloques_activos>>
      /\ UNCHANGED <<pc, bytes, bloque, intento, viejo, punteros>>
  BY DEF LiberarPagina, heap, llamada
<1>1. /\ pila \in Seq(Marcos) /\ IsInjective(pila) /\ marco \in [Marcos -> {0, 1, 2}] /\ marco[f] = 2
      /\ Range(pila) = {g \in Marcos : marco[g] = 1}
  BY <1>a, <1>b DEF IPmm
<1>2. pila' \in Seq(Marcos) /\ IsInjective(pila') /\ Range(pila') = Range(pila) \cup {f}
  <2>1. f \notin Range(pila) BY <1>1
  <2>2. ConPrimero(f, pila, pila') BY <1>b DEF ConPrimero
  <2> QED BY <1>1, <2>1, <2>2, PonePrimero
<1>3. IPmm'
  <2>1. Range(pila') = {g \in Marcos : marco'[g] = 1} BY <1>1, <1>2, <1>b
  <2> QED BY <1>a, <1>b, <1>2, <2>1 DEF IPmm
<1>4. ICuentas' BY <1>a, <1>b, RestaNat DEF ICuentas
<1>5. IMonton'
  <2>1. \A g \in Marcos : marco[g] = 2 /\ g \notin paginas => marco'[g] = 2 /\ g \notin paginas'
    BY <1>1, <1>b
  <2> QED BY <1>a, <1>b, <2>1, IMontonMarcos
<1>6. IPunteros' BY <1>a, <1>b, IPunterosIgual
<1>7. ILlamada' /\ IBusqueda' /\ FracasoJusto' BY <1>a, <1>b DEF ILlamada, IBusqueda, FracasoJusto
<1> QED BY <1>3, <1>4, <1>5, <1>6, <1>7 DEF Inv

\* What a call that only moves the cursor leaves alone.
LEMMA InvMemoria ==
  ASSUME Inv, UNCHANGED <<pmm, heap, clientes>>
  PROVE  IPmm' /\ ICuentas' /\ IMonton' /\ IPunteros'
<1>a. IPmm /\ ICuentas /\ IMonton /\ IPunteros BY DEF Inv
<1>b. UNCHANGED <<pila, marco, paginas_libres, paginas_en_uso, hdr, cabeza, capacidad,
                  bytes_en_uso, bloques_activos, punteros, paginas>>
  BY DEF pmm, heap, clientes
<1>1. IMonton' BY <1>a, <1>b DEF IMonton, DelMonton
<1> QED BY <1>a, <1>b, <1>1, IPmmIgual, IPunterosIgual DEF ICuentas

LEMMA InvAsignar == ASSUME Inv, NEW n \in Pedidos, Asignar(n) PROVE Inv'
<1>a. /\ bytes' = n /\ bloque' = cabeza /\ intento' = 0 /\ pc' = "buscar" /\ pc = "libre"
      /\ UNCHANGED <<pmm, heap, clientes>> /\ UNCHANGED <<viejo, hdr, cabeza, punteros>>
  BY DEF Asignar, heap, clientes
<1>1. IPmm' /\ ICuentas' /\ IMonton' /\ IPunteros' BY <1>a, InvMemoria
<1>2. cabeza \in DOMAIN hdr BY DEF Inv, IMonton, Lista, Bloques
<1>3. ILlamada' BY <1>a, <1>2, CrecerAssumption DEF Inv, ILlamada
<1>4. IBusqueda'
  <2>1. Pasados({})' BY <1>a DEF Pasados
  <2> QED BY <2>1 DEF IBusqueda
<1>5. FracasoJusto' BY <1>a DEF FracasoJusto
<1> QED BY <1>1, <1>3, <1>4, <1>5 DEF Inv

LEMMA InvSeguir == ASSUME Inv, Seguir PROVE Inv'
<1>a. /\ pc = "buscar" /\ bloque # 0 /\ ~Cabe(bloque)
      /\ bloque' = hdr[bloque].siguiente /\ pc' = IF bloque' = 0 THEN "crecer" ELSE "buscar"
      /\ UNCHANGED <<pmm, heap, clientes>>
      /\ UNCHANGED <<bytes, intento, viejo, hdr, cabeza, punteros>>
  BY DEF Seguir, Cabe, heap, clientes
<1>b. Lista(hdr, cabeza) /\ ILlamada /\ IBusqueda BY DEF Inv, IMonton
<1>1. IPmm' /\ ICuentas' /\ IMonton' /\ IPunteros' BY <1>a, InvMemoria
<1>2. bloque \in DOMAIN hdr BY <1>a, <1>b DEF ILlamada
<1>3. bloque' \in DOMAIN hdr \cup {0} /\ 0 \notin DOMAIN hdr /\ cabeza \in DOMAIN hdr
  BY <1>a, <1>b, <1>2, CamposDe DEF Lista, Bloques
<1>4. ILlamada' BY <1>a, <1>b, <1>3 DEF ILlamada
<1>5. PICK V \in SUBSET DOMAIN hdr : Pasados(V) BY <1>a, <1>b DEF IBusqueda
<1> DEFINE W == V \cup {bloque}
<1>6. W \in SUBSET DOMAIN hdr /\ cabeza \in W BY <1>2, <1>5 DEF Pasados
<1>7. \A h \in W : ~Cabe(h) /\ hdr[h].siguiente \in W \cup {bloque'}
  BY <1>a, <1>5 DEF Pasados
<1> HIDE DEF W
<1>8. CASE bloque' = 0
  <2>1. Cerrado(hdr, W) BY <1>7, <1>8 DEF Cerrado
  <2>2. W = DOMAIN hdr BY <1>b, <1>6, <2>1 DEF Lista, Conexa
  <2>3. FracasoJusto' BY <1>a, <1>7, <2>2 DEF FracasoJusto, Cabe
  <2>4. IBusqueda' BY <1>a, <1>8 DEF IBusqueda
  <2> QED BY <1>1, <1>4, <2>3, <2>4 DEF Inv
<1>9. CASE bloque' # 0
  <2>1. cabeza' = cabeza /\ hdr' = hdr /\ bytes' = bytes BY <1>a
  <2>2. \A h \in W : ~Cabe(h)' /\ hdr'[h].siguiente \in W \cup {bloque'} BY <1>7, <2>1 DEF Cabe
  <2>4. cabeza' \in W /\ W \in SUBSET DOMAIN hdr' BY <1>6, <2>1
  <2>5. \E V1 \in SUBSET DOMAIN hdr' :
          /\ bloque' # cabeza' => cabeza' \in V1
          /\ \A h \in V1 : ~Cabe(h)' /\ hdr'[h].siguiente \in V1 \cup {bloque'}
    BY <2>2, <2>4
  <2>6. IBusqueda' BY <2>5 DEF IBusqueda, Pasados
  <2>3. FracasoJusto' BY <1>a, <1>9 DEF FracasoJusto
  <2> QED BY <1>1, <1>4, <2>3, <2>6 DEF Inv
<1> QED BY <1>8, <1>9

LEMMA InvFracasar == ASSUME Inv, Fracasar PROVE Inv'
<1>a. /\ pc' = "libre" /\ viejo' = 0 /\ UNCHANGED <<pmm, heap, clientes>>
      /\ UNCHANGED <<bytes, bloque, intento, punteros>>
  BY DEF Fracasar, clientes
<1>1. IPmm' /\ ICuentas' /\ IMonton' /\ IPunteros' BY <1>a, InvMemoria
<1>2. ILlamada' /\ IBusqueda' /\ FracasoJusto' BY <1>a DEF Inv, ILlamada, IBusqueda, FracasoJusto
<1> QED BY <1>1, <1>2 DEF Inv

LEMMA InvTomar == ASSUME Inv, Tomar PROVE Inv'
<1>a. /\ pc = "buscar" /\ hdr[bloque].libre = 1 /\ hdr[bloque].tam >= bytes
      /\ hdr' = Partido(bloque, bytes) /\ bytes_en_uso' = bytes_en_uso + hdr'[bloque].tam
      /\ bloques_activos' = bloques_activos + 1
      /\ punteros' = [a \in DOMAIN punteros \cup {Datos(bloque)} |->
                        IF a = Datos(bloque) THEN bytes ELSE punteros[a]]
      /\ pc' = IF viejo = 0 THEN "libre" ELSE "mover"
      /\ UNCHANGED <<pila, marco, paginas_libres, paginas_en_uso, cabeza, capacidad>>
      /\ UNCHANGED <<bytes, bloque, intento, viejo, paginas>>
  BY DEF Tomar, pmm
<1>b. IPmm /\ ICuentas /\ IMonton /\ IPunteros /\ ILlamada BY DEF Inv
<1>1. bloque \in DOMAIN hdr /\ bytes \in Nat \ {0} BY <1>a, <1>b, PedidosAssumption DEF ILlamada
<1>2. /\ Lista(hdr', cabeza) /\ Unidades(hdr') \subseteq Unidades(hdr)
      /\ bloque \in DOMAIN hdr' /\ hdr'[bloque].libre = 0 /\ hdr'[bloque].tam >= bytes
      /\ Conserva(hdr, hdr')
  BY <1>a, <1>b, <1>1, PartidoLista DEF IMonton
<1>3. \A a \in DOMAIN hdr' : a \in Nat \ {0} /\ hdr'[a].tam \in Nat \ {0} BY <1>2, CamposDe DEF Lista
<1>4. IPmm' BY <1>a, <1>b, IPmmIgual
<1>5. ICuentas' BY <1>a, <1>b, <1>2, <1>3 DEF ICuentas
<1>6. IMonton' BY <1>a, <1>b, <1>2, IMontonEncoge
<1>7. IPunteros'
  <2> SUFFICES ASSUME NEW p \in DOMAIN punteros'
               PROVE  /\ p \in Nat \ {0} /\ p - Cabecera \in DOMAIN hdr' /\ punteros'[p] \in Nat
                      /\ hdr'[p - Cabecera].libre = 0 /\ hdr'[p - Cabecera].tam >= punteros'[p]
    BY DEF IPunteros
  <2>1. CASE p = Datos(bloque)
    <3>1. p \in Nat \ {0} /\ p - Cabecera = bloque
      <4>1. bloque \in Nat \ {0} BY <1>2, <1>3
      <4> QED BY <2>1, <4>1 DEF Datos
    <3>2. punteros'[p] = bytes BY <1>a, <2>1
    <3> QED BY <1>1, <1>2, <3>1, <3>2
  <2>2. CASE p # Datos(bloque)
    <3>1. p \in DOMAIN punteros /\ punteros'[p] = punteros[p] BY <1>a, <2>2
    <3>2. /\ p \in Nat \ {0} /\ p - Cabecera \in DOMAIN hdr /\ hdr[p - Cabecera].libre = 0
          /\ hdr[p - Cabecera].tam \in Nat \ {0} /\ punteros[p] \in Nat
          /\ hdr[p - Cabecera].tam >= punteros[p]
      BY <1>b, <3>1, BloqueDe
    <3> DEFINE q == p - Cabecera
    <3>3. q \in DOMAIN hdr' /\ hdr'[q].libre = 0 /\ hdr'[q].tam >= hdr[q].tam
      BY <1>2, <3>2 DEF Conserva
    <3>4. hdr'[q].tam \in Nat BY <1>3, <3>3
    <3>5. hdr'[q].tam >= punteros[p]
      <4> HIDE DEF q
      <4>1. hdr[q].tam \in Nat /\ hdr[q].tam >= punteros[p] /\ punteros[p] \in Nat BY <3>2 DEF q
      <4> QED BY ONLY <3>3, <3>4, <4>1
    <3> QED BY <3>1, <3>2, <3>3, <3>5
  <2> QED BY <2>1, <2>2
<1>8. ILlamada' BY <1>a, <1>b DEF ILlamada
<1>9. IBusqueda' /\ FracasoJusto' BY <1>a DEF IBusqueda, FracasoJusto
<1> QED BY <1>4, <1>5, <1>6, <1>7, <1>8, <1>9 DEF Inv

\* A live pointer is given back and its block released.
LEMMA LiberarBloqueInv ==
  ASSUME Inv, NEW p \in DOMAIN punteros, LiberarBloque(p), punteros' = Quitar(punteros, {p}),
         UNCHANGED <<pila, marco, paginas_libres, paginas_en_uso, cabeza, capacidad, paginas>>
  PROVE  IPmm' /\ ICuentas' /\ IMonton' /\ IPunteros'
<1> DEFINE h == p - Cabecera
<1>a. IPmm /\ ICuentas /\ IMonton /\ IPunteros BY DEF Inv
<1>b. /\ hdr' = Fusionado(h) /\ bytes_en_uso' = Resta(bytes_en_uso, hdr[h].tam)
      /\ bloques_activos' = Resta(bloques_activos, 1)
  BY DEF LiberarBloque
<1>1. /\ p \in Nat \ {0} /\ h \in DOMAIN hdr /\ hdr[h].tam \in Nat BY <1>a, BloqueDe
<1> HIDE DEF h
<1>2. /\ Lista(hdr', cabeza) /\ Unidades(hdr') \subseteq Unidades(hdr)
      /\ \A a \in DOMAIN hdr \ {h} : hdr[a].libre = 0 =>
           a \in DOMAIN hdr' /\ hdr'[a].libre = 0 /\ hdr'[a].tam >= hdr[a].tam
  BY <1>a, <1>b, <1>1, FusionadoLista DEF IMonton
<1>3. IPmm' BY <1>a, IPmmIgual
<1>4. ICuentas' BY <1>a, <1>b, <1>1, RestaNat DEF ICuentas
<1>5. IMonton' BY <1>a, <1>2, IMontonEncoge
<1>6. IPunteros'
  <2> SUFFICES ASSUME NEW q \in DOMAIN punteros'
               PROVE  /\ q \in Nat \ {0} /\ q - Cabecera \in DOMAIN hdr' /\ punteros'[q] \in Nat
                      /\ hdr'[q - Cabecera].libre = 0 /\ hdr'[q - Cabecera].tam >= punteros'[q]
    BY DEF IPunteros
  <2>1. q \in DOMAIN punteros \ {p} /\ punteros'[q] = punteros[q] BY DEF Quitar
  <2> DEFINE k == q - Cabecera
  <2>2. /\ q \in Nat \ {0} /\ k \in DOMAIN hdr /\ hdr[k].libre = 0
        /\ hdr[k].tam \in Nat \ {0} /\ punteros[q] \in Nat /\ hdr[k].tam >= punteros[q]
    BY <1>a, <2>1, BloqueDe
  <2>3. k # h BY <1>1, <2>1, <2>2 DEF h
  <2> HIDE DEF k
  <2>4. k \in DOMAIN hdr' /\ hdr'[k].libre = 0 /\ hdr'[k].tam >= hdr[k].tam BY <1>2, <2>2, <2>3
  <2>5. hdr'[k].tam \in Nat BY <1>2, <2>4, CamposDe DEF Lista
  <2>6. hdr'[k].tam >= punteros[q] BY ONLY <2>2, <2>4, <2>5
  <2> QED BY <2>1, <2>2, <2>4, <2>6 DEF k
<1> QED BY <1>3, <1>4, <1>5, <1>6

LEMMA InvLiberar == ASSUME Inv, NEW p \in DOMAIN punteros, Liberar(p) PROVE Inv'
<1>a. /\ pc = "libre" /\ LiberarBloque(p) /\ punteros' = Quitar(punteros, {p})
      /\ UNCHANGED <<pila, marco, paginas_libres, paginas_en_uso, cabeza, capacidad, paginas>>
      /\ UNCHANGED <<pc, bytes, bloque, intento, viejo>>
  BY DEF Liberar, pmm, llamada
<1>1. IPmm' /\ ICuentas' /\ IMonton' /\ IPunteros' BY <1>a, LiberarBloqueInv
<1>2. ILlamada' /\ IBusqueda' /\ FracasoJusto' BY <1>a DEF Inv, ILlamada, IBusqueda, FracasoJusto
<1> QED BY <1>1, <1>2 DEF Inv

LEMMA InvMover == ASSUME Inv, Mover PROVE Inv'
<1>a. /\ pc = "mover" /\ LiberarBloque(viejo) /\ punteros' = Quitar(punteros, {viejo})
      /\ pc' = "libre" /\ viejo' = 0
      /\ UNCHANGED <<pila, marco, paginas_libres, paginas_en_uso, cabeza, capacidad, paginas>>
      /\ UNCHANGED <<bytes, bloque, intento>>
  BY DEF Mover, pmm
<1>1. viejo \in DOMAIN punteros BY <1>a DEF Inv, ILlamada
<1>2. IPmm' /\ ICuentas' /\ IMonton' /\ IPunteros' BY <1>a, <1>1, LiberarBloqueInv
<1>3. ILlamada' /\ IBusqueda' /\ FracasoJusto' BY <1>a DEF Inv, ILlamada, IBusqueda, FracasoJusto
<1> QED BY <1>2, <1>3 DEF Inv

LEMMA InvReasignar == ASSUME Inv, NEW p \in DOMAIN punteros, NEW n \in Pedidos, Reasignar(p, n) PROVE Inv'
<1>a. pc = "libre" /\ UNCHANGED <<pmm, heap, paginas>> BY DEF Reasignar
<1>b. UNCHANGED <<pila, marco, paginas_libres, paginas_en_uso, hdr, cabeza, capacidad,
                  bytes_en_uso, bloques_activos, paginas>>
  BY <1>a DEF pmm, heap
<1>c. IPmm /\ ICuentas /\ IMonton /\ IPunteros /\ ILlamada BY DEF Inv
<1>d. n \in Nat \ {0} BY PedidosAssumption
<1>1. IPmm' BY <1>b, <1>c, IPmmIgual
<1>2. ICuentas' BY <1>b, <1>c DEF ICuentas
<1>3. IMonton' BY <1>b, <1>c DEF IMonton, DelMonton
<1>4. CASE hdr[p - Cabecera].tam >= n
  <2>1. punteros' = [punteros EXCEPT ![p] = n] /\ UNCHANGED <<pc, bytes, bloque, intento, viejo>>
    BY <1>4 DEF Reasignar
  <2>2. IPunteros' BY <1>4, <1>b, <1>c, <1>d, <2>1 DEF IPunteros
  <2>3. ILlamada' BY <1>a, <1>c, <2>1 DEF ILlamada
  <2>4. IBusqueda' /\ FracasoJusto' BY <1>a, <2>1 DEF IBusqueda, FracasoJusto
  <2> QED BY <1>1, <1>2, <1>3, <2>2, <2>3, <2>4 DEF Inv
<1>5. CASE ~(hdr[p - Cabecera].tam >= n)
  <2>1. /\ bytes' = n /\ bloque' = cabeza /\ intento' = 0 /\ viejo' = p /\ pc' = "buscar"
        /\ UNCHANGED punteros
    BY <1>5 DEF Reasignar
  <2>2. IPunteros' BY <1>b, <1>c, <2>1, IPunterosIgual
  <2>3. cabeza \in DOMAIN hdr BY <1>c DEF IMonton, Lista, Bloques
  <2>4. ILlamada' BY <1>b, <1>c, <2>1, <2>3, CrecerAssumption DEF ILlamada
  <2>5. Pasados({})' BY <1>b, <2>1 DEF Pasados
  <2>6. IBusqueda' BY <2>5 DEF IBusqueda
  <2>7. FracasoJusto' BY <2>1 DEF FracasoJusto
  <2> QED BY <1>1, <1>2, <1>3, <2>2, <2>4, <2>6, <2>7 DEF Inv
<1> QED BY <1>4, <1>5

LEMMA InvCrecer == ASSUME Inv, Crecer PROVE Inv'
<1> DEFINE m == Obtenidas
           S == {pila[l] : l \in 1..m}
           lo == Min(S)
           k == Dir(lo)
           t == m * TamPagina - Cabecera
<1>a. IPmm /\ ICuentas /\ IMonton /\ IPunteros /\ ILlamada /\ IBusqueda /\ FracasoJusto BY DEF Inv
<1>b. /\ pc = "crecer" /\ intento < MaxIntentos /\ pila # <<>>
      /\ pila' = SubSeq(pila, m + 1, Len(pila))
      /\ marco' = [f \in Marcos |-> IF f \in S THEN 2 ELSE marco[f]]
      /\ paginas_libres' = Resta(paginas_libres, m) /\ paginas_en_uso' = paginas_en_uso + m
      /\ AgregarArena(k, m * TamPagina) /\ capacidad' = capacidad + m * TamPagina
      /\ \/ Basta(m) /\ pc' = "buscar" /\ bloque' = cabeza /\ intento' = 0
         \/ ~Basta(m) /\ pc' = "crecer" /\ intento' = intento + 1 /\ bloque' = bloque
      /\ UNCHANGED <<cabeza, bytes_en_uso, bloques_activos, bytes, viejo, punteros, paginas>>
  BY DEF Crecer, BaseArena, AgregarArena, clientes
<1>c. bytes \in Nat \ {0} BY <1>a, <1>b, PedidosAssumption DEF ILlamada
<1>1. m \in 1..Len(pila) /\ lo \in Nat \ {0} /\ S = lo..(lo + m - 1) BY <1>a, <1>b, <1>c, ObtenidasSon
<1> HIDE DEF lo
<1>2. pila \in Seq(Marcos) /\ IsInjective(pila) /\ Len(pila) \in Nat BY <1>a, LenProperties DEF IPmm
<1>3. m \in Nat \ {0} /\ m \in 0..Len(pila) BY <1>1, <1>2
<1> HIDE DEF m
<1>4. \A f \in S : f \in Marcos /\ f \in Range(pila) /\ marco[f] = 1
  <2> SUFFICES ASSUME NEW l \in 1..m PROVE pila[l] \in Marcos /\ pila[l] \in Range(pila) /\ marco[pila[l]] = 1
    OBVIOUS
  <2>1. l \in 1..Len(pila) /\ pila \in [1..Len(pila) -> Marcos] BY <1>2, <1>3, LenProperties
  <2>2. pila[l] \in Marcos /\ pila[l] \in Range(pila) BY <2>1 DEF Range
  <2> QED BY <1>a, <2>2 DEF IPmm
<1>5. pila' \in Seq(Marcos) /\ IsInjective(pila') /\ Range(pila') = Range(pila) \ S
  <2>1. SinPrimeros(pila, m, pila') BY <1>b DEF SinPrimeros
  <2> QED BY <1>2, <1>3, <2>1, QuitaPrimeros
<1> HIDE DEF S
<1>6. IPmm'
  <2>1. marco' \in [Marcos -> {0, 1, 2}] BY <1>a, <1>b DEF IPmm
  <2>2. Range(pila') = {f \in Marcos : marco'[f] = 1} BY <1>a, <1>b, <1>4, <1>5 DEF IPmm
  <2>3. \A f \in paginas' : marco'[f] = 2 BY <1>a, <1>b DEF IPmm
  <2> QED BY <1>a, <1>b, <1>5, <2>1, <2>2, <2>3 DEF IPmm
<1>7. ICuentas'
  <2>1. m * TamPagina \in Nat BY <1>3
  <2>2. capacidad' \in Nat BY <1>a, <1>b, <2>1 DEF ICuentas
  <2> QED BY <1>a, <1>b, <1>3, <2>2, RestaNat DEF ICuentas
<1>8. PICK u \in DOMAIN hdr : Agrega(hdr, hdr', u, k, t)
  <2>1. \A f \in lo..(lo + m - 1) : f \in Marcos /\ marco[f] = 1 BY <1>1, <1>4
  <2> QED BY <1>a, <1>b, <1>1, <1>3, <2>1, CreceLista
<1>9. /\ Lista(hdr', cabeza) /\ k \notin DOMAIN hdr
      /\ \A x \in Unidades(hdr') : x \in Unidades(hdr) \/ (k <= x /\ x < k + Cabecera + t)
  BY <1>a, <1>8, AgregaLista DEF IMonton
<1>10. /\ DOMAIN hdr' = DOMAIN hdr \cup {k} /\ hdr'[k].tam = t
       /\ \A a \in DOMAIN hdr : hdr'[a].libre = hdr[a].libre /\ hdr'[a].tam = hdr[a].tam
  BY <1>8, <1>9 DEF Agrega
<1>11. IMonton'
  <2>1. ASSUME NEW x \in Unidades(hdr) PROVE DelMonton(x \div TamPagina)'
    <3>1. DelMonton(x \div TamPagina) BY <1>a DEF IMonton
    <3> QED BY <1>b, <3>1 DEF DelMonton
  <2>2. ASSUME NEW x \in Nat, k <= x, x < k + Cabecera + t PROVE DelMonton(x \div TamPagina)'
    <3>1. lo * TamPagina <= x /\ x < lo * TamPagina + m * TamPagina BY <1>1, <1>3, <2>2 DEF Dir
    <3>2. lo \in Nat /\ m \in Nat /\ TamPagina \in Nat \ {0} BY <1>1, <1>3
    <3> DEFINE f == x \div TamPagina
    <3>3. f \in lo..(lo + m - 1) BY <3>1, <3>2, MarcoDeUnidad
    <3> HIDE DEF f
    <3>4. f \in S /\ f \in Marcos /\ marco[f] = 1 BY <1>1, <1>4, <3>3
    <3>5. marco'[f] = 2 /\ f \notin paginas' BY <1>a, <1>b, <3>4 DEF IPmm
    <3>6. DelMonton(f)' BY <3>4, <3>5 DEF DelMonton
    <3> QED BY <3>6 DEF f
  <2>3. ASSUME NEW x \in Unidades(hdr') PROVE DelMonton(x \div TamPagina)'
    <3>1. x \in Nat BY DEF Unidades
    <3> QED BY <1>9, <2>1, <2>2, <3>1
  <2> QED BY <1>b, <1>9, <2>3 DEF IMonton
<1>12. IPunteros' BY <1>a, <1>b, <1>10 DEF IPunteros
<1>13. cabeza \in DOMAIN hdr' BY <1>9 DEF Lista, Bloques
<1>14. ILlamada'
  <2>1. intento \in 0..MaxIntentos /\ MaxIntentos \in Nat BY <1>a, CrecerAssumption DEF ILlamada
  <2>2. intento' \in 0..MaxIntentos BY <1>b, <2>1
  <2> QED BY <1>a, <1>b, <1>13, <2>2 DEF ILlamada
<1>15. IBusqueda'
  <2> SUFFICES ASSUME pc' = "buscar" PROVE \E V \in SUBSET DOMAIN hdr' : Pasados(V)' BY DEF IBusqueda
  <2>1. bloque' = cabeza' BY <1>b
  <2>2. Pasados({})' BY <2>1 DEF Pasados
  <2> QED BY <2>2
<1>16. FracasoJusto'
  <2> SUFFICES ASSUME pc' = "crecer", NEW h \in DOMAIN hdr'
               PROVE  ~(hdr'[h].libre = 1 /\ hdr'[h].tam >= bytes)
    BY <1>b DEF FracasoJusto
  <2>1. CASE h = k
    <3>1. ~(m * TamPagina >= bytes + Cabecera) BY <1>b DEF Basta
    <3>2. m * TamPagina \in Nat BY <1>3
    <3>3. ~(t >= bytes)
      <4> DEFINE w == m * TamPagina
      <4>1. t = w - Cabecera /\ w \in Nat /\ ~(w >= bytes + Cabecera) BY <3>1, <3>2
      <4> HIDE DEF w, t
      <4> QED BY <1>c, <4>1
    <3> QED BY <1>10, <2>1, <3>3
  <2>2. CASE h # k BY <1>a, <1>b, <1>10, <2>2 DEF FracasoJusto
  <2> QED BY <2>1, <2>2
<1> QED BY <1>6, <1>7, <1>11, <1>12, <1>14, <1>15, <1>16 DEF Inv

LEMMA InvIgual == ASSUME Inv, UNCHANGED vars PROVE Inv'
<1>1. UNCHANGED <<pmm, heap, llamada, clientes>> BY DEF vars
<1>2. IPmm' /\ ICuentas' /\ IMonton' /\ IPunteros' BY <1>1, InvMemoria
<1>3. UNCHANGED <<hdr, cabeza, pc, bytes, bloque, intento, viejo, punteros>>
  BY <1>1 DEF heap, llamada, clientes
<1>4. ILlamada' /\ FracasoJusto' BY <1>3 DEF Inv, ILlamada, FracasoJusto
<1>5. IBusqueda' BY <1>3 DEF Inv, IBusqueda, Pasados, Cabe
<1> QED BY <1>2, <1>4, <1>5 DEF Inv

LEMMA NextInv == ASSUME Inv, [Next]_vars PROVE Inv'
<1>1. CASE AsignarPagina BY <1>1, InvAsignarPagina
<1>2. CASE \E f \in Marcos : LiberarPagina(f) BY <1>2, InvLiberarPagina
<1>3. CASE \E n \in Pedidos : Asignar(n) BY <1>3, InvAsignar
<1>4. CASE \E n \in Pedidos : \E p \in DOMAIN punteros : Reasignar(p, n) BY <1>4, InvReasignar
<1>5. CASE \E p \in DOMAIN punteros : Liberar(p) BY <1>5, InvLiberar
<1>6. CASE Tomar BY <1>6, InvTomar
<1>7. CASE Seguir BY <1>7, InvSeguir
<1>8. CASE Crecer BY <1>8, InvCrecer
<1>9. CASE Fracasar BY <1>9, InvFracasar
<1>10. CASE Mover BY <1>10, InvMover
<1>11. CASE UNCHANGED vars BY <1>11, InvIgual
<1> QED BY <1>1, <1>2, <1>3, <1>4, <1>5, <1>6, <1>7, <1>8, <1>9, <1>10, <1>11 DEF Next, Paso

LEMMA Invariante == Spec => []Inv
<1>1. Inv /\ [Next]_vars => Inv' BY NextInv
<1> QED BY <1>1, InitInv, PTL DEF Spec

-----------------------------------------------------------------------------
(* The counters.                                                            *)

\* The n units from a on.
Tramo(a, n) == {x \in Nat : a <= x /\ x < a + n}

LEMMA TramoFinito ==
  ASSUME NEW a \in Nat, NEW n \in Nat
  PROVE  IsFiniteSet(Tramo(a, n)) /\ Cardinality(Tramo(a, n)) = n
<1> DEFINE b == a + n - 1
<1>1. b \in Int /\ Tramo(a, n) = a..b BY DEF Tramo
<1>2. (IF a > b THEN 0 ELSE b - a + 1) = n OBVIOUS
<1> HIDE DEF b
<1>3. IsFiniteSet(a..b) /\ Cardinality(a..b) = IF a > b THEN 0 ELSE b - a + 1 BY <1>1, FS_Interval
<1> QED BY <1>1, <1>2, <1>3

\* A set of units and what is not in it.
LEMMA MasTramo ==
  ASSUME NEW S, NEW T, NEW a \in Nat, NEW n \in Nat, IsFiniteSet(S) \/ IsFiniteSet(T),
         T = S \cup Tramo(a, n), \A x \in Tramo(a, n) : x \notin S
  PROVE  /\ IsFiniteSet(S) /\ IsFiniteSet(T)
         /\ Cardinality(S) \in Nat /\ Cardinality(T) = Cardinality(S) + n
<1>1. IsFiniteSet(S)
  <2>1. S \in SUBSET T OBVIOUS
  <2> QED BY <2>1, FS_Subset
<1>2. IsFiniteSet(Tramo(a, n)) /\ Cardinality(Tramo(a, n)) = n BY TramoFinito
<1>3. Cardinality(S) \in Nat BY <1>1, FS_CardinalityType
<1>4. Cardinality(S \cap Tramo(a, n)) = 0
  <2>1. S \cap Tramo(a, n) = {} OBVIOUS
  <2> QED BY <2>1, FS_EmptySet
<1>5. /\ IsFiniteSet(S \cup Tramo(a, n))
      /\ Cardinality(S \cup Tramo(a, n))
           = Cardinality(S) + Cardinality(Tramo(a, n)) - Cardinality(S \cap Tramo(a, n))
  BY <1>1, <1>2, FS_Union
<1>6. IsFiniteSet(T) /\ Cardinality(T) = Cardinality(S) + n BY <1>2, <1>3, <1>4, <1>5
<1> QED BY <1>1, <1>3, <1>6

\* The units of data of the blocks in use.
Llenas(g) == {x \in Nat : \E h \in EnUso(g) : Datos(h) <= x /\ x < Datos(h) + g[h].tam}

LEMMA MemoriaEs ==
  ASSUME NEW g, NEW c, Bloques(g, c)
  PROVE  Memoria(g) = Unidades(g) /\ MemoriaEnUso(g) = Llenas(g)
<1>1. ASSUME NEW h \in DOMAIN g, NEW x
      PROVE  /\ x \in h..(Datos(h) + g[h].tam - 1)
                   <=> x \in Nat /\ h <= x /\ x < h + Cabecera + g[h].tam
             /\ x \in Datos(h)..(Datos(h) + g[h].tam - 1)
                   <=> x \in Nat /\ Datos(h) <= x /\ x < Datos(h) + g[h].tam
  <2>1. h \in Nat \ {0} /\ g[h].tam \in Nat \ {0} BY CamposDe
  <2> QED BY <2>1 DEF Datos
<1>2. Memoria(g) = Unidades(g) BY <1>1 DEF Memoria, Unidades
<1>3. EnUso(g) \subseteq DOMAIN g BY DEF EnUso
<1>4. MemoriaEnUso(g) = Llenas(g) BY <1>1, <1>3 DEF MemoriaEnUso, Llenas
<1> QED BY <1>2, <1>4

LEMMA MismasLlenas ==
  ASSUME NEW g, NEW r, MismoUso(g, r)
  PROVE  EnUso(r) = EnUso(g) /\ Llenas(r) = Llenas(g)
BY DEF MismoUso, Llenas

\* One block more is in use in r than in g: its size is what r has of more,
\* because blocks do not overlap.
UnoMasEnUso(g, r, h) ==
  /\ h \notin EnUso(g) /\ EnUso(r) = EnUso(g) \cup {h}
  /\ \A a \in EnUso(g) : r[a].tam = g[a].tam
Finito(g) == IsFiniteSet(Llenas(g)) /\ IsFiniteSet(EnUso(g))

LEMMA UnoMas ==
  ASSUME NEW g, NEW r, NEW c, Lista(r, c), NEW h, UnoMasEnUso(g, r, h), Finito(g) \/ Finito(r)
  PROVE  /\ Finito(g) /\ Finito(r)
         /\ Cardinality(Llenas(g)) \in Nat /\ Cardinality(Llenas(r)) = Cardinality(Llenas(g)) + r[h].tam
         /\ Cardinality(EnUso(g)) \in Nat /\ Cardinality(EnUso(r)) = Cardinality(EnUso(g)) + 1
<1>a. Bloques(r, c) /\ Separada(r) BY DEF Lista
<1>b. /\ h \in EnUso(r) /\ h \notin EnUso(g) /\ EnUso(r) = EnUso(g) \cup {h}
      /\ \A a \in EnUso(g) : r[a].tam = g[a].tam
  BY DEF UnoMasEnUso
<1>c. /\ IsFiniteSet(Llenas(g)) \/ IsFiniteSet(Llenas(r))
      /\ IsFiniteSet(EnUso(g)) \/ IsFiniteSet(EnUso(r))
  BY DEF Finito
<1>1. \A a \in EnUso(r) : a \in DOMAIN r /\ a \in Nat \ {0} /\ r[a].tam \in Nat \ {0}
  BY <1>a, CamposDe DEF EnUso
<1>2. Datos(h) \in Nat /\ r[h].tam \in Nat BY <1>b, <1>1 DEF Datos
<1>3. Llenas(r) = Llenas(g) \cup Tramo(Datos(h), r[h].tam) BY <1>b DEF Llenas, Tramo
<1>4. ASSUME NEW x \in Tramo(Datos(h), r[h].tam), x \in Llenas(g) PROVE FALSE
  <2>1. PICK a \in EnUso(g) : Datos(a) <= x /\ x < Datos(a) + r[a].tam BY <1>b, <1>4 DEF Llenas
  <2>2. x \in Nat /\ Datos(h) <= x /\ x < Datos(h) + r[h].tam BY DEF Tramo
  <2>3. a \in DOMAIN r /\ h \in DOMAIN r /\ a # h BY <1>b, <1>1
  <2>4. a \in Nat /\ h \in Nat /\ r[a].tam \in Nat /\ r[h].tam \in Nat BY <1>b, <1>1
  <2>5. (a < h => a + Cabecera + r[a].tam <= h) /\ (h < a => h + Cabecera + r[h].tam <= a)
    BY <1>a, <2>3 DEF Separada
  <2> QED BY <2>1, <2>2, <2>3, <2>4, <2>5 DEF Datos
<1>5. /\ IsFiniteSet(Llenas(g)) /\ IsFiniteSet(Llenas(r))
      /\ Cardinality(Llenas(g)) \in Nat /\ Cardinality(Llenas(r)) = Cardinality(Llenas(g)) + r[h].tam
  <2> DEFINE S == Llenas(g)  T == Llenas(r)  d == Datos(h)  n == r[h].tam
  <2>1. d \in Nat /\ n \in Nat /\ T = S \cup Tramo(d, n) BY <1>2, <1>3
  <2>2. \A x \in Tramo(d, n) : x \notin S BY <1>4
  <2>3. IsFiniteSet(S) \/ IsFiniteSet(T) BY <1>c
  <2> HIDE DEF S, T, d, n
  <2>4. /\ IsFiniteSet(S) /\ IsFiniteSet(T)
        /\ Cardinality(S) \in Nat /\ Cardinality(T) = Cardinality(S) + n
    BY ONLY <2>1, <2>2, <2>3, MasTramo
  <2> QED BY <2>4 DEF S, T, n
<1>6. IsFiniteSet(EnUso(g))
  <2>1. EnUso(g) \in SUBSET EnUso(r) BY <1>b
  <2> QED BY <1>c, <2>1, FS_Subset
<1>7. Cardinality(EnUso(g)) \in Nat BY <1>6, FS_CardinalityType
<1>8. IsFiniteSet(EnUso(r)) /\ Cardinality(EnUso(r)) = Cardinality(EnUso(g)) + 1
  BY <1>b, <1>6, FS_AddElement
<1> QED BY <1>5, <1>6, <1>7, <1>8 DEF Finito

\* The counters of the heap are the units and the blocks they count.
ISumas ==
  /\ IsFiniteSet(Unidades(hdr)) /\ capacidad = Cardinality(Unidades(hdr))
  /\ IsFiniteSet(Llenas(hdr)) /\ bytes_en_uso = Cardinality(Llenas(hdr))
  /\ IsFiniteSet(EnUso(hdr)) /\ bloques_activos = Cardinality(EnUso(hdr))
\* No block in use is lost: each is that of a live pointer.
IDuenos == \A h \in EnUso(hdr) : Datos(h) \in DOMAIN punteros
IPaginas == paginas_libres = Len(pila) /\ paginas_en_uso = Len(Usables) - Len(pila)

ICuadra == ISumas /\ IDuenos /\ IPaginas

\* A frame in the hands of a client is not in the stack, which is then shorter
\* than the list of usable frames: the counter of used pages is not 0.
LEMMA PilaCorta ==
  ASSUME IPmm, NEW f \in paginas
  PROVE  Len(pila) \in Nat /\ Len(Usables) \in Nat /\ Len(pila) < Len(Usables)
<1> DEFINE k == Len(pila)  n == Len(Usables)
<1>1. /\ pila \in Seq(Marcos) /\ IsInjective(pila) /\ f \in Marcos /\ f \notin Range(pila)
  BY DEF IPmm
<1>2. k \in Nat /\ pila \in [1..k -> Marcos] BY <1>1, LenProperties
<1>3. n \in Nat /\ Usables \in [1..n -> Nat \ {0}] BY UsablesAssumption, LenProperties
<1> HIDE DEF k, n
<1>4. /\ IsFiniteSet(1..n) /\ Cardinality(1..n) = n /\ IsFiniteSet(1..k) /\ Cardinality(1..k) = k
  <2>1. \A m \in Nat : (IF 1 > m THEN 0 ELSE m - 1 + 1) = m OBVIOUS
  <2> QED BY <1>2, <1>3, <2>1, FS_Interval
<1>5. IsFiniteSet(Marcos) /\ Cardinality(Marcos) <= n
  <2>1. Usables \in Surjection(1..n, Marcos) BY <1>3 DEF Surjection, Marcos, Range
  <2> QED BY <1>4, <2>1, FS_Surjection
<1>6. pila \in Injection(1..k, Marcos) BY <1>1, <1>2 DEF Injection, IsInjective
<1>7. pila \notin Surjection(1..k, Marcos) BY <1>1, <1>2 DEF Surjection, Range
<1>8. Cardinality(1..k) <= Cardinality(Marcos) /\ Cardinality(1..k) # Cardinality(Marcos)
  BY <1>5, <1>6, <1>7, FS_Injection
<1>9. Cardinality(Marcos) \in Nat BY <1>5, FS_CardinalityType
<1>10. k < n BY <1>2, <1>3, <1>4, <1>5, <1>8, <1>9
<1> QED BY <1>2, <1>3, <1>10 DEF k, n

LEMMA InitCuadra == Init => ICuadra
<1> SUFFICES ASSUME Init PROVE ICuadra OBVIOUS
<1>a. /\ pila = Reverse(Usables) /\ paginas_libres = Len(Usables) /\ paginas_en_uso = 0
      /\ bytes_en_uso = 0 /\ bloques_activos = 0
      /\ hdr = [h \in {cabeza} |-> [libre |-> 1, tam |-> capacidad - Cabecera,
                                    siguiente |-> 0, anterior |-> 0]]
  BY DEF Init
<1>b. Lista(hdr, cabeza) /\ capacidad \in Nat BY InitInv DEF Inv, IMonton, ICuentas
<1>c. DOMAIN hdr = {cabeza} /\ hdr[cabeza].libre = 1 /\ hdr[cabeza].tam = capacidad - Cabecera BY <1>a
<1>d. cabeza \in Nat BY <1>b, CamposDe DEF Lista, Bloques
<1>1. Unidades(hdr) = Tramo(cabeza, capacidad) BY <1>b, <1>c, <1>d DEF Unidades, Tramo
<1>2. EnUso(hdr) = {} /\ Llenas(hdr) = {} BY <1>c DEF EnUso, Llenas
<1>3. ISumas /\ IDuenos
  <2>1. IsFiniteSet(Unidades(hdr)) /\ Cardinality(Unidades(hdr)) = capacidad BY <1>b, <1>d, <1>1, TramoFinito
  <2>2. IsFiniteSet({}) /\ Cardinality({}) = 0 BY FS_EmptySet
  <2> QED BY <1>a, <1>2, <2>1, <2>2 DEF ISumas, IDuenos
<1>4. IPaginas
  <2> DEFINE n == Len(Usables)
  <2>1. n \in Nat BY UsablesAssumption, LenProperties
  <2>2. pila = [i \in 1..n |-> Usables[n - i + 1]] BY <1>a DEF Reverse
  <2>3. pila \in Seq(Marcos) BY InitInv DEF Inv, IPmm
  <2> HIDE DEF n
  <2>4. DOMAIN pila = 1..n /\ DOMAIN pila = 1..Len(pila) /\ Len(pila) \in Nat BY <2>2, <2>3, LenProperties
  <2>5. Len(pila) = n BY <2>1, <2>4
  <2> QED BY <1>a, <2>1, <2>5 DEF IPaginas, n
<1> QED BY <1>3, <1>4 DEF ICuadra

LEMMA CuadraTomar == ASSUME Inv, ICuadra, Tomar PROVE ICuadra'
<1> DEFINE h == bloque
<1>a. /\ pc = "buscar" /\ hdr[h].libre = 1 /\ hdr[h].tam >= bytes
      /\ hdr' = Partido(h, bytes) /\ bytes_en_uso' = bytes_en_uso + hdr'[h].tam
      /\ bloques_activos' = bloques_activos + 1
      /\ DOMAIN punteros' = DOMAIN punteros \cup {Datos(h)}
      /\ UNCHANGED <<pila, paginas_libres, paginas_en_uso, cabeza, capacidad>>
  BY DEF Tomar, pmm
<1>b. ISumas /\ IDuenos /\ IPaginas BY DEF ICuadra
<1>1. Lista(hdr, cabeza) /\ h \in DOMAIN hdr /\ bytes \in Nat \ {0}
  BY <1>a, PedidosAssumption DEF Inv, IMonton, ILlamada
<1> HIDE DEF h
<1>2. /\ Lista(hdr', cabeza) /\ Unidades(hdr') = Unidades(hdr)
      /\ EnUso(hdr') = EnUso(hdr) \cup {h} /\ \A a \in EnUso(hdr) : hdr'[a].tam = hdr[a].tam
  BY <1>a, <1>1, PartidoLista
<1>3. h \notin EnUso(hdr) /\ h \in EnUso(hdr') BY <1>a, <1>2 DEF EnUso
<1>4. /\ Finito(hdr') /\ Cardinality(Llenas(hdr')) = Cardinality(Llenas(hdr)) + hdr'[h].tam
      /\ Cardinality(EnUso(hdr')) = Cardinality(EnUso(hdr)) + 1
  <2>1. UnoMasEnUso(hdr, hdr', h) BY <1>2, <1>3 DEF UnoMasEnUso
  <2>2. Finito(hdr) \/ Finito(hdr') BY <1>b DEF ISumas, Finito
  <2>3. Lista(hdr', cabeza) BY <1>2
  <2> DEFINE g == hdr  r == hdr'
  <2> HIDE DEF g, r
  <2>4. UnoMasEnUso(g, r, h) /\ Lista(r, cabeza) /\ (Finito(g) \/ Finito(r)) BY ONLY <2>1, <2>2, <2>3 DEF g, r
  <2>5. /\ Finito(g) /\ Finito(r)
        /\ Cardinality(Llenas(g)) \in Nat /\ Cardinality(Llenas(r)) = Cardinality(Llenas(g)) + r[h].tam
        /\ Cardinality(EnUso(g)) \in Nat /\ Cardinality(EnUso(r)) = Cardinality(EnUso(g)) + 1
    BY ONLY <2>4, UnoMas
  <2> QED BY ONLY <2>5 DEF g, r
<1>5. ISumas' BY <1>a, <1>b, <1>2, <1>4 DEF ISumas, Finito
<1>6. IDuenos' BY <1>a, <1>b, <1>2 DEF IDuenos, Datos
<1>7. IPaginas' BY <1>a, <1>b DEF IPaginas
<1> QED BY <1>5, <1>6, <1>7 DEF ICuadra

LEMMA LiberarBloqueCuadra ==
  ASSUME Inv, ICuadra, NEW p \in DOMAIN punteros, LiberarBloque(p), punteros' = Quitar(punteros, {p}),
         UNCHANGED <<pila, paginas_libres, paginas_en_uso, cabeza, capacidad>>
  PROVE  ICuadra'
<1> DEFINE h == p - Cabecera
<1>b. ISumas /\ IDuenos /\ IPaginas BY DEF ICuadra
<1>a. /\ hdr' = Fusionado(h) /\ bytes_en_uso' = Resta(bytes_en_uso, hdr[h].tam)
      /\ bloques_activos' = Resta(bloques_activos, 1) /\ DOMAIN punteros' = DOMAIN punteros \ {p}
  BY DEF LiberarBloque, Quitar
<1>1. /\ Lista(hdr, cabeza) /\ p \in Nat \ {0} /\ h \in DOMAIN hdr /\ hdr[h].libre = 0
      /\ hdr[h].tam \in Nat
  BY BloqueDe DEF Inv, IMonton
<1>h. p = Datos(h) BY <1>1 DEF Datos
<1> HIDE DEF h
<1>2. /\ Lista(hdr', cabeza) /\ Unidades(hdr') = Unidades(hdr)
      /\ EnUso(hdr') = EnUso(hdr) \ {h} /\ \A a \in EnUso(hdr) \ {h} : hdr'[a].tam = hdr[a].tam
  BY <1>a, <1>1, FusionadoLista
<1>3. h \in EnUso(hdr) /\ h \notin EnUso(hdr') /\ EnUso(hdr) = EnUso(hdr') \cup {h}
  <2>1. h \in EnUso(hdr) BY <1>1 DEF EnUso
  <2> QED BY <1>2, <2>1
<1>4. /\ Finito(hdr')
      /\ Cardinality(Llenas(hdr')) \in Nat /\ Cardinality(Llenas(hdr)) = Cardinality(Llenas(hdr')) + hdr[h].tam
      /\ Cardinality(EnUso(hdr')) \in Nat /\ Cardinality(EnUso(hdr)) = Cardinality(EnUso(hdr')) + 1
  <2>1. \A a \in EnUso(hdr') : hdr[a].tam = hdr'[a].tam BY <1>2
  <2>2. UnoMasEnUso(hdr', hdr, h) BY <1>3, <2>1 DEF UnoMasEnUso
  <2>3. Finito(hdr') \/ Finito(hdr) BY <1>b DEF ISumas, Finito
  <2>4. Lista(hdr, cabeza) BY <1>1
  <2> DEFINE g == hdr'  r == hdr
  <2> HIDE DEF g, r
  <2>5. UnoMasEnUso(g, r, h) /\ Lista(r, cabeza) /\ (Finito(g) \/ Finito(r)) BY ONLY <2>2, <2>3, <2>4 DEF g, r
  <2>6. /\ Finito(g) /\ Finito(r)
        /\ Cardinality(Llenas(g)) \in Nat /\ Cardinality(Llenas(r)) = Cardinality(Llenas(g)) + r[h].tam
        /\ Cardinality(EnUso(g)) \in Nat /\ Cardinality(EnUso(r)) = Cardinality(EnUso(g)) + 1
    BY ONLY <2>5, UnoMas
  <2> QED BY ONLY <2>6 DEF g, r
<1>5. ISumas'
  <2> DEFINE x == Cardinality(Llenas(hdr'))  y == Cardinality(EnUso(hdr'))
  <2>1. bytes_en_uso' = x /\ bloques_activos' = y
    <3>1. bytes_en_uso = x + hdr[h].tam /\ bloques_activos = y + 1 BY <1>b, <1>4 DEF ISumas
    <3>2. x \in Nat /\ y \in Nat BY <1>4
    <3> HIDE DEF x, y
    <3> QED BY <1>a, <1>1, <3>1, <3>2 DEF Resta
  <2> QED BY <1>b, <1>2, <1>4, <2>1 DEF ISumas, Finito
<1>6. IDuenos'
  <2> SUFFICES ASSUME NEW a \in EnUso(hdr') PROVE Datos(a) \in DOMAIN punteros' BY DEF IDuenos, Datos
  <2>1. a \in EnUso(hdr) /\ a # h /\ a \in DOMAIN hdr BY <1>2 DEF EnUso
  <2>2. a \in Nat /\ h \in Nat BY <1>1, <2>1, CamposDe DEF Lista
  <2>3. Datos(a) # p BY <1>h, <2>1, <2>2 DEF Datos
  <2>4. Datos(a) \in DOMAIN punteros BY <1>b, <2>1 DEF IDuenos
  <2> QED BY <1>a, <2>3, <2>4
<1>7. IPaginas' BY <1>b DEF IPaginas
<1> QED BY <1>5, <1>6, <1>7 DEF ICuadra

LEMMA CuadraCrecer == ASSUME Inv, ICuadra, Crecer PROVE ICuadra'
<1> DEFINE m == Obtenidas
           S == {pila[l] : l \in 1..m}
           lo == Min(S)
           k == Dir(lo)
           t == m * TamPagina - Cabecera
<1>a. IPmm /\ ICuentas /\ IMonton /\ ILlamada /\ ISumas /\ IDuenos /\ IPaginas BY DEF Inv, ICuadra
<1>b. /\ pc = "crecer" /\ pila # <<>> /\ pila' = SubSeq(pila, m + 1, Len(pila))
      /\ paginas_libres' = Resta(paginas_libres, m) /\ paginas_en_uso' = paginas_en_uso + m
      /\ AgregarArena(k, m * TamPagina) /\ capacidad' = capacidad + m * TamPagina
      /\ UNCHANGED <<cabeza, bytes_en_uso, bloques_activos, punteros>>
  BY DEF Crecer, BaseArena, AgregarArena, clientes
<1>c. bytes \in Nat \ {0} BY <1>a, <1>b, PedidosAssumption DEF ILlamada
<1>1. m \in 1..Len(pila) /\ lo \in Nat \ {0} /\ S = lo..(lo + m - 1) BY <1>a, <1>b, <1>c, ObtenidasSon
<1> HIDE DEF lo
<1>2. pila \in Seq(Marcos) /\ IsInjective(pila) /\ Len(pila) \in Nat BY <1>a, LenProperties DEF IPmm
<1>3. m \in Nat \ {0} /\ m \in 0..Len(pila) /\ m <= Len(pila) BY <1>1, <1>2
<1> HIDE DEF m
<1>4. \A f \in S : f \in Marcos /\ marco[f] = 1
  <2> SUFFICES ASSUME NEW l \in 1..m PROVE pila[l] \in Marcos /\ marco[pila[l]] = 1 OBVIOUS
  <2>1. l \in 1..Len(pila) /\ pila \in [1..Len(pila) -> Marcos] BY <1>2, <1>3, LenProperties
  <2>2. pila[l] \in Marcos /\ pila[l] \in Range(pila) BY <2>1 DEF Range
  <2> QED BY <1>a, <2>2 DEF IPmm
<1>5. Len(pila') = Len(pila) - m
  <2>1. SinPrimeros(pila, m, pila') BY <1>b DEF SinPrimeros
  <2>2. Len(pila') = Len(pila) - m /\ pila' \in Seq(Marcos) BY <1>2, <1>3, <2>1, QuitaPrimeros
  <2> QED BY <2>2
<1>6. PICK u \in DOMAIN hdr : Agrega(hdr, hdr', u, k, t)
  <2>1. \A f \in lo..(lo + m - 1) : f \in Marcos /\ marco[f] = 1 BY <1>1, <1>4
  <2> QED BY <1>a, <1>b, <1>1, <1>3, <2>1, CreceLista
<1>7. k \in Nat /\ t \in Nat /\ Cabecera + t = m * TamPagina /\ m * TamPagina \in Nat
  <2>1. k \in Nat \ {0} /\ t \in Nat \ {0} BY <1>6 DEF Agrega
  <2>2. m * TamPagina \in Nat BY <1>3
  <2> QED BY <2>1, <2>2
<1> HIDE DEF k, S
<1>8. /\ \A x \in Unidades(hdr') : x \in Unidades(hdr) \/ (k <= x /\ x < k + Cabecera + t)
      /\ \A x \in Nat : x \in Unidades(hdr) \/ (k <= x /\ x < k + Cabecera + t) => x \in Unidades(hdr')
      /\ MismoUso(hdr, hdr')
  BY <1>a, <1>6, AgregaLista DEF IMonton
<1>9. /\ IsFiniteSet(Unidades(hdr'))
      /\ Cardinality(Unidades(hdr')) = Cardinality(Unidades(hdr)) + m * TamPagina
  <2> DEFINE n == m * TamPagina  A == Unidades(hdr)  B == Unidades(hdr')
  <2>1. k + Cabecera + t = k + n BY <1>7
  <2> HIDE DEF t
  <2>2. A \subseteq Nat /\ B \subseteq Nat BY DEF Unidades
  <2>3. B = A \cup Tramo(k, n) BY <1>8, <2>1, <2>2 DEF Tramo
  <2>4. \A x \in Tramo(k, n) : x \notin A BY <1>6, <2>1 DEF Agrega, Tramo
  <2>5. IsFiniteSet(A) /\ n \in Nat BY <1>a, <1>7 DEF ISumas
  <2> HIDE DEF A, B, n
  <2>6. IsFiniteSet(B) /\ Cardinality(B) = Cardinality(A) + n BY <1>7, <2>3, <2>4, <2>5, MasTramo
  <2> QED BY <2>6 DEF A, B, n
<1>10. ISumas' BY <1>a, <1>b, <1>8, <1>9, MismasLlenas DEF ISumas
<1>11. IDuenos' BY <1>a, <1>b, <1>8, MismasLlenas DEF IDuenos, Datos
<1>12. IPaginas'
  <2>1. Len(Usables) \in Nat BY UsablesAssumption, LenProperties
  <2> DEFINE a == Len(pila)  n == Len(Usables)
  <2>2. /\ a \in Nat /\ m \in Nat /\ m <= a /\ n \in Nat
        /\ paginas_libres = a /\ paginas_en_uso = n - a
    BY <1>a, <1>2, <1>3, <2>1 DEF IPaginas
  <2> HIDE DEF a, n
  <2>3. Resta(a, m) = a - m /\ (n - a) + m = n - (a - m) BY <2>2 DEF Resta
  <2>4. paginas_libres' = a - m /\ paginas_en_uso' = n - (a - m) BY <1>b, <2>2, <2>3
  <2> QED BY <1>5, <2>4 DEF IPaginas, a, n
<1> QED BY <1>10, <1>11, <1>12 DEF ICuadra

LEMMA CuadraAsignarPagina == ASSUME Inv, ICuadra, AsignarPagina PROVE ICuadra'
<1>a. /\ pila # <<>> /\ pila' = Tail(pila)
      /\ paginas_libres' = Resta(paginas_libres, 1) /\ paginas_en_uso' = paginas_en_uso + 1
      /\ UNCHANGED <<hdr, cabeza, capacidad, bytes_en_uso, bloques_activos, punteros>>
  BY DEF AsignarPagina, heap
<1>b. ISumas /\ IDuenos /\ IPaginas /\ pila \in Seq(Marcos) BY DEF ICuadra, Inv, IPmm
<1>1. Len(pila) \in Nat \ {0} /\ Len(pila') = Len(pila) - 1
  BY <1>a, <1>b, LenProperties, EmptySeq, HeadTailProperties
<1>2. Len(Usables) \in Nat BY UsablesAssumption, LenProperties
<1>3. IPaginas' BY <1>a, <1>b, <1>1, <1>2 DEF IPaginas, Resta
<1>4. ISumas' /\ IDuenos' BY <1>a, <1>b DEF ISumas, IDuenos
<1> QED BY <1>3, <1>4 DEF ICuadra

LEMMA CuadraLiberarPagina == ASSUME Inv, ICuadra, NEW f \in Marcos, LiberarPagina(f) PROVE ICuadra'
<1>a. /\ f \in paginas /\ pila' = <<f>> \o pila
      /\ paginas_libres' = paginas_libres + 1 /\ paginas_en_uso' = Resta(paginas_en_uso, 1)
      /\ UNCHANGED <<hdr, cabeza, capacidad, bytes_en_uso, bloques_activos, punteros>>
  BY DEF LiberarPagina, heap
<1>b. ISumas /\ IDuenos /\ IPaginas /\ IPmm BY DEF ICuadra, Inv
<1>1. /\ pila \in Seq(Marcos) /\ IsInjective(pila) /\ f \notin Range(pila) BY <1>a, <1>b DEF IPmm
<1>2. Len(pila') = Len(pila) + 1
  <2>1. ConPrimero(f, pila, pila') BY <1>a DEF ConPrimero
  <2>2. pila' \in Seq(Marcos) /\ Len(pila') = Len(pila) + 1 BY <1>1, <2>1, PonePrimero
  <2> QED BY <2>2
<1>3. Len(pila) \in Nat /\ Len(Usables) \in Nat /\ Len(pila) < Len(Usables) BY <1>a, <1>b, PilaCorta
<1>4. IPaginas'
  <2> DEFINE a == Len(pila)  n == Len(Usables)
  <2>1. a \in Nat /\ n \in Nat /\ a < n BY <1>3
  <2>2. paginas_libres = a /\ paginas_en_uso = n - a BY <1>b DEF IPaginas
  <2> HIDE DEF a, n
  <2>3. Resta(n - a, 1) = n - (a + 1) BY <2>1 DEF Resta
  <2>4. paginas_libres' = a + 1 /\ paginas_en_uso' = n - (a + 1) BY <1>a, <2>2, <2>3
  <2> QED BY <1>2, <2>4 DEF IPaginas, a, n
<1>5. ISumas' /\ IDuenos' BY <1>a, <1>b DEF ISumas, IDuenos
<1> QED BY <1>4, <1>5 DEF ICuadra

\* Calls that begin, go on or fail, and a pointer that shrinks in its place.
LEMMA CuadraIgual ==
  ASSUME ICuadra, DOMAIN punteros' = DOMAIN punteros,
         UNCHANGED <<pila, paginas_libres, paginas_en_uso, hdr, capacidad, bytes_en_uso, bloques_activos>>
  PROVE  ICuadra'
<1>1. ISumas' /\ IPaginas' BY DEF ICuadra, ISumas, IPaginas
<1>2. IDuenos' BY DEF ICuadra, IDuenos, Datos
<1> QED BY <1>1, <1>2 DEF ICuadra

LEMMA NextCuadra == ASSUME Inv, ICuadra, [Next]_vars PROVE ICuadra'
<1>1. CASE AsignarPagina BY <1>1, CuadraAsignarPagina
<1>2. CASE \E f \in Marcos : LiberarPagina(f) BY <1>2, CuadraLiberarPagina
<1>3. CASE \E n \in Pedidos : Asignar(n) BY <1>3, CuadraIgual DEF Asignar, pmm, heap, clientes
<1>4. CASE \E n \in Pedidos : \E p \in DOMAIN punteros : Reasignar(p, n)
  <2>1. PICK n \in Pedidos, p \in DOMAIN punteros : Reasignar(p, n) BY <1>4
  <2>2. UNCHANGED <<pmm, heap>> /\ (punteros' = [punteros EXCEPT ![p] = n] \/ punteros' = punteros)
    BY <2>1 DEF Reasignar
  <2> QED BY <2>2, CuadraIgual DEF pmm, heap
<1>5. CASE \E p \in DOMAIN punteros : Liberar(p)
  <2>1. PICK p \in DOMAIN punteros : Liberar(p) BY <1>5
  <2> QED BY <2>1, LiberarBloqueCuadra DEF Liberar, pmm
<1>6. CASE Tomar BY <1>6, CuadraTomar
<1>7. CASE Seguir BY <1>7, CuadraIgual DEF Seguir, pmm, heap, clientes
<1>8. CASE Crecer BY <1>8, CuadraCrecer
<1>9. CASE Fracasar BY <1>9, CuadraIgual DEF Fracasar, pmm, heap, clientes
<1>10. CASE Mover
  <2>1. viejo \in DOMAIN punteros BY <1>10 DEF Mover, Inv, ILlamada
  <2> QED BY <1>10, <2>1, LiberarBloqueCuadra DEF Mover, pmm
<1>11. CASE UNCHANGED vars BY <1>11, CuadraIgual DEF vars, pmm, heap, clientes
<1> QED BY <1>1, <1>2, <1>3, <1>4, <1>5, <1>6, <1>7, <1>8, <1>9, <1>10, <1>11 DEF Next, Paso

LEMMA Cuadra == Spec => [](Inv /\ ICuadra)
<1>1. Inv /\ ICuadra /\ [Next]_vars => (Inv /\ ICuadra)' BY NextInv, NextCuadra
<1>2. Init => Inv /\ ICuadra BY InitInv, InitCuadra
<1> QED BY <1>1, <1>2, PTL DEF Spec

\* A live pointer and its block.
LEMMA UnoPorPuntero ==
  ASSUME Inv, ICuadra
  PROVE  Cardinality(DOMAIN punteros) = Cardinality(EnUso(hdr))
<1> DEFINE P == DOMAIN punteros  E == EnUso(hdr)
           f == [h \in E |-> Datos(h)]
<1>a. IMonton /\ IPunteros /\ IsFiniteSet(E) BY DEF Inv, ICuadra, ISumas
<1>b. \A h \in E : h \in Nat /\ Datos(h) \in P
  <2>1. \A h \in E : h \in DOMAIN hdr BY DEF EnUso
  <2>2. Bloques(hdr, cabeza) BY <1>a DEF IMonton, Lista
  <2> QED BY <2>1, <2>2, CamposDe DEF ICuadra, IDuenos
<1>c. ASSUME NEW p \in P PROVE p - Cabecera \in E /\ Datos(p - Cabecera) = p
  <2>1. p \in Nat \ {0} /\ p - Cabecera \in DOMAIN hdr /\ hdr[p - Cabecera].libre = 0 BY <1>a, BloqueDe
  <2> QED BY <2>1 DEF EnUso, Datos
<1>1. f \in [E -> P] BY <1>b
<1>2. \A g, h \in E : f[g] = f[h] => g = h BY <1>b DEF Datos
<1>3. \A p \in P : \E h \in E : f[h] = p BY <1>c
<1> HIDE DEF P, E, f
<1>4. f \in Bijection(E, P) BY <1>1, <1>2, <1>3 DEF Bijection, Injection, Surjection, IsInjective
<1>5. ExistsBijection(E, P) BY <1>4 DEF ExistsBijection
<1>6. Cardinality(P) = Cardinality(E) BY <1>a, <1>5, FS_Bijection
<1> QED BY <1>6 DEF P, E

LEMMA InvCuentasExactas == ASSUME Inv, ICuadra PROVE CuentasExactas
<1>1. ISumas /\ IPaginas BY DEF ICuadra
<1>2. Memoria(hdr) = Unidades(hdr) /\ MemoriaEnUso(hdr) = Llenas(hdr)
  BY MemoriaEs DEF Inv, IMonton, Lista
<1>3. Cardinality(DOMAIN punteros) = Cardinality(EnUso(hdr)) BY UnoPorPuntero
<1> QED BY <1>1, <1>2, <1>3 DEF ISumas, IPaginas, CuentasExactas

-----------------------------------------------------------------------------
(* What the invariant says.                                                 *)

\* Every frame a block lies in holds one of its units.
LEMMA UnidadDeMarco ==
  ASSUME Lista(hdr, cabeza), NEW h \in DOMAIN hdr, NEW f \in MarcosDe(h)
  PROVE  \E x \in Unidades(hdr) : x \div TamPagina = f
<1> DEFINE z == Fin(h) - 1
<1>1. h \in Nat \ {0} /\ hdr[h].tam \in Nat \ {0} BY CamposDe DEF Lista
<1>2. z \in Nat /\ h <= z /\ z < h + Cabecera + hdr[h].tam BY <1>1 DEF Fin
<1>3. TamPagina \in Nat \ {0} OBVIOUS
<1>4. f \in (h \div TamPagina)..(z \div TamPagina) BY DEF MarcosDe
<1> HIDE DEF z
<1>5. h \div TamPagina \in Nat /\ z \div TamPagina \in Nat BY <1>1, <1>2, <1>3, Cociente
<1>6. f \in Nat /\ h \div TamPagina <= f /\ f <= z \div TamPagina BY <1>4, <1>5
<1>7. CASE f = h \div TamPagina
  <2>1. h \in Unidades(hdr) BY <1>1 DEF Unidades
  <2> QED BY <1>7, <2>1
<1>8. CASE f # h \div TamPagina
  <2> DEFINE x == f * TamPagina
  <2>1. x \in Nat BY <1>6
  <2>2. ~(f <= h \div TamPagina) BY <1>5, <1>6, <1>8
  <2>3. ~(x <= h) /\ x <= z /\ x \div TamPagina = f
    <3>1. f <= h \div TamPagina <=> x <= h BY <1>1, <1>3, <1>6, Cociente
    <3>2. f <= z \div TamPagina <=> x <= z BY <1>2, <1>3, <1>6, Cociente
    <3>3. x \div TamPagina = f BY <1>1, <1>3, <1>6, Cociente
    <3> HIDE DEF x
    <3> QED BY <1>6, <2>2, <3>1, <3>2, <3>3
  <2> HIDE DEF x
  <2>4. h <= x /\ x < h + Cabecera + hdr[h].tam BY <1>1, <1>2, <2>1, <2>3
  <2>5. x \in Unidades(hdr) BY <2>1, <2>4 DEF Unidades
  <2> QED BY <2>3, <2>5
<1> QED BY <1>7, <1>8

LEMMA InvTipo == ASSUME Inv PROVE TypeOK
<1>1. Bloques(hdr, cabeza) BY DEF Inv, IMonton, Lista
<1>2. \A h \in DOMAIN hdr :
        hdr[h] \in [libre : {0, 1}, tam : Nat \ {0}, siguiente : Nodos, anterior : Nodos]
  BY <1>1 DEF Bloques, Registro, Nodos
<1>3. cabeza \in DOMAIN hdr BY <1>1 DEF Bloques
<1> QED BY <1>2, <1>3 DEF Inv, IPmm, ICuentas, ILlamada, TypeOK

LEMMA InvSinSolape == ASSUME Inv PROVE SinSolape
<1>a. IPmm /\ Lista(hdr, cabeza) /\ IMonton /\ IPunteros BY DEF Inv, IMonton
<1>1. \A g, h \in DOMAIN hdr : g < h => Fin(g) <= h BY <1>a DEF Lista, Separada, Fin
<1>2. \A p \in DOMAIN punteros :
        /\ p - Cabecera \in DOMAIN hdr
        /\ hdr[p - Cabecera].libre = 0 /\ hdr[p - Cabecera].tam >= punteros[p]
  BY <1>a DEF IPunteros
<1>3. \A h \in DOMAIN hdr : \A f \in MarcosDe(h) :
        f \in ArenaInicial \/ (f \in Marcos /\ marco[f] = 2 /\ f \notin paginas)
  <2> SUFFICES ASSUME NEW h \in DOMAIN hdr, NEW f \in MarcosDe(h) PROVE DelMonton(f) BY DEF DelMonton
  <2>1. PICK x \in Unidades(hdr) : x \div TamPagina = f BY <1>a, UnidadDeMarco
  <2>2. DelMonton(x \div TamPagina) BY <1>a DEF IMonton
  <2> QED BY <2>1, <2>2
<1>4. /\ IsInjective(pila) /\ Range(pila) = {f \in Marcos : marco[f] = 1}
      /\ \A f \in paginas : marco[f] = 2
  BY <1>a DEF IPmm
<1> QED BY <1>1, <1>2, <1>3, <1>4 DEF SinSolape

LEMMA InvListaIntegra == ASSUME Inv PROVE ListaIntegra
BY DEF Inv, IMonton, Lista, Enlazada, ListaIntegra

\* memoria.c: the headers are always records of a list of blocks, the stack
\* holds usable frames and every counter is a natural number, for any map of
\* memory and any sequence of calls.
THEOREM TypeOKCorrecto == Spec => []TypeOK
BY Invariante, InvTipo, PTL

\* memoria.c: the heap, the clients of the heap and those of the PMM never hold
\* the same memory, however blocks are split, joined and moved and however the
\* heap grows into the frames that come out of the stack.
THEOREM SinSolapeCorrecto == Spec => []SinSolape
BY Invariante, InvSinSolape, PTL

\* memoria_verificar_integridad never finds a broken list: asignar_memoria,
\* liberar_memoria, reasignar_memoria and heap_agregar_arena keep the links
\* forward and back in agreement.
THEOREM ListaIntegraCorrecta == Spec => []ListaIntegra
BY Invariante, InvListaIntegra, PTL

\* asignar_memoria: the heap grows, and NULL is returned, only when no free
\* block of the whole list is large enough, also after a growth that fell short.
THEOREM FracasoJustoCorrecto == Spec => []FracasoJusto
<1>1. Inv => FracasoJusto BY DEF Inv
<1> QED BY <1>1, Invariante, PTL

\* memoria_obtener_estadisticas: the bytes, blocks and pages it reports are
\* exactly those in the hands of clients, and the blocks of the list fill every
\* arena the heap ever added, so no call loses or counts memory twice.
THEOREM CuentasExactasCorrectas == Spec => []CuentasExactas
BY Cuadra, InvCuentasExactas, PTL

=============================================================================
