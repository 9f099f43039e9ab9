---------------------------- MODULE PuertoProof ----------------------------
(***************************************************************************)
(* Proofs about Puerto, for every number of threads and pages, every size  *)
(* of block and every length of table.                                     *)
(***************************************************************************)
EXTENDS Puerto, FiniteSetTheorems, SequenceTheorems, WellFoundedInduction, TLAPS

(***************************************************************************)
(* The inductive invariant.                                                *)
(***************************************************************************)
(* A free entry has nothing; a taken one lies in its block, whose entries  *)
(* are all taken and agree on it, and something in the block is held.      *)
Vacia(p) == head[p] = 0 /\ ref[p] = 0 /\ pins[p] = 0 /\ maps[p] = 0

EnBloque(p) ==
    /\ head[p] \in Pags /\ p \in Bloque(p) /\ Bloque(p) \subseteq Pags
    /\ \A q \in Bloque(p) : estado[q] = 1 /\ head[q] = head[p] /\ tam[q] = tam[p]

Sujeto(p) == \E q \in Bloque(p) : ref[q] > 0 \/ pins[q] > 0 \/ maps[q] > 0

IPool ==
    /\ \A p \in Pags : estado[p] = 0 => Vacia(p)
    /\ \A p \in Pags : estado[p] = 1 => EnBloque(p) /\ Sujeto(p)

(* Where a thread is and what its array and its table hold.                *)
ILote(h) ==
    /\ tiene[Lote(h)] \subseteq DOMAIN lista[Lote(h)] /\ Len(lista[Lote(h)]) <= MaxLista
    /\ pc[h] /= "sueltaLote" => tiene[Lote(h)] = DOMAIN lista[Lote(h)]
    /\ pc[h] \in {"lote", "colocaLote"} => Len(lista[Lote(h)]) < quiere[h]
    /\ pc[h] = "coloca" => pide[h] \in Tamanos

ITabla(h) ==
    /\ tiene[Tabla(h)] \subseteq DOMAIN lista[Tabla(h)] /\ Len(lista[Tabla(h)]) <= MaxLista
    /\ pc[h] \in {"arreglo", "refs", "sueltaTabla", "sueltaSgl", "mapea", "desmapea"} => lista[Tabla(h)] /= <<>>
    /\ pc[h] \notin {"arreglo", "refs", "sueltaTabla", "sueltaSgl"} => tiene[Tabla(h)] = DOMAIN lista[Tabla(h)]
    /\ pc[h] \in {"arreglo", "sueltaSgl"} => tiene[Tabla(h)] = {}
    /\ pc[h] = "refs" => tiene[Tabla(h)] /= DOMAIN lista[Tabla(h)]
    /\ pc[h] \in {"arreglo", "refs"} => \A k \in DOMAIN lista[Tabla(h)] : lista[Tabla(h)][k] \in Suyas(h)

IMapa(h) ==
    /\ inicios[h] \subseteq DOMAIN lista[Tabla(h)] /\ mapeadas[h] \subseteq inicios[h]
    /\ lista[Tabla(h)] /= <<>> => 1 \in inicios[h]
    /\ pc[h] \in {"arreglo", "refs", "sueltaTabla", "sueltaSgl"} => mapeadas[h] = {}
    /\ pc[h] = "mapea" => mapeadas[h] /= inicios[h]

IControl == \A h \in Hilos : ILote(h) /\ ITabla(h) /\ IMapa(h)

IHeap == bloques = Cardinality(Cabezas) + Cardinality(Brutos) + Cardinality(Lotes)
                      + Cardinality(Tablas) + Cardinality(Arreglos)

Inv == TypeOK /\ IPool /\ IControl /\ IHeap /\ CuentasDePagina

(***************************************************************************)
(* Facts about sets.                                                       *)
(***************************************************************************)
LEMMA PrimeroEsta ==
  ASSUME NEW S \in SUBSET Nat, S # {}
  PROVE  Primero(S) \in S
<1> DEFINE R == OpToRel(<, Nat)
<1>1. IsWellFoundedOn(R, Nat) BY NatLessThanWellFounded
<1>2. R = {x \in Nat \X Nat : x[1] < x[2]} BY DEF OpToRel
<1> HIDE DEF R
<1>3. PICK m \in S : \A u \in S : <<u, m>> \notin R BY <1>1, WFMin
<1>4. \A u \in S : m <= u
  <2> SUFFICES ASSUME NEW u \in S PROVE m <= u OBVIOUS
  <2>1. m \in Nat /\ u \in Nat OBVIOUS
  <2>2. ~(u < m) BY <1>2, <1>3, <2>1
  <2> QED BY <2>1, <2>2
<1> QED BY <1>4 DEF Primero

LEMMA UnoMas ==
  ASSUME NEW S, NEW x, IsFiniteSet(S), x \notin S
  PROVE  Cardinality(S \cup {x}) = Cardinality(S) + 1
BY FS_AddElement

LEMMA UnoMenos ==
  ASSUME NEW S, NEW x, IsFiniteSet(S), x \in S
  PROVE  Cardinality(S \ {x}) = Cardinality(S) - 1
BY FS_RemoveElement

LEMMA HayAlguno ==
  ASSUME NEW S, NEW x, IsFiniteSet(S), x \in S
  PROVE  Cardinality(S) \in Nat /\ Cardinality(S) > 0
<1>1. Cardinality(S) \in Nat BY FS_CardinalityType
<1>2. Cardinality(S) # 0 BY FS_EmptySet
<1> QED BY <1>1, <1>2

(***************************************************************************)
(* The table of pages.                                                     *)
(***************************************************************************)
TPool ==
    /\ estado \in [Pags -> {0, 1}] /\ head \in [Pags -> Pags \cup {0}] /\ tam \in [Pags -> Nat \ {0}]
    /\ ref \in [Pags -> Nat] /\ pins \in [Pags -> Nat] /\ maps \in [Pags -> Nat]

LEMMA CabezasFinitas == IsFiniteSet(Cabezas) /\ Cardinality(Cabezas) \in Nat
<1>1. IsFiniteSet(Pags) BY PuertoAssumption, FS_Interval DEF Pags
<1>2. Cabezas \in SUBSET Pags BY DEF Cabezas
<1>3. IsFiniteSet(Cabezas) BY <1>1, <1>2, FS_Subset
<1> QED BY <1>3, FS_CardinalityType

(* Two blocks are the same or have no entry in common. *)
LEMMA BloquesAparte ==
  ASSUME TPool, IPool, NEW p \in Pags, estado[p] = 1, NEW q \in Pags, estado[q] = 1, q \notin Bloque(p)
  PROVE  Bloque(q) \cap Bloque(p) = {}
<1> SUFFICES ASSUME NEW x \in Bloque(q), x \in Bloque(p) PROVE FALSE OBVIOUS
<1>1. head[x] = head[q] /\ tam[x] = tam[q] BY DEF IPool, EnBloque
<1>2. head[x] = head[p] /\ tam[x] = tam[p] BY DEF IPool, EnBloque
<1>3. q \in Bloque(q) BY DEF IPool, EnBloque
<1> QED BY <1>1, <1>2, <1>3 DEF Bloque

LEMMA CabezaDe ==
  ASSUME TPool, IPool, NEW p \in Pags, estado[p] = 1
  PROVE  /\ head[p] \in Cabezas /\ head[p] \in Bloque(p) /\ Bloque(p) \subseteq Pags
         /\ Cabezas \cap Bloque(p) = {head[p]}
<1>1. head[p] \in Pags /\ p \in Bloque(p) /\ Bloque(p) \subseteq Pags BY DEF IPool, EnBloque
<1>2. \A q \in Bloque(p) : estado[q] = 1 /\ head[q] = head[p] BY DEF IPool, EnBloque
<1>3. head[p] \in Bloque(p)
  <2>1. head[p] \in Nat /\ tam[p] \in Nat \ {0} BY <1>1 DEF TPool, Pags
  <2> QED BY <2>1 DEF Bloque
<1> QED BY <1>1, <1>2, <1>3 DEF Cabezas

(* What i915_evaluar_liberacion_bloque_locked keeps: a block that goes     *)
(* back had no counts left, so the counts are r, pi and ma either way.     *)
LEMMA EvaluarPool ==
  ASSUME TPool, IPool, bloques \in Int, NEW p \in Pags, estado[p] = 1,
         NEW r \in [Pags -> Nat], NEW pi \in [Pags -> Nat], NEW ma \in [Pags -> Nat],
         \A j \in Pags \ Bloque(p) : r[j] = ref[j] /\ pi[j] = pins[j] /\ ma[j] = maps[j],
         Evaluar(p, r, pi, ma)
  PROVE  /\ ref' = r /\ pins' = pi /\ maps' = ma
         /\ TPool' /\ IPool'
         /\ bloques' - Cardinality(Cabezas)' = bloques - Cardinality(Cabezas)
         /\ bloques' \in Int
<1>1. p \in Bloque(p) /\ Bloque(p) \subseteq Pags BY CabezaDe DEF IPool, EnBloque
<1>2. \A q \in Bloque(p) : estado[q] = 1 /\ Bloque(q) = Bloque(p) BY DEF IPool, EnBloque, Bloque
<1>3. \A q \in Pags \ Bloque(p) : estado[q] = 1 => Bloque(q) \subseteq Pags /\ Bloque(q) \cap Bloque(p) = {}
  BY BloquesAparte DEF IPool, EnBloque
<1>4. CASE Limpio(p, r, pi, ma)
  <2> DEFINE borra(f) == [j \in Pags |-> IF j \in Bloque(p) THEN 0 ELSE f[j]]
  <2>1. /\ estado' = borra(estado) /\ head' = borra(head) /\ tam' = tam
        /\ ref' = borra(r) /\ pins' = borra(pi) /\ maps' = borra(ma) /\ bloques' = bloques - 1
    BY <1>4 DEF Evaluar
  <2>2. \A j \in Bloque(p) : r[j] = 0 /\ pi[j] = 0 /\ ma[j] = 0 BY <1>4 DEF Limpio
  <2>3. ref' = r /\ pins' = pi /\ maps' = ma
    <3>1. borra(r) = r BY <2>2
    <3>2. borra(pi) = pi BY <2>2
    <3>3. borra(ma) = ma BY <2>2
    <3> QED BY <2>1, <3>1, <3>2, <3>3
  <2>4. \A j \in Pags : j \in Bloque(p) => estado'[j] = 0 /\ head'[j] = 0 BY <2>1
  <2>5. \A j \in Pags : j \notin Bloque(p) => estado'[j] = estado[j] /\ head'[j] = head[j] BY <2>1
  <2>6. TPool' BY <2>1, <2>3 DEF TPool
  <2>7. \A q \in Pags : estado'[q] = 0 => Vacia(q)'
    BY <2>2, <2>3, <2>4, <2>5 DEF Vacia, IPool
  <2>8. ASSUME NEW q \in Pags, estado'[q] = 1 PROVE EnBloque(q)' /\ Sujeto(q)'
    <3>1. q \notin Bloque(p) /\ estado[q] = 1 BY <2>4, <2>5, <2>8
    <3>2. EnBloque(q) /\ Sujeto(q) BY <3>1 DEF IPool
    <3>3. Bloque(q)' = Bloque(q) BY <2>1, <2>5, <3>1 DEF Bloque
    <3>4. \A x \in Bloque(q) : x \in Pags /\ x \notin Bloque(p) BY <1>3, <3>1
    <3>5. EnBloque(q)' BY <2>1, <2>5, <3>1, <3>2, <3>3, <3>4 DEF EnBloque
    <3>6. Sujeto(q)' BY <2>3, <3>2, <3>3, <3>4 DEF Sujeto
    <3> QED BY <3>5, <3>6
  <2>9. IPool' BY <2>7, <2>8 DEF IPool
  <2>10. Cabezas' = Cabezas \ {head[p]} BY <2>4, <2>5, CabezaDe DEF Cabezas
  <2>11. Cardinality(Cabezas') = Cardinality(Cabezas) - 1 BY <2>10, CabezasFinitas, CabezaDe, UnoMenos
  <2>12. Cardinality(Cabezas) \in Nat BY CabezasFinitas
  <2> QED BY <2>1, <2>3, <2>6, <2>9, <2>11, <2>12
<1>5. CASE ~Limpio(p, r, pi, ma)
  <2>1. estado' = estado /\ head' = head /\ tam' = tam /\ bloques' = bloques /\ ref' = r /\ pins' = pi /\ maps' = ma
    BY <1>5 DEF Evaluar
  <2>2. TPool' BY <2>1 DEF TPool
  <2>3. \A q \in Pags : Bloque(q)' = Bloque(q) BY <2>1 DEF Bloque
  <2>4. \A q \in Pags : estado'[q] = 0 => Vacia(q)'
    BY <1>2, <2>1 DEF Vacia, IPool
  <2>5. ASSUME NEW q \in Pags, estado'[q] = 1 PROVE EnBloque(q)' /\ Sujeto(q)'
    <3>1. EnBloque(q)' BY <2>1, <2>3, <2>5 DEF EnBloque, IPool
    <3>2. CASE q \in Bloque(p)
      <4>1. Bloque(q)' = Bloque(p) BY <1>2, <2>3, <3>2
      <4>2. \E j \in Bloque(p) : r[j] # 0 \/ pi[j] # 0 \/ ma[j] # 0 BY <1>5 DEF Limpio
      <4>3. \E j \in Bloque(p) : r[j] > 0 \/ pi[j] > 0 \/ ma[j] > 0 BY <1>1, <4>2
      <4> QED BY <2>1, <3>1, <4>1, <4>3 DEF Sujeto
    <3>3. CASE q \notin Bloque(p)
      <4>1. Bloque(q) \subseteq Pags /\ Bloque(q) \cap Bloque(p) = {} /\ Sujeto(q)
        BY <1>3, <2>1, <2>5, <3>3 DEF IPool
      <4> QED BY <2>1, <2>3, <3>1, <4>1 DEF Sujeto
    <3> QED BY <3>2, <3>3
  <2>6. IPool' BY <2>4, <2>5 DEF IPool
  <2>7. Cabezas' = Cabezas BY <2>1 DEF Cabezas
  <2> QED BY <2>1, <2>2, <2>6, <2>7, CabezasFinitas
<1> QED BY <1>4, <1>5

LEMMA PrimerHueco ==
  ASSUME NEW n \in Nat \ {0}, Huecos(n) # {}
  PROVE  Primero(Huecos(n)) \in Huecos(n) /\ Primero(Huecos(n)) \in Pags
<1>1. Huecos(n) \in SUBSET Nat BY DEF Huecos, Pags
<1>2. Huecos(n) \in SUBSET Pags BY DEF Huecos
<1> QED BY <1>1, <1>2, PrimeroEsta

(* What alloc_pages does to the table: a new block, held at every page.    *)
LEMMA OcuparPool ==
  ASSUME TPool, IPool, bloques \in Int, suma \in Nat, NEW n \in Nat \ {0}, NEW i \in Huecos(n), Ocupar(i, n)
  PROVE  /\ Tramo(i, n) \subseteq Pags /\ i \in Tramo(i, n) /\ \A j \in Tramo(i, n) : estado[j] = 0
         /\ ref' = [j \in Pags |-> IF j \in Tramo(i, n) THEN 1 ELSE ref[j]] /\ pins' = pins /\ maps' = maps
         /\ TPool' /\ IPool'
         /\ Cardinality(Cabezas)' = Cardinality(Cabezas) + 1 /\ bloques' = bloques /\ suma' \in Nat
<1> DEFINE b == Tramo(i, n)
<1>1. i \in Pags /\ b \subseteq Pags /\ i \in b /\ \A j \in b : estado[j] = 0
  BY PuertoAssumption DEF Huecos, Tramo, Pags
<1>2. /\ \A j \in Pags : j \in b => estado'[j] = 1 /\ head'[j] = i /\ tam'[j] = n /\ ref'[j] = 1
      /\ \A j \in Pags : j \notin b => estado'[j] = estado[j] /\ head'[j] = head[j] /\ tam'[j] = tam[j] /\ ref'[j] = ref[j]
      /\ ref' = [j \in Pags |-> IF j \in b THEN 1 ELSE ref[j]]
      /\ bloques' = bloques /\ suma' = suma + n
  BY DEF Ocupar
<1>3. \A j \in b : Vacia(j) BY <1>1 DEF IPool
<1>4. pins' = pins
  <2>1. pins' = [j \in Pags |-> IF j \in b THEN 0 ELSE pins[j]] BY DEF Ocupar
  <2>2. \A j \in b : pins[j] = 0 BY <1>3 DEF Vacia
  <2> QED BY <2>1, <2>2 DEF TPool
<1>5. maps' = maps
  <2>1. maps' = [j \in Pags |-> IF j \in b THEN 0 ELSE maps[j]] BY DEF Ocupar
  <2>2. \A j \in b : maps[j] = 0 BY <1>3 DEF Vacia
  <2> QED BY <2>1, <2>2 DEF TPool
<1>6. TPool'
  <2>1. estado' \in [Pags -> {0, 1}] BY DEF Ocupar, TPool
  <2>2. head' \in [Pags -> Pags \cup {0}] BY <1>1 DEF Ocupar, TPool
  <2>3. tam' \in [Pags -> Nat \ {0}] BY DEF Ocupar, TPool
  <2>4. ref' \in [Pags -> Nat] BY <1>2 DEF TPool
  <2> QED BY <1>4, <1>5, <2>1, <2>2, <2>3, <2>4 DEF TPool
<1>7. \A q \in b : Bloque(q)' = b BY <1>1, <1>2 DEF Bloque, Tramo
<1>8. \A q \in Pags \ b : Bloque(q)' = Bloque(q) BY <1>2 DEF Bloque
<1>9. \A q \in Pags \ b : estado[q] = 1 => Bloque(q) \subseteq Pags /\ Bloque(q) \cap b = {}
  <2>1. \A q \in Pags : estado[q] = 1 => Bloque(q) \subseteq Pags /\ \A x \in Bloque(q) : estado[x] = 1
    BY DEF IPool, EnBloque
  <2> QED BY <1>1, <2>1
<1>10. \A q \in Pags : estado'[q] = 0 => Vacia(q)'
  <2> SUFFICES ASSUME NEW q \in Pags, estado'[q] = 0 PROVE Vacia(q)' OBVIOUS
  <2>1. q \notin b BY <1>2
  <2>2. Vacia(q) BY <1>2, <2>1 DEF IPool
  <2> QED BY <1>2, <1>4, <1>5, <2>1, <2>2 DEF Vacia
<1>11. ASSUME NEW q \in Pags, estado'[q] = 1 PROVE EnBloque(q)' /\ Sujeto(q)'
  <2>1. CASE q \in b
    <3>1. EnBloque(q)' BY <1>1, <1>2, <1>7, <2>1 DEF EnBloque
    <3>2. Sujeto(q)' BY <1>1, <1>2, <1>7, <2>1 DEF Sujeto
    <3> QED BY <3>1, <3>2
  <2>2. CASE q \notin b
    <3>1. estado[q] = 1 /\ EnBloque(q) /\ Sujeto(q) BY <1>2, <1>11, <2>2 DEF IPool
    <3>2. \A x \in Bloque(q) : x \in Pags /\ x \notin b BY <1>9, <2>2, <3>1
    <3>3. EnBloque(q)' BY <1>2, <1>8, <2>2, <3>1, <3>2 DEF EnBloque
    <3>4. Sujeto(q)' BY <1>2, <1>4, <1>5, <1>8, <2>2, <3>1, <3>2 DEF Sujeto
    <3> QED BY <3>3, <3>4
  <2> QED BY <2>1, <2>2
<1>12. IPool' BY <1>10, <1>11 DEF IPool
<1>13. Cabezas' = Cabezas \cup {i}
  <2>1. \A q \in Pags : q \in b => (q \in Cabezas' <=> q = i) BY <1>1, <1>2 DEF Cabezas
  <2>2. \A q \in Pags : q \notin b => (q \in Cabezas' <=> q \in Cabezas) BY <1>2 DEF Cabezas
  <2>3. \A q \in Cabezas : q \notin b BY <1>1 DEF Cabezas
  <2>4. Cabezas \subseteq Pags /\ Cabezas' \subseteq Pags BY DEF Cabezas
  <2> QED BY <1>1, <2>1, <2>2, <2>3, <2>4
<1>14. i \notin Cabezas BY <1>1 DEF Cabezas
<1>15. Cardinality(Cabezas') = Cardinality(Cabezas) + 1 BY <1>13, <1>14, CabezasFinitas, UnoMas
<1> QED BY <1>1, <1>2, <1>4, <1>5, <1>6, <1>12, <1>15

(* get_page, i915_page_pin and i915_page_mapear raise a count of a page    *)
(* that is taken; the other steps that are not above leave the table.      *)
LEMMA MasPool ==
  ASSUME TPool, IPool, TPool', UNCHANGED <<estado, head, tam>>,
         \A j \in Pags : ref'[j] >= ref[j] /\ pins'[j] >= pins[j] /\ maps'[j] >= maps[j],
         \A j \in Pags : estado[j] = 0 => ref'[j] = ref[j] /\ pins'[j] = pins[j] /\ maps'[j] = maps[j]
  PROVE  IPool' /\ Cabezas' = Cabezas
<1>1. Cabezas' = Cabezas BY DEF Cabezas
<1>2. \A q \in Pags : Bloque(q)' = Bloque(q) BY DEF Bloque
<1>3. \A q \in Pags : estado'[q] = 0 => Vacia(q)' BY DEF IPool, Vacia
<1>4. ASSUME NEW q \in Pags, estado'[q] = 1 PROVE EnBloque(q)' /\ Sujeto(q)'
  <2>1. EnBloque(q) /\ Sujeto(q) BY <1>4 DEF IPool
  <2>2. EnBloque(q)' BY <1>2, <2>1 DEF EnBloque
  <2>3. PICK j \in Bloque(q) : ref[j] > 0 \/ pins[j] > 0 \/ maps[j] > 0 BY <2>1 DEF Sujeto
  <2>4. j \in Pags BY <2>1, <2>3 DEF EnBloque
  <2>5. ref'[j] > 0 \/ pins'[j] > 0 \/ maps'[j] > 0 BY <2>3, <2>4 DEF TPool
  <2> QED BY <1>2, <2>2, <2>3, <2>5 DEF Sujeto
<1> QED BY <1>1, <1>3, <1>4 DEF IPool

(***************************************************************************)
(* Who holds what.                                                         *)
(***************************************************************************)
TControl ==
    /\ pc \in [Hilos -> Pasos] /\ pide \in [Hilos -> Tamanos \cup {0}] /\ quiere \in [Hilos -> 0 .. MaxLista]
    /\ mias \in [Hilos -> SUBSET Pags] /\ fijas \in [Hilos -> SUBSET Pags]
    /\ lista \in [Asas -> Seq(Pags)] /\ tiene \in [Asas -> SUBSET Lugares]
    /\ inicios \in [Hilos -> SUBSET Lugares] /\ mapeadas \in [Hilos -> SUBSET Lugares]

LEMMA TipoEnDos == TypeOK <=> TPool /\ TControl /\ bloques \in Nat /\ suma \in Nat
BY DEF TypeOK, TPool, TControl

LEMMA HilosFinitos ==
  ASSUME NEW S \in SUBSET Hilos
  PROVE  IsFiniteSet(S) /\ Cardinality(S) \in Nat
<1>1. IsFiniteSet(S) BY PuertoAssumption, FS_Subset
<1> QED BY <1>1, FS_CardinalityType

LEMMA LugaresFinitos == IsFiniteSet(Asas \X Lugares) /\ IsFiniteSet(Hilos \X Lugares)
<1>1. IsFiniteSet(Lugares) BY PuertoAssumption, FS_Interval DEF Lugares
<1>2. IsFiniteSet({"lote", "tabla"})
  <2>1. IsFiniteSet({"lote"}) BY FS_Singleton
  <2>2. IsFiniteSet({"lote"} \cup {"tabla"}) BY <2>1, FS_AddElement
  <2>3. {"lote"} \cup {"tabla"} = {"lote", "tabla"} OBVIOUS
  <2> QED BY <2>2, <2>3
<1>3. IsFiniteSet(Asas) BY <1>2, PuertoAssumption, FS_Product DEF Asas
<1> QED BY <1>1, <1>3, PuertoAssumption, FS_Product

LEMMA EnListasFinito ==
  ASSUME NEW S \in SUBSET (Asas \X Lugares)
  PROVE  IsFiniteSet(S) /\ Cardinality(S) \in Nat
<1>1. IsFiniteSet(S) BY LugaresFinitos, FS_Subset
<1> QED BY <1>1, FS_CardinalityType

LEMMA EntradasFinito ==
  ASSUME NEW S \in SUBSET (Hilos \X Lugares)
  PROVE  IsFiniteSet(S) /\ Cardinality(S) \in Nat
<1>1. IsFiniteSet(S) BY LugaresFinitos, FS_Subset
<1> QED BY <1>1, FS_CardinalityType

LEMMA AsasDe ==
  /\ \A h \in Hilos : Lote(h) \in Asas /\ Tabla(h) \in Asas /\ Lote(h) # Tabla(h)
  /\ \A h, o \in Hilos : /\ Lote(h) = Lote(o) => h = o
                         /\ Tabla(h) = Tabla(o) => h = o
                         /\ Lote(h) # Tabla(o)
BY DEF Asas, Lote, Tabla

Si(b) == IF b THEN 1 ELSE 0

LEMMA DuenosMas ==
  ASSUME TControl, NEW h \in Hilos, NEW P \in SUBSET Pags, P \cap mias[h] = {},
         mias' = [mias EXCEPT ![h] = @ \cup P], NEW q \in Pags
  PROVE  Cardinality(Duenos(q))' = Cardinality(Duenos(q)) + Si(q \in P)
<1>1. IsFiniteSet(Duenos(q)) /\ Cardinality(Duenos(q)) \in Nat BY HilosFinitos DEF Duenos
<1>2. CASE q \in P
  <2>1. Duenos(q)' = Duenos(q) \cup {h} /\ h \notin Duenos(q) BY <1>2 DEF Duenos, TControl
  <2> QED BY <1>1, <1>2, <2>1, UnoMas DEF Si
<1>3. CASE q \notin P
  <2>1. Duenos(q)' = Duenos(q) BY <1>3 DEF Duenos, TControl
  <2> QED BY <1>1, <1>3, <2>1 DEF Si
<1> QED BY <1>2, <1>3

LEMMA DuenosMenos ==
  ASSUME TControl, NEW h \in Hilos, NEW P \in SUBSET Pags, P \subseteq mias[h],
         mias' = [mias EXCEPT ![h] = @ \ P], NEW q \in Pags
  PROVE  Cardinality(Duenos(q))' = Cardinality(Duenos(q)) - Si(q \in P)
<1>1. IsFiniteSet(Duenos(q)) /\ Cardinality(Duenos(q)) \in Nat BY HilosFinitos DEF Duenos
<1>2. CASE q \in P
  <2>1. Duenos(q)' = Duenos(q) \ {h} /\ h \in Duenos(q) BY <1>2 DEF Duenos, TControl
  <2> QED BY <1>1, <1>2, <2>1, UnoMenos DEF Si
<1>3. CASE q \notin P
  <2>1. Duenos(q)' = Duenos(q) BY <1>3 DEF Duenos, TControl
  <2> QED BY <1>1, <1>3, <2>1 DEF Si
<1> QED BY <1>2, <1>3

LEMMA FijadoresMas ==
  ASSUME TControl, NEW h \in Hilos, NEW p \in Pags, p \notin fijas[h],
         fijas' = [fijas EXCEPT ![h] = @ \cup {p}], NEW q \in Pags
  PROVE  Cardinality(Fijadores(q))' = Cardinality(Fijadores(q)) + Si(q = p)
<1>1. IsFiniteSet(Fijadores(q)) /\ Cardinality(Fijadores(q)) \in Nat BY HilosFinitos DEF Fijadores
<1>2. CASE q = p
  <2>1. Fijadores(q)' = Fijadores(q) \cup {h} /\ h \notin Fijadores(q) BY <1>2 DEF Fijadores, TControl
  <2> QED BY <1>1, <1>2, <2>1, UnoMas DEF Si
<1>3. CASE q # p
  <2>1. Fijadores(q)' = Fijadores(q) BY <1>3 DEF Fijadores, TControl
  <2> QED BY <1>1, <1>3, <2>1 DEF Si
<1> QED BY <1>2, <1>3

LEMMA FijadoresMenos ==
  ASSUME TControl, NEW h \in Hilos, NEW p \in Pags, p \in fijas[h],
         fijas' = [fijas EXCEPT ![h] = @ \ {p}], NEW q \in Pags
  PROVE  Cardinality(Fijadores(q))' = Cardinality(Fijadores(q)) - Si(q = p)
<1>1. IsFiniteSet(Fijadores(q)) /\ Cardinality(Fijadores(q)) \in Nat BY HilosFinitos DEF Fijadores
<1>2. CASE q = p
  <2>1. Fijadores(q)' = Fijadores(q) \ {h} /\ h \in Fijadores(q) BY <1>2 DEF Fijadores, TControl
  <2> QED BY <1>1, <1>2, <2>1, UnoMenos DEF Si
<1>3. CASE q # p
  <2>1. Fijadores(q)' = Fijadores(q) BY <1>3 DEF Fijadores, TControl
  <2> QED BY <1>1, <1>3, <2>1 DEF Si
<1> QED BY <1>2, <1>3

(* The places with a reference keep their page. *)
Conservadas == \A b \in Asas : \A j \in tiene[b] : lista'[b][j] = lista[b][j]

LEMMA ListasMas ==
  ASSUME TControl, NEW a \in Asas, NEW k \in Lugares, k \notin tiene[a],
         tiene' = [tiene EXCEPT ![a] = @ \cup {k}], Conservadas, NEW q \in Pags
  PROVE  Cardinality(EnListas(q))' = Cardinality(EnListas(q)) + Si(q = lista'[a][k])
<1>1. IsFiniteSet(EnListas(q)) /\ Cardinality(EnListas(q)) \in Nat BY EnListasFinito DEF EnListas
<1>2. \A b \in Asas, j \in Lugares : j \in tiene'[b] <=> j \in tiene[b] \/ (b = a /\ j = k) BY DEF TControl
<1>3. CASE q = lista'[a][k]
  <2>1. EnListas(q)' = EnListas(q) \cup {<<a, k>>} BY <1>2, <1>3 DEF EnListas, Conservadas
  <2>2. <<a, k>> \notin EnListas(q) BY DEF EnListas
  <2> QED BY <1>1, <1>3, <2>1, <2>2, UnoMas DEF Si
<1>4. CASE q # lista'[a][k]
  <2>1. EnListas(q)' = EnListas(q) BY <1>2, <1>4 DEF EnListas, Conservadas
  <2> QED BY <1>1, <1>4, <2>1 DEF Si
<1> QED BY <1>3, <1>4

LEMMA ListasMenos ==
  ASSUME TControl, NEW a \in Asas, NEW k \in Lugares, k \in tiene[a],
         tiene' = [tiene EXCEPT ![a] = @ \ {k}], lista' = lista, NEW q \in Pags
  PROVE  Cardinality(EnListas(q))' = Cardinality(EnListas(q)) - Si(q = lista[a][k])
<1>1. IsFiniteSet(EnListas(q)) /\ Cardinality(EnListas(q)) \in Nat BY EnListasFinito DEF EnListas
<1>2. \A b \in Asas, j \in Lugares : j \in tiene'[b] <=> j \in tiene[b] /\ ~(b = a /\ j = k) BY DEF TControl
<1>3. CASE q = lista[a][k]
  <2>1. EnListas(q)' = EnListas(q) \ {<<a, k>>} BY <1>2, <1>3 DEF EnListas
  <2>2. <<a, k>> \in EnListas(q) BY <1>3 DEF EnListas
  <2> QED BY <1>1, <1>3, <2>1, <2>2, UnoMenos DEF Si
<1>4. CASE q # lista[a][k]
  <2>1. EnListas(q)' = EnListas(q) BY <1>2, <1>4 DEF EnListas
  <2> QED BY <1>1, <1>4, <2>1 DEF Si
<1> QED BY <1>3, <1>4

LEMMA ListasIguales ==
  ASSUME tiene' = tiene, Conservadas, NEW q \in Pags
  PROVE  EnListas(q)' = EnListas(q)
BY DEF EnListas, Conservadas

LEMMA EntradasMas ==
  ASSUME TControl, NEW h \in Hilos, NEW k \in Lugares, k \notin mapeadas[h],
         mapeadas' = [mapeadas EXCEPT ![h] = @ \cup {k}], lista' = lista, NEW q \in Pags
  PROVE  Cardinality(Entradas(q))' = Cardinality(Entradas(q)) + Si(q = lista[Tabla(h)][k])
<1>1. IsFiniteSet(Entradas(q)) /\ Cardinality(Entradas(q)) \in Nat BY EntradasFinito DEF Entradas
<1>2. \A o \in Hilos, j \in Lugares : j \in mapeadas'[o] <=> j \in mapeadas[o] \/ (o = h /\ j = k) BY DEF TControl
<1>3. CASE q = lista[Tabla(h)][k]
  <2>1. Entradas(q)' = Entradas(q) \cup {<<h, k>>} BY <1>2, <1>3 DEF Entradas
  <2>2. <<h, k>> \notin Entradas(q) BY DEF Entradas
  <2> QED BY <1>1, <1>3, <2>1, <2>2, UnoMas DEF Si
<1>4. CASE q # lista[Tabla(h)][k]
  <2>1. Entradas(q)' = Entradas(q) BY <1>2, <1>4 DEF Entradas
  <2> QED BY <1>1, <1>4, <2>1 DEF Si
<1> QED BY <1>3, <1>4

LEMMA EntradasMenos ==
  ASSUME TControl, NEW h \in Hilos, NEW k \in Lugares, k \in mapeadas[h],
         mapeadas' = [mapeadas EXCEPT ![h] = @ \ {k}], lista' = lista, NEW q \in Pags
  PROVE  Cardinality(Entradas(q))' = Cardinality(Entradas(q)) - Si(q = lista[Tabla(h)][k])
<1>1. IsFiniteSet(Entradas(q)) /\ Cardinality(Entradas(q)) \in Nat BY EntradasFinito DEF Entradas
<1>2. \A o \in Hilos, j \in Lugares : j \in mapeadas'[o] <=> j \in mapeadas[o] /\ ~(o = h /\ j = k) BY DEF TControl
<1>3. CASE q = lista[Tabla(h)][k]
  <2>1. Entradas(q)' = Entradas(q) \ {<<h, k>>} BY <1>2, <1>3 DEF Entradas
  <2>2. <<h, k>> \in Entradas(q) BY <1>3 DEF Entradas
  <2> QED BY <1>1, <1>3, <2>1, <2>2, UnoMenos DEF Si
<1>4. CASE q # lista[Tabla(h)][k]
  <2>1. Entradas(q)' = Entradas(q) BY <1>2, <1>4 DEF Entradas
  <2> QED BY <1>1, <1>4, <2>1 DEF Si
<1> QED BY <1>3, <1>4

LEMMA EntradasIguales ==
  ASSUME mapeadas' = mapeadas, NEW q \in Pags,
         \A h \in Hilos : \A k \in mapeadas[h] : lista'[Tabla(h)][k] = lista[Tabla(h)][k]
  PROVE  Entradas(q)' = Entradas(q)
BY DEF Entradas

(* A page that is held is taken, and its count says so.                    *)
LEMMA Sostenida ==
  ASSUME TPool, TControl, IPool, CuentasDePagina, NEW p \in Pags
  PROVE  /\ \A h \in Hilos : p \in mias[h] => ref[p] > 0 /\ estado[p] = 1
         /\ \A a \in Asas : \A k \in tiene[a] : lista[a][k] = p => ref[p] > 0 /\ estado[p] = 1
         /\ \A h \in Hilos : p \in fijas[h] => pins[p] > 0 /\ estado[p] = 1
         /\ \A h \in Hilos : \A k \in mapeadas[h] : lista[Tabla(h)][k] = p => maps[p] > 0 /\ estado[p] = 1
<1>1. /\ ref[p] = Cardinality(Duenos(p)) + Cardinality(EnListas(p))
      /\ pins[p] = Cardinality(Fijadores(p)) /\ maps[p] = Cardinality(Entradas(p))
  BY DEF CuentasDePagina
<1>2. IsFiniteSet(Duenos(p)) /\ Cardinality(Duenos(p)) \in Nat BY HilosFinitos DEF Duenos
<1>3. IsFiniteSet(EnListas(p)) /\ Cardinality(EnListas(p)) \in Nat BY EnListasFinito DEF EnListas
<1>4. IsFiniteSet(Fijadores(p)) /\ Cardinality(Fijadores(p)) \in Nat BY HilosFinitos DEF Fijadores
<1>5. IsFiniteSet(Entradas(p)) /\ Cardinality(Entradas(p)) \in Nat BY EntradasFinito DEF Entradas
<1>6. ref[p] > 0 \/ pins[p] > 0 \/ maps[p] > 0 => estado[p] = 1
  <2>1. estado[p] \in {0, 1} BY DEF TPool
  <2>2. estado[p] = 0 => ref[p] = 0 /\ pins[p] = 0 /\ maps[p] = 0 BY DEF IPool, Vacia
  <2> QED BY <2>1, <2>2
<1>7. ASSUME NEW h \in Hilos, p \in mias[h] PROVE ref[p] > 0
  <2>1. h \in Duenos(p) BY <1>7 DEF Duenos
  <2>2. Cardinality(Duenos(p)) > 0 BY <1>2, <2>1, HayAlguno
  <2> QED BY <1>1, <1>2, <1>3, <2>2
<1>8. ASSUME NEW a \in Asas, NEW k \in tiene[a], lista[a][k] = p PROVE ref[p] > 0
  <2>1. <<a, k>> \in EnListas(p) BY <1>8 DEF EnListas, TControl
  <2>2. Cardinality(EnListas(p)) > 0 BY <1>3, <2>1, HayAlguno
  <2> QED BY <1>1, <1>2, <1>3, <2>2
<1>9. ASSUME NEW h \in Hilos, p \in fijas[h] PROVE pins[p] > 0
  <2>1. h \in Fijadores(p) BY <1>9 DEF Fijadores
  <2> QED BY <1>1, <1>4, <2>1, HayAlguno
<1>10. ASSUME NEW h \in Hilos, NEW k \in mapeadas[h], lista[Tabla(h)][k] = p PROVE maps[p] > 0
  <2>1. <<h, k>> \in Entradas(p) BY <1>10 DEF Entradas, TControl
  <2> QED BY <1>1, <1>5, <2>1, HayAlguno
<1> QED BY <1>6, <1>7, <1>8, <1>9, <1>10

LEMMA SumaQueda ==
  ASSUME suma \in Nat, NEW n \in Nat
  PROVE  Restado(n) \in Nat
BY DEF Restado

(* put_page, i915_page_unpin and i915_page_desmapear of a page that has    *)
(* the count they lower.                                                   *)
LEMMA PutLema ==
  ASSUME TPool, IPool, bloques \in Int, suma \in Nat, NEW p \in Pags, estado[p] = 1, ref[p] > 0, PutPage(p)
  PROVE  /\ ref' = [ref EXCEPT ![p] = @ - 1] /\ pins' = pins /\ maps' = maps
         /\ TPool' /\ IPool' /\ suma' \in Nat
         /\ bloques' - Cardinality(Cabezas)' = bloques - Cardinality(Cabezas) /\ bloques' \in Int
<1> DEFINE r == [ref EXCEPT ![p] = @ - 1]
<1>1. Evaluar(p, r, pins, maps) /\ suma' = Restado(1) BY DEF PutPage
<1>2. r \in [Pags -> Nat] /\ pins \in [Pags -> Nat] /\ maps \in [Pags -> Nat] BY DEF TPool
<1>3. p \in Bloque(p) BY DEF IPool, EnBloque
<1>4. \A j \in Pags \ Bloque(p) : r[j] = ref[j] BY <1>3 DEF TPool
<1>5. suma' \in Nat BY <1>1, SumaQueda
<1> HIDE DEF r
<1>6. /\ ref' = r /\ pins' = pins /\ maps' = maps /\ TPool' /\ IPool'
      /\ bloques' - Cardinality(Cabezas)' = bloques - Cardinality(Cabezas) /\ bloques' \in Int
  BY <1>1, <1>2, <1>4, EvaluarPool
<1> QED BY <1>5, <1>6 DEF r

LEMMA UnpinLema ==
  ASSUME TPool, IPool, bloques \in Int, suma \in Nat, NEW p \in Pags, estado[p] = 1, pins[p] > 0, PageUnpin(p)
  PROVE  /\ ref' = ref /\ pins' = [pins EXCEPT ![p] = @ - 1] /\ maps' = maps
         /\ TPool' /\ IPool' /\ suma' \in Nat
         /\ bloques' - Cardinality(Cabezas)' = bloques - Cardinality(Cabezas) /\ bloques' \in Int
<1> DEFINE r == [pins EXCEPT ![p] = @ - 1]
<1>1. Evaluar(p, ref, r, maps) /\ suma' \in Nat BY DEF PageUnpin
<1>2. r \in [Pags -> Nat] /\ ref \in [Pags -> Nat] /\ maps \in [Pags -> Nat] BY DEF TPool
<1>3. p \in Bloque(p) BY DEF IPool, EnBloque
<1>4. \A j \in Pags \ Bloque(p) : r[j] = pins[j] BY <1>3 DEF TPool
<1> HIDE DEF r
<1>6. /\ ref' = ref /\ pins' = r /\ maps' = maps /\ TPool' /\ IPool'
      /\ bloques' - Cardinality(Cabezas)' = bloques - Cardinality(Cabezas) /\ bloques' \in Int
  BY <1>1, <1>2, <1>4, EvaluarPool
<1> QED BY <1>1, <1>6 DEF r

LEMMA DesmapearLema ==
  ASSUME TPool, IPool, bloques \in Int, suma \in Nat, NEW p \in Pags, estado[p] = 1, maps[p] > 0, PageDesmapear(p)
  PROVE  /\ ref' = ref /\ pins' = pins /\ maps' = [maps EXCEPT ![p] = @ - 1]
         /\ TPool' /\ IPool' /\ suma' \in Nat
         /\ bloques' - Cardinality(Cabezas)' = bloques - Cardinality(Cabezas) /\ bloques' \in Int
<1> DEFINE r == [maps EXCEPT ![p] = @ - 1]
<1>1. Evaluar(p, ref, pins, r) /\ suma' \in Nat BY DEF PageDesmapear
<1>2. r \in [Pags -> Nat] /\ ref \in [Pags -> Nat] /\ pins \in [Pags -> Nat] BY DEF TPool
<1>3. p \in Bloque(p) BY DEF IPool, EnBloque
<1>4. \A j \in Pags \ Bloque(p) : r[j] = maps[j] BY <1>3 DEF TPool
<1> HIDE DEF r
<1>6. /\ ref' = ref /\ pins' = pins /\ maps' = r /\ TPool' /\ IPool'
      /\ bloques' - Cardinality(Cabezas)' = bloques - Cardinality(Cabezas) /\ bloques' \in Int
  BY <1>1, <1>2, <1>4, EvaluarPool
<1> QED BY <1>1, <1>6 DEF r

(***************************************************************************)
(* One thread moves.                                                       *)
(***************************************************************************)
(* The other threads keep their place and what they hold.                  *)
Ajenos(h) ==
    \A o \in Hilos \ {h} :
        /\ pc'[o] = pc[o] /\ pide'[o] = pide[o] /\ quiere'[o] = quiere[o]
        /\ mias'[o] = mias[o] /\ inicios'[o] = inicios[o] /\ mapeadas'[o] = mapeadas[o]
        /\ lista'[Lote(o)] = lista[Lote(o)] /\ tiene'[Lote(o)] = tiene[Lote(o)]
        /\ lista'[Tabla(o)] = lista[Tabla(o)] /\ tiene'[Tabla(o)] = tiene[Tabla(o)]

LEMMA ControlAjeno ==
  ASSUME IControl, NEW h \in Hilos, Ajenos(h), ILote(h)', ITabla(h)', IMapa(h)'
  PROVE  IControl'
<1>1. ASSUME NEW o \in Hilos, o # h PROVE ILote(o)' /\ ITabla(o)' /\ IMapa(o)'
  <2>1. /\ pc'[o] = pc[o] /\ pide'[o] = pide[o] /\ quiere'[o] = quiere[o]
        /\ mias'[o] = mias[o] /\ inicios'[o] = inicios[o] /\ mapeadas'[o] = mapeadas[o]
        /\ lista'[Lote(o)] = lista[Lote(o)] /\ tiene'[Lote(o)] = tiene[Lote(o)]
        /\ lista'[Tabla(o)] = lista[Tabla(o)] /\ tiene'[Tabla(o)] = tiene[Tabla(o)]
    BY <1>1 DEF Ajenos
  <2>2. Suyas(o)' = Suyas(o) BY <2>1 DEF Suyas
  <2>3. ILote(o) /\ ITabla(o) /\ IMapa(o) BY DEF IControl
  <2>4. ILote(o)' BY <2>1, <2>3 DEF ILote
  <2>5. ITabla(o)' BY <2>1, <2>2, <2>3 DEF ITabla
  <2>6. IMapa(o)' BY <2>1, <2>3 DEF IMapa
  <2> QED BY <2>4, <2>5, <2>6
<1> QED BY <1>1 DEF IControl

(* The heap blocks in the hands of a thread.                               *)
Bruto(h) == Si(pc[h] \in {"coloca", "colocaLote"})
Arrays(h) == Si(pc[h] \in {"lote", "colocaLote", "sueltaLote"} \/ lista[Lote(h)] # <<>>)
Sgl(h) == Si(lista[Tabla(h)] # <<>>)
Arreglo(h) == Si(lista[Tabla(h)] # <<>> /\ pc[h] \notin {"arreglo", "sueltaSgl"})
Piezas(h) == Bruto(h) + Arrays(h) + Sgl(h) + Arreglo(h)

LEMMA PiezasTipo ==
  ASSUME NEW h
  PROVE  /\ Bruto(h) \in Int /\ Arrays(h) \in Int /\ Sgl(h) \in Int /\ Arreglo(h) \in Int
         /\ Bruto(h)' \in Int /\ Arrays(h)' \in Int /\ Sgl(h)' \in Int /\ Arreglo(h)' \in Int
         /\ Piezas(h) \in Int /\ Piezas(h)' \in Int
<1>1. /\ Bruto(h) \in Int /\ Arrays(h) \in Int /\ Sgl(h) \in Int /\ Arreglo(h) \in Int
      /\ Bruto(h)' \in Int /\ Arrays(h)' \in Int /\ Sgl(h)' \in Int /\ Arreglo(h)' \in Int
  BY DEF Bruto, Arrays, Sgl, Arreglo, Si
<1> QED BY <1>1 DEF Piezas

LEMMA PiezasCambia ==
  ASSUME NEW h, NEW b \in Int, NEW a \in Int, NEW s \in Int, NEW r \in Int,
         Bruto(h)' = Bruto(h) + b, Arrays(h)' = Arrays(h) + a,
         Sgl(h)' = Sgl(h) + s, Arreglo(h)' = Arreglo(h) + r
  PROVE  Piezas(h)' - Piezas(h) = b + a + s + r
BY PiezasTipo DEF Piezas

(* What each move of a thread adds to its blocks while its lists stay.     *)
LEMMA PiezasMueve ==
  ASSUME NEW h, NEW x, NEW y, pc[h] = x, pc'[h] = y,
         lista'[Lote(h)] = lista[Lote(h)], lista'[Tabla(h)] = lista[Tabla(h)]
  PROVE  /\ x = y => Piezas(h)' - Piezas(h) = 0
         /\ x = "fuera" /\ y = "coloca" => Piezas(h)' - Piezas(h) = 1
         /\ x = "coloca" /\ y = "fuera" => Piezas(h)' - Piezas(h) = -1
         /\ x = "fuera" /\ y = "lote" /\ lista[Lote(h)] = <<>> => Piezas(h)' - Piezas(h) = 1
         /\ x = "lote" /\ y = "colocaLote" => Piezas(h)' - Piezas(h) = 1
         /\ x = "lote" /\ y = "sueltaLote" => Piezas(h)' - Piezas(h) = 0
         /\ x = "colocaLote" /\ y = "sueltaLote" => Piezas(h)' - Piezas(h) = -1
         /\ x = "arreglo" /\ y = "refs" /\ lista[Tabla(h)] # <<>> => Piezas(h)' - Piezas(h) = 1
         /\ x = "arreglo" /\ y = "sueltaSgl" => Piezas(h)' - Piezas(h) = 0
         /\ x = "sueltaTabla" /\ y = "sueltaSgl" /\ lista[Tabla(h)] # <<>> => Piezas(h)' - Piezas(h) = -1
         /\ x = "fuera" /\ y = "sueltaLote" /\ lista[Lote(h)] # <<>> => Piezas(h)' - Piezas(h) = 0
         /\ x \in {"fuera", "refs", "mapea", "desmapea"} /\ y \in {"fuera", "refs", "sueltaTabla", "mapea", "desmapea"}
                => Piezas(h)' - Piezas(h) = 0
<1>1. Sgl(h)' = Sgl(h) BY DEF Sgl, Si
<1> DEFINE enlote(z) == z \in {"lote", "colocaLote", "sueltaLote"}
           sinarr(z) == z \in {"arreglo", "sueltaSgl"}
<1>2. /\ x \in {"coloca", "colocaLote"} => Bruto(h) = 1
      /\ x \notin {"coloca", "colocaLote"} => Bruto(h) = 0
      /\ y \in {"coloca", "colocaLote"} => Bruto(h)' = 1
      /\ y \notin {"coloca", "colocaLote"} => Bruto(h)' = 0
  BY DEF Bruto, Si
<1>3. /\ enlote(x) \/ lista[Lote(h)] # <<>> => Arrays(h) = 1
      /\ ~enlote(x) /\ lista[Lote(h)] = <<>> => Arrays(h) = 0
      /\ enlote(y) \/ lista[Lote(h)] # <<>> => Arrays(h)' = 1
      /\ ~enlote(y) /\ lista[Lote(h)] = <<>> => Arrays(h)' = 0
  BY DEF Arrays, Si
<1>4. /\ ~sinarr(x) /\ lista[Tabla(h)] # <<>> => Arreglo(h) = 1
      /\ sinarr(x) \/ lista[Tabla(h)] = <<>> => Arreglo(h) = 0
      /\ ~sinarr(y) /\ lista[Tabla(h)] # <<>> => Arreglo(h)' = 1
      /\ sinarr(y) \/ lista[Tabla(h)] = <<>> => Arreglo(h)' = 0
  BY DEF Arreglo, Si
<1>5. /\ Arrays(h)' - Arrays(h) = 0 \/ (enlote(x) /\ ~enlote(y)) \/ (~enlote(x) /\ enlote(y))
      /\ ~enlote(x) /\ enlote(y) /\ lista[Lote(h)] # <<>> => Arrays(h)' - Arrays(h) = 0
      /\ ~enlote(x) /\ enlote(y) /\ lista[Lote(h)] = <<>> => Arrays(h)' - Arrays(h) = 1
  <2>1. CASE lista[Lote(h)] = <<>> BY <1>3, <2>1
  <2>2. CASE lista[Lote(h)] # <<>> BY <1>3, <2>2
  <2> QED BY <2>1, <2>2
<1>6. /\ Arreglo(h)' - Arreglo(h) = 0 \/ (sinarr(x) /\ ~sinarr(y)) \/ (~sinarr(x) /\ sinarr(y))
      /\ ~sinarr(x) /\ sinarr(y) /\ lista[Tabla(h)] # <<>> => Arreglo(h)' - Arreglo(h) = -1
      /\ sinarr(x) /\ ~sinarr(y) /\ lista[Tabla(h)] # <<>> => Arreglo(h)' - Arreglo(h) = 1
  <2>1. CASE lista[Tabla(h)] = <<>> BY <1>4, <2>1
  <2>2. CASE lista[Tabla(h)] # <<>> BY <1>4, <2>2
  <2> QED BY <2>1, <2>2
<1>7. Piezas(h)' - Piezas(h) = (Bruto(h)' - Bruto(h)) + (Arrays(h)' - Arrays(h)) + (Arreglo(h)' - Arreglo(h))
  BY <1>1, PiezasTipo DEF Piezas
<1> HIDE DEF Piezas, Bruto, Arrays, Arreglo
<1> USE <1>2, <1>5, <1>6, <1>7
<1>8. x = y => Piezas(h)' - Piezas(h) = 0
  <2> SUFFICES ASSUME x = y PROVE Piezas(h)' - Piezas(h) = 0 OBVIOUS
  <2>1. Bruto(h)' - Bruto(h) = 0 OBVIOUS
  <2>2. Arrays(h)' - Arrays(h) = 0 OBVIOUS
  <2>3. Arreglo(h)' - Arreglo(h) = 0 OBVIOUS
  <2> QED BY ONLY <1>7, <2>1, <2>2, <2>3
<1>9. x = "fuera" /\ y = "coloca" => Piezas(h)' - Piezas(h) = 1 OBVIOUS
<1>10. x = "coloca" /\ y = "fuera" => Piezas(h)' - Piezas(h) = -1 OBVIOUS
<1>11. x = "fuera" /\ y = "lote" /\ lista[Lote(h)] = <<>> => Piezas(h)' - Piezas(h) = 1 OBVIOUS
<1>12. x = "lote" /\ y = "colocaLote" => Piezas(h)' - Piezas(h) = 1 OBVIOUS
<1>13. x = "lote" /\ y = "sueltaLote" => Piezas(h)' - Piezas(h) = 0 OBVIOUS
<1>14. x = "colocaLote" /\ y = "sueltaLote" => Piezas(h)' - Piezas(h) = -1 OBVIOUS
<1>15. x = "arreglo" /\ y = "refs" /\ lista[Tabla(h)] # <<>> => Piezas(h)' - Piezas(h) = 1 OBVIOUS
<1>16. x = "arreglo" /\ y = "sueltaSgl" => Piezas(h)' - Piezas(h) = 0 OBVIOUS
<1>17. x = "sueltaTabla" /\ y = "sueltaSgl" /\ lista[Tabla(h)] # <<>> => Piezas(h)' - Piezas(h) = -1 OBVIOUS
<1>18. x = "fuera" /\ y = "sueltaLote" /\ lista[Lote(h)] # <<>> => Piezas(h)' - Piezas(h) = 0 OBVIOUS
<1>19. x \in {"fuera", "refs", "mapea", "desmapea"} /\ y \in {"fuera", "refs", "sueltaTabla", "mapea", "desmapea"}
           => Piezas(h)' - Piezas(h) = 0
  OBVIOUS
<1> QED BY ONLY <1>8, <1>9, <1>10, <1>11, <1>12, <1>13, <1>14, <1>15, <1>16, <1>17, <1>18, <1>19

LEMMA UnoCambia ==
  ASSUME NEW S \in SUBSET Hilos, NEW T \in SUBSET Hilos, NEW h \in Hilos,
         \A o \in Hilos \ {h} : o \in S <=> o \in T
  PROVE  Cardinality(T) - Cardinality(S) = Si(h \in T) - Si(h \in S)
<1>1. IsFiniteSet(S) /\ Cardinality(S) \in Nat BY HilosFinitos
<1>2. IsFiniteSet(T) /\ Cardinality(T) \in Nat BY HilosFinitos
<1>3. CASE h \in S /\ h \in T
  <2>1. S = T BY <1>3
  <2> QED BY <1>1, <1>3, <2>1 DEF Si
<1>4. CASE h \notin S /\ h \notin T
  <2>1. S = T BY <1>4
  <2> QED BY <1>1, <1>4, <2>1 DEF Si
<1>5. CASE h \in S /\ h \notin T
  <2>1. T = S \ {h} BY <1>5
  <2>2. Cardinality(T) = Cardinality(S) - 1 BY <1>1, <1>5, <2>1, UnoMenos
  <2> QED BY <1>1, <1>2, <1>5, <2>2 DEF Si
<1>6. CASE h \notin S /\ h \in T
  <2>1. T = S \cup {h} BY <1>6
  <2>2. Cardinality(T) = Cardinality(S) + 1 BY <1>1, <1>6, <2>1, UnoMas
  <2> QED BY <1>1, <1>2, <1>6, <2>2 DEF Si
<1> QED BY <1>3, <1>4, <1>5, <1>6

LEMMA Cuadra ==
  ASSUME NEW b \in Int, NEW b2 \in Int, NEW c \in Int, NEW c2 \in Int,
         NEW r \in Int, NEW r2 \in Int, NEW l \in Int, NEW l2 \in Int,
         NEW t \in Int, NEW t2 \in Int, NEW a \in Int, NEW a2 \in Int,
         (b2 - c2) - (b - c) = (r2 - r) + (l2 - l) + (t2 - t) + (a2 - a),
         b = c + r + l + t + a
  PROVE  b2 = c2 + r2 + l2 + t2 + a2
OBVIOUS

LEMMA HeapPaso ==
  ASSUME IHeap, NEW h \in Hilos, Ajenos(h), bloques \in Int, bloques' \in Int,
         (bloques' - Cardinality(Cabezas)') - (bloques - Cardinality(Cabezas)) = Piezas(h)' - Piezas(h)
  PROVE  IHeap' /\ bloques' \in Nat
<1>1. Brutos \in SUBSET Hilos /\ Brutos' \in SUBSET Hilos BY DEF Brutos
<1>2. Lotes \in SUBSET Hilos /\ Lotes' \in SUBSET Hilos BY DEF Lotes
<1>3. Tablas \in SUBSET Hilos /\ Tablas' \in SUBSET Hilos BY DEF Tablas
<1>4. Arreglos \in SUBSET Hilos /\ Arreglos' \in SUBSET Hilos BY DEF Arreglos, Tablas
<1>5. \A o \in Hilos \ {h} :
          /\ o \in Brutos <=> o \in Brutos'
          /\ o \in Lotes <=> o \in Lotes'
          /\ o \in Tablas <=> o \in Tablas'
          /\ o \in Arreglos <=> o \in Arreglos'
  BY DEF Ajenos, Brutos, Lotes, Tablas, Arreglos
<1>6. Cardinality(Brutos') - Cardinality(Brutos) = Bruto(h)' - Bruto(h)
  <2>1. Cardinality(Brutos') - Cardinality(Brutos) = Si(h \in Brutos') - Si(h \in Brutos) BY <1>1, <1>5, UnoCambia
  <2> QED BY <2>1 DEF Bruto, Brutos, Si
<1>7. Cardinality(Lotes') - Cardinality(Lotes) = Arrays(h)' - Arrays(h)
  <2>1. Cardinality(Lotes') - Cardinality(Lotes) = Si(h \in Lotes') - Si(h \in Lotes) BY <1>2, <1>5, UnoCambia
  <2> QED BY <2>1 DEF Arrays, Lotes, Si
<1>8. Cardinality(Tablas') - Cardinality(Tablas) = Sgl(h)' - Sgl(h)
  <2>1. Cardinality(Tablas') - Cardinality(Tablas) = Si(h \in Tablas') - Si(h \in Tablas) BY <1>3, <1>5, UnoCambia
  <2> QED BY <2>1 DEF Sgl, Tablas, Si
<1>9. Cardinality(Arreglos') - Cardinality(Arreglos) = Arreglo(h)' - Arreglo(h)
  <2>1. Cardinality(Arreglos') - Cardinality(Arreglos) = Si(h \in Arreglos') - Si(h \in Arreglos) BY <1>4, <1>5, UnoCambia
  <2> QED BY <2>1 DEF Arreglo, Arreglos, Tablas, Si
<1>10. /\ Cardinality(Brutos) \in Nat /\ Cardinality(Brutos') \in Nat
       /\ Cardinality(Lotes) \in Nat /\ Cardinality(Lotes') \in Nat
       /\ Cardinality(Tablas) \in Nat /\ Cardinality(Tablas') \in Nat
       /\ Cardinality(Arreglos) \in Nat /\ Cardinality(Arreglos') \in Nat
  BY <1>1, <1>2, <1>3, <1>4, HilosFinitos
<1>11. Cardinality(Cabezas) \in Nat /\ Cardinality(Cabezas') \in Nat
  <2>1. IsFiniteSet(Pags) BY PuertoAssumption, FS_Interval DEF Pags
  <2>2. Cabezas' \in SUBSET Pags BY DEF Cabezas
  <2> QED BY <2>1, <2>2, CabezasFinitas, FS_Subset, FS_CardinalityType
<1>12. /\ Bruto(h) \in Int /\ Arrays(h) \in Int /\ Sgl(h) \in Int /\ Arreglo(h) \in Int
       /\ Bruto(h)' \in Int /\ Arrays(h)' \in Int /\ Sgl(h)' \in Int /\ Arreglo(h)' \in Int
  BY DEF Bruto, Arrays, Sgl, Arreglo, Si
<1>13. /\ Piezas(h) = Bruto(h) + Arrays(h) + Sgl(h) + Arreglo(h)
       /\ Piezas(h)' = Bruto(h)' + Arrays(h)' + Sgl(h)' + Arreglo(h)'
  BY DEF Piezas
<1>14. bloques = Cardinality(Cabezas) + Cardinality(Brutos) + Cardinality(Lotes)
                       + Cardinality(Tablas) + Cardinality(Arreglos)
  BY DEF IHeap
<1>15. bloques' = Cardinality(Cabezas') + Cardinality(Brutos') + Cardinality(Lotes')
                       + Cardinality(Tablas') + Cardinality(Arreglos')
  <2>1. Piezas(h)' - Piezas(h) = (Bruto(h)' - Bruto(h)) + (Arrays(h)' - Arrays(h))
                                     + (Sgl(h)' - Sgl(h)) + (Arreglo(h)' - Arreglo(h))
    BY ONLY <1>12, <1>13
  <2>2. (bloques' - Cardinality(Cabezas')) - (bloques - Cardinality(Cabezas))
            = (Cardinality(Brutos') - Cardinality(Brutos)) + (Cardinality(Lotes') - Cardinality(Lotes))
                  + (Cardinality(Tablas') - Cardinality(Tablas)) + (Cardinality(Arreglos') - Cardinality(Arreglos))
    BY <1>6, <1>7, <1>8, <1>9, <2>1
  <2> QED BY ONLY bloques \in Int, bloques' \in Int, <1>10, <1>11, <1>14, <2>2, Cuadra
<1> QED BY <1>10, <1>11, <1>15 DEF IHeap

LEMMA Junta ==
  ASSUME Inv, NEW h \in Hilos, Ajenos(h), TPool', TControl', suma' \in Nat, bloques' \in Int, IPool',
         ILote(h)', ITabla(h)', IMapa(h)', CuentasDePagina',
         (bloques' - Cardinality(Cabezas)') - (bloques - Cardinality(Cabezas)) = Piezas(h)' - Piezas(h)
  PROVE  Inv'
<1>1. IControl' BY ControlAjeno DEF Inv
<1>2. bloques \in Int BY DEF Inv, TypeOK
<1>3. IHeap' /\ bloques' \in Nat BY <1>2, HeapPaso DEF Inv
<1>4. TypeOK' BY <1>3 DEF TypeOK, TPool, TControl
<1> QED BY <1>1, <1>3, <1>4 DEF Inv

LEMMA Partes ==
  ASSUME Inv
  PROVE  /\ TPool /\ TControl /\ bloques \in Nat /\ bloques \in Int /\ suma \in Nat
         /\ IPool /\ IControl /\ IHeap /\ CuentasDePagina
         /\ \A h \in Hilos : ILote(h) /\ ITabla(h) /\ IMapa(h)
BY TipoEnDos DEF Inv, IControl

(* Steps that touch no page: the thread moves and may take or give back    *)
(* one heap block.                                                         *)
LEMMA SinPaginas ==
  ASSUME Inv, NEW h \in Hilos, UNCHANGED <<campos, suma, mias, fijas, lista, tiene, inicios, mapeadas>>,
         NEW x \in Pasos, pc' = [pc EXCEPT ![h] = x],
         NEW n \in Tamanos \cup {0}, pide' = [pide EXCEPT ![h] = n],
         NEW m \in 0 .. MaxLista, quiere' = [quiere EXCEPT ![h] = m],
         ILote(h)', ITabla(h)', IMapa(h)',
         bloques' \in Int, bloques' - bloques = Piezas(h)' - Piezas(h)
  PROVE  Inv'
<1>1. TPool /\ TControl /\ suma \in Nat /\ IPool /\ CuentasDePagina /\ bloques \in Int BY Partes
<1>2. TPool' BY <1>1 DEF TPool, campos
<1>3. TControl' BY <1>1 DEF TControl
<1>4. IPool'
  <2>1. \A q \in Pags : /\ Vacia(q)' = Vacia(q) /\ EnBloque(q)' = EnBloque(q) /\ Sujeto(q)' = Sujeto(q)
    BY DEF Vacia, EnBloque, Sujeto, Bloque, campos
  <2> QED BY <1>1, <2>1 DEF IPool, campos
<1>5. Cabezas' = Cabezas BY DEF Cabezas, campos
<1>6. CuentasDePagina'
  <2>1. \A q \in Pags : /\ Duenos(q)' = Duenos(q) /\ EnListas(q)' = EnListas(q)
                        /\ Fijadores(q)' = Fijadores(q) /\ Entradas(q)' = Entradas(q)
    BY DEF Duenos, EnListas, Fijadores, Entradas
  <2> QED BY <1>1, <2>1 DEF CuentasDePagina, campos
<1>7. Ajenos(h) BY <1>1 DEF Ajenos, TControl
<1>8. suma' \in Nat BY <1>1
<1>9. (bloques' - Cardinality(Cabezas)') - (bloques - Cardinality(Cabezas)) = Piezas(h)' - Piezas(h)
  <2>1. Cardinality(Cabezas) \in Nat /\ bloques \in Int /\ bloques' \in Int BY <1>1, CabezasFinitas
  <2>2. bloques' - bloques = Piezas(h)' - Piezas(h) OBVIOUS
  <2>3. Piezas(h)' \in Int /\ Piezas(h) \in Int BY PiezasTipo
  <2> QED BY ONLY <1>5, <2>1, <2>2, <2>3
<1> QED BY <1>2, <1>3, <1>4, <1>6, <1>7, <1>8, <1>9, Junta

LEMMA PideBloquePaso ==
  ASSUME Inv, NEW h \in Hilos, NEW n \in Tamanos, PideBloque(h, n)
  PROVE  Inv'
<1>1. TControl /\ bloques \in Int /\ ILote(h) /\ ITabla(h) /\ IMapa(h) BY Partes
<1>2. pc[h] = "fuera" /\ pc' = [pc EXCEPT ![h] = "coloca"] /\ pide' = [pide EXCEPT ![h] = n] BY DEF PideBloque, En, A
<1>3. UNCHANGED <<campos, suma, mias, fijas, lista, tiene, inicios, mapeadas, quiere>> /\ bloques' = bloques + 1
  BY DEF PideBloque, Kmalloc, SoloControl
<1>4. quiere' = [quiere EXCEPT ![h] = quiere[h]] /\ quiere[h] \in 0 .. MaxLista BY <1>1, <1>3 DEF TControl
<1>5. pc'[h] = "coloca" /\ pide'[h] = n BY <1>1, <1>2 DEF TControl
<1>6. ILote(h)' BY <1>1, <1>2, <1>3, <1>5 DEF ILote
<1>7. ITabla(h)' BY <1>1, <1>2, <1>3, <1>5 DEF ITabla
<1>8. IMapa(h)' BY <1>1, <1>2, <1>3, <1>5 DEF IMapa
<1>9. Piezas(h)' - Piezas(h) = 1
  <2>1. lista'[Lote(h)] = lista[Lote(h)] /\ lista'[Tabla(h)] = lista[Tabla(h)] BY <1>2, <1>3
  <2> QED BY <2>1, <1>2, <1>3, <1>4, <1>5, PiezasMueve
<1>10. "coloca" \in Pasos BY DEF Pasos
<1>11. bloques' \in Int /\ bloques' - bloques = Piezas(h)' - Piezas(h) BY <1>1, <1>3, <1>9
<1> QED BY <1>2, <1>3, <1>4, <1>6, <1>7, <1>8, <1>10, <1>11, SinPaginas

LEMMA PideLotePaso ==
  ASSUME Inv, NEW h \in Hilos, NEW n \in Lugares, PideLote(h, n)
  PROVE  Inv'
<1>1. TControl /\ bloques \in Int /\ ILote(h) /\ ITabla(h) /\ IMapa(h) BY Partes
<1>2. pc[h] = "fuera" /\ pc' = [pc EXCEPT ![h] = "lote"] /\ quiere' = [quiere EXCEPT ![h] = n] /\ lista[Lote(h)] = <<>>
  BY DEF PideLote, En, A
<1>3. UNCHANGED <<campos, suma, mias, fijas, lista, tiene, inicios, mapeadas, pide>> /\ bloques' = bloques + 1
  BY DEF PideLote, Kmalloc, SoloControl
<1>4. pide' = [pide EXCEPT ![h] = pide[h]] /\ pide[h] \in Tamanos \cup {0} /\ n \in 0 .. MaxLista /\ n > 0
  BY <1>1, <1>3 DEF TControl, Lugares
<1>5. pc'[h] = "lote" /\ quiere'[h] = n BY <1>1, <1>2, <1>4 DEF TControl
<1>6. ILote(h)' BY <1>1, <1>2, <1>3, <1>4, <1>5 DEF ILote
<1>7. ITabla(h)' BY <1>1, <1>2, <1>3, <1>5 DEF ITabla
<1>8. IMapa(h)' BY <1>1, <1>2, <1>3, <1>5 DEF IMapa
<1>9. Piezas(h)' - Piezas(h) = 1
  <2>1. lista'[Lote(h)] = lista[Lote(h)] /\ lista'[Tabla(h)] = lista[Tabla(h)] BY <1>2, <1>3
  <2> QED BY <2>1, <1>2, <1>3, <1>4, <1>5, PiezasMueve
<1>10. "lote" \in Pasos BY DEF Pasos
<1>11. bloques' \in Int /\ bloques' - bloques = Piezas(h)' - Piezas(h) BY <1>1, <1>3, <1>9
<1> QED BY <1>2, <1>3, <1>4, <1>6, <1>7, <1>8, <1>10, <1>11, SinPaginas

(* The steps that only choose where to go on, with or without a block.     *)
LEMMA SoloVa ==
  ASSUME Inv, NEW h \in Hilos, UNCHANGED <<campos, suma, mias, fijas, lista, tiene, inicios, mapeadas, pide, quiere>>,
         NEW x \in Pasos, pc' = [pc EXCEPT ![h] = x],
         ILote(h)', ITabla(h)', IMapa(h)',
         bloques' \in Int, bloques' - bloques = Piezas(h)' - Piezas(h)
  PROVE  Inv'
<1>1. TControl BY Partes
<1>2. pide' = [pide EXCEPT ![h] = pide[h]] /\ pide[h] \in Tamanos \cup {0} BY <1>1 DEF TControl
<1>3. quiere' = [quiere EXCEPT ![h] = quiere[h]] /\ quiere[h] \in 0 .. MaxLista BY <1>1 DEF TControl
<1> QED BY <1>2, <1>3, SinPaginas

LEMMA SigueLotePaso ==
  ASSUME Inv, NEW h \in Hilos, SigueLote(h)
  PROVE  Inv'
<1>1. TControl /\ bloques \in Int /\ ILote(h) /\ ITabla(h) /\ IMapa(h) BY Partes
<1>2. /\ pc[h] = "lote" /\ UNCHANGED <<campos, suma, mias, fijas, lista, tiene, inicios, mapeadas, pide, quiere>>
      /\ lista' = lista
  BY DEF SigueLote, En, SoloControl, Kmalloc, pool, campos
<1>3. CASE Kmalloc /\ A(h, "colocaLote")
  <2>1. pc' = [pc EXCEPT ![h] = "colocaLote"] /\ pc'[h] = "colocaLote" /\ bloques' = bloques + 1
    BY <1>1, <1>3 DEF Kmalloc, A, TControl
  <2>2. ILote(h)' BY <1>1, <1>2, <2>1 DEF ILote
  <2>3. ITabla(h)' BY <1>1, <1>2, <2>1 DEF ITabla
  <2>4. IMapa(h)' BY <1>1, <1>2, <2>1 DEF IMapa
  <2>5. Piezas(h)' - Piezas(h) = 1
    <3>1. lista'[Lote(h)] = lista[Lote(h)] /\ lista'[Tabla(h)] = lista[Tabla(h)] BY <1>2, <1>3
    <3> QED BY <3>1, <1>2, <1>3, <2>1, PiezasMueve
  <2>6. "colocaLote" \in Pasos BY DEF Pasos
  <2>7. bloques' \in Int /\ bloques' - bloques = Piezas(h)' - Piezas(h)
    <3>1. bloques \in Int BY <1>1
    <3>2. bloques' = bloques + 1 BY <2>1
    <3> QED BY ONLY <2>5, <3>1, <3>2
  <2> QED BY <1>2, <2>1, <2>2, <2>3, <2>4, <2>6, <2>7, SoloVa
<1>4. CASE UNCHANGED pool /\ A(h, "sueltaLote")
  <2>1. pc' = [pc EXCEPT ![h] = "sueltaLote"] /\ pc'[h] = "sueltaLote" /\ bloques' = bloques
    BY <1>1, <1>4 DEF pool, A, TControl
  <2>2. ILote(h)' BY <1>1, <1>2, <2>1 DEF ILote
  <2>3. ITabla(h)' BY <1>1, <1>2, <2>1 DEF ITabla
  <2>4. IMapa(h)' BY <1>1, <1>2, <2>1 DEF IMapa
  <2>5. Piezas(h)' - Piezas(h) = 0
    <3>1. lista'[Lote(h)] = lista[Lote(h)] /\ lista'[Tabla(h)] = lista[Tabla(h)] BY <1>2, <1>3
    <3> QED BY <3>1, <1>2, <1>3, <2>1, PiezasMueve
  <2>6. "sueltaLote" \in Pasos BY DEF Pasos
  <2>7. bloques' \in Int /\ bloques' - bloques = Piezas(h)' - Piezas(h)
    <3>1. bloques \in Int BY <1>1
    <3>2. bloques' = bloques BY <2>1
    <3> QED BY ONLY <2>5, <3>1, <3>2
  <2> QED BY <1>2, <2>1, <2>2, <2>3, <2>4, <2>6, <2>7, SoloVa
<1> QED BY <1>3, <1>4 DEF SigueLote

LEMMA PideArregloPaso ==
  ASSUME Inv, NEW h \in Hilos, PideArreglo(h)
  PROVE  Inv'
<1>1. TControl /\ bloques \in Int /\ ILote(h) /\ ITabla(h) /\ IMapa(h) BY Partes
<1>2. /\ pc[h] = "arreglo" /\ UNCHANGED <<campos, suma, mias, fijas, lista, tiene, inicios, mapeadas, pide, quiere>>
      /\ lista' = lista /\ mias' = mias /\ tiene' = tiene
  BY DEF PideArreglo, En, SoloControl, Kmalloc, pool, campos
<1>3. lista[Tabla(h)] # <<>> /\ tiene[Tabla(h)] = {} /\ lista[Tabla(h)] \in Seq(Pags)
  BY <1>1, <1>2, AsasDe DEF ITabla, TControl
<1>4. tiene[Tabla(h)] # DOMAIN lista[Tabla(h)]
  <2>1. Len(lista[Tabla(h)]) \in Nat /\ Len(lista[Tabla(h)]) # 0 BY <1>3, EmptySeq
  <2>2. 1 \in DOMAIN lista[Tabla(h)] BY <1>3, <2>1
  <2> QED BY <1>3, <2>2
<1>5. Suyas(h)' = Suyas(h) BY <1>2 DEF Suyas
<1>6. CASE Kmalloc /\ A(h, "refs")
  <2>1. pc' = [pc EXCEPT ![h] = "refs"] /\ pc'[h] = "refs" /\ bloques' = bloques + 1
    BY <1>1, <1>6 DEF Kmalloc, A, TControl
  <2>2. ILote(h)' BY <1>1, <1>2, <2>1 DEF ILote
  <2>3. ITabla(h)' BY <1>1, <1>2, <1>4, <1>5, <2>1 DEF ITabla
  <2>4. IMapa(h)' BY <1>1, <1>2, <2>1 DEF IMapa
  <2>5. Piezas(h)' - Piezas(h) = 1
    <3>1. lista'[Lote(h)] = lista[Lote(h)] /\ lista'[Tabla(h)] = lista[Tabla(h)] BY <1>2, <1>3
    <3> QED BY <3>1, <1>2, <1>3, <2>1, PiezasMueve
  <2>6. "refs" \in Pasos BY DEF Pasos
  <2>7. bloques' \in Int /\ bloques' - bloques = Piezas(h)' - Piezas(h)
    <3>1. bloques \in Int BY <1>1
    <3>2. bloques' = bloques + 1 BY <2>1
    <3> QED BY ONLY <2>5, <3>1, <3>2
  <2> QED BY <1>2, <2>1, <2>2, <2>3, <2>4, <2>6, <2>7, SoloVa
<1>7. CASE UNCHANGED pool /\ A(h, "sueltaSgl")
  <2>1. pc' = [pc EXCEPT ![h] = "sueltaSgl"] /\ pc'[h] = "sueltaSgl" /\ bloques' = bloques
    BY <1>1, <1>7 DEF pool, A, TControl
  <2>2. ILote(h)' BY <1>1, <1>2, <2>1 DEF ILote
  <2>3. ITabla(h)' BY <1>1, <1>2, <1>3, <2>1 DEF ITabla
  <2>4. IMapa(h)' BY <1>1, <1>2, <2>1 DEF IMapa
  <2>5. Piezas(h)' - Piezas(h) = 0
    <3>1. lista'[Lote(h)] = lista[Lote(h)] /\ lista'[Tabla(h)] = lista[Tabla(h)] BY <1>2, <1>3
    <3> QED BY <3>1, <1>2, <1>3, <2>1, PiezasMueve
  <2>6. "sueltaSgl" \in Pasos BY DEF Pasos
  <2>7. bloques' \in Int /\ bloques' - bloques = Piezas(h)' - Piezas(h)
    <3>1. bloques \in Int BY <1>1
    <3>2. bloques' = bloques BY <2>1
    <3> QED BY ONLY <2>5, <3>1, <3>2
  <2> QED BY <1>2, <2>1, <2>2, <2>3, <2>4, <2>6, <2>7, SoloVa
<1> QED BY <1>6, <1>7 DEF PideArreglo

LEMMA LiberaListaPaso ==
  ASSUME Inv, NEW h \in Hilos, LiberaLote(h) \/ LiberaTabla(h) \/ MapeaTabla(h) \/ DesmapeaTabla(h)
  PROVE  Inv'
<1>1. TControl /\ bloques \in Int /\ ILote(h) /\ ITabla(h) /\ IMapa(h) BY Partes
<1>2. /\ pc[h] = "fuera"
      /\ UNCHANGED <<campos, suma, mias, fijas, lista, tiene, inicios, mapeadas, pide, quiere>> /\ bloques' = bloques
      /\ lista' = lista /\ tiene' = tiene /\ inicios' = inicios /\ mapeadas' = mapeadas
  BY DEF LiberaLote, LiberaTabla, MapeaTabla, DesmapeaTabla, En, SoloControl, pool, campos
<1>3. PICK x \in {"sueltaLote", "sueltaTabla", "mapea", "desmapea"} : A(h, x) /\
          (/\ x = "sueltaLote" => lista[Lote(h)] # <<>>
           /\ x \in {"sueltaTabla", "mapea"} => lista[Tabla(h)] # <<>> /\ mapeadas[h] = {}
           /\ x = "desmapea" => mapeadas[h] # {})
  BY DEF LiberaLote, LiberaTabla, MapeaTabla, DesmapeaTabla
<1>4. pc' = [pc EXCEPT ![h] = x] /\ pc'[h] = x /\ x \in Pasos BY <1>1, <1>3 DEF A, TControl, Pasos
<1>5. lista[Tabla(h)] \in Seq(Pags) BY <1>1, AsasDe DEF TControl
<1>6. x = "desmapea" => lista[Tabla(h)] # <<>>
  <2>1. x = "desmapea" => \E k : k \in DOMAIN lista[Tabla(h)] BY <1>1, <1>3 DEF IMapa
  <2>2. Len(<<>>) = 0 BY EmptySeq
  <2> QED BY <1>5, <2>1, <2>2
<1>7. ILote(h)' BY <1>1, <1>2, <1>3, <1>4 DEF ILote
<1>8. ITabla(h)' BY <1>1, <1>2, <1>3, <1>4, <1>6 DEF ITabla
<1>9. IMapa(h)' BY <1>1, <1>2, <1>3, <1>4 DEF IMapa
<1>10. Piezas(h)' - Piezas(h) = 0
  <2>1. lista'[Lote(h)] = lista[Lote(h)] /\ lista'[Tabla(h)] = lista[Tabla(h)] BY <1>2, <1>3
  <2> QED BY <2>1, <1>2, <1>3, <1>4, <1>5, PiezasMueve
<1>11. bloques' \in Int /\ bloques' - bloques = Piezas(h)' - Piezas(h)
  <2>1. bloques \in Int BY <1>1
  <2>2. bloques' = bloques BY <1>2
  <2>3. bloques' - bloques = 0 BY ONLY <2>1, <2>2
  <2> QED BY ONLY <1>10, <2>1, <2>2, <2>3
<1> QED BY <1>2, <1>4, <1>7, <1>8, <1>9, <1>11, SoloVa

LEMMA PiezasListas ==
  ASSUME NEW h
  PROVE  /\ (/\ pc[h] = "fuera" /\ pc'[h] = "arreglo" /\ lista'[Lote(h)] = lista[Lote(h)]
             /\ lista[Tabla(h)] = <<>> /\ lista'[Tabla(h)] # <<>>) => Piezas(h)' - Piezas(h) = 1
         /\ (/\ pc[h] = "sueltaSgl" /\ pc'[h] = "fuera" /\ lista'[Lote(h)] = lista[Lote(h)]
             /\ lista[Tabla(h)] # <<>> /\ lista'[Tabla(h)] = <<>>) => Piezas(h)' - Piezas(h) = -1
         /\ (/\ pc[h] = "colocaLote" /\ pc'[h] \in {"lote", "fuera"} /\ lista'[Lote(h)] # <<>>
             /\ lista'[Tabla(h)] = lista[Tabla(h)]) => Piezas(h)' - Piezas(h) = -1
         /\ (/\ pc[h] = "sueltaLote" /\ pc'[h] = "fuera" /\ lista'[Lote(h)] = <<>>
             /\ lista'[Tabla(h)] = lista[Tabla(h)]) => Piezas(h)' - Piezas(h) = -1
<1>1. ASSUME pc[h] = "fuera", pc'[h] = "arreglo", lista'[Lote(h)] = lista[Lote(h)],
             lista[Tabla(h)] = <<>>, lista'[Tabla(h)] # <<>>
      PROVE  Piezas(h)' - Piezas(h) = 1
  <2>1. Bruto(h) = 0 /\ Bruto(h)' = 0 BY <1>1 DEF Bruto, Si
  <2>2. Arrays(h)' = Arrays(h) BY <1>1 DEF Arrays, Si
  <2>3. Sgl(h) = 0 /\ Sgl(h)' = 1 /\ Arreglo(h) = 0 /\ Arreglo(h)' = 0 BY <1>1 DEF Sgl, Arreglo, Si
  <2> QED BY <2>1, <2>2, <2>3, PiezasTipo DEF Piezas
<1>2. ASSUME pc[h] = "sueltaSgl", pc'[h] = "fuera", lista'[Lote(h)] = lista[Lote(h)],
             lista[Tabla(h)] # <<>>, lista'[Tabla(h)] = <<>>
      PROVE  Piezas(h)' - Piezas(h) = -1
  <2>1. Bruto(h) = 0 /\ Bruto(h)' = 0 BY <1>2 DEF Bruto, Si
  <2>2. Arrays(h)' = Arrays(h) BY <1>2 DEF Arrays, Si
  <2>3. Sgl(h) = 1 /\ Sgl(h)' = 0 /\ Arreglo(h) = 0 /\ Arreglo(h)' = 0 BY <1>2 DEF Sgl, Arreglo, Si
  <2> QED BY <2>1, <2>2, <2>3, PiezasTipo DEF Piezas
<1>3. ASSUME pc[h] = "colocaLote", pc'[h] \in {"lote", "fuera"}, lista'[Lote(h)] # <<>>,
             lista'[Tabla(h)] = lista[Tabla(h)]
      PROVE  Piezas(h)' - Piezas(h) = -1
  <2>1. Bruto(h) = 1 /\ Bruto(h)' = 0 BY <1>3 DEF Bruto, Si
  <2>2. Arrays(h) = 1 /\ Arrays(h)' = 1 BY <1>3 DEF Arrays, Si
  <2>3. Sgl(h)' = Sgl(h) /\ Arreglo(h)' = Arreglo(h) BY <1>3 DEF Sgl, Arreglo, Si
  <2> QED BY <2>1, <2>2, <2>3, PiezasTipo DEF Piezas
<1>4. ASSUME pc[h] = "sueltaLote", pc'[h] = "fuera", lista'[Lote(h)] = <<>>, lista'[Tabla(h)] = lista[Tabla(h)]
      PROVE  Piezas(h)' - Piezas(h) = -1
  <2>1. Bruto(h) = 0 /\ Bruto(h)' = 0 BY <1>4 DEF Bruto, Si
  <2>2. Arrays(h) = 1 /\ Arrays(h)' = 0 BY <1>4 DEF Arrays, Si
  <2>3. Sgl(h)' = Sgl(h) /\ Arreglo(h)' = Arreglo(h) BY <1>4 DEF Sgl, Arreglo, Si
  <2> QED BY <2>1, <2>2, <2>3, PiezasTipo DEF Piezas
<1> QED BY <1>1, <1>2, <1>3, <1>4

LEMMA PoolQuieto ==
  ASSUME TPool, IPool, UNCHANGED campos
  PROVE  TPool' /\ IPool' /\ Cabezas' = Cabezas
<1>1. TPool' BY DEF TPool, campos
<1>2. \A q \in Pags : Vacia(q)' = Vacia(q) /\ EnBloque(q)' = EnBloque(q) /\ Sujeto(q)' = Sujeto(q)
  BY DEF Vacia, EnBloque, Sujeto, Bloque, campos
<1>3. IPool' BY <1>2 DEF IPool, campos
<1> QED BY <1>1, <1>3 DEF Cabezas, campos

(* The sum of what the steps of a thread do to the heap and to its hands.  *)
LEMMA HeapIgual ==
  ASSUME NEW h, bloques \in Int, bloques' \in Int, NEW d \in Int,
         bloques' - Cardinality(Cabezas)' = (bloques - Cardinality(Cabezas)) + d,
         Piezas(h)' - Piezas(h) = d
  PROVE  (bloques' - Cardinality(Cabezas)') - (bloques - Cardinality(Cabezas)) = Piezas(h)' - Piezas(h)
<1>1. Cardinality(Cabezas) \in Int BY CabezasFinitas
<1>2. Cardinality(Cabezas') \in Int
  <2>1. IsFiniteSet(Pags) BY PuertoAssumption, FS_Interval DEF Pags
  <2>2. Cabezas' \in SUBSET Pags BY DEF Cabezas
  <2> QED BY <2>1, <2>2, FS_Subset, FS_CardinalityType
<1> QED BY <1>1, <1>2

(* A block that is asked for or given back beside the table of pages.      *)
LEMMA HeapFuera ==
  ASSUME NEW h, bloques \in Int, NEW d \in Int, bloques' = bloques + d, Cabezas' = Cabezas,
         Piezas(h)' - Piezas(h) = d
  PROVE  /\ bloques' \in Int
         /\ (bloques' - Cardinality(Cabezas)') - (bloques - Cardinality(Cabezas)) = Piezas(h)' - Piezas(h)
<1>1. Cardinality(Cabezas) \in Int BY CabezasFinitas
<1> QED BY <1>1

LEMMA CuentaNat ==
  ASSUME NEW q
  PROVE  /\ Cardinality(Duenos(q)) \in Nat /\ Cardinality(EnListas(q)) \in Nat
         /\ Cardinality(Fijadores(q)) \in Nat /\ Cardinality(Entradas(q)) \in Nat
<1>1. Cardinality(Duenos(q)) \in Nat BY HilosFinitos DEF Duenos
<1>2. Cardinality(EnListas(q)) \in Nat BY EnListasFinito DEF EnListas
<1>3. Cardinality(Fijadores(q)) \in Nat BY HilosFinitos DEF Fijadores
<1>4. Cardinality(Entradas(q)) \in Nat BY EntradasFinito DEF Entradas
<1> QED BY <1>1, <1>2, <1>3, <1>4

LEMMA SuyasPags ==
  ASSUME NEW h \in Hilos, TControl, ILote(h)
  PROVE  Suyas(h) \subseteq Pags
<1>1. mias[h] \subseteq Pags /\ lista[Lote(h)] \in Seq(Pags) /\ tiene[Lote(h)] \subseteq DOMAIN lista[Lote(h)]
  BY AsasDe DEF TControl, ILote
<1>2. \A k \in DOMAIN lista[Lote(h)] : lista[Lote(h)][k] \in Pags BY <1>1, ElementOfSeq
<1> QED BY <1>1, <1>2 DEF Suyas

LEMMA HaceTablaPaso ==
  ASSUME Inv, NEW h \in Hilos, NEW l \in Tiras(Suyas(h)), HaceTabla(h, l)
  PROVE  Inv'
<1>1. /\ TPool /\ TControl /\ suma \in Nat /\ bloques \in Int /\ IPool /\ CuentasDePagina
      /\ ILote(h) /\ ITabla(h) /\ IMapa(h)
  BY Partes
<1>2. /\ pc[h] = "fuera" /\ lista[Tabla(h)] = <<>> /\ UNCHANGED campos /\ suma' = suma /\ bloques' = bloques + 1
      /\ lista' = [lista EXCEPT ![Tabla(h)] = l] /\ pc' = [pc EXCEPT ![h] = "arreglo"]
      /\ inicios' = [inicios EXCEPT ![h] = Discontinuidades(l)]
      /\ pide' = pide /\ quiere' = quiere /\ mias' = mias /\ fijas' = fijas /\ tiene' = tiene /\ mapeadas' = mapeadas
  BY DEF HaceTabla, En, A, Kmalloc
<1>3. PICK n \in Lugares : l \in [1 .. n -> Suyas(h)] BY DEF Tiras
<1>4. n \in Nat \ {0} /\ n <= MaxLista BY PuertoAssumption, <1>3 DEF Lugares
<1>5. l \in [1 .. n -> Pags] BY <1>1, <1>3, SuyasPags
<1>6. l \in Seq(Pags) /\ Len(l) = n /\ DOMAIN l = 1 .. n
  <2>1. l \in Seq(Pags) BY <1>4, <1>5, SeqDef
  <2>2. DOMAIN l = 1 .. n BY <1>5
  <2> QED BY <1>4, <2>1, <2>2, LenProperties
<1>7. l # <<>> BY <1>4, <1>6, EmptySeq
<1>8. Discontinuidades(l) \subseteq DOMAIN l /\ 1 \in Discontinuidades(l) /\ Discontinuidades(l) \subseteq Lugares
  <2>1. Discontinuidades(l) \subseteq DOMAIN l BY DEF Discontinuidades
  <2>2. 1 \in DOMAIN l BY <1>4, <1>6
  <2>3. 1 \in Discontinuidades(l) BY <2>2 DEF Discontinuidades
  <2>4. 1 .. n \subseteq Lugares BY PuertoAssumption, <1>4 DEF Lugares
  <2> QED BY <1>6, <2>1, <2>3, <2>4
<1>9. DOMAIN lista[Tabla(h)] = {} BY <1>2, EmptySeq
<1>10. tiene[Tabla(h)] = {} /\ mapeadas[h] = {} BY <1>1, <1>9 DEF ITabla, IMapa
<1>11. /\ lista'[Tabla(h)] = l /\ lista'[Lote(h)] = lista[Lote(h)] /\ pc'[h] = "arreglo"
       /\ inicios'[h] = Discontinuidades(l)
       /\ \A a \in Asas : a # Tabla(h) => lista'[a] = lista[a]
  BY <1>1, <1>2, AsasDe DEF TControl
<1>12. TControl'
  <2>1. pc' \in [Hilos -> Pasos] BY <1>1, <1>2 DEF TControl, Pasos
  <2>2. lista' \in [Asas -> Seq(Pags)] BY <1>1, <1>2, <1>6 DEF TControl
  <2>3. inicios' \in [Hilos -> SUBSET Lugares] BY <1>1, <1>2, <1>8 DEF TControl
  <2> QED BY <1>1, <1>2, <2>1, <2>2, <2>3 DEF TControl
<1>13. Ajenos(h) BY <1>1, <1>2, <1>11, AsasDe DEF Ajenos, TControl
<1>14. Suyas(h)' = Suyas(h) BY <1>2, <1>11 DEF Suyas
<1>15. ILote(h)' BY <1>1, <1>2, <1>11 DEF ILote
<1>16. ITabla(h)' BY <1>2, <1>3, <1>4, <1>6, <1>7, <1>10, <1>11, <1>14 DEF ITabla
<1>17. IMapa(h)' BY <1>2, <1>8, <1>10, <1>11 DEF IMapa
<1>18. TPool' /\ IPool' /\ Cabezas' = Cabezas BY <1>1, <1>2, PoolQuieto
<1>19. CuentasDePagina'
  <2>1. Conservadas BY <1>10, <1>11 DEF Conservadas
  <2>2. \A o \in Hilos : \A k \in mapeadas[o] : lista'[Tabla(o)][k] = lista[Tabla(o)][k] BY <1>10, <1>11, AsasDe
  <2>3. ASSUME NEW q \in Pags
        PROVE  /\ Duenos(q)' = Duenos(q) /\ EnListas(q)' = EnListas(q)
               /\ Fijadores(q)' = Fijadores(q) /\ Entradas(q)' = Entradas(q)
    <3>1. EnListas(q)' = EnListas(q) BY <1>2, <2>1, ListasIguales
    <3>2. Entradas(q)' = Entradas(q) BY <1>2, <2>2, EntradasIguales
    <3> QED BY <1>2, <3>1, <3>2 DEF Duenos, Fijadores
  <2> QED BY <1>1, <1>2, <2>3 DEF CuentasDePagina, campos
<1>20. Piezas(h)' - Piezas(h) = 1 BY <1>2, <1>7, <1>11, PiezasListas
<1>21. /\ bloques' \in Int
       /\ (bloques' - Cardinality(Cabezas)') - (bloques - Cardinality(Cabezas)) = Piezas(h)' - Piezas(h)
  BY <1>1, <1>2, <1>18, <1>20, HeapFuera
<1> QED BY <1>1, <1>2, <1>12, <1>13, <1>15, <1>16, <1>17, <1>18, <1>19, <1>21, Junta

(* The lists that are given back at the end of a call: nothing of them is  *)
(* counted any more.                                                       *)
LEMMA SueltaSglPaso ==
  ASSUME Inv, NEW h \in Hilos, SueltaSgl(h)
  PROVE  Inv'
<1>1. /\ TPool /\ TControl /\ suma \in Nat /\ bloques \in Int /\ IPool /\ CuentasDePagina
      /\ ILote(h) /\ ITabla(h) /\ IMapa(h)
  BY Partes
<1>2. /\ pc[h] = "sueltaSgl" /\ UNCHANGED campos /\ suma' = suma /\ bloques' = bloques + (-1)
      /\ lista' = [lista EXCEPT ![Tabla(h)] = <<>>] /\ pc' = [pc EXCEPT ![h] = "fuera"]
      /\ inicios' = [inicios EXCEPT ![h] = {}]
      /\ pide' = pide /\ quiere' = quiere /\ mias' = mias /\ fijas' = fijas /\ tiene' = tiene /\ mapeadas' = mapeadas
  BY <1>1 DEF SueltaSgl, En, A, Kfree
<1>3. lista[Tabla(h)] # <<>> /\ tiene[Tabla(h)] = {} /\ mapeadas[h] = {} BY <1>1, <1>2 DEF ITabla, IMapa
<1>4. <<>> \in Seq(Pags) /\ DOMAIN <<>> = {} /\ Len(<<>>) = 0 BY EmptySeq
<1>5. /\ lista'[Tabla(h)] = <<>> /\ lista'[Lote(h)] = lista[Lote(h)] /\ pc'[h] = "fuera" /\ inicios'[h] = {}
      /\ \A a \in Asas : a # Tabla(h) => lista'[a] = lista[a]
  BY <1>1, <1>2, AsasDe DEF TControl
<1>6. TControl'
  <2>1. pc' \in [Hilos -> Pasos] BY <1>1, <1>2 DEF TControl, Pasos
  <2>2. lista' \in [Asas -> Seq(Pags)] BY <1>1, <1>2, <1>4 DEF TControl
  <2>3. inicios' \in [Hilos -> SUBSET Lugares] BY <1>1, <1>2 DEF TControl
  <2> QED BY <1>1, <1>2, <2>1, <2>2, <2>3 DEF TControl
<1>7. Ajenos(h) BY <1>1, <1>2, <1>5, AsasDe DEF Ajenos, TControl
<1>8. ILote(h)' BY <1>1, <1>2, <1>5 DEF ILote
<1>9. ITabla(h)' BY PuertoAssumption, <1>2, <1>3, <1>4, <1>5 DEF ITabla
<1>10. IMapa(h)' BY <1>2, <1>3, <1>4, <1>5 DEF IMapa
<1>11. TPool' /\ IPool' /\ Cabezas' = Cabezas BY <1>1, <1>2, PoolQuieto
<1>12. CuentasDePagina'
  <2>1. Conservadas BY <1>3, <1>5 DEF Conservadas
  <2>2. \A o \in Hilos : \A k \in mapeadas[o] : lista'[Tabla(o)][k] = lista[Tabla(o)][k] BY <1>3, <1>5, AsasDe
  <2>3. ASSUME NEW q \in Pags
        PROVE  /\ Duenos(q)' = Duenos(q) /\ EnListas(q)' = EnListas(q)
               /\ Fijadores(q)' = Fijadores(q) /\ Entradas(q)' = Entradas(q)
    <3>1. EnListas(q)' = EnListas(q) BY <1>2, <2>1, ListasIguales
    <3>2. Entradas(q)' = Entradas(q) BY <1>2, <2>2, EntradasIguales
    <3> QED BY <1>2, <3>1, <3>2 DEF Duenos, Fijadores
  <2> QED BY <1>1, <1>2, <2>3 DEF CuentasDePagina, campos
<1>13. Piezas(h)' - Piezas(h) = -1 BY <1>2, <1>3, <1>5, PiezasListas
<1>14. /\ bloques' \in Int
       /\ (bloques' - Cardinality(Cabezas)') - (bloques - Cardinality(Cabezas)) = Piezas(h)' - Piezas(h)
  BY <1>1, <1>2, <1>11, <1>13, HeapFuera
<1> QED BY <1>1, <1>2, <1>6, <1>7, <1>8, <1>9, <1>10, <1>11, <1>12, <1>14, Junta

(* A block becomes the thread's: alone, or as one more place of its array. *)
LEMMA ColocaBloquePaso ==
  ASSUME Inv, NEW h \in Hilos, ColocaBloque(h)
  PROVE  Inv'
<1>1. /\ TPool /\ TControl /\ suma \in Nat /\ bloques \in Int /\ IPool /\ CuentasDePagina
      /\ ILote(h) /\ ITabla(h) /\ IMapa(h)
  BY Partes
<1> DEFINE n == pide[h]
           i == Primero(Huecos(n))
<1>2. /\ pc[h] = "coloca" /\ pc' = [pc EXCEPT ![h] = "fuera"] /\ pide' = [pide EXCEPT ![h] = 0]
      /\ quiere' = quiere /\ fijas' = fijas
      /\ lista' = lista /\ tiene' = tiene /\ inicios' = inicios /\ mapeadas' = mapeadas
  BY DEF ColocaBloque, En, A, listas
<1>3. n \in Nat \ {0} BY PuertoAssumption, <1>1, <1>2 DEF ILote
<1>4. pc'[h] = "fuera" BY <1>1, <1>2 DEF TControl
<1>5. /\ \A q \in Pags : EnListas(q)' = EnListas(q) /\ Fijadores(q)' = Fijadores(q) /\ Entradas(q)' = Entradas(q)
  <2>1. Conservadas BY <1>2 DEF Conservadas
  <2> QED BY <1>2, <2>1, ListasIguales, EntradasIguales DEF Fijadores
<1>6. Piezas(h)' - Piezas(h) = -1 BY <1>2, <1>4, PiezasMueve
<1>7. Ajenos(h) /\ TControl' /\ TPool' /\ IPool' /\ suma' \in Nat /\ CuentasDePagina' /\ bloques' \in Int
      /\ bloques' - Cardinality(Cabezas)' = (bloques - Cardinality(Cabezas)) + (-1)
  <2>1. CASE Huecos(n) = {} /\ Kfree /\ mias' = mias
    <3>1. TPool' /\ IPool' /\ Cabezas' = Cabezas BY <1>1, <2>1, PoolQuieto DEF Kfree
    <3>2. UNCHANGED campos /\ suma' = suma /\ bloques' = bloques - 1 BY <2>1 DEF Kfree
    <3>3. TControl'
      <4>1. pc' \in [Hilos -> Pasos] /\ pide' \in [Hilos -> Tamanos \cup {0}] BY <1>1, <1>2 DEF TControl, Pasos
      <4> QED BY <1>1, <1>2, <2>1, <4>1 DEF TControl
    <3>4. Ajenos(h) BY <1>1, <1>2, <2>1 DEF Ajenos, TControl
    <3>5. \A q \in Pags : Duenos(q)' = Duenos(q) BY <2>1 DEF Duenos
    <3>6. CuentasDePagina' BY <1>1, <1>5, <3>2, <3>5 DEF CuentasDePagina, campos
    <3>7. Cardinality(Cabezas) \in Int BY CabezasFinitas
    <3> QED BY <1>1, <3>1, <3>2, <3>3, <3>4, <3>6, <3>7
  <2>2. CASE Huecos(n) # {} /\ Ocupar(i, n) /\ mias' = [mias EXCEPT ![h] = @ \cup Tramo(i, n)]
    <3>1. i \in Huecos(n) BY <1>3, <2>2, PrimerHueco
    <3> HIDE DEF i
    <3>2. /\ Tramo(i, n) \subseteq Pags /\ \A j \in Tramo(i, n) : estado[j] = 0
          /\ ref' = [j \in Pags |-> IF j \in Tramo(i, n) THEN 1 ELSE ref[j]] /\ pins' = pins /\ maps' = maps
          /\ TPool' /\ IPool'
          /\ Cardinality(Cabezas)' = Cardinality(Cabezas) + 1 /\ bloques' = bloques /\ suma' \in Nat
      BY <1>1, <1>3, <2>2, <3>1, OcuparPool
    <3>3. Tramo(i, n) \cap mias[h] = {}
      <4>1. \A j \in Tramo(i, n) : j \notin mias[h] BY <1>1, <3>2, Sostenida
      <4> QED BY <4>1
    <3>4. TControl'
      <4>1. pc' \in [Hilos -> Pasos] /\ pide' \in [Hilos -> Tamanos \cup {0}] BY <1>1, <1>2 DEF TControl, Pasos
      <4>2. mias' \in [Hilos -> SUBSET Pags] BY <1>1, <2>2, <3>2 DEF TControl
      <4> QED BY <1>1, <1>2, <4>1, <4>2 DEF TControl
    <3>5. Ajenos(h) BY <1>1, <1>2, <2>2 DEF Ajenos, TControl
    <3>6. ASSUME NEW q \in Pags
          PROVE  /\ ref'[q] = Cardinality(Duenos(q))' + Cardinality(EnListas(q))'
                 /\ pins'[q] = Cardinality(Fijadores(q))' /\ maps'[q] = Cardinality(Entradas(q))'
      <4>1. Cardinality(Duenos(q))' = Cardinality(Duenos(q)) + Si(q \in Tramo(i, n))
        BY <1>1, <2>2, <3>2, <3>3, DuenosMas
      <4>2. ref[q] = Cardinality(Duenos(q)) + Cardinality(EnListas(q)) /\ pins[q] = Cardinality(Fijadores(q))
            /\ maps[q] = Cardinality(Entradas(q))
        BY <1>1 DEF CuentasDePagina
      <4>3. ref'[q] = ref[q] + Si(q \in Tramo(i, n))
        <5>1. CASE q \in Tramo(i, n)
          <6>1. ref[q] = 0 BY <1>1, <3>2, <5>1 DEF IPool, Vacia
          <6> QED BY <3>2, <5>1, <6>1 DEF Si
        <5>2. CASE q \notin Tramo(i, n)
          <6>1. ref[q] \in Nat BY <1>1 DEF TPool
          <6> QED BY <3>2, <5>2, <6>1 DEF Si
        <5> QED BY <5>1, <5>2
      <4>4. Si(q \in Tramo(i, n)) \in Int BY DEF Si
      <4> HIDE DEF n
      <4>5. ref'[q] = Cardinality(Duenos(q))' + Cardinality(EnListas(q)) BY <4>1, <4>2, <4>3, <4>4, CuentaNat
      <4> QED BY <1>5, <3>2, <4>2, <4>5
    <3>7. CuentasDePagina' BY <3>6 DEF CuentasDePagina
    <3>8. Cardinality(Cabezas) \in Int BY CabezasFinitas
    <3> QED BY <1>1, <3>2, <3>4, <3>5, <3>7, <3>8
  <2> QED BY <2>1, <2>2 DEF ColocaBloque
<1>8. ILote(h)' /\ ITabla(h)' /\ IMapa(h)' BY <1>1, <1>2, <1>4 DEF ILote, ITabla, IMapa
<1>9. (bloques' - Cardinality(Cabezas)') - (bloques - Cardinality(Cabezas)) = Piezas(h)' - Piezas(h)
  BY <1>1, <1>6, <1>7, HeapIgual
<1> QED BY <1>7, <1>8, <1>9, Junta

LEMMA ColocaLotePaso ==
  ASSUME Inv, NEW h \in Hilos, ColocaLote(h)
  PROVE  Inv'
<1>1. /\ TPool /\ TControl /\ suma \in Nat /\ bloques \in Int /\ IPool /\ CuentasDePagina
      /\ ILote(h) /\ ITabla(h) /\ IMapa(h)
  BY Partes
<1> DEFINE i == Primero(Huecos(1))
           n == Len(lista[Lote(h)]) + 1
<1>2. /\ pc[h] = "colocaLote" /\ pide' = pide /\ mias' = mias /\ fijas' = fijas
      /\ inicios' = inicios /\ mapeadas' = mapeadas
  BY DEF ColocaLote, En
<1>3. lista[Lote(h)] \in Seq(Pags) /\ Lote(h) \in Asas /\ n \in Nat \ {0} /\ n <= quiere[h] /\ quiere[h] \in 0 .. MaxLista
      /\ tiene[Lote(h)] = DOMAIN lista[Lote(h)] /\ DOMAIN lista[Lote(h)] = 1 .. (n - 1)
  <2>1. lista[Lote(h)] \in Seq(Pags) /\ Lote(h) \in Asas /\ quiere[h] \in 0 .. MaxLista BY <1>1, AsasDe DEF TControl
  <2>2. Len(lista[Lote(h)]) \in Nat /\ Len(lista[Lote(h)]) < quiere[h] BY <1>1, <1>2, <2>1, LenProperties DEF ILote
  <2>3. tiene[Lote(h)] = DOMAIN lista[Lote(h)] BY <1>1, <1>2 DEF ILote
  <2>4. DOMAIN lista[Lote(h)] = 1 .. (n - 1) BY <2>1, <2>2, LenProperties
  <2> QED BY PuertoAssumption, <2>1, <2>2, <2>3, <2>4
<1>4. n <= MaxLista /\ n \in Lugares BY PuertoAssumption, <1>3 DEF Lugares
<1>5. CASE Huecos(1) = {} /\ Kfree /\ A(h, "sueltaLote") /\ lista' = lista /\ tiene' = tiene /\ quiere' = quiere
  <2>1. UNCHANGED campos /\ suma' = suma /\ bloques' = bloques - 1 /\ pc' = [pc EXCEPT ![h] = "sueltaLote"]
    BY <1>5 DEF Kfree, A
  <2>2. pc'[h] = "sueltaLote" BY <1>1, <2>1 DEF TControl
  <2>3. ILote(h)' BY <1>1, <1>2, <1>5, <2>2 DEF ILote
  <2>4. ITabla(h)' BY <1>1, <1>2, <1>5, <2>2 DEF ITabla
  <2>5. IMapa(h)' BY <1>1, <1>2, <1>5, <2>2 DEF IMapa
  <2>6. Piezas(h)' - Piezas(h) = -1 BY <1>2, <1>5, <2>2, PiezasMueve
  <2>7. bloques' \in Int /\ bloques' - bloques = Piezas(h)' - Piezas(h) BY <1>1, <2>1, <2>6
  <2>8. "sueltaLote" \in Pasos BY DEF Pasos
  <2>9. UNCHANGED <<campos, suma, mias, fijas, lista, tiene, inicios, mapeadas, pide, quiere>> BY <1>2, <1>5, <2>1
  <2> QED BY <2>1, <2>3, <2>4, <2>5, <2>7, <2>8, <2>9, SoloVa
<1>6. CASE /\ Huecos(1) # {} /\ Ocupar(i, 1)
           /\ lista' = [lista EXCEPT ![Lote(h)] = Append(@, i)]
           /\ tiene' = [tiene EXCEPT ![Lote(h)] = @ \cup {n}]
           /\ A(h, IF n = quiere[h] THEN "fuera" ELSE "lote")
           /\ quiere' = IF n = quiere[h] THEN [quiere EXCEPT ![h] = 0] ELSE quiere
  <2>1. i \in Huecos(1) /\ i \in Pags BY <1>6, PrimerHueco
  <2> DEFINE l == Append(lista[Lote(h)], i)
  <2> HIDE DEF i
  <2>2. /\ Tramo(i, 1) \subseteq Pags /\ \A j \in Tramo(i, 1) : estado[j] = 0
        /\ ref' = [j \in Pags |-> IF j \in Tramo(i, 1) THEN 1 ELSE ref[j]] /\ pins' = pins /\ maps' = maps
        /\ TPool' /\ IPool'
        /\ Cardinality(Cabezas)' = Cardinality(Cabezas) + 1 /\ bloques' = bloques /\ suma' \in Nat
    <3>1. 1 \in Nat \ {0} OBVIOUS
    <3>2. Ocupar(i, 1) BY <1>6
    <3> QED BY <1>1, <2>1, <3>1, <3>2, OcuparPool
  <2>3. Tramo(i, 1) = {i} BY <2>1 DEF Tramo, Pags
  <2>4. /\ l \in Seq(Pags) /\ Len(l) = n /\ DOMAIN l = 1 .. n /\ l[n] = i
        /\ \A k \in DOMAIN lista[Lote(h)] : l[k] = lista[Lote(h)][k]
    BY <1>3, <2>1, AppendProperties, LenProperties
  <2>5. l # <<>> BY <1>3, <2>4, EmptySeq
  <2> HIDE DEF l
  <2>6. /\ lista' = [lista EXCEPT ![Lote(h)] = l] /\ lista'[Lote(h)] = l /\ lista'[Tabla(h)] = lista[Tabla(h)]
        /\ \A a \in Asas : a # Lote(h) => lista'[a] = lista[a]
    BY <1>1, <1>6, AsasDe DEF TControl, l
  <2>7. tiene'[Lote(h)] = DOMAIN l /\ tiene'[Tabla(h)] = tiene[Tabla(h)]
    <3>1. tiene'[Lote(h)] = tiene[Lote(h)] \cup {n} BY <1>1, <1>3, <1>6 DEF TControl
    <3>2. 1 .. n = (1 .. (n - 1)) \cup {n} BY <1>3
    <3>3. tiene'[Tabla(h)] = tiene[Tabla(h)] BY <1>1, <1>6, AsasDe DEF TControl
    <3> QED BY <1>3, <2>4, <3>1, <3>2, <3>3
  <2>8. /\ pc' = [pc EXCEPT ![h] = pc'[h]] /\ pc'[h] \in {"fuera", "lote"}
        /\ n = quiere[h] => pc'[h] = "fuera" /\ quiere' = [quiere EXCEPT ![h] = 0]
        /\ n # quiere[h] => pc'[h] = "lote" /\ quiere' = quiere
    BY <1>1, <1>6 DEF A, TControl
  <2>9. TControl'
    <3>1. pc' \in [Hilos -> Pasos] BY <1>1, <2>8 DEF TControl, Pasos
    <3>2. quiere' \in [Hilos -> 0 .. MaxLista]
      <4>1. 0 \in 0 .. MaxLista /\ quiere \in [Hilos -> 0 .. MaxLista] BY PuertoAssumption, <1>1 DEF TControl
      <4>2. quiere' = quiere \/ quiere' = [quiere EXCEPT ![h] = 0] BY <2>8
      <4> QED BY ONLY h \in Hilos, <4>1, <4>2
    <3>3. lista' \in [Asas -> Seq(Pags)] BY <1>1, <2>4, <2>6 DEF TControl
    <3>4. tiene' \in [Asas -> SUBSET Lugares] BY <1>1, <1>4, <1>6 DEF TControl
    <3> QED BY <1>1, <1>2, <3>1, <3>2, <3>3, <3>4 DEF TControl
  <2>10. Ajenos(h)
    <3>1. \A o \in Hilos \ {h} : pc'[o] = pc[o] /\ quiere'[o] = quiere[o] BY <1>1, <2>8 DEF TControl
    <3>2. \A o \in Hilos \ {h} : tiene'[Lote(o)] = tiene[Lote(o)] /\ tiene'[Tabla(o)] = tiene[Tabla(o)]
      BY <1>1, <1>6, AsasDe DEF TControl
    <3> QED BY <1>2, <2>6, <3>1, <3>2, AsasDe DEF Ajenos
  <2>11. ILote(h)' BY <1>3, <1>4, <2>4, <2>6, <2>7, <2>8 DEF ILote
  <2>12. ITabla(h)' BY <1>1, <1>2, <2>6, <2>7, <2>8 DEF ITabla
  <2>13. IMapa(h)' BY <1>1, <1>2, <2>6, <2>8 DEF IMapa
  <2>14. Conservadas
    <3>1. \A k \in tiene[Lote(h)] : lista'[Lote(h)][k] = lista[Lote(h)][k] BY <1>3, <2>4, <2>6
    <3> QED BY <2>6, <3>1 DEF Conservadas
  <2>15. \A o \in Hilos : lista'[Tabla(o)] = lista[Tabla(o)] BY <2>6, AsasDe
  <2>16. n \notin tiene[Lote(h)] BY <1>3
  <2>17. ASSUME NEW q \in Pags
         PROVE  /\ ref'[q] = Cardinality(Duenos(q))' + Cardinality(EnListas(q))'
                /\ pins'[q] = Cardinality(Fijadores(q))' /\ maps'[q] = Cardinality(Entradas(q))'
    <3>1. Cardinality(EnListas(q))' = Cardinality(EnListas(q)) + Si(q = i)
      <4>1. lista'[Lote(h)][n] = i BY <2>4, <2>6
      <4>2. tiene' = [tiene EXCEPT ![Lote(h)] = @ \cup {n}] BY <1>6
      <4> HIDE DEF n
      <4>3. TControl /\ Lote(h) \in Asas /\ n \in Lugares BY <1>1, <1>3, <1>4
      <4>4. Cardinality(EnListas(q))' = Cardinality(EnListas(q)) + Si(q = lista'[Lote(h)][n])
        BY <2>14, <2>16, <4>2, <4>3, ListasMas
      <4> QED BY <4>1, <4>4
    <3>2. ref[q] = Cardinality(Duenos(q)) + Cardinality(EnListas(q)) /\ pins[q] = Cardinality(Fijadores(q))
          /\ maps[q] = Cardinality(Entradas(q))
      BY <1>1 DEF CuentasDePagina
    <3>3. ref'[q] = ref[q] + Si(q = i)
      <4>1. CASE q = i
        <5>1. ref[q] = 0 BY <1>1, <2>2, <2>3, <4>1 DEF IPool, Vacia
        <5> QED BY <2>2, <2>3, <4>1, <5>1 DEF Si
      <4>2. CASE q # i
        <5>1. ref[q] \in Nat BY <1>1 DEF TPool
        <5> QED BY <2>2, <2>3, <4>2, <5>1 DEF Si
      <4> QED BY <4>1, <4>2
    <3>4. Duenos(q)' = Duenos(q) /\ Fijadores(q)' = Fijadores(q) /\ Entradas(q)' = Entradas(q)
      BY <1>2, <2>15, EntradasIguales DEF Duenos, Fijadores
    <3>5. Si(q = i) \in Int BY DEF Si
    <3>6. ref'[q] = Cardinality(Duenos(q)) + Cardinality(EnListas(q))' BY <3>1, <3>2, <3>3, <3>5, CuentaNat
    <3> QED BY <2>2, <3>2, <3>4, <3>6
  <2>18. CuentasDePagina' BY <2>17 DEF CuentasDePagina
  <2>19. Piezas(h)' - Piezas(h) = -1 BY <1>2, <2>5, <2>6, <2>8, PiezasListas
  <2>20. bloques' \in Int /\ bloques' - Cardinality(Cabezas)' = (bloques - Cardinality(Cabezas)) + (-1)
    <3>1. Cardinality(Cabezas) \in Int BY CabezasFinitas
    <3> QED BY <1>1, <2>2, <3>1
  <2>21. (bloques' - Cardinality(Cabezas)') - (bloques - Cardinality(Cabezas)) = Piezas(h)' - Piezas(h)
    BY <1>1, <2>19, <2>20, HeapIgual
  <2> QED BY <2>2, <2>9, <2>10, <2>11, <2>12, <2>13, <2>18, <2>20, <2>21, Junta
<1> QED BY <1>5, <1>6 DEF ColocaLote

(* The calls on one page: only what the thread holds changes with it.      *)
LEMMA Parado ==
  ASSUME Inv, NEW h \in Hilos, pc[h] = "fuera", UNCHANGED <<pc, pide, quiere, listas>>,
         NEW M \in SUBSET Pags, mias' = [mias EXCEPT ![h] = M],
         NEW F \in SUBSET Pags, fijas' = [fijas EXCEPT ![h] = F],
         TPool', IPool', CuentasDePagina', suma' \in Nat, bloques' \in Int,
         bloques' - Cardinality(Cabezas)' = bloques - Cardinality(Cabezas)
  PROVE  Inv'
<1>1. TControl /\ bloques \in Int /\ ILote(h) /\ ITabla(h) /\ IMapa(h) BY Partes
<1>2. /\ pc' = pc /\ pide' = pide /\ quiere' = quiere /\ lista' = lista /\ tiene' = tiene
      /\ inicios' = inicios /\ mapeadas' = mapeadas
  BY DEF listas
<1>3. TControl' BY <1>1, <1>2 DEF TControl
<1>4. Ajenos(h) BY <1>1, <1>2 DEF Ajenos, TControl
<1>5. pc'[h] = "fuera" BY <1>2
<1>6. Piezas(h)' - Piezas(h) = 0 BY <1>2, <1>5, PiezasMueve
<1>7. bloques' - Cardinality(Cabezas)' = (bloques - Cardinality(Cabezas)) + 0
  <2>1. Cardinality(Cabezas) \in Int BY CabezasFinitas
  <2> QED BY <1>1, <2>1
<1>8. (bloques' - Cardinality(Cabezas)') - (bloques - Cardinality(Cabezas)) = Piezas(h)' - Piezas(h)
  BY <1>1, <1>6, <1>7, HeapIgual
<1>9. ILote(h)' /\ ITabla(h)' /\ IMapa(h)' BY <1>1, <1>2, <1>5 DEF ILote, ITabla, IMapa
<1> QED BY <1>3, <1>4, <1>8, <1>9, Junta

LEMMA MiasQuedan ==
  ASSUME TControl, NEW h \in Hilos
  PROVE  /\ mias[h] \in SUBSET Pags /\ mias = [mias EXCEPT ![h] = mias[h]]
         /\ fijas[h] \in SUBSET Pags /\ fijas = [fijas EXCEPT ![h] = fijas[h]]
BY DEF TControl

LEMMA ListasQuedan ==
  ASSUME UNCHANGED listas, NEW q \in Pags
  PROVE  EnListas(q)' = EnListas(q) /\ Entradas(q)' = Entradas(q)
BY DEF EnListas, Entradas, listas

LEMMA TomaPaginaPaso ==
  ASSUME Inv, NEW h \in Hilos, NEW p \in Pags, TomaPagina(h, p)
  PROVE  Inv'
<1>1. /\ TPool /\ TControl /\ suma \in Nat /\ bloques \in Int /\ IPool /\ CuentasDePagina
      /\ \A o \in Hilos : ILote(o)
  BY Partes
<1>2. /\ pc[h] = "fuera" /\ p \notin mias[h] /\ UNCHANGED <<pc, pide, quiere, listas>> /\ UNCHANGED listas
      /\ mias' = [mias EXCEPT ![h] = @ \cup {p}] /\ fijas' = fijas
      /\ UNCHANGED <<estado, head, tam>> /\ pins' = pins /\ maps' = maps /\ bloques' = bloques /\ suma' = suma
  BY DEF TomaPagina, En, GetPage
<1>3. PICK o \in Hilos : p \in Suyas(o) BY DEF TomaPagina
<1>4. estado[p] = 1
  <2>1. CASE p \in mias[o] BY <1>1, <2>1, Sostenida
  <2>2. CASE p \notin mias[o]
    <3>1. PICK k \in tiene[Lote(o)] : lista[Lote(o)][k] = p BY <1>3, <2>2 DEF Suyas
    <3> QED BY <1>1, <3>1, AsasDe, Sostenida
  <2> QED BY <2>1, <2>2
<1>5. ref' = [ref EXCEPT ![p] = @ + 1] BY <1>4 DEF TomaPagina, GetPage
<1>6. TPool' BY <1>1, <1>2, <1>5 DEF TPool
<1>7. IPool' /\ Cabezas' = Cabezas
  <2>1. \A j \in Pags : ref'[j] >= ref[j] /\ pins'[j] >= pins[j] /\ maps'[j] >= maps[j]
    BY <1>1, <1>2, <1>5 DEF TPool
  <2>2. \A j \in Pags : estado[j] = 0 => ref'[j] = ref[j] /\ pins'[j] = pins[j] /\ maps'[j] = maps[j]
    BY <1>1, <1>2, <1>4, <1>5 DEF TPool
  <2> QED BY <1>1, <1>2, <1>6, <2>1, <2>2, MasPool
<1>8. ASSUME NEW q \in Pags
      PROVE  /\ ref'[q] = Cardinality(Duenos(q))' + Cardinality(EnListas(q))'
             /\ pins'[q] = Cardinality(Fijadores(q))' /\ maps'[q] = Cardinality(Entradas(q))'
  <2>1. Cardinality(Duenos(q))' = Cardinality(Duenos(q)) + Si(q \in {p})
    <3>1. {p} \in SUBSET Pags /\ {p} \cap mias[h] = {} BY <1>2
    <3> QED BY <1>1, <1>2, <3>1, DuenosMas
  <2>2. ref[q] = Cardinality(Duenos(q)) + Cardinality(EnListas(q)) /\ pins[q] = Cardinality(Fijadores(q))
        /\ maps[q] = Cardinality(Entradas(q))
    BY <1>1 DEF CuentasDePagina
  <2>3. ref'[q] = ref[q] + Si(q \in {p}) BY <1>1, <1>5 DEF TPool, Si
  <2>4. Fijadores(q)' = Fijadores(q) /\ EnListas(q)' = EnListas(q) /\ Entradas(q)' = Entradas(q)
    BY <1>2, ListasQuedan DEF Fijadores
  <2>5. Si(q \in {p}) \in Int BY DEF Si
  <2>6. ref'[q] = Cardinality(Duenos(q))' + Cardinality(EnListas(q)) BY <2>1, <2>2, <2>3, <2>5, CuentaNat
  <2> QED BY <1>2, <2>2, <2>4, <2>6
<1>9. CuentasDePagina' BY <1>8 DEF CuentasDePagina
<1>10. (mias[h] \cup {p}) \in SUBSET Pags /\ fijas[h] \in SUBSET Pags /\ fijas' = [fijas EXCEPT ![h] = fijas[h]]
       /\ mias' = [mias EXCEPT ![h] = mias[h] \cup {p}]
  BY <1>1, <1>2, MiasQuedan
<1>11. bloques' \in Int /\ suma' \in Nat /\ bloques' - Cardinality(Cabezas)' = bloques - Cardinality(Cabezas)
  BY <1>1, <1>2, <1>7
<1> QED BY <1>2, <1>6, <1>7, <1>9, <1>10, <1>11, Parado

LEMMA SueltaPaginaPaso ==
  ASSUME Inv, NEW h \in Hilos, NEW p \in Pags, SueltaPagina(h, p)
  PROVE  Inv'
<1>1. TPool /\ TControl /\ suma \in Nat /\ bloques \in Int /\ IPool /\ CuentasDePagina
  BY Partes
<1>2. /\ pc[h] = "fuera" /\ p \in mias[h] /\ UNCHANGED <<pc, pide, quiere, listas>> /\ UNCHANGED listas
      /\ mias' = [mias EXCEPT ![h] = @ \ {p}] /\ fijas' = fijas /\ PutPage(p)
  BY DEF SueltaPagina, En
<1>3. ref[p] > 0 /\ estado[p] = 1 BY <1>1, <1>2, Sostenida
<1>4. /\ ref' = [ref EXCEPT ![p] = @ - 1] /\ pins' = pins /\ maps' = maps
      /\ TPool' /\ IPool' /\ suma' \in Nat
      /\ bloques' - Cardinality(Cabezas)' = bloques - Cardinality(Cabezas) /\ bloques' \in Int
  BY <1>1, <1>2, <1>3, PutLema
<1>5. ASSUME NEW q \in Pags
      PROVE  /\ ref'[q] = Cardinality(Duenos(q))' + Cardinality(EnListas(q))'
             /\ pins'[q] = Cardinality(Fijadores(q))' /\ maps'[q] = Cardinality(Entradas(q))'
  <2>1. Cardinality(Duenos(q))' = Cardinality(Duenos(q)) - Si(q \in {p})
    <3>1. {p} \in SUBSET Pags /\ {p} \subseteq mias[h] BY <1>2
    <3> QED BY <1>1, <1>2, <3>1, DuenosMenos
  <2>2. ref[q] = Cardinality(Duenos(q)) + Cardinality(EnListas(q)) /\ pins[q] = Cardinality(Fijadores(q))
        /\ maps[q] = Cardinality(Entradas(q))
    BY <1>1 DEF CuentasDePagina
  <2>3. ref'[q] = ref[q] - Si(q \in {p}) BY <1>1, <1>4 DEF TPool, Si
  <2>4. Fijadores(q)' = Fijadores(q) /\ EnListas(q)' = EnListas(q) /\ Entradas(q)' = Entradas(q)
    BY <1>2, ListasQuedan DEF Fijadores
  <2>5. Si(q \in {p}) \in Int BY DEF Si
  <2>6. ref'[q] = Cardinality(Duenos(q))' + Cardinality(EnListas(q)) BY <2>1, <2>2, <2>3, <2>5, CuentaNat
  <2> QED BY <1>4, <2>2, <2>4, <2>6
<1>6. CuentasDePagina' BY <1>5 DEF CuentasDePagina
<1>7. (mias[h] \ {p}) \in SUBSET Pags /\ fijas[h] \in SUBSET Pags /\ fijas' = [fijas EXCEPT ![h] = fijas[h]]
      /\ mias' = [mias EXCEPT ![h] = mias[h] \ {p}]
  BY <1>1, <1>2, MiasQuedan
<1> QED BY <1>2, <1>4, <1>6, <1>7, Parado

LEMMA LiberaBloquePaso ==
  ASSUME Inv, NEW h \in Hilos, NEW p \in Pags, LiberaBloque(h, p)
  PROVE  Inv'
<1>1. TPool /\ TControl /\ suma \in Nat /\ bloques \in Int /\ IPool /\ CuentasDePagina
  BY Partes
<1> DEFINE r == [j \in Pags |-> IF j \in Bloque(p) /\ ref[j] > 0 THEN ref[j] - 1 ELSE ref[j]]
<1>2. /\ pc[h] = "fuera" /\ estado[p] = 1 /\ Bloque(p) \subseteq mias[h]
      /\ UNCHANGED <<pc, pide, quiere, listas>> /\ UNCHANGED listas
      /\ mias' = [mias EXCEPT ![h] = @ \ Bloque(p)] /\ fijas' = fijas
      /\ Evaluar(p, r, pins, maps) /\ suma' = Restado(tam[p])
  BY DEF LiberaBloque, En
<1>3. Bloque(p) \in SUBSET Pags BY <1>1, <1>2, CabezaDe
<1>4. \A j \in Bloque(p) : ref[j] > 0 BY <1>1, <1>2, <1>3, Sostenida
<1>5. r \in [Pags -> Nat] /\ pins \in [Pags -> Nat] /\ maps \in [Pags -> Nat] BY <1>1 DEF TPool
<1>6. \A j \in Pags : r[j] = ref[j] - Si(j \in Bloque(p))
  <2>1. \A j \in Pags : ref[j] \in Nat BY <1>1 DEF TPool
  <2> QED BY <1>4, <2>1 DEF Si
<1> HIDE DEF r
<1>7. \A j \in Pags \ Bloque(p) : r[j] = ref[j]
  <2>1. \A j \in Pags : ref[j] \in Nat BY <1>1 DEF TPool
  <2> QED BY <1>6, <2>1 DEF Si
<1>8. /\ ref' = r /\ pins' = pins /\ maps' = maps /\ TPool' /\ IPool'
      /\ bloques' - Cardinality(Cabezas)' = bloques - Cardinality(Cabezas) /\ bloques' \in Int
  BY <1>1, <1>2, <1>5, <1>7, EvaluarPool
<1>9. suma' \in Nat
  <2>1. tam[p] \in Nat BY <1>1 DEF TPool
  <2> QED BY <1>1, <1>2, <2>1, SumaQueda
<1>10. ASSUME NEW q \in Pags
       PROVE  /\ ref'[q] = Cardinality(Duenos(q))' + Cardinality(EnListas(q))'
              /\ pins'[q] = Cardinality(Fijadores(q))' /\ maps'[q] = Cardinality(Entradas(q))'
  <2>1. Cardinality(Duenos(q))' = Cardinality(Duenos(q)) - Si(q \in Bloque(p))
    BY <1>1, <1>2, <1>3, DuenosMenos
  <2>2. ref[q] = Cardinality(Duenos(q)) + Cardinality(EnListas(q)) /\ pins[q] = Cardinality(Fijadores(q))
        /\ maps[q] = Cardinality(Entradas(q))
    BY <1>1 DEF CuentasDePagina
  <2>3. ref'[q] = ref[q] - Si(q \in Bloque(p)) BY <1>6, <1>8
  <2>4. Fijadores(q)' = Fijadores(q) /\ EnListas(q)' = EnListas(q) /\ Entradas(q)' = Entradas(q)
    BY <1>2, ListasQuedan DEF Fijadores
  <2>5. Si(q \in Bloque(p)) \in Int BY DEF Si
  <2>6. ref'[q] = Cardinality(Duenos(q))' + Cardinality(EnListas(q)) BY <2>1, <2>2, <2>3, <2>5, CuentaNat
  <2> QED BY <1>8, <2>2, <2>4, <2>6
<1>11. CuentasDePagina' BY <1>10 DEF CuentasDePagina
<1>12. (mias[h] \ Bloque(p)) \in SUBSET Pags /\ fijas[h] \in SUBSET Pags /\ fijas' = [fijas EXCEPT ![h] = fijas[h]]
       /\ mias' = [mias EXCEPT ![h] = mias[h] \ Bloque(p)]
  BY <1>1, <1>2, MiasQuedan
<1> QED BY <1>2, <1>8, <1>9, <1>11, <1>12, Parado

LEMMA FijaPaginaPaso ==
  ASSUME Inv, NEW h \in Hilos, NEW p \in Pags, FijaPagina(h, p)
  PROVE  Inv'
<1>1. TPool /\ TControl /\ suma \in Nat /\ bloques \in Int /\ IPool /\ CuentasDePagina
  BY Partes
<1>2. /\ pc[h] = "fuera" /\ p \notin fijas[h] /\ estado[p] = 1
      /\ UNCHANGED <<pc, pide, quiere, listas>> /\ UNCHANGED listas
      /\ fijas' = [fijas EXCEPT ![h] = @ \cup {p}] /\ mias' = mias
      /\ pins' = [pins EXCEPT ![p] = @ + 1]
      /\ UNCHANGED <<estado, head, tam>> /\ ref' = ref /\ maps' = maps /\ bloques' = bloques /\ suma' = suma
  BY DEF FijaPagina, En, listas
<1>3. TPool' BY <1>1, <1>2 DEF TPool
<1>4. IPool' /\ Cabezas' = Cabezas
  <2>1. \A j \in Pags : ref'[j] >= ref[j] /\ pins'[j] >= pins[j] /\ maps'[j] >= maps[j]
    BY <1>1, <1>2 DEF TPool
  <2>2. \A j \in Pags : estado[j] = 0 => ref'[j] = ref[j] /\ pins'[j] = pins[j] /\ maps'[j] = maps[j]
    BY <1>1, <1>2 DEF TPool
  <2> QED BY <1>1, <1>2, <1>3, <2>1, <2>2, MasPool
<1>5. ASSUME NEW q \in Pags
      PROVE  /\ ref'[q] = Cardinality(Duenos(q))' + Cardinality(EnListas(q))'
             /\ pins'[q] = Cardinality(Fijadores(q))' /\ maps'[q] = Cardinality(Entradas(q))'
  <2>1. Cardinality(Fijadores(q))' = Cardinality(Fijadores(q)) + Si(q = p)
    BY <1>1, <1>2, FijadoresMas
  <2>2. ref[q] = Cardinality(Duenos(q)) + Cardinality(EnListas(q)) /\ pins[q] = Cardinality(Fijadores(q))
        /\ maps[q] = Cardinality(Entradas(q))
    BY <1>1 DEF CuentasDePagina
  <2>3. pins'[q] = pins[q] + Si(q = p) BY <1>1, <1>2 DEF TPool, Si
  <2>4. Duenos(q)' = Duenos(q) /\ EnListas(q)' = EnListas(q) /\ Entradas(q)' = Entradas(q)
    BY <1>2, ListasQuedan DEF Duenos
  <2> QED BY <1>2, <2>1, <2>2, <2>3, <2>4
<1>6. CuentasDePagina' BY <1>5 DEF CuentasDePagina
<1>7. (fijas[h] \cup {p}) \in SUBSET Pags /\ mias[h] \in SUBSET Pags /\ mias' = [mias EXCEPT ![h] = mias[h]]
      /\ fijas' = [fijas EXCEPT ![h] = fijas[h] \cup {p}]
  BY <1>1, <1>2, MiasQuedan
<1>8. bloques' \in Int /\ suma' \in Nat /\ bloques' - Cardinality(Cabezas)' = bloques - Cardinality(Cabezas)
  BY <1>1, <1>2, <1>4
<1> QED BY <1>2, <1>3, <1>4, <1>6, <1>7, <1>8, Parado

LEMMA DesfijaPaginaPaso ==
  ASSUME Inv, NEW h \in Hilos, NEW p \in Pags, DesfijaPagina(h, p)
  PROVE  Inv'
<1>1. TPool /\ TControl /\ suma \in Nat /\ bloques \in Int /\ IPool /\ CuentasDePagina
  BY Partes
<1>2. /\ pc[h] = "fuera" /\ p \in fijas[h] /\ UNCHANGED <<pc, pide, quiere, listas>> /\ UNCHANGED listas
      /\ fijas' = [fijas EXCEPT ![h] = @ \ {p}] /\ mias' = mias /\ PageUnpin(p)
  BY DEF DesfijaPagina, En, listas
<1>3. pins[p] > 0 /\ estado[p] = 1 BY <1>1, <1>2, Sostenida
<1>4. /\ ref' = ref /\ pins' = [pins EXCEPT ![p] = @ - 1] /\ maps' = maps
      /\ TPool' /\ IPool' /\ suma' \in Nat
      /\ bloques' - Cardinality(Cabezas)' = bloques - Cardinality(Cabezas) /\ bloques' \in Int
  BY <1>1, <1>2, <1>3, UnpinLema
<1>5. ASSUME NEW q \in Pags
      PROVE  /\ ref'[q] = Cardinality(Duenos(q))' + Cardinality(EnListas(q))'
             /\ pins'[q] = Cardinality(Fijadores(q))' /\ maps'[q] = Cardinality(Entradas(q))'
  <2>1. Cardinality(Fijadores(q))' = Cardinality(Fijadores(q)) - Si(q = p)
    BY <1>1, <1>2, FijadoresMenos
  <2>2. ref[q] = Cardinality(Duenos(q)) + Cardinality(EnListas(q)) /\ pins[q] = Cardinality(Fijadores(q))
        /\ maps[q] = Cardinality(Entradas(q))
    BY <1>1 DEF CuentasDePagina
  <2>3. pins'[q] = pins[q] - Si(q = p) BY <1>1, <1>4 DEF TPool, Si
  <2>4. Duenos(q)' = Duenos(q) /\ EnListas(q)' = EnListas(q) /\ Entradas(q)' = Entradas(q)
    BY <1>2, ListasQuedan DEF Duenos
  <2> QED BY <1>4, <2>1, <2>2, <2>3, <2>4
<1>6. CuentasDePagina' BY <1>5 DEF CuentasDePagina
<1>7. (fijas[h] \ {p}) \in SUBSET Pags /\ mias[h] \in SUBSET Pags /\ mias' = [mias EXCEPT ![h] = mias[h]]
      /\ fijas' = [fijas EXCEPT ![h] = fijas[h] \ {p}]
  BY <1>1, <1>2, MiasQuedan
<1> QED BY <1>2, <1>4, <1>6, <1>7, Parado

(* One place of a list gives its reference back.                           *)
LEMMA SoltarLugar ==
  ASSUME Inv, NEW a \in Asas, NEW k \in tiene[a], lista[a][k] \in Pags, PutPage(lista[a][k]),
         tiene' = [tiene EXCEPT ![a] = @ \ {k}], lista' = lista, mias' = mias, fijas' = fijas, mapeadas' = mapeadas
  PROVE  /\ TPool' /\ IPool' /\ suma' \in Nat /\ CuentasDePagina'
         /\ bloques' - Cardinality(Cabezas)' = bloques - Cardinality(Cabezas) /\ bloques' \in Int
<1> DEFINE p == lista[a][k]
<1>1. TPool /\ TControl /\ suma \in Nat /\ bloques \in Int /\ IPool /\ CuentasDePagina
  BY Partes
<1>2. ref[p] > 0 /\ estado[p] = 1 BY <1>1, Sostenida
<1>3. k \in Lugares BY <1>1 DEF TControl
<1>4. /\ ref' = [ref EXCEPT ![p] = @ - 1] /\ pins' = pins /\ maps' = maps
      /\ TPool' /\ IPool' /\ suma' \in Nat
      /\ bloques' - Cardinality(Cabezas)' = bloques - Cardinality(Cabezas) /\ bloques' \in Int
  BY <1>1, <1>2, PutLema
<1>5. ASSUME NEW q \in Pags
      PROVE  /\ ref'[q] = Cardinality(Duenos(q))' + Cardinality(EnListas(q))'
             /\ pins'[q] = Cardinality(Fijadores(q))' /\ maps'[q] = Cardinality(Entradas(q))'
  <2>1. Cardinality(EnListas(q))' = Cardinality(EnListas(q)) - Si(q = p) BY <1>1, <1>3, ListasMenos
  <2>2. ref[q] = Cardinality(Duenos(q)) + Cardinality(EnListas(q)) /\ pins[q] = Cardinality(Fijadores(q))
        /\ maps[q] = Cardinality(Entradas(q))
    BY <1>1 DEF CuentasDePagina
  <2>3. ref'[q] = ref[q] - Si(q = p) BY <1>1, <1>4 DEF TPool, Si
  <2>4. Fijadores(q)' = Fijadores(q) /\ Duenos(q)' = Duenos(q) /\ Entradas(q)' = Entradas(q)
    BY DEF Fijadores, Duenos, Entradas
  <2>5. Si(q = p) \in Int BY DEF Si
  <2>6. ref'[q] = Cardinality(Duenos(q)) + Cardinality(EnListas(q))' BY <2>1, <2>2, <2>3, <2>5, CuentaNat
  <2> QED BY <1>4, <2>2, <2>4, <2>6
<1>6. CuentasDePagina' BY <1>5 DEF CuentasDePagina
<1> QED BY <1>4, <1>6

(* The places of a list are in it, and the first of some of them is one.   *)
LEMMA LugarDe ==
  ASSUME TControl, NEW a \in Asas, NEW S \in SUBSET DOMAIN lista[a], S # {}
  PROVE  Primero(S) \in S /\ lista[a][Primero(S)] \in Pags
<1>1. lista[a] \in Seq(Pags) BY DEF TControl
<1>2. S \in SUBSET Nat BY <1>1, LenProperties
<1>3. Primero(S) \in S BY <1>2, PrimeroEsta
<1> QED BY <1>1, <1>3, ElementOfSeq

LEMMA SueltaLotePaso ==
  ASSUME Inv, NEW h \in Hilos, SueltaLote(h)
  PROVE  Inv'
<1>1. /\ TPool /\ TControl /\ suma \in Nat /\ bloques \in Int /\ IPool /\ CuentasDePagina
      /\ ILote(h) /\ ITabla(h) /\ IMapa(h)
  BY Partes
<1> DEFINE k == Primero(tiene[Lote(h)])
<1>2. /\ pc[h] = "sueltaLote" /\ pide' = pide /\ mias' = mias /\ fijas' = fijas
      /\ inicios' = inicios /\ mapeadas' = mapeadas /\ Lote(h) \in Asas
  BY AsasDe DEF SueltaLote, En
<1>3. CASE /\ tiene[Lote(h)] # {} /\ PutPage(lista[Lote(h)][k])
           /\ tiene' = [tiene EXCEPT ![Lote(h)] = @ \ {k}] /\ pc' = pc /\ quiere' = quiere /\ lista' = lista
  <2>1. k \in tiene[Lote(h)] /\ lista[Lote(h)][k] \in Pags BY <1>1, <1>2, <1>3, LugarDe DEF ILote
  <2> HIDE DEF k
  <2>2. /\ TPool' /\ IPool' /\ suma' \in Nat /\ CuentasDePagina'
        /\ bloques' - Cardinality(Cabezas)' = bloques - Cardinality(Cabezas) /\ bloques' \in Int
    BY <1>2, <1>3, <2>1, SoltarLugar
  <2>3. TControl'
    <3>1. tiene' \in [Asas -> SUBSET Lugares] BY <1>1, <1>3 DEF TControl
    <3> QED BY <1>1, <1>2, <1>3, <3>1 DEF TControl
  <2>4. Ajenos(h) BY <1>1, <1>2, <1>3, AsasDe DEF Ajenos, TControl
  <2>5. tiene'[Lote(h)] = tiene[Lote(h)] \ {k} /\ tiene'[Tabla(h)] = tiene[Tabla(h)] BY <1>1, <1>3, AsasDe DEF TControl
  <2>6. ILote(h)' BY <1>1, <1>2, <1>3, <2>5 DEF ILote
  <2>7. ITabla(h)' BY <1>1, <1>2, <1>3, <2>5 DEF ITabla
  <2>8. IMapa(h)' BY <1>1, <1>2, <1>3 DEF IMapa
  <2>9. Piezas(h)' - Piezas(h) = 0 BY <1>2, <1>3, PiezasMueve
  <2>10. bloques' - Cardinality(Cabezas)' = (bloques - Cardinality(Cabezas)) + 0
    <3>1. Cardinality(Cabezas) \in Int BY CabezasFinitas
    <3> QED BY <1>1, <2>2, <3>1
  <2>11. (bloques' - Cardinality(Cabezas)') - (bloques - Cardinality(Cabezas)) = Piezas(h)' - Piezas(h)
    BY <1>1, <2>2, <2>9, <2>10, HeapIgual
  <2> QED BY <2>2, <2>3, <2>4, <2>6, <2>7, <2>8, <2>11, Junta
<1>4. CASE /\ tiene[Lote(h)] = {} /\ Kfree /\ lista' = [lista EXCEPT ![Lote(h)] = <<>>]
           /\ quiere' = [quiere EXCEPT ![h] = 0] /\ A(h, "fuera") /\ tiene' = tiene
  <2>1. UNCHANGED campos /\ suma' = suma /\ bloques' = bloques + (-1) /\ pc' = [pc EXCEPT ![h] = "fuera"]
    BY <1>1, <1>4 DEF Kfree, A
  <2>2. <<>> \in Seq(Pags) /\ DOMAIN <<>> = {} /\ Len(<<>>) = 0 BY EmptySeq
  <2>3. /\ lista'[Lote(h)] = <<>> /\ lista'[Tabla(h)] = lista[Tabla(h)] /\ pc'[h] = "fuera" /\ quiere'[h] = 0
        /\ \A a \in Asas : a # Lote(h) => lista'[a] = lista[a]
    BY <1>1, <1>2, <1>4, <2>1, AsasDe DEF TControl
  <2>4. TControl'
    <3>1. pc' \in [Hilos -> Pasos] BY <1>1, <2>1 DEF TControl, Pasos
    <3>2. lista' \in [Asas -> Seq(Pags)] BY <1>1, <1>4, <2>2 DEF TControl
    <3>3. quiere' \in [Hilos -> 0 .. MaxLista]
      <4>1. 0 \in 0 .. MaxLista /\ quiere \in [Hilos -> 0 .. MaxLista] BY PuertoAssumption, <1>1 DEF TControl
      <4> QED BY <1>4, <4>1
    <3> QED BY <1>1, <1>2, <1>4, <3>1, <3>2, <3>3 DEF TControl
  <2>5. Ajenos(h) BY <1>1, <1>2, <1>4, <2>1, <2>3, AsasDe DEF Ajenos, TControl
  <2>6. ILote(h)'
    <3>1. tiene'[Lote(h)] = {} BY <1>4
    <3>2. 0 <= MaxLista BY PuertoAssumption
    <3> QED BY ONLY <2>2, <2>3, <3>1, <3>2 DEF ILote
  <2>7. ITabla(h)' BY <1>1, <1>2, <1>4, <2>3 DEF ITabla
  <2>8. IMapa(h)' BY <1>1, <1>2, <2>3 DEF IMapa
  <2>9. TPool' /\ IPool' /\ Cabezas' = Cabezas BY <1>1, <2>1, PoolQuieto
  <2>10. CuentasDePagina'
    <3>1. Conservadas BY <1>4, <2>3 DEF Conservadas
    <3>2. \A o \in Hilos : \A j \in mapeadas[o] : lista'[Tabla(o)][j] = lista[Tabla(o)][j] BY <2>3, AsasDe
    <3>3. ASSUME NEW q \in Pags
          PROVE  /\ Duenos(q)' = Duenos(q) /\ EnListas(q)' = EnListas(q)
                 /\ Fijadores(q)' = Fijadores(q) /\ Entradas(q)' = Entradas(q)
      <4>1. EnListas(q)' = EnListas(q) BY <1>4, <3>1, ListasIguales
      <4>2. Entradas(q)' = Entradas(q) BY <1>2, <3>2, EntradasIguales
      <4> QED BY <1>2, <4>1, <4>2 DEF Duenos, Fijadores
    <3> QED BY <1>1, <2>1, <3>3 DEF CuentasDePagina, campos
  <2>11. Piezas(h)' - Piezas(h) = -1 BY <1>2, <2>3, PiezasListas
  <2>12. /\ bloques' \in Int
         /\ (bloques' - Cardinality(Cabezas)') - (bloques - Cardinality(Cabezas)) = Piezas(h)' - Piezas(h)
    BY <1>1, <2>1, <2>9, <2>11, HeapFuera
  <2> QED BY <1>1, <2>1, <2>4, <2>5, <2>6, <2>7, <2>8, <2>9, <2>10, <2>12, Junta
<1> QED BY <1>3, <1>4 DEF SueltaLote

LEMMA SueltaTablaPaso ==
  ASSUME Inv, NEW h \in Hilos, SueltaTabla(h)
  PROVE  Inv'
<1>1. /\ TPool /\ TControl /\ suma \in Nat /\ bloques \in Int /\ IPool /\ CuentasDePagina
      /\ ILote(h) /\ ITabla(h) /\ IMapa(h)
  BY Partes
<1> DEFINE k == Primero(tiene[Tabla(h)])
<1>2. /\ pc[h] = "sueltaTabla" /\ pide' = pide /\ quiere' = quiere /\ mias' = mias /\ fijas' = fijas
      /\ lista' = lista /\ inicios' = inicios /\ mapeadas' = mapeadas /\ Tabla(h) \in Asas
  BY AsasDe DEF SueltaTabla, En
<1>3. CASE /\ tiene[Tabla(h)] # {} /\ PutPage(lista[Tabla(h)][k])
           /\ tiene' = [tiene EXCEPT ![Tabla(h)] = @ \ {k}] /\ pc' = pc
  <2>1. k \in tiene[Tabla(h)] /\ lista[Tabla(h)][k] \in Pags BY <1>1, <1>2, <1>3, LugarDe DEF ITabla
  <2> HIDE DEF k
  <2>2. /\ TPool' /\ IPool' /\ suma' \in Nat /\ CuentasDePagina'
        /\ bloques' - Cardinality(Cabezas)' = bloques - Cardinality(Cabezas) /\ bloques' \in Int
    BY <1>2, <1>3, <2>1, SoltarLugar
  <2>3. TControl'
    <3>1. tiene' \in [Asas -> SUBSET Lugares] BY <1>1, <1>3 DEF TControl
    <3> QED BY <1>1, <1>2, <1>3, <3>1 DEF TControl
  <2>4. Ajenos(h) BY <1>1, <1>2, <1>3, AsasDe DEF Ajenos, TControl
  <2>5. tiene'[Tabla(h)] = tiene[Tabla(h)] \ {k} /\ tiene'[Lote(h)] = tiene[Lote(h)] BY <1>1, <1>3, AsasDe DEF TControl
  <2>6. ILote(h)' BY <1>1, <1>2, <1>3, <2>5 DEF ILote
  <2>7. ITabla(h)' BY <1>1, <1>2, <1>3, <2>5 DEF ITabla
  <2>8. IMapa(h)' BY <1>1, <1>2, <1>3 DEF IMapa
  <2>9. Piezas(h)' - Piezas(h) = 0 BY <1>2, <1>3, PiezasMueve
  <2>10. bloques' - Cardinality(Cabezas)' = (bloques - Cardinality(Cabezas)) + 0
    <3>1. Cardinality(Cabezas) \in Int BY CabezasFinitas
    <3> QED BY <1>1, <2>2, <3>1
  <2>11. (bloques' - Cardinality(Cabezas)') - (bloques - Cardinality(Cabezas)) = Piezas(h)' - Piezas(h)
    BY <1>1, <2>2, <2>9, <2>10, HeapIgual
  <2> QED BY <2>2, <2>3, <2>4, <2>6, <2>7, <2>8, <2>11, Junta
<1>4. CASE tiene[Tabla(h)] = {} /\ Kfree /\ A(h, "sueltaSgl") /\ tiene' = tiene
  <2>1. /\ UNCHANGED campos /\ suma' = suma /\ bloques' = bloques - 1 /\ pc' = [pc EXCEPT ![h] = "sueltaSgl"]
    BY <1>4 DEF Kfree, A
  <2>2. pc'[h] = "sueltaSgl" BY <1>1, <2>1 DEF TControl
  <2>3. lista[Tabla(h)] # <<>> BY <1>1, <1>2 DEF ITabla
  <2>4. ILote(h)' BY <1>1, <1>2, <1>4, <2>2 DEF ILote
  <2>5. ITabla(h)' BY <1>1, <1>2, <1>4, <2>2 DEF ITabla
  <2>6. IMapa(h)' BY <1>1, <1>2, <2>2 DEF IMapa
  <2>7. Piezas(h)' - Piezas(h) = -1 BY <1>2, <2>2, <2>3, PiezasMueve
  <2>8. bloques' \in Int /\ bloques' - bloques = Piezas(h)' - Piezas(h) BY <1>1, <2>1, <2>7
  <2>9. "sueltaSgl" \in Pasos BY DEF Pasos
  <2>10. UNCHANGED <<campos, suma, mias, fijas, lista, tiene, inicios, mapeadas, pide, quiere>> BY <1>2, <1>4, <2>1
  <2> QED BY <2>1, <2>4, <2>5, <2>6, <2>8, <2>9, <2>10, SoloVa
<1> QED BY <1>3, <1>4 DEF SueltaTabla

LEMMA TomaRefsPaso ==
  ASSUME Inv, NEW h \in Hilos, TomaRefs(h)
  PROVE  Inv'
<1>1. /\ TPool /\ TControl /\ suma \in Nat /\ bloques \in Int /\ IPool /\ CuentasDePagina
      /\ ILote(h) /\ ITabla(h) /\ IMapa(h)
  BY Partes
<1> DEFINE F == Faltan(Tabla(h))
           k == Primero(F)
           p == lista[Tabla(h)][k]
<1>2. /\ pc[h] = "refs" /\ pide' = pide /\ quiere' = quiere /\ mias' = mias /\ fijas' = fijas
      /\ lista' = lista /\ inicios' = inicios /\ mapeadas' = mapeadas /\ Tabla(h) \in Asas
      /\ tiene' = [tiene EXCEPT ![Tabla(h)] = @ \cup {k}] /\ GetPage(p)
      /\ A(h, IF F = {k} THEN "fuera" ELSE "refs")
  BY AsasDe DEF TomaRefs, En
<1>3. F \subseteq DOMAIN lista[Tabla(h)] /\ F # {} /\ F \cap tiene[Tabla(h)] = {}
      /\ F \cup tiene[Tabla(h)] = DOMAIN lista[Tabla(h)]
  BY <1>1, <1>2 DEF Faltan, ITabla
<1>4. k \in F /\ p \in Pags BY <1>1, <1>2, <1>3, LugarDe
<1>5. k \in DOMAIN lista[Tabla(h)] /\ k \notin tiene[Tabla(h)] BY <1>3, <1>4
<1>6. k \in Lugares
  <2>1. lista[Tabla(h)] \in Seq(Pags) /\ Len(lista[Tabla(h)]) \in Nat /\ DOMAIN lista[Tabla(h)] = 1 .. Len(lista[Tabla(h)])
    BY <1>1, <1>2, LenProperties DEF TControl
  <2>2. Len(lista[Tabla(h)]) <= MaxLista BY <1>1 DEF ITabla
  <2> QED BY PuertoAssumption, <1>5, <2>1, <2>2 DEF Lugares
<1>7. p \in Suyas(h) BY <1>1, <1>2, <1>5 DEF ITabla
<1>8. estado[p] = 1
  <2>1. CASE p \in mias[h] BY <1>1, <1>4, <2>1, Sostenida
  <2>2. CASE p \notin mias[h]
    <3>1. PICK j \in tiene[Lote(h)] : lista[Lote(h)][j] = p BY <1>7, <2>2 DEF Suyas
    <3> QED BY <1>1, <1>4, <3>1, AsasDe, Sostenida
  <2> QED BY <2>1, <2>2
<1> HIDE DEF p, k, F
<1>9. /\ ref' = [ref EXCEPT ![p] = @ + 1] /\ UNCHANGED <<estado, head, tam>> /\ pins' = pins /\ maps' = maps
      /\ bloques' = bloques /\ suma' = suma
  BY <1>2, <1>8 DEF GetPage
<1>10. TPool' BY <1>1, <1>4, <1>9 DEF TPool
<1>11. IPool' /\ Cabezas' = Cabezas
  <2>1. \A j \in Pags : ref'[j] >= ref[j] /\ pins'[j] >= pins[j] /\ maps'[j] >= maps[j]
    BY <1>1, <1>9 DEF TPool
  <2>2. \A j \in Pags : estado[j] = 0 => ref'[j] = ref[j] /\ pins'[j] = pins[j] /\ maps'[j] = maps[j]
    BY <1>1, <1>8, <1>9 DEF TPool
  <2> QED BY <1>1, <1>9, <1>10, <2>1, <2>2, MasPool
<1>12. ASSUME NEW q \in Pags
       PROVE  /\ ref'[q] = Cardinality(Duenos(q))' + Cardinality(EnListas(q))'
              /\ pins'[q] = Cardinality(Fijadores(q))' /\ maps'[q] = Cardinality(Entradas(q))'
  <2>1. Cardinality(EnListas(q))' = Cardinality(EnListas(q)) + Si(q = p)
    <3>1. Conservadas /\ lista'[Tabla(h)][k] = p BY <1>2 DEF Conservadas, p
    <3>2. Cardinality(EnListas(q))' = Cardinality(EnListas(q)) + Si(q = lista'[Tabla(h)][k])
      BY <1>1, <1>2, <1>5, <1>6, <3>1, ListasMas
    <3> QED BY <3>1, <3>2
  <2>2. ref[q] = Cardinality(Duenos(q)) + Cardinality(EnListas(q)) /\ pins[q] = Cardinality(Fijadores(q))
        /\ maps[q] = Cardinality(Entradas(q))
    BY <1>1 DEF CuentasDePagina
  <2>3. ref'[q] = ref[q] + Si(q = p) BY <1>1, <1>4, <1>9 DEF TPool, Si
  <2>4. Fijadores(q)' = Fijadores(q) /\ Duenos(q)' = Duenos(q) /\ Entradas(q)' = Entradas(q)
    BY <1>2 DEF Fijadores, Duenos, Entradas
  <2>5. Si(q = p) \in Int BY DEF Si
  <2>6. ref'[q] = Cardinality(Duenos(q)) + Cardinality(EnListas(q))' BY <2>1, <2>2, <2>3, <2>5, CuentaNat
  <2> QED BY <1>9, <2>2, <2>4, <2>6
<1>13. CuentasDePagina' BY <1>12 DEF CuentasDePagina
<1>14. /\ pc' = [pc EXCEPT ![h] = pc'[h]] /\ pc'[h] \in {"fuera", "refs"}
       /\ F = {k} => pc'[h] = "fuera"
       /\ F # {k} => pc'[h] = "refs"
  BY <1>1, <1>2 DEF A, TControl
<1>15. tiene'[Tabla(h)] = tiene[Tabla(h)] \cup {k} /\ tiene'[Lote(h)] = tiene[Lote(h)]
  BY <1>1, <1>2, AsasDe DEF TControl
<1>16. TControl'
  <2>1. tiene' \in [Asas -> SUBSET Lugares] BY <1>1, <1>2, <1>6 DEF TControl
  <2>2. pc' \in [Hilos -> Pasos] BY <1>1, <1>14 DEF TControl, Pasos
  <2> QED BY <1>1, <1>2, <2>1, <2>2 DEF TControl
<1>17. Ajenos(h)
  <2>1. \A o \in Hilos \ {h} : pc'[o] = pc[o] BY <1>1, <1>14 DEF TControl
  <2> QED BY <1>1, <1>2, <2>1, AsasDe DEF Ajenos, TControl
<1>18. Suyas(h)' = Suyas(h) BY <1>2, <1>15 DEF Suyas
<1>19. ILote(h)' BY <1>1, <1>2, <1>14, <1>15 DEF ILote
<1>20. ITabla(h)'
  <2>1. pc'[h] = "fuera" => tiene'[Tabla(h)] = DOMAIN lista[Tabla(h)] BY <1>3, <1>14, <1>15
  <2>2. pc'[h] = "refs" => tiene'[Tabla(h)] # DOMAIN lista[Tabla(h)]
    <3>1. F # {k} => \E j \in F : j # k BY <1>4
    <3> QED BY <1>3, <1>14, <1>15, <3>1
  <2> QED BY <1>1, <1>2, <1>5, <1>14, <1>15, <1>18, <2>1, <2>2 DEF ITabla
<1>21. IMapa(h)' BY <1>1, <1>2, <1>14 DEF IMapa
<1>22. Piezas(h)' - Piezas(h) = 0 BY <1>2, <1>14, PiezasMueve
<1>23. bloques' = bloques + 0 BY <1>1, <1>9
<1>24. /\ bloques' \in Int
       /\ (bloques' - Cardinality(Cabezas)') - (bloques - Cardinality(Cabezas)) = Piezas(h)' - Piezas(h)
  BY <1>1, <1>11, <1>22, <1>23, HeapFuera
<1> QED BY <1>1, <1>9, <1>10, <1>11, <1>13, <1>16, <1>17, <1>19, <1>20, <1>21, <1>24, Junta

LEMMA MapeaEntradaPaso ==
  ASSUME Inv, NEW h \in Hilos, MapeaEntrada(h)
  PROVE  Inv'
<1>1. /\ TPool /\ TControl /\ suma \in Nat /\ bloques \in Int /\ IPool /\ CuentasDePagina
      /\ ILote(h) /\ ITabla(h) /\ IMapa(h)
  BY Partes
<1> DEFINE F == inicios[h] \ mapeadas[h]
           i == Primero(F)
           p == lista[Tabla(h)][i]
<1>2. /\ pc[h] = "mapea" /\ UNCHANGED <<estado, head, tam>> /\ ref' = ref /\ pins' = pins
      /\ bloques' = bloques /\ suma' = suma /\ pide' = pide /\ quiere' = quiere /\ mias' = mias /\ fijas' = fijas
      /\ lista' = lista /\ tiene' = tiene /\ inicios' = inicios /\ Tabla(h) \in Asas
  BY AsasDe DEF MapeaEntrada, En
<1>3. F \subseteq DOMAIN lista[Tabla(h)] /\ F # {} BY <1>1, <1>2 DEF IMapa
<1>4. i \in F /\ p \in Pags BY <1>1, <1>2, <1>3, LugarDe
<1>5. i \in Lugares /\ i \in inicios[h] /\ i \notin mapeadas[h] BY <1>1, <1>4 DEF TControl
<1>6. bloques' = bloques + 0 BY <1>1, <1>2
<1>7. CASE A(h, "desmapea") /\ maps' = maps /\ mapeadas' = mapeadas
  <2>1. pc' = [pc EXCEPT ![h] = "desmapea"] /\ pc'[h] = "desmapea" BY <1>1, <1>7 DEF A, TControl
  <2>2. UNCHANGED <<campos, suma, mias, fijas, lista, tiene, inicios, mapeadas, pide, quiere>>
    BY <1>2, <1>7 DEF campos
  <2>3. ILote(h)' BY <1>1, <1>2, <2>1 DEF ILote
  <2>4. ITabla(h)' BY <1>1, <1>2, <2>1 DEF ITabla
  <2>5. IMapa(h)' BY <1>1, <1>2, <1>7, <2>1 DEF IMapa
  <2>6. Piezas(h)' - Piezas(h) = 0 BY <1>2, <2>1, PiezasMueve
  <2>7. bloques' \in Int /\ bloques' - bloques = Piezas(h)' - Piezas(h) BY <1>1, <1>6, <2>6
  <2>8. "desmapea" \in Pasos BY DEF Pasos
  <2> QED BY <2>1, <2>2, <2>3, <2>4, <2>5, <2>7, <2>8, SoloVa
<1>8. CASE /\ estado[p] = 1 /\ maps' = [maps EXCEPT ![p] = @ + 1]
           /\ mapeadas' = [mapeadas EXCEPT ![h] = @ \cup {i}]
           /\ A(h, IF F = {i} THEN "fuera" ELSE "mapea")
  <2> HIDE DEF p, i, F
  <2>1. TPool' BY <1>1, <1>2, <1>4, <1>8 DEF TPool
  <2>2. IPool' /\ Cabezas' = Cabezas
    <3>1. \A j \in Pags : ref'[j] >= ref[j] /\ pins'[j] >= pins[j] /\ maps'[j] >= maps[j]
      BY <1>1, <1>2, <1>8 DEF TPool
    <3>2. \A j \in Pags : estado[j] = 0 => ref'[j] = ref[j] /\ pins'[j] = pins[j] /\ maps'[j] = maps[j]
      BY <1>1, <1>2, <1>8 DEF TPool
    <3> QED BY <1>1, <1>2, <2>1, <3>1, <3>2, MasPool
  <2>3. ASSUME NEW q \in Pags
        PROVE  /\ ref'[q] = Cardinality(Duenos(q))' + Cardinality(EnListas(q))'
               /\ pins'[q] = Cardinality(Fijadores(q))' /\ maps'[q] = Cardinality(Entradas(q))'
    <3>1. Cardinality(Entradas(q))' = Cardinality(Entradas(q)) + Si(q = p)
      <4>1. Cardinality(Entradas(q))' = Cardinality(Entradas(q)) + Si(q = lista[Tabla(h)][i])
        BY <1>1, <1>2, <1>5, <1>8, EntradasMas
      <4> QED BY <4>1 DEF p
    <3>2. ref[q] = Cardinality(Duenos(q)) + Cardinality(EnListas(q)) /\ pins[q] = Cardinality(Fijadores(q))
          /\ maps[q] = Cardinality(Entradas(q))
      BY <1>1 DEF CuentasDePagina
    <3>3. maps'[q] = maps[q] + Si(q = p) BY <1>1, <1>4, <1>8 DEF TPool, Si
    <3>4. Fijadores(q)' = Fijadores(q) /\ Duenos(q)' = Duenos(q) /\ EnListas(q)' = EnListas(q)
      BY <1>2 DEF Fijadores, Duenos, EnListas
    <3> QED BY <1>2, <3>1, <3>2, <3>3, <3>4
  <2>4. CuentasDePagina' BY <2>3 DEF CuentasDePagina
  <2>5. /\ pc' = [pc EXCEPT ![h] = pc'[h]] /\ pc'[h] \in {"fuera", "mapea"}
        /\ F # {i} => pc'[h] = "mapea"
        /\ F = {i} => pc'[h] = "fuera"
    BY <1>1, <1>8 DEF A, TControl
  <2>6. TControl'
    <3>1. mapeadas' \in [Hilos -> SUBSET Lugares] BY <1>1, <1>5, <1>8 DEF TControl
    <3>2. pc' \in [Hilos -> Pasos] BY <1>1, <2>5 DEF TControl, Pasos
    <3> QED BY <1>1, <1>2, <3>1, <3>2 DEF TControl
  <2>7. Ajenos(h)
    <3>1. \A o \in Hilos \ {h} : pc'[o] = pc[o] /\ mapeadas'[o] = mapeadas[o] BY <1>1, <1>8, <2>5 DEF TControl
    <3> QED BY <1>2, <3>1 DEF Ajenos
  <2>8. mapeadas'[h] = mapeadas[h] \cup {i} BY <1>1, <1>8 DEF TControl
  <2>9. ILote(h)' BY <1>1, <1>2, <2>5 DEF ILote
  <2>10. ITabla(h)' BY <1>1, <1>2, <2>5 DEF ITabla
  <2>11. IMapa(h)'
    <3>1. pc'[h] = "mapea" => mapeadas'[h] # inicios[h]
      <4>1. F # {i} => \E j \in F : j # i BY <1>4
      <4>2. F = {i} => pc'[h] # "mapea" BY <2>5
      <4> QED BY <2>8, <4>1, <4>2 DEF F
    <3> QED BY <1>1, <1>2, <1>5, <2>5, <2>8, <3>1 DEF IMapa
  <2>12. Piezas(h)' - Piezas(h) = 0 BY <1>2, <2>5, PiezasMueve
  <2>13. /\ bloques' \in Int
         /\ (bloques' - Cardinality(Cabezas)') - (bloques - Cardinality(Cabezas)) = Piezas(h)' - Piezas(h)
    BY <1>1, <1>6, <2>2, <2>12, HeapFuera
  <2> QED BY <1>1, <1>2, <2>1, <2>2, <2>4, <2>6, <2>7, <2>9, <2>10, <2>11, <2>13, Junta
<1> QED BY <1>7, <1>8 DEF MapeaEntrada

LEMMA DesmapeaEntradaPaso ==
  ASSUME Inv, NEW h \in Hilos, DesmapeaEntrada(h)
  PROVE  Inv'
<1>1. /\ TPool /\ TControl /\ suma \in Nat /\ bloques \in Int /\ IPool /\ CuentasDePagina
      /\ ILote(h) /\ ITabla(h) /\ IMapa(h)
  BY Partes
<1> DEFINE i == Primero(mapeadas[h])
           p == lista[Tabla(h)][i]
<1>2. /\ pc[h] = "desmapea" /\ pide' = pide /\ quiere' = quiere /\ mias' = mias /\ fijas' = fijas
      /\ lista' = lista /\ tiene' = tiene /\ inicios' = inicios /\ Tabla(h) \in Asas
  BY AsasDe DEF DesmapeaEntrada, En
<1>3. CASE /\ mapeadas[h] # {} /\ PageDesmapear(p)
           /\ mapeadas' = [mapeadas EXCEPT ![h] = @ \ {i}] /\ pc' = pc
  <2>1. mapeadas[h] \in SUBSET DOMAIN lista[Tabla(h)] BY <1>1 DEF IMapa
  <2>2. i \in mapeadas[h] /\ p \in Pags BY <1>1, <1>2, <1>3, <2>1, LugarDe
  <2>3. i \in Lugares BY <1>1, <2>2 DEF TControl
  <2>4. maps[p] > 0 /\ estado[p] = 1 BY <1>1, <2>2, Sostenida
  <2> HIDE DEF p, i
  <2>5. /\ ref' = ref /\ pins' = pins /\ maps' = [maps EXCEPT ![p] = @ - 1]
        /\ TPool' /\ IPool' /\ suma' \in Nat
        /\ bloques' - Cardinality(Cabezas)' = bloques - Cardinality(Cabezas) /\ bloques' \in Int
    BY <1>1, <1>3, <2>2, <2>4, DesmapearLema
  <2>6. ASSUME NEW q \in Pags
        PROVE  /\ ref'[q] = Cardinality(Duenos(q))' + Cardinality(EnListas(q))'
               /\ pins'[q] = Cardinality(Fijadores(q))' /\ maps'[q] = Cardinality(Entradas(q))'
    <3>1. Cardinality(Entradas(q))' = Cardinality(Entradas(q)) - Si(q = p)
      <4>1. Cardinality(Entradas(q))' = Cardinality(Entradas(q)) - Si(q = lista[Tabla(h)][i])
        BY <1>1, <1>2, <1>3, <2>2, <2>3, EntradasMenos
      <4> QED BY <4>1 DEF p
    <3>2. ref[q] = Cardinality(Duenos(q)) + Cardinality(EnListas(q)) /\ pins[q] = Cardinality(Fijadores(q))
          /\ maps[q] = Cardinality(Entradas(q))
      BY <1>1 DEF CuentasDePagina
    <3>3. maps'[q] = maps[q] - Si(q = p) BY <1>1, <2>2, <2>5 DEF TPool, Si
    <3>4. Fijadores(q)' = Fijadores(q) /\ Duenos(q)' = Duenos(q) /\ EnListas(q)' = EnListas(q)
      BY <1>2 DEF Fijadores, Duenos, EnListas
    <3> QED BY <2>5, <3>1, <3>2, <3>3, <3>4
  <2>7. CuentasDePagina' BY <2>6 DEF CuentasDePagina
  <2>8. TControl'
    <3>1. mapeadas' \in [Hilos -> SUBSET Lugares] BY <1>1, <1>3 DEF TControl
    <3> QED BY <1>1, <1>2, <1>3, <3>1 DEF TControl
  <2>9. Ajenos(h) BY <1>1, <1>2, <1>3 DEF Ajenos, TControl
  <2>10. mapeadas'[h] = mapeadas[h] \ {i} /\ pc'[h] = "desmapea" BY <1>1, <1>2, <1>3 DEF TControl
  <2>11. ILote(h)' BY <1>1, <1>2, <2>10 DEF ILote
  <2>12. ITabla(h)' BY <1>1, <1>2, <2>10 DEF ITabla
  <2>13. IMapa(h)' BY <1>1, <1>2, <2>10 DEF IMapa
  <2>14. Piezas(h)' - Piezas(h) = 0 BY <1>2, <2>10, PiezasMueve
  <2>15. bloques' - Cardinality(Cabezas)' = (bloques - Cardinality(Cabezas)) + 0
    <3>1. Cardinality(Cabezas) \in Int BY CabezasFinitas
    <3> QED BY <1>1, <2>5, <3>1
  <2>16. (bloques' - Cardinality(Cabezas)') - (bloques - Cardinality(Cabezas)) = Piezas(h)' - Piezas(h)
    BY <1>1, <2>5, <2>14, <2>15, HeapIgual
  <2> QED BY <2>5, <2>7, <2>8, <2>9, <2>11, <2>12, <2>13, <2>16, Junta
<1>4. CASE mapeadas[h] = {} /\ A(h, "fuera") /\ UNCHANGED <<pool, mapeadas>>
  <2>1. pc' = [pc EXCEPT ![h] = "fuera"] /\ pc'[h] = "fuera" BY <1>1, <1>4 DEF A, TControl
  <2>2. UNCHANGED <<campos, suma, mias, fijas, lista, tiene, inicios, mapeadas, pide, quiere>> /\ bloques' = bloques
        /\ mapeadas' = mapeadas
    BY <1>2, <1>4 DEF campos, pool
  <2>3. ILote(h)' BY <1>1, <1>2, <2>1 DEF ILote
  <2>4. ITabla(h)' BY <1>1, <1>2, <2>1 DEF ITabla
  <2>5. IMapa(h)' BY <1>1, <1>2, <2>1, <2>2 DEF IMapa
  <2>6. Piezas(h)' - Piezas(h) = 0 BY <1>2, <2>1, PiezasMueve
  <2>7. bloques' \in Int /\ bloques' - bloques = Piezas(h)' - Piezas(h) BY <1>1, <2>2, <2>6
  <2>8. "fuera" \in Pasos BY DEF Pasos
  <2> QED BY <2>1, <2>2, <2>3, <2>4, <2>5, <2>7, <2>8, SoloVa
<1> QED BY <1>3, <1>4 DEF DesmapeaEntrada

(***************************************************************************)
(* The invariant holds from the start and through every step.              *)
(***************************************************************************)
LEMMA Comienzo == Init => Inv
<1> SUFFICES ASSUME Init PROVE Inv OBVIOUS
<1>1. TPool BY DEF Init, TPool
<1>2. TControl
  <2>1. 0 \in 0 .. MaxLista BY PuertoAssumption
  <2>2. "fuera" \in Pasos /\ <<>> \in Seq(Pags) BY EmptySeq DEF Pasos
  <2>3. quiere \in [Hilos -> 0 .. MaxLista] BY <2>1 DEF Init
  <2>4. lista \in [Asas -> Seq(Pags)] BY <2>2 DEF Init
  <2>5. pc \in [Hilos -> Pasos] BY <2>2 DEF Init
  <2> QED BY <2>3, <2>4, <2>5 DEF Init, TControl
<1>3. TypeOK BY <1>1, <1>2, TipoEnDos DEF Init
<1>4. IPool BY DEF Init, IPool, Vacia
<1>5. DOMAIN <<>> = {} /\ Len(<<>>) = 0 BY EmptySeq
<1>6. ASSUME NEW h \in Hilos PROVE ILote(h) /\ ITabla(h) /\ IMapa(h)
  <2>1. /\ lista[Lote(h)] = <<>> /\ lista[Tabla(h)] = <<>> /\ tiene[Lote(h)] = {} /\ tiene[Tabla(h)] = {}
        /\ pc[h] = "fuera" /\ inicios[h] = {} /\ mapeadas[h] = {}
    BY AsasDe DEF Init
  <2>2. 0 <= MaxLista BY PuertoAssumption
  <2>3. ILote(h) BY ONLY <1>5, <2>1, <2>2 DEF ILote
  <2>4. ITabla(h) BY ONLY <1>5, <2>1, <2>2 DEF ITabla
  <2>5. IMapa(h) BY ONLY <1>5, <2>1 DEF IMapa
  <2> QED BY <2>3, <2>4, <2>5
<1>7. IHeap
  <2>1. Cabezas = {} BY DEF Init, Cabezas
  <2>2. Brutos = {} BY DEF Init, Brutos
  <2>3. Lotes = {} BY AsasDe DEF Init, Lotes
  <2>4. Tablas = {} BY AsasDe DEF Init, Tablas
  <2>5. Arreglos = {} BY <2>4 DEF Arreglos
  <2>6. Cardinality({}) = 0 BY FS_EmptySet
  <2> QED BY <2>1, <2>2, <2>3, <2>4, <2>5, <2>6 DEF Init, IHeap
<1>8. CuentasDePagina
  <2>1. \A q \in Pags : Duenos(q) = {} /\ EnListas(q) = {} /\ Fijadores(q) = {} /\ Entradas(q) = {}
    BY DEF Init, Duenos, EnListas, Fijadores, Entradas
  <2>2. Cardinality({}) = 0 BY FS_EmptySet
  <2>3. \A q \in Pags : ref[q] = 0 /\ pins[q] = 0 /\ maps[q] = 0 BY DEF Init
  <2>4. \A q \in Pags : /\ Cardinality(Duenos(q)) = 0 /\ Cardinality(EnListas(q)) = 0
                        /\ Cardinality(Fijadores(q)) = 0 /\ Cardinality(Entradas(q)) = 0
    BY <2>1, <2>2
  <2> QED BY ONLY <2>3, <2>4 DEF CuentasDePagina
<1> QED BY <1>3, <1>4, <1>6, <1>7, <1>8 DEF Inv, IControl

LEMMA NadaCambia ==
  ASSUME Inv, UNCHANGED vars
  PROVE  Inv'
<1> USE DEF vars
<1>1. TypeOK' BY DEF Inv, TypeOK
<1>2. IPool'
  <2>1. IPool BY DEF Inv
  <2>2. \A q \in Pags : Vacia(q)' = Vacia(q) /\ EnBloque(q)' = EnBloque(q) /\ Sujeto(q)' = Sujeto(q)
    BY DEF Vacia, EnBloque, Sujeto, Bloque
  <2> QED BY <2>1, <2>2 DEF IPool
<1>3. IControl'
  <2>1. IControl BY DEF Inv
  <2>2. \A h \in Hilos : ILote(h)' = ILote(h) /\ ITabla(h)' = ITabla(h) /\ IMapa(h)' = IMapa(h)
    BY DEF ILote, ITabla, IMapa, Suyas
  <2> QED BY <2>1, <2>2 DEF IControl
<1>4. IHeap' BY DEF Inv, IHeap, Cabezas, Brutos, Lotes, Tablas, Arreglos
<1>5. CuentasDePagina'
  <2>1. CuentasDePagina BY DEF Inv
  <2>2. \A q \in Pags : /\ Duenos(q)' = Duenos(q) /\ EnListas(q)' = EnListas(q)
                        /\ Fijadores(q)' = Fijadores(q) /\ Entradas(q)' = Entradas(q)
    BY DEF Duenos, EnListas, Fijadores, Entradas
  <2> QED BY <2>1, <2>2 DEF CuentasDePagina
<1> QED BY <1>1, <1>2, <1>3, <1>4, <1>5 DEF Inv

LEMMA Inductiva == Inv /\ [Next]_vars => Inv'
<1> SUFFICES ASSUME Inv, [Next]_vars PROVE Inv' OBVIOUS
<1>1. CASE UNCHANGED vars BY <1>1, NadaCambia
<1>2. ASSUME NEW h \in Hilos, Sigue(h) PROVE Inv'
  BY <1>2, ColocaBloquePaso, SigueLotePaso, ColocaLotePaso, SueltaLotePaso, PideArregloPaso,
     TomaRefsPaso, SueltaTablaPaso, SueltaSglPaso, MapeaEntradaPaso, DesmapeaEntradaPaso
  DEF Sigue
<1>3. ASSUME NEW h \in Hilos, Empieza(h) PROVE Inv'
  <2>1. ASSUME NEW n \in Tamanos, PideBloque(h, n) PROVE Inv' BY <2>1, PideBloquePaso
  <2>2. ASSUME NEW p \in Pags, TomaPagina(h, p) \/ SueltaPagina(h, p) \/ LiberaBloque(h, p)
                                   \/ FijaPagina(h, p) \/ DesfijaPagina(h, p)
        PROVE  Inv'
    BY <2>2, TomaPaginaPaso, SueltaPaginaPaso, LiberaBloquePaso, FijaPaginaPaso, DesfijaPaginaPaso
  <2>3. ASSUME NEW n \in Lugares, PideLote(h, n) PROVE Inv' BY <2>3, PideLotePaso
  <2>4. ASSUME NEW l \in Tiras(Suyas(h)), HaceTabla(h, l) PROVE Inv' BY <2>4, HaceTablaPaso
  <2>5. CASE LiberaLote(h) \/ LiberaTabla(h) \/ MapeaTabla(h) \/ DesmapeaTabla(h) BY <2>5, LiberaListaPaso
  <2> QED BY <1>3, <2>1, <2>2, <2>3, <2>4, <2>5 DEF Empieza
<1> QED BY <1>1, <1>2, <1>3 DEF Next

LEMMA Invariante == Spec => []Inv
<1>1. Init => Inv BY Comienzo
<1>2. Inv /\ [Next]_vars => Inv' BY Inductiva
<1> QED BY <1>1, <1>2, PTL DEF Spec

(***************************************************************************)
(* What the invariant says.                                                *)
(***************************************************************************)
LEMMA AlgunoHay ==
  ASSUME NEW S, IsFiniteSet(S), Cardinality(S) # 0
  PROVE  S # {}
BY FS_EmptySet

LEMMA InvNadaPerdido == Inv => NadaPerdido
<1> SUFFICES ASSUME Inv PROVE NadaPerdido OBVIOUS
<1>1. TPool /\ TControl /\ IPool /\ CuentasDePagina /\ IHeap BY Partes
<1>2. ASSUME NEW p \in Pags, estado[p] = 1
      PROVE  \E q \in Bloque(p) :
                 Duenos(q) \cup Fijadores(q) # {} \/ EnListas(q) # {} \/ Entradas(q) # {}
  <2>1. PICK q \in Bloque(p) : ref[q] > 0 \/ pins[q] > 0 \/ maps[q] > 0 BY <1>1, <1>2 DEF IPool, Sujeto
  <2>2. q \in Pags BY <1>1, <1>2 DEF IPool, EnBloque
  <2>3. /\ ref[q] = Cardinality(Duenos(q)) + Cardinality(EnListas(q))
        /\ pins[q] = Cardinality(Fijadores(q)) /\ maps[q] = Cardinality(Entradas(q))
    BY <1>1, <2>2 DEF CuentasDePagina
  <2>4. /\ IsFiniteSet(Duenos(q)) /\ IsFiniteSet(Fijadores(q)) BY HilosFinitos DEF Duenos, Fijadores
  <2>5. IsFiniteSet(EnListas(q)) BY EnListasFinito DEF EnListas
  <2>6. IsFiniteSet(Entradas(q)) BY EntradasFinito DEF Entradas
  <2>7. \/ Cardinality(Duenos(q)) # 0 \/ Cardinality(EnListas(q)) # 0
        \/ Cardinality(Fijadores(q)) # 0 \/ Cardinality(Entradas(q)) # 0
    BY <2>1, <2>3, CuentaNat
  <2>8. Duenos(q) # {} \/ EnListas(q) # {} \/ Fijadores(q) # {} \/ Entradas(q) # {}
    BY <2>4, <2>5, <2>6, <2>7, AlgunoHay
  <2> QED BY <2>8
<1> QED BY <1>1, <1>2 DEF NadaPerdido, IHeap

LEMMA InvDmaVivo == Inv => DmaVivo
<1> SUFFICES ASSUME Inv, NEW h \in Hilos
             PROVE  /\ \A p \in Suyas(h) \cup fijas[h] : \A q \in Bloque(p) : q \in Pags /\ estado[q] = 1
                    /\ \A i \in mapeadas[h] : \A p \in Entrada(h, i) : estado[p] = 1
  BY DEF DmaVivo
<1>1. TPool /\ TControl /\ IPool /\ CuentasDePagina /\ ILote(h) /\ ITabla(h) /\ IMapa(h) BY Partes
<1>2. ASSUME NEW p \in Suyas(h) \cup fijas[h] PROVE p \in Pags /\ estado[p] = 1
  <2>1. p \in Pags BY <1>1, <1>2, SuyasPags DEF TControl
  <2>2. CASE p \in fijas[h] \cup mias[h] BY <1>1, <2>1, <2>2, Sostenida
  <2>3. CASE p \notin fijas[h] \cup mias[h]
    <3>1. PICK k \in tiene[Lote(h)] : lista[Lote(h)][k] = p BY <1>2, <2>3 DEF Suyas
    <3> QED BY <1>1, <2>1, <3>1, AsasDe, Sostenida
  <2> QED BY <2>1, <2>2, <2>3
<1>3. \A p \in Suyas(h) \cup fijas[h] : \A q \in Bloque(p) : q \in Pags /\ estado[q] = 1
  BY <1>1, <1>2 DEF IPool, EnBloque
<1>4. ASSUME NEW i \in mapeadas[h], NEW p \in Entrada(h, i) PROVE estado[p] = 1
  <2>1. PICK k \in DOMAIN lista[Tabla(h)] : p = lista[Tabla(h)][k] BY <1>4 DEF Entrada
  <2>2. pc[h] \notin {"arreglo", "refs", "sueltaTabla", "sueltaSgl"} BY <1>1, <1>4 DEF IMapa
  <2>3. k \in tiene[Tabla(h)] BY <1>1, <2>2 DEF ITabla
  <2>4. lista[Tabla(h)] \in Seq(Pags) BY <1>1, AsasDe DEF TControl
  <2>5. p \in Pags BY <2>1, <2>4, ElementOfSeq
  <2> QED BY <1>1, <2>1, <2>3, <2>5, AsasDe, Sostenida
<1> QED BY <1>3, <1>4

(***************************************************************************)
(* The theorems.                                                           *)
(***************************************************************************)
(* The fields of struct page, g_stats.refs and the lists of the threads    *)
(* keep their types: no count goes below zero, and a page is never put     *)
(* more often than it was taken.                                           *)
THEOREM TypeOKCorrecto == Spec => []TypeOK
<1>1. Inv => TypeOK BY DEF Inv
<1> QED BY <1>1, Invariante, PTL

(* The three counts of struct page are exactly its holders, in whatever    *)
(* order the threads run and wherever a call fails.                        *)
THEOREM CuentasDePaginaCorrecta == Spec => []CuentasDePagina
<1>1. Inv => CuentasDePagina BY DEF Inv
<1> QED BY <1>1, Invariante, PTL

(* No path, the undo paths of i915_alloc_paginas_dispersas and             *)
(* sg_alloc_table_from_pages included, loses a page, a block of the heap   *)
(* or an array.                                                            *)
THEOREM NadaPerdidoCorrecto == Spec => []NadaPerdido
<1>1. Inv => NadaPerdido BY InvNadaPerdido
<1> QED BY <1>1, Invariante, PTL

(* What is held, pinned or mapped for a device is never given back by      *)
(* put_page, i915_page_unpin or __free_pages.                              *)
THEOREM DmaVivoCorrecto == Spec => []DmaVivo
<1>1. Inv => DmaVivo BY InvDmaVivo
<1> QED BY <1>1, Invariante, PTL

=============================================================================
