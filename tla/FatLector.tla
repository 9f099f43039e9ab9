------------------------------ MODULE FatLector ------------------------------
(***************************************************************************)
(* fat_lector.c: the reader of FAT32 and exFAT volumes.  s.vol is the      *)
(* mounted volume (struct fat_lector_volumen): its partition, the cache of *)
(* FAT sectors and the cached page of the exFAT bitmap.  A cursor is       *)
(* struct fat_lector_cursor; a cached sector keeps the content it holds    *)
(* (de) next to the label the code gives it (sector, pagina).              *)
(***************************************************************************)
EXTENDS Lector

SinRanura == [valido |-> FALSE, sector |-> 0, de |-> Nada]
VolVacio == [montado |-> FALSE, exfat |-> FALSE, respaldo |-> 0, parte |-> Nulo, hayBitmap |-> FALSE,
             fatc |-> [k \in 0..RanurasFat - 1 |-> SinRanura], bmCursor |-> Nulo, pagina |-> -1, bmCache |-> Nada]

V(s) == VolDe(s, s.vol.parte)
\* The volume lies in its partition as boot, backup boot, superblock, FAT, heap.
\* What the image writes in the FAT at the end of a chain.
FinCadena == -8
InicioFat == 3
SectorDeFat(c) == InicioFat + c \div PorSectorFat
InicioDatos(v) == InicioFat + (v.clusters + 1) \div PorSectorFat + 1
Lba(s, c) == InicioDatos(V(s)) + c - 2

FatDesmontar(s) == [s EXCEPT !.vol = VolVacio]

Valido(s, c) == c \in 2..V(s).clusters + 1

\* What a cached FAT sector says of cluster c: the entry at c's place in the
\* sector that the cache really holds.
EntradaFat(s, de, c) ==
    LET k == (de[2] - s.vol.parte.inicio - InicioFat) * PorSectorFat + (c % PorSectorFat)
        fat == Disco[s.imgs[de[1]]].vol[s.vol.parte.inicio].fat
    IN  IF k \in DOMAIN fat THEN fat[k] ELSE 0

\* siguiente_cluster: 0 with the next cluster, 1 at the end of the chain; a
\* free, reserved, bad or foreign entry is never an end.
Siguiente(s, c, fd) ==
    IF ~Valido(s, c) THEN Da(s, CORRUPTO, 0)
    ELSE LET lba == SectorDeFat(c)
             k == lba % RanurasFat
             traer(t) ==
                 IF t.vol.fatc[k].valido /\ t.vol.fatc[k].sector = lba THEN Da(t, 0, Nulo)
                 ELSE Luego(ParticionLeer(t, t.vol.parte, lba, 1, fd), LAMBDA b :
                      IF b.r # 0
                      THEN Da(IF b.x = Nulo THEN b.s ELSE [b.s EXCEPT !.vol.fatc[k].de = b.x[1]], b.r, 0)
                      ELSE Da([b.s EXCEPT !.vol.fatc[k] =
                                  [valido |-> TRUE, sector |-> lba, de |-> b.x[1]]], 0, 0))
         IN  Si(Identidad(s, s.vol.parte, fd), LAMBDA a :
             Si(traer(a.s), LAMBDA b :
                 LET n == EntradaFat(b.s, b.s.vol.fatc[k].de, c)
                 IN  IF n = FinCadena THEN Da(b.s, 1, 0)
                     ELSE IF ~Valido(b.s, n) THEN Da(b.s, CORRUPTO, 0)
                     ELSE Da(b.s, 0, n)))

SinParcial == [valido |-> FALSE, sector |-> 0, de |-> Nada]
CursorIniciar(n) ==
    [nodo |-> n, indice |-> 0, cluster |-> n.cluster, tortuga |-> n.cluster, potencia |-> 1, pasos |-> 0,
     total |-> 0, punto |-> Nada, proximo |-> 0, parcial |-> SinParcial]

\* Mutation: the checkpoint nearest to the target, on either side of it.
RetrocedeAlMasCercano(c, indice) ==
    LET P == DOMAIN c.punto
        mejor == c.punto[CHOOSE k \in P : \A j \in P : c.punto[j].indice <= c.punto[k].indice]
    IN  IF indice >= c.indice THEN c
        ELSE IF P = {}
        THEN [c EXCEPT !.indice = 0, !.cluster = c.nodo.cluster, !.tortuga = c.nodo.cluster,
                       !.potencia = 1, !.pasos = 0, !.total = 0]
        ELSE [c EXCEPT !.indice = indice, !.cluster = mejor.cluster, !.tortuga = mejor.tortuga,
                       !.potencia = mejor.potencia, !.pasos = mejor.pasos, !.total = indice]

\* Backwards: from the start, or from the last checkpoint not after the target.
Retrocede(c, indice) ==
    LET P == {k \in DOMAIN c.punto : c.punto[k].indice <= indice}
        mejor == c.punto[CHOOSE k \in P : \A j \in P : c.punto[j].indice <= c.punto[k].indice]
    IN  IF indice >= c.indice THEN c
        ELSE IF P = {}
        THEN [c EXCEPT !.indice = 0, !.cluster = c.nodo.cluster, !.tortuga = c.nodo.cluster,
                       !.potencia = 1, !.pasos = 0, !.total = 0]
        ELSE [c EXCEPT !.indice = mejor.indice, !.cluster = mejor.cluster, !.tortuga = mejor.tortuga,
                       !.potencia = mejor.potencia, !.pasos = mejor.pasos, !.total = mejor.indice]

\* One hop to cluster n: Brent's tortoise moves when the power is used up, and
\* a checkpoint goes to the oldest place of the ring.
Avanza(c, n) ==
    LET llega == c.pasos + 1 = c.potencia
        d == [c EXCEPT !.cluster = n, !.indice = @ + 1, !.total = @ + 1,
                       !.pasos = IF llega THEN 0 ELSE @ + 1,
                       !.tortuga = IF llega THEN n ELSE @,
                       !.potencia = IF llega THEN 2 * @ ELSE @]
        p == [indice |-> d.indice, cluster |-> n, tortuga |-> d.tortuga,
              potencia |-> d.potencia, pasos |-> d.pasos]
    IN  IF d.indice % PuntoCada # 0 THEN d
        ELSE [d EXCEPT !.proximo = (@ + 1) % NumPuntos,
                       !.punto = IF Len(@) < NumPuntos THEN Append(@, p)
                                 ELSE [@ EXCEPT ![d.proximo + 1] = p]]

RECURSIVE Salta(_, _, _, _)
Salta(s, c, indice, fd) ==
    IF c.indice >= indice THEN Da(s, 0, c)
    ELSE IF fd # 0 /\ s.fds[fd].cancelado THEN Da(s, CANCELADO, c)
    ELSE Luego(Siguiente(s, c.cluster, fd), LAMBDA a :
         IF a.r # 0 THEN Da(a.s, a.r, c)
         ELSE IF c.total + 1 >= V(a.s).clusters \/ a.x = c.tortuga THEN Da(a.s, CORRUPTO, [c EXCEPT !.total = @ + 1])
         ELSE Salta(a.s, Avanza(c, a.x), indice, fd))

\* localizar: leaves the cursor on the cluster of that index of the file.
Localizar(s, c, indice, fd) ==
    IF indice >= V(s).clusters THEN Da(s, CORRUPTO, c)
    ELSE IF c.nodo.contiguo
    THEN IF Valido(s, c.nodo.cluster + indice)
         THEN Da(s, 0, [c EXCEPT !.cluster = c.nodo.cluster + indice, !.indice = indice])
         ELSE Da(s, CORRUPTO, c)
    ELSE LET d == Retrocede(c, indice)
         IN  IF ~Valido(s, d.cluster) THEN Da(s, CORRUPTO, d) ELSE Salta(s, d, indice, fd)

Datos(s, de) == [k \in 1..USector |-> <<de[1], de[2], k - 1>>]
Ceros(n) == [k \in 1..n |-> "cero"]

\* Extends the read over the clusters that follow c's on the disc: every one is
\* looked up in the FAT and in the bitmap first.  x is the units read at once.
RECURSIVE Agrupar(_, _, _, _, _, _)
RECURSIVE Leer(_, _, _, _, _, _)
RECURSIVE Asignado(_, _, _)

Agrupar(s, c, n, objetivo, deBitmap, fd) ==
    IF n >= objetivo THEN Da(s, 0, n)
    ELSE Luego(Localizar(s, c, c.indice + 1, fd), LAMBDA a :
         IF a.r # 0 THEN Da(a.s, IF a.r > 0 THEN CORRUPTO ELSE a.r, n)
         ELSE IF a.x.cluster # c.cluster + 1 THEN Da(a.s, 0, n)
         ELSE Si(IF deBitmap THEN Da(a.s, 0, n) ELSE Asignado(a.s, a.x.cluster, fd), LAMBDA b :
              Agrupar(b.s, a.x, IF objetivo - n > USector THEN n + USector ELSE objetivo, objetivo, deBitmap, fd)))

\* The content of sector lba through the cursor's one-sector buffer.
Parcial(s, c, lba, fd) ==
    IF c.parcial.valido /\ c.parcial.sector = lba THEN Da(s, 0, c)
    ELSE Luego(ParticionLeer(s, s.vol.parte, lba, 1, fd), LAMBDA a :
         IF a.r # 0 THEN Da(a.s, a.r, IF a.x = Nulo THEN c ELSE [c EXCEPT !.parcial.de = a.x[1]])
         ELSE Da(a.s, 0, [c EXCEPT !.parcial = [valido |-> TRUE, sector |-> lba, de |-> a.x[1]]]))

Menor(a, b) == IF a < b THEN a ELSE b

\* fat_lector_leer, one turn of its loop per call: r is the number of units or
\* an error, x the cursor and the data.  deBitmap: the bitmap reads itself.
Leer(s, c0, off, cantidad, deBitmap, fd) ==
    LET pide == Menor(cantidad, c0.nodo.long - off)
        indice == off \div USector
        dentro == off % USector
        mas(t, c, d) == {[o EXCEPT !.r = IF @ < 0 THEN @ ELSE @ + Len(d), !.x.datos = d \o @] :
                            o \in Leer(t, c, off + Len(d), pide - Len(d), deBitmap, fd)}
        falla(t, r, c) == Da(t, IF r > 0 THEN CORRUPTO ELSE r, [cursor |-> c, datos |-> Nada])
    IN  IF off >= c0.nodo.long \/ cantidad = 0 THEN Da(s, 0, [cursor |-> c0, datos |-> Nada])
        ELSE Luego(Identidad(s, s.vol.parte, fd), LAMBDA i :
        IF i.r # 0 THEN falla(i.s, i.r, c0)
        ELSE Luego(Localizar(i.s, c0, indice, fd), LAMBDA l :
        LET c == l.x IN
        IF l.r # 0 THEN falla(l.s, l.r, c)
        ELSE Luego(IF deBitmap THEN Da(l.s, 0, Nulo) ELSE Asignado(l.s, c.cluster, fd), LAMBDA m :
        LET n == Menor(Menor(pide, USector - dentro), c.nodo.valida - off)
            lba == Lba(m.s, c.cluster)
        IN  IF m.r # 0 THEN falla(m.s, m.r, c)
            ELSE IF off >= c.nodo.valida THEN mas(m.s, c, Ceros(Menor(pide, USector - dentro)))
            ELSE IF dentro # 0 \/ n < USector
            THEN Luego(Parcial(m.s, c, lba, fd), LAMBDA p :
                 IF p.r # 0 THEN falla(p.s, p.r, p.x)
                 ELSE mas(p.s, p.x, SubSeq(Datos(p.s, p.x.parcial.de), dentro + 1, dentro + n)))
            ELSE Luego(Agrupar(m.s, c, n, Menor(Menor(pide, TopeLectura), c.nodo.valida - off), deBitmap, fd), LAMBDA g :
                 IF g.r # 0 THEN falla(g.s, g.r, c)
                 ELSE Luego(ParticionLeer(g.s, g.s.vol.parte, lba, g.x \div USector, fd), LAMBDA p :
                      IF p.r # 0 THEN falla(p.s, p.r, c)
                      ELSE mas(p.s, c, FlattenSeq([k \in DOMAIN p.x |-> Datos(p.s, p.x[k])])))))))

\* asignado: exFAT asks its bitmap, through a cached page, whether the cluster
\* is in use.  The page is cleared before it is read and keeps its old label
\* when the read fails.
Asignado(s, c, fd) ==
    IF ~s.vol.hayBitmap THEN Da(s, 0, Nulo)
    ELSE LET pag == (c - 2) \div PorPagina
             ver(t) == LET de == t.vol.bmCache
                           bits == Disco[t.imgs[de[1]]].vol[t.vol.parte.inicio].bits
                       IN  IF de # Nada /\ de[2] \in DOMAIN bits /\ c \in bits[de[2]]
                           THEN Da(t, 0, Nulo) ELSE Da(t, CORRUPTO, Nulo)
         IN  IF pag = s.vol.pagina THEN ver(s)
             ELSE Luego(Leer([s EXCEPT !.vol.bmCache = Nada], s.vol.bmCursor, pag * USector, USector, TRUE, fd), LAMBDA a :
                  LET t == [a.s EXCEPT !.vol.bmCursor = a.x.cursor]
                  IN  IF a.r # USector THEN Da(t, IF a.r < 0 THEN a.r ELSE CORRUPTO, Nulo)
                      ELSE ver([t EXCEPT !.vol.pagina = pag, !.vol.bmCache = SubSeq(a.x.datos[1], 1, 2)]))

(***************************************************************************)
(* Directories.  An entry of 32 bytes is a record whose field t says what  *)
(* it is; suma stands for a checksum: the parts of one set carry the same. *)
(***************************************************************************)
Raiz(s) == LET n == V(s).clusters * USector
           IN  [cluster |-> V(s).raiz, dir |-> TRUE, long |-> n, valida |-> n, contiguo |-> FALSE, nombre |-> "/"]

SinLfn == [total |-> 0, espera |-> 0, suma |-> 0, nombre |-> ""]
Iterador(n) == [cursor |-> CursorIniciar(n), pos |-> 0, sector |-> -1, de |-> Nada, lfn |-> SinLfn, fin |-> FALSE]

EntradaDir(s, de, k) ==
    LET dir == Disco[s.imgs[de[1]]].vol[s.vol.parte.inicio].dir
    IN  IF de[2] \in DOMAIN dir /\ k \in DOMAIN dir[de[2]] THEN dir[de[2]][k] ELSE [t |-> "fin"]

\* entrada_raw: 1 with the next entry, 0 at the end of the chain.
EntradaRaw(s, it, fd) ==
    LET sec == it.pos \div PorDir
        con(t, o) == Da(t, 1, [it |-> [o EXCEPT !.pos = @ + 1], e |-> EntradaDir(t, o.de, (it.pos % PorDir) + 1)])
    IN  IF sec * USector >= it.cursor.nodo.long THEN Da(s, 0, [it |-> it])
        ELSE Luego(Localizar(s, it.cursor, sec, fd), LAMBDA a :
             LET o == [it EXCEPT !.cursor = a.x] IN
             IF a.r # 0 THEN Da(a.s, IF a.r = 1 THEN 0 ELSE a.r, [it |-> o])
             ELSE Luego(Asignado(a.s, a.x.cluster, fd), LAMBDA b :
                  IF b.r # 0 THEN Da(b.s, b.r, [it |-> o])
                  ELSE IF it.sector = sec THEN con(b.s, o)
                  ELSE Luego(ParticionLeer(b.s, b.s.vol.parte, Lba(b.s, a.x.cluster), 1, fd), LAMBDA c :
                       IF c.r # 0 THEN Da(c.s, c.r, [it |-> o])
                       ELSE con(c.s, [o EXCEPT !.sector = sec, !.de = c.x[1]]))))

NodoValido(s, n) ==
    IF n.valida > n.long \/ n.long > V(s).clusters * USector THEN CORRUPTO
    ELSE IF n.long = 0 /\ ~n.dir THEN IF n.cluster # 0 \/ n.contiguo THEN CORRUPTO ELSE 0
    ELSE IF ~Valido(s, n.cluster) THEN CORRUPTO
    ELSE IF n.contiguo /\ (n.long + USector - 1) \div USector > V(s).clusters + 2 - n.cluster THEN CORRUPTO
    ELSE 0

Nodo(e, dir, long, valida, nombre) ==
    [cluster |-> e.cluster, dir |-> dir, long |-> long, valida |-> valida, contiguo |-> e.contiguo, nombre |-> nombre]

\* The secondary entries of a set: the stream first, then the parts of the name;
\* every one adds to the checksum of the set.
RECURSIVE Secundarias(_, _, _, _, _, _, _)
Secundarias(s, it, n, i, prim, flujo, fd) ==
    IF i > n THEN Da(s, 0, [it |-> it, flujo |-> flujo])
    ELSE Luego(EntradaRaw(s, it, fd), LAMBDA a :
         LET o == [it |-> a.x.it, flujo |-> flujo] IN
         IF a.r # 1 THEN Da(a.s, IF a.r < 0 THEN a.r ELSE CORRUPTO, o)
         ELSE LET e == a.x.e
                  f == IF i = 1 THEN e ELSE IF e.t = "c1" THEN [flujo EXCEPT !.nombres = @ + 1] ELSE flujo
              IN  IF i = 1 /\ e.t # "c0" THEN Da(a.s, CORRUPTO, o)
                  ELSE IF i > 1 /\ e.t # "c1" /\ e.t # "benigna" THEN Da(a.s, NO_SOPORTADO, o)
                  ELSE Secundarias(a.s, a.x.it, n, i + 1, prim,
                                   [f EXCEPT !.suma = IF e.suma = prim.suma /\ (i = 1 \/ @ = prim.suma) THEN @ ELSE -1], fd))

\* siguiente_exfat: 1 with the next file or directory of the directory.
RECURSIVE SiguienteExfat(_, _, _)
SiguienteExfat(s, it, fd) ==
    Luego(EntradaRaw(s, it, fd), LAMBDA a :
    LET i == a.x.it IN
    IF a.r <= 0 THEN Da(a.s, a.r, [it |-> i])
    ELSE LET e == a.x.e IN
    IF e.t = "fin" THEN Da(a.s, 0, [it |-> [i EXCEPT !.fin = TRUE]])
    ELSE IF e.t \in {"libre", "81", "82", "benigna"} THEN SiguienteExfat(a.s, i, fd)
    ELSE IF e.t # "85" THEN Da(a.s, NO_SOPORTADO, [it |-> i])
    ELSE IF e.sec < 2 THEN Da(a.s, CORRUPTO, [it |-> i])
    ELSE Luego(Secundarias(a.s, i, e.sec, 1, e, Nulo, fd), LAMBDA b :
         IF b.r # 0 THEN Da(b.s, b.r, [it |-> b.x.it])
         ELSE LET f == b.x.flujo
                  n == Nodo(f, e.dir, f.long, f.valida, f.nombre)
                  mal == f.suma # e.suma \/ f.nombres # 1
                         \/ (n.dir /\ (n.long = 0 \/ n.long % USector # 0 \/ n.valida # n.long))
                         \/ NodoValido(b.s, n) # 0
              IN  IF mal THEN Da(b.s, CORRUPTO, [it |-> b.x.it]) ELSE Da(b.s, 1, [it |-> b.x.it, nodo |-> n])))

\* siguiente_fat32: long names come in descending parts before their entry.
RECURSIVE SiguienteFat32(_, _, _)
SiguienteFat32(s, it, fd) ==
    Luego(EntradaRaw(s, it, fd), LAMBDA a :
    LET i == a.x.it
        l == i.lfn
        otra(p) == SiguienteFat32(a.s, [i EXCEPT !.lfn = p], fd)
    IN  IF a.r < 0 THEN Da(a.s, a.r, [it |-> i])
        ELSE IF a.r = 0 THEN Da(a.s, IF l.total # 0 THEN CORRUPTO ELSE 0, [it |-> i])
        ELSE LET e == a.x.e IN
        IF e.t = "fin" THEN Da(a.s, IF l.total # 0 THEN CORRUPTO ELSE 0, [it |-> [i EXCEPT !.fin = TRUE]])
        ELSE IF e.t = "libre" THEN otra(SinLfn)
        ELSE IF e.t = "lfn"
        THEN LET m == IF e.ultimo THEN [total |-> e.orden, espera |-> e.orden, suma |-> e.suma, nombre |-> e.nombre] ELSE l
             IN  IF e.orden = 0 \/ e.orden # m.espera \/ e.suma # m.suma THEN Da(a.s, CORRUPTO, [it |-> i])
                 ELSE otra([m EXCEPT !.espera = @ - 1])
        ELSE IF e.t = "etiqueta" THEN otra([l EXCEPT !.total = 0])
        ELSE IF l.total # 0 /\ (l.espera # 0 \/ e.suma # l.suma) THEN Da(a.s, CORRUPTO, [it |-> i])
        ELSE IF e.t = "punto" THEN otra(SinLfn)
        ELSE LET long == IF e.dir THEN V(a.s).clusters * USector ELSE e.long
                 n == Nodo(e, e.dir, long, long, IF l.total # 0 THEN l.nombre ELSE e.nombre)
                 j == [i EXCEPT !.lfn = SinLfn]
             IN  IF NodoValido(a.s, n) # 0 THEN Da(a.s, CORRUPTO, [it |-> j]) ELSE Da(a.s, 1, [it |-> j, nodo |-> n]))

\* fat_lector_siguiente
SiguienteNodo(s, it, fd) ==
    IF it.fin THEN Da(s, 0, [it |-> it])
    ELSE IF s.vol.exfat THEN SiguienteExfat(s, it, fd) ELSE SiguienteFat32(s, it, fd)

\* The nodes of a directory up to the first the reader wants (nombre, or "" for
\* all of them): r as the loops of resolver, listar and tree leave it.
RECURSIVE Recorre(_, _, _, _, _)
Recorre(s, it, nombre, vistos, fd) ==
    Luego(SiguienteNodo(s, it, fd), LAMBDA a :
        IF a.r <= 0 THEN Da(a.s, a.r, vistos)
        ELSE IF a.x.nodo.nombre = nombre THEN Da(a.s, 1, <<a.x.nodo>>)
        ELSE Recorre(a.s, a.x.it, nombre, IF nombre = "" THEN Append(vistos, a.x.nodo) ELSE vistos, fd))

\* fat_lector_resolver: one component of the path at a time, with the parents
\* on a stack for "..".
RECURSIVE Resolver(_, _, _, _, _)
Resolver(s, ruta, n, padres, fd) ==
    IF ruta = Nada THEN Da(s, 0, n)
    ELSE LET c == Head(ruta)
             resto == Tail(ruta)
         IN  IF c = "." THEN Resolver(s, resto, n, padres, fd)
             ELSE IF ~n.dir THEN Da(s, NO_ENCONTRADO, n)
             ELSE IF c = ".."
             THEN IF padres = Nada THEN Resolver(s, resto, n, padres, fd)
                  ELSE Resolver(s, resto, Last(padres), Front(padres), fd)
             ELSE IF Len(padres) = MaxProfundidad THEN Da(s, NO_SOPORTADO, n)
             ELSE Luego(Recorre(s, Iterador(n), c, Nada, fd), LAMBDA a :
                  IF a.r < 0 THEN Da(a.s, a.r, n)
                  ELSE IF a.r = 0 THEN Da(a.s, NO_ENCONTRADO, n)
                  ELSE Resolver(a.s, resto, a.x[1], Append(padres, n), fd))

FatResolver(s, ruta, fd) ==
    IF ~s.vol.montado THEN Da(s, NO_ENCONTRADO, Nulo) ELSE Resolver(s, ruta, Raiz(s), Nada, fd)

\* tree: depth first, refusing a directory that is its own ancestor.
RECURSIVE Arbol(_, _, _)
Arbol(s, n, ancestros) ==
    LET cada(S, m) == Si(S, LAMBDA o : IF m.dir THEN Arbol(o.s, m, Append(ancestros, n.cluster)) ELSE {o})
    IN  IF Len(ancestros) >= MaxProfundidad THEN Da(s, NO_SOPORTADO, Nulo)
        ELSE IF n.cluster \in Range(ancestros) THEN Da(s, CORRUPTO, Nulo)
        ELSE Luego(Recorre(s, Iterador(n), "", Nada, 0), LAMBDA a :
             IF a.r < 0 THEN {a}
             ELSE FoldLeft(cada, Da(a.s, 0, Nulo), a.x))

FatTree(s, ruta) == Si(FatResolver(s, ruta, 0), LAMBDA a : Arbol(a.s, a.x, Nada))

(***************************************************************************)
(* Mounting.                                                               *)
(***************************************************************************)
\* boot_exfat: the twelve sectors of a boot region, read as one here.
BootExfat(s, cual) ==
    Luego(ParticionLeer(s, s.vol.parte, cual, 1, 0), LAMBDA a :
        IF a.r # 0 THEN {a} ELSE Da(a.s, V(a.s).boot[cual + 1], Nulo))

\* validar_cadena: exactly as many clusters as the length needs.
ValidarCadena(s, n) ==
    LET cantidad == (n.long + USector - 1) \div USector
        fin(r) == IF r = 1 THEN 0 ELSE IF r < 0 THEN r ELSE CORRUPTO
    IN  IF cantidad = 0 THEN Da(s, CORRUPTO, Nulo)
        ELSE Luego(Localizar(s, CursorIniciar(n), cantidad - 1, 0), LAMBDA a :
             IF a.r # 0 THEN Da(a.s, IF a.r > 0 THEN CORRUPTO ELSE a.r, Nulo)
             ELSE {[o EXCEPT !.r = fin(@)] : o \in Siguiente(a.s, a.x.cluster, 0)})

\* The bitmap and the up-case table of the root directory.
RECURSIVE BuscaMetas(_, _, _, _)
BuscaMetas(s, it, bm, up) ==
    Luego(EntradaRaw(s, it, 0), LAMBDA a :
        IF a.r < 0 THEN Da(a.s, a.r, Nulo)
        ELSE IF a.r = 0 \/ a.x.e.t = "fin" THEN Da(a.s, 0, [bm |-> bm, up |-> up])
        ELSE LET e == a.x.e
                 n == IF e.t \in {"81", "82"} THEN Nodo(e, FALSE, e.long, e.long, e.t) ELSE Nulo
             IN  IF e.t = "81" THEN IF bm # Nulo THEN Da(a.s, NO_SOPORTADO, Nulo) ELSE BuscaMetas(a.s, a.x.it, n, up)
                 ELSE IF e.t = "82" THEN IF up # Nulo THEN Da(a.s, CORRUPTO, Nulo) ELSE BuscaMetas(a.s, a.x.it, bm, n)
                 ELSE IF e.t = "texfat" THEN Da(a.s, NO_SOPORTADO, Nulo)
                 ELSE BuscaMetas(a.s, a.x.it, bm, up))

\* Every cluster of a metadata chain must be allocated.
RECURSIVE CadenaAsignada(_, _, _, _)
CadenaAsignada(s, c, j, total) ==
    IF j = total THEN Da(s, 0, Nulo)
    ELSE Si(Localizar(s, c, j, 0), LAMBDA a :
         Si(Asignado(a.s, a.x.cluster, 0), LAMBDA b : CadenaAsignada(b.s, a.x, j + 1, total)))

MetadatosExfat(s) ==
    Si(BuscaMetas(s, Iterador(Raiz(s)), Nulo, Nulo), LAMBDA a :
    LET bm == a.x.bm
        up == a.x.up
        todo(n) == (n.long + USector - 1) \div USector
    IN  IF bm = Nulo \/ up = Nulo \/ bm.long * PorPagina < V(a.s).clusters * USector \/ up.long = 0
           \/ ~Valido(a.s, bm.cluster) \/ ~Valido(a.s, up.cluster)
        THEN Da(a.s, CORRUPTO, Nulo)
        ELSE Si(ValidarCadena(a.s, bm), LAMBDA b :
             Si(ValidarCadena(b.s, up), LAMBDA c :
             LET t == [c.s EXCEPT !.vol.hayBitmap = TRUE, !.vol.bmCursor = CursorIniciar(bm), !.vol.pagina = -1]
             IN  Luego(Leer(t, CursorIniciar(up), 0, up.long, FALSE, 0), LAMBDA d :
                 IF d.r # up.long THEN Da(d.s, IF d.r < 0 THEN d.r ELSE CORRUPTO, Nulo)
                 ELSE IF ~V(d.s).mayusculas THEN Da(d.s, CORRUPTO, Nulo)
                 ELSE Si(Asignado(d.s, V(d.s).raiz, 0), LAMBDA e :
                      Si(CadenaAsignada(e.s, CursorIniciar(bm), 0, todo(bm)), LAMBDA f :
                         CadenaAsignada(f.s, CursorIniciar(up), 0, todo(up))))))))

\* fat_lector_montar: the principal boot region, or the backup when only that
\* one is sound; two sound regions that differ are corrupt.
FatMontar(s, p) ==
    LET s0 == [s EXCEPT !.vol = [VolVacio EXCEPT !.parte = p, !.exfat = (p.formato = "EXFAT")]]
        listo(S) == Si(S, LAMBDA o : Da([o.s EXCEPT !.vol.montado = TRUE], 0, Nulo))
        cual(t, k) == [t EXCEPT !.vol.respaldo = k]
        exfat == Luego(BootExfat(s0, 0), LAMBDA a :
                 IF a.r \in {NO_SOPORTADO, TEXFAT, DESCONECTADO} THEN {a}
                 ELSE Luego(BootExfat(a.s, 1), LAMBDA b :
                      IF a.r # 0 /\ b.r # 0 THEN Da(b.s, a.r, Nulo)
                      ELSE IF a.r # 0 THEN MetadatosExfat(cual(b.s, 1))
                      ELSE IF b.r # 0 THEN Si(BootExfat(cual(b.s, 2), 0), LAMBDA c : MetadatosExfat(c.s))
                      ELSE IF ~V(b.s).bootsIguales THEN Da(b.s, CORRUPTO, Nulo)
                      ELSE MetadatosExfat(b.s)))
        fat32 == Luego(ParticionLeer(s0, p, 0, 1, 0), LAMBDA a :
                 IF a.r # 0 THEN {a} ELSE Da(a.s, V(a.s).boot[1], Nulo))
    IN  UNION {IF o.r # 0 THEN Da(FatDesmontar(o.s), o.r, Nulo) ELSE {o} :
                  o \in listo(IF s0.vol.exfat THEN exfat ELSE fat32)}
=============================================================================
