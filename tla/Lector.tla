------------------------------- MODULE Lector -------------------------------
(***************************************************************************)
(* Reading a removable medium: usb_msc's table of units as the filesystems *)
(* see it, particiones.c (discovery of the volumes, guarded reads) and     *)
(* fat_lector.c (FAT32 and exFAT: cluster chains, bitmap, directories).    *)
(*                                                                         *)
(* The kernel runs one thread here, so a C function is an operator from a  *)
(* state to the set of its possible outcomes [s, r, x]: the state after    *)
(* it, its return value and what it hands back.  Everything that can       *)
(* happen meanwhile (a medium pulled out or replaced, the cancel key, a    *)
(* transfer that fails) happens in the service poll and in the transfer,   *)
(* which is where the code lets it happen.                                 *)
(*                                                                         *)
(* A sector holds two units of data, a cluster is one sector; the content  *)
(* of a sector is the pair <<generation of the medium, address>>, so data  *)
(* that came from another medium or another place can be told apart.       *)
(***************************************************************************)
EXTENDS Integers, Sequences, FiniteSets, SequencesExt

CONSTANTS Disco,        \* images: what is on each medium
          Unidades,     \* indexes of usb_msc's table of devices
          RanurasFat,   \* slots of the cache of FAT sectors (4)
          PorSectorFat, \* FAT entries in a sector (128)
          PorPagina,    \* bits of the exFAT bitmap in a page (4096)
          PorDir,       \* directory entries in a sector (16)
          NumPuntos,    \* checkpoints a cursor keeps (32)
          PuntoCada,    \* clusters between checkpoints (256)
          TopeLectura,  \* units of the largest grouped read (256 KiB)
          TopeSectores, \* sectors of one transfer (lectura_sectores)
          MaxProfundidad, \* directories the resolver and tree nest (64, 32)
          Nulo,         \* no result
          FallosCSW     \* whether a transfer may fail after its data arrived

Imagenes == DOMAIN Disco
Nadie == 255
Nada == <<>>
CORRUPTO == -22
NO_SOPORTADO == -21
DESCONOCIDO == -20
TRANSPORTE == -23
DESCONECTADO == -24
CANCELADO == -25
NO_ENCONTRADO == -26
ELEGIR == -27
TEXFAT == -30
USector == 2

Da(s, r, x) == {[s |-> s, r |-> r, x |-> x]}

\* `r = f(); if (r) return r;`: the rest runs only after a result of zero.
Si(S, Resto(_)) == UNION {IF o.r # 0 THEN Da(o.s, o.r, Nulo) ELSE Resto(o) : o \in S}
\* The rest runs whatever the result was.
Luego(S, Resto(_)) == UNION {Resto(o) : o \in S}

(***************************************************************************)
(* The table of units, the descriptors a poll can cancel, and the poll.    *)
(***************************************************************************)
Presente(s, u, g) == u \in Unidades /\ s.medio[u].activo /\ s.medio[u].gen = g
Activo(s, u) == u \in Unidades /\ s.medio[u].activo

\* Mutation: the catalogue outlives its unit.
NotificarDesconexionConCatalogo(s, u) ==
    IF u # s.unidad THEN s
    ELSE [s EXCEPT !.descon = TRUE, !.ruta = Nada,
                   !.fds = [f \in DOMAIN @ |->
                       IF @[f].en_uso /\ @[f].unidad = u
                       THEN [@[f] EXCEPT !.cancelado = TRUE] ELSE @[f]]]

\* The catalogue of a unit that is gone is empty and its descriptors are
\* cancelled; their buffers stay with whoever holds them.
NotificarDesconexion(s, u) ==
    IF u # s.unidad THEN s
    ELSE [s EXCEPT !.descon = TRUE, !.cat = Nada, !.ruta = Nada,
                   !.fds = [f \in DOMAIN @ |->
                       IF @[f].en_uso /\ @[f].unidad = u
                       THEN [@[f] EXCEPT !.cancelado = TRUE] ELSE @[f]]]

Desregistrar(s, u) == NotificarDesconexion([s EXCEPT !.medio[u].activo = FALSE], u)

\* Every registration takes a new generation and the first free entry.
Registrar(s, i) ==
    IF \A u \in Unidades : s.medio[u].activo THEN s
    ELSE LET u == CHOOSE w \in Unidades :
                      ~s.medio[w].activo /\ \A z \in Unidades : s.medio[z].activo \/ w <= z
         IN  [s EXCEPT !.medio[u] = [activo |-> TRUE, gen |-> Len(s.imgs) + 1],
                       !.imgs = Append(@, i)]

\* What xhci_sondeo can change: nothing, a unit leaves, another takes its place.
Enchufes(s) ==
    {s} \cup
    (IF s.sucesos = 0 THEN {}
     ELSE LET t == [s EXCEPT !.sucesos = @ - 1]
              fuera == {t} \cup {Desregistrar(t, u) : u \in {w \in Unidades : s.medio[w].activo}}
          IN  fuera \cup {Registrar(w, i) : w \in fuera, i \in s.repuestos})

Cancela(s) ==
    IF ~s.cancel THEN s
    ELSE [s EXCEPT !.fds = [f \in DOMAIN @ |->
              IF @[f].en_uso THEN [@[f] EXCEPT !.cancelado = TRUE] ELSE @[f]]]

\* servir_lectura: poll the bus, play the sound, look at the cancel key.
Sondea(s) ==
    {Cancela(t) : t \in Enchufes(s) \cup
        (IF s.sucesos = 0 THEN {} ELSE {[s EXCEPT !.sucesos = @ - 1, !.cancel = TRUE]})}

(***************************************************************************)
(* One transfer of usb_msc and the guarded read above it.  The bus is      *)
(* polled while the transfer waits, so the unit may be gone, or another    *)
(* one, when it ends; a failed transfer may already have delivered data.   *)
(***************************************************************************)
Transfiere(s, u, lba, n) ==
    LET g == s.medio[u].gen
        d == [k \in 1..n |-> <<g, lba + k - 1>>]
    IN  IF ~Activo(s, u) THEN Da(s, -2, Nulo)
        ELSE UNION {Da(t, 0, d) : t \in Enchufes(s)} \cup
             (IF s.sucesos = 0 THEN {}
              ELSE LET f == [s EXCEPT !.sucesos = @ - 1]
                   IN  Da(f, -5, Nulo) \cup (IF FallosCSW THEN Da(f, -14, d) ELSE {}))

\* particion_leer(p, 0, 0, ..): only the identity of the medium.
Identidad(s, p, fd) ==
    UNION {IF t.cancel \/ (fd # 0 /\ t.fds[fd].cancelado) THEN Da(t, CANCELADO, Nulo)
           ELSE IF ~Presente(t, p.unidad, p.gen) THEN Da(t, DESCONECTADO, Nulo)
           ELSE Da(t, 0, Nulo) : t \in Sondea(s)}

\* particion_leer: identity before every transfer and again after it.  On an
\* error x holds what the transfer left in the caller's buffer.
RECURSIVE ParticionLeer(_, _, _, _, _)
ParticionLeer(s, p, sector, n, fd) ==
    IF sector + n > p.sectores THEN Da(s, CORRUPTO, Nulo)
    ELSE IF n = 0 THEN Da(s, 0, Nada)
    ELSE LET k == IF n > TopeSectores THEN TopeSectores ELSE n
         IN  Si(Identidad(s, p, fd), LAMBDA a :
             Luego(Transfiere(a.s, p.unidad, p.inicio + sector, k), LAMBDA b :
                 IF b.r # 0 THEN Da(b.s, TRANSPORTE, b.x)
                 ELSE IF ~Presente(b.s, p.unidad, p.gen) THEN Da(b.s, DESCONECTADO, b.x)
                 ELSE {[o EXCEPT !.x = IF o.r = 0 THEN b.x \o @ ELSE b.x] :
                           o \in ParticionLeer(b.s, p, sector + k, n - k, fd)}))

(***************************************************************************)
(* Discovery: partition tables and the format of each partition.           *)
(***************************************************************************)
ImgDe(s, g) == Disco[s.imgs[g]]
VolDe(s, p) == ImgDe(s, p.gen).vol[p.inicio]

\* particion_identificar: OEM names, then the geometry, then the backup boot
\* sector of exFAT and the superblock of ext4, each in a read of its own.
Identificar(s, p) ==
    LET fin(t, f, r) == Da(t, 0, [p EXCEPT !.formato = f, !.resultado = r])
    IN  Luego(ParticionLeer(s, p, 0, 1, 0), LAMBDA a :
        IF a.r # 0 THEN fin(a.s, "?", a.r)
        ELSE LET v == VolDe(a.s, p) IN
        IF v.oem \in {"EXFAT", "NTFS"} THEN fin(a.s, v.oem, 0)
        ELSE IF v.bpb = "FAT16" THEN fin(a.s, "?", NO_SOPORTADO)
        ELSE IF v.bpb = "rotulo" THEN fin(a.s, "FAT32", CORRUPTO)
        ELSE IF v.bpb = "FAT32" THEN fin(a.s, "FAT32", 0)
        ELSE Luego(ParticionLeer(a.s, p, 1, 1, 0), LAMBDA b :
             IF b.r # 0 THEN fin(b.s, "?", b.r)
             ELSE IF v.respaldoExfat THEN fin(b.s, "EXFAT", 0)
             ELSE Luego(ParticionLeer(b.s, p, 2, 1, 0), LAMBDA c :
                  IF c.r # 0 THEN fin(c.s, "?", c.r)
                  ELSE IF v.super THEN fin(c.s, "EXT4", 0)
                  ELSE fin(c.s, "?", DESCONOCIDO))))

\* agregar: a partition inside the disc that overlaps none before it.
Agregar(ps, disco, e) ==
    IF e.n = 0 \/ e.ini = 0 \/ e.ini + e.n > disco.sectores THEN [r |-> CORRUPTO, ps |-> ps]
    ELSE IF \E i \in DOMAIN ps : e.ini < ps[i].inicio + ps[i].sectores /\ ps[i].inicio < e.ini + e.n
         THEN [r |-> CORRUPTO, ps |-> ps]
    ELSE [r |-> 0, ps |-> Append(ps, [disco EXCEPT !.inicio = e.ini, !.sectores = e.n, !.numero = e.num])]

\* gpt: header, array of entries, then the partitions, all in the usable range.
Gpt(s, disco, donde) ==
    Si(ParticionLeer(s, disco, donde, 1, 0), LAMBDA a :
    LET h == ImgDe(a.s, disco.gen).gpt[donde]
        una(acc, e) == IF acc.r # 0 THEN acc
                       ELSE IF e.ini < h.primero \/ e.ini + e.n - 1 > h.ultimo THEN [acc EXCEPT !.r = CORRUPTO]
                       ELSE Agregar(acc.ps, disco, e)
    IN  IF h.cabecera # 0 THEN Da(a.s, h.cabecera, Nulo)
        ELSE Si(ParticionLeer(a.s, disco, h.tabla, 1, 0), LAMBDA b :
             IF ~h.crc THEN Da(b.s, CORRUPTO, Nulo)
             ELSE LET q == FoldLeft(una, [r |-> 0, ps |-> Nada], h.entradas)
                  IN  Da(b.s, q.r, IF q.r = 0 THEN q.ps ELSE Nulo)))

\* The four entries of an MBR, in order; extended partitions are refused.
Mbr(s, disco, es) ==
    LET una(acc, e) ==
            IF acc.r # 0 \/ e.tipo = "vacia" THEN acc
            ELSE IF e.tipo = "bandera" THEN [acc EXCEPT !.r = CORRUPTO]
            ELSE IF e.tipo = "extendida" THEN [acc EXCEPT !.r = NO_SOPORTADO]
            ELSE Agregar(acc.ps, disco, e)
        q == FoldLeft(una, [r |-> 0, ps |-> Nada], es)
    IN  Da(s, q.r, IF q.r = 0 THEN q.ps ELSE Nulo)

\* The format of every partition; only a transport error or a unit gone ends it.
RECURSIVE IdentificarTodas(_, _)
IdentificarTodas(s, ps) ==
    IF ps = Nada THEN Da(s, 0, Nada)
    ELSE Luego(Identificar(s, Head(ps)), LAMBDA a :
         IF a.x.resultado \in {TRANSPORTE, DESCONECTADO} THEN Da(a.s, a.x.resultado, Nulo)
         ELSE {[o EXCEPT !.x = IF o.r = 0 THEN <<a.x>> \o @ ELSE @] : o \in IdentificarTodas(a.s, Tail(ps))})

\* particiones_descubrir
Descubrir(s, u) ==
    IF ~Activo(s, u) THEN Da(s, DESCONECTADO, Nulo)
    ELSE LET img == ImgDe(s, s.medio[u].gen)
             disco == [unidad |-> u, gen |-> s.medio[u].gen, inicio |-> 0, sectores |-> img.sectores,
                       numero |-> 1, formato |-> "?", resultado |-> 0]
             hallar(t) == IF img.esquema = "nada" THEN Da(t, CORRUPTO, Nulo)
                          ELSE IF img.esquema = "gpt"
                          THEN Luego(Gpt(t, disco, 1), LAMBDA g :
                                     IF g.r # CORRUPTO THEN {g}
                                     ELSE Gpt(g.s, disco, img.sectores - 1))
                          ELSE Mbr(t, disco, img.tabla)
         IN  Si(ParticionLeer(s, disco, 0, 1, 0), LAMBDA a :
             Luego(Identificar(a.s, disco), LAMBDA b :
                 IF b.x.resultado \in {TRANSPORTE, DESCONECTADO, CANCELADO} THEN Da(b.s, b.x.resultado, Nulo)
                 ELSE IF b.x.formato # "?" THEN Da(b.s, 0, <<b.x>>)
                 ELSE Si(hallar(b.s), LAMBDA c :
                      Si(IdentificarTodas(c.s, c.x), LAMBDA d :
                          IF d.x = Nada THEN Da(d.s, DESCONOCIDO, Nulo) ELSE {d}))))
=============================================================================
