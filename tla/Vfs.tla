--------------------------------- MODULE Vfs ---------------------------------
(***************************************************************************)
(* vfs.c and the read paths of ntfs.c and ext4.c.  s.fds is the table of   *)
(* descriptors, s.genfd the generation a handle carries, s.cat and s.ruta  *)
(* the numbered catalogue the terminal shows, s.tipo, s.unidad and s.parte *)
(* the mounted volume, s.nodos the nodes NTFS keeps since its mount,       *)
(* s.memoria the heap blocks that somebody must give back and s.con the    *)
(* state of the terminal.                                                  *)
(*                                                                         *)
(* A block of ext4 and a cluster of NTFS are one sector.                   *)
(***************************************************************************)
EXTENDS FatLector

CONSTANTS Fds,          \* indexes of the table of descriptors (VFS_MAX_FDS)
          PorCatalogo,  \* entries of the catalogue (VFS_MAX_CATALOGO)
          MaxGenFd,     \* last generation of descriptors before it wraps
          TopeTexto     \* units of a text the terminal shows (64 KiB)

\* The calls that cross a component's boundary, by their C names; a model binds
\* them to the definitions of the component that answers.
CONSTANTS fat_lector_montar(_, _), vfs_montar_particion(_, _, _), vfs_abrir(_, _), vfs_leer(_, _, _),
          vfs_leer_en(_, _, _, _), vfs_listar_pagina(_, _, _), vfs_ejecutar_tree(_, _)

SOLO_LECTURA == -28
FdLibre == [en_uso |-> FALSE, gfd |-> 0, unidad |-> Nadie, gen |-> 0, fs |-> "?", tam |-> 0, pos |-> 0,
            cancelado |-> FALSE, cursor |-> Nulo, bufer |-> FALSE, cache |-> -1, de |-> Nada, ruta |-> Nada]

\* vfs_iniciar, with the media of the boot already registered.
VfsInicio(medio, imgs, repuestos, sucesos) ==
    [medio |-> medio, imgs |-> imgs, repuestos |-> repuestos, sucesos |-> sucesos, unidad |-> Nadie,
     descon |-> FALSE, cat |-> Nada, ruta |-> Nada, cancel |-> FALSE, fds |-> [f \in Fds |-> FdLibre],
     genfd |-> 1, tipo |-> "?", parte |-> Nulo, nodos |-> Nada, vol |-> VolVacio, memoria |-> 0, malas |-> {},
     con |-> Nulo]

\* asignar_memoria and liberar_memoria: a request may find no room.
Reserva(s) ==
    Da([s EXCEPT !.memoria = @ + 1], 0, Nulo) \cup
    (IF s.sucesos = 0 THEN {} ELSE Da([s EXCEPT !.sucesos = @ - 1], -1, Nulo))
Libera(s, n) == [s EXCEPT !.memoria = @ - n]

(***************************************************************************)
(* The numbered catalogue; an entry keeps the medium it was read from.     *)
(***************************************************************************)
\* vfs_agregar_entrada_catalogo: one entry more, while there is room for it.
AgregarEntradaCatalogo(cat, n, de) ==
    IF Len(cat) = PorCatalogo \/ n.nombre \in {".", ".."} THEN cat
    ELSE Append(cat, [nombre |-> n.nombre, dir |-> n.dir, de |-> de])

\* vfs_obtener_entrada_catalogo and vfs_buscar_entrada_catalogo: the number of the
\* entry the user means, or of none.
ObtenerEntradaCatalogo(cat, k) == IF k \in DOMAIN cat THEN k ELSE 0
BuscarEntradaCatalogo(cat, nombre) == SelectInSeq(cat, LAMBDA e : e.nombre = nombre)

(***************************************************************************)
(* NTFS: the first records of the MFT are read once, at the mount.         *)
(***************************************************************************)
InicioMft == 4
VolActual(s, p) == ImgDe(s, p.gen).vol[p.inicio]

\* ntfs_leer_registro_mft with its fixups
LeerRegistro(s, p, i) ==
    Luego(ParticionLeer(s, p, InicioMft + i, 1, 0), LAMBDA a :
        IF a.r # 0 THEN Da(a.s, -2, Nulo)
        ELSE IF ~VolActual(a.s, p).mft[i].fixups THEN Da(a.s, -3, Nulo)
        ELSE Da(a.s, 0, VolActual(a.s, p).mft[i]))

\* ntfs_poblar_catalogo: a record that cannot be read is skipped.
RECURSIVE Poblar(_, _, _, _)
Poblar(s, p, i, nodos) ==
    IF i \notin DOMAIN VolActual(s, p).mft THEN Da([s EXCEPT !.nodos = nodos], 0, Nulo)
    ELSE Luego(LeerRegistro(s, p, i), LAMBDA a :
         IF a.r # 0 \/ ~a.x.en_uso \/ a.x.nombre = "" THEN Poblar(a.s, p, i + 1, nodos)
         ELSE Poblar(a.s, p, i + 1, Append(nodos, [mft |-> i, padre |-> a.x.padre, nombre |-> a.x.nombre,
                                                    dir |-> a.x.dir, sistema |-> a.x.sistema])))

NtfsMontar(s, p) ==
    Si(ParticionLeer(s, p, 0, 1, 0), LAMBDA a :
        IF VolActual(a.s, p).geometria # 0 THEN Da(a.s, VolActual(a.s, p).geometria, Nulo)
        ELSE Poblar(a.s, p, 0, Nada))

\* ntfs_listar_directorio ignores the path: the children of the root that are not
\* metadata, from the nodes kept.
NtfsListar(s) ==
    LET hijos == SelectSeq(s.nodos, LAMBDA n : ~n.sistema /\ n.padre = 5)
    IN  Da([s EXCEPT !.cat = FoldLeft(LAMBDA c, n : AgregarEntradaCatalogo(c, n, s.parte.gen), Nada, hijos)], 0, Nulo)

\* ntfs_ejecutar_tree ignores the path as well: it walks the nodes kept, to a
\* depth of five, reads nothing and only prints and counts.
NtfsTree(s) == Da(s, 0, Nulo)

\* ntfs_abrir_stream: the whole path is compared with the names of the files of
\* the volume, whatever their directory.
NtfsAbrir(s, ruta, f) ==
    LET k == SelectInSeq(s.nodos, LAMBDA n : ~n.dir /\ <<n.nombre>> = ruta)
        abre(t, tam, cur) == [t EXCEPT !.fds[f].tam = tam, !.fds[f].cursor = cur]
    IN  IF k = 0 THEN Da(s, -2, Nulo)
        ELSE Luego(LeerRegistro(s, s.parte, s.nodos[k].mft), LAMBDA a :
             IF a.r # 0 THEN Da(a.s, -3, Nulo)
             ELSE LET d == a.x.datos IN
                  IF d = Nulo THEN Da(a.s, -4, Nulo)
                  ELSE IF d.residente THEN Da(abre(a.s, Len(d.valor), d), 0, Nulo)
                  ELSE IF ~d.bien THEN Da(a.s, -6, Nulo)
                  ELSE Luego(Reserva(a.s), LAMBDA b :
                       IF b.r # 0 THEN Da(b.s, -5, Nulo)
                       ELSE Da([abre(b.s, d.tam, d) EXCEPT !.fds[f].bufer = TRUE], 0, Nulo)))

\* The cluster that holds a virtual cluster, or an error.
NtfsMapear(s, f, b) ==
    LET es == s.fds[f].cursor.runs
        k == SelectInSeq(es, LAMBDA e : b >= e.b /\ b < e.b + e.n)
    IN  IF k = 0 THEN Da(s, -4, Nulo)
        ELSE IF es[k].f + b - es[k].b < 0 THEN Da(s, -4, Nulo)
        ELSE Da(s, 0, es[k].f + b - es[k].b)

(***************************************************************************)
(* ext4: inodes, extent trees, directories.                                *)
(***************************************************************************)
\* ext4_leer_inodo: the group descriptor, then the inode.
LeerInodo(s, p, i) ==
    Si(ParticionLeer(s, p, 3, 1, 0), LAMBDA a :
    Si(ParticionLeer(a.s, p, 4, 1, 0), LAMBDA b :
        IF i \notin DOMAIN VolActual(b.s, p).inodos THEN Da(b.s, -1, Nulo)
        ELSE Da(b.s, 0, VolActual(b.s, p).inodos[i])))

\* ext4_mapear_bloque_logico: the depth must fall at every level.
RECURSIVE Mapear(_, _, _, _, _)
Mapear(s, p, a, anterior, b) ==
    LET k == SelectInSeq(a.es, LAMBDA e : e.n = 0 \/ (b >= e.b /\ b < e.b + e.n))
        despues == SelectInSeq(a.es, LAMBDA e : e.b > b)
        h == IF despues = 0 THEN Len(a.es) ELSE despues - 1
    IN  IF a.directos THEN IF b >= Len(a.es) \/ a.es[b + 1] = 0 THEN Da(s, -5, 0) ELSE Da(s, 0, a.es[b + 1])
        ELSE IF a.prof >= anterior THEN Da(s, -2, 0)
        ELSE IF a.prof = 0
        THEN IF k = 0 THEN Da(s, -3, 0)
             ELSE IF a.es[k].n = 0 THEN Da(s, -3, 0)
             ELSE Da(s, 0, a.es[k].f + b - a.es[k].b)
        ELSE IF h = 0 THEN Da(s, -4, 0)
        ELSE Luego(ParticionLeer(s, p, a.es[h].f, 1, 0), LAMBDA c :
             IF c.r # 0 THEN Da(c.s, -4, 0)
             ELSE Mapear(c.s, p, VolActual(c.s, p).arboles[a.es[h].f], a.prof, b))

\* The entries of one directory block; an inode that cannot be read leaves a
\* size of zero and the type its entry says.
RECURSIVE Hijos(_, _, _, _)
Hijos(s, p, es, items) ==
    IF es = Nada \/ Len(items) >= PorCatalogo THEN Da(s, 0, items)
    ELSE LET e == Head(es) IN
         IF e.ino = 0 \/ e.nombre \in {".", ".."} THEN Hijos(s, p, Tail(es), items)
         ELSE Luego(LeerInodo(s, p, e.ino), LAMBDA a :
              Hijos(a.s, p, Tail(es), Append(items, [ino |-> e.ino, nombre |-> e.nombre,
                  dir |-> e.dir \/ (IF a.r = 0 THEN a.x.modo = "dir" ELSE FALSE)])))

\* ext4_leer_entradas_directorio: a block that cannot be mapped or read is skipped.
RECURSIVE BloquesDir(_, _, _, _, _)
BloquesDir(s, p, ino, b, items) ==
    IF (b > 0 /\ b * USector >= ino.tam) \/ Len(items) >= PorCatalogo THEN Da(s, 0, items)
    ELSE Luego(Mapear(s, p, ino.arbol, 6, b), LAMBDA a :
         Luego(IF a.r # 0 THEN {a} ELSE ParticionLeer(a.s, p, a.x, 1, 0), LAMBDA c :
              IF c.r # 0 THEN BloquesDir(c.s, p, ino, b + 1, items)
              ELSE Luego(Hijos(c.s, p, VolActual(c.s, p).dirs[a.x], items), LAMBDA d :
                   BloquesDir(d.s, p, ino, b + 1, d.x))))

EntradasExt4(s, p, i) ==
    Luego(LeerInodo(s, p, i), LAMBDA a :
        IF a.r # 0 THEN Da(a.s, -2, Nada)
        ELSE IF a.x.modo # "dir" THEN Da(a.s, -3, Nada)
        ELSE BloquesDir(a.s, p, a.x, 0, Nada))

\* ext4_buscar_inodo_por_ruta: x is the inode, 0 when there is none.
RECURSIVE BuscarInodo(_, _, _, _)
BuscarInodo(s, p, i, ruta) ==
    IF ruta = Nada \/ i = 0 THEN Da(s, 0, i)
    ELSE Luego(EntradasExt4(s, p, i), LAMBDA a :
         LET k == IF a.r # 0 THEN 0 ELSE SelectInSeq(a.x, LAMBDA e : e.nombre = Head(ruta))
         IN  BuscarInodo(a.s, p, IF k = 0 THEN 0 ELSE a.x[k].ino, Tail(ruta)))

Ext4Raiz == 2

\* ext4_listar_directorio: what could be read becomes the catalogue.
Ext4Listar(s, ruta) ==
    Luego(BuscarInodo(s, s.parte, Ext4Raiz, ruta), LAMBDA a :
        IF a.x = 0 THEN Da(a.s, -2, Nulo)
        ELSE Luego(EntradasExt4(a.s, s.parte, a.x), LAMBDA b :
             Da([b.s EXCEPT !.cat = FoldLeft(LAMBDA c, n : AgregarEntradaCatalogo(c, n, s.parte.gen), Nada, b.x)], 0, Nulo)))

\* ext4_ejecutar_tree: errors end a branch, never the walk.
RECURSIVE Ext4Arbol(_, _, _, _)
Ext4Arbol(s, p, i, nivel) ==
    LET cada(S, e) == Luego(S, LAMBDA o : IF e.dir THEN Ext4Arbol(o.s, p, e.ino, nivel + 1) ELSE {o})
    IN  IF nivel > MaxProfundidad THEN Da(s, 0, Nulo)
        ELSE Luego(EntradasExt4(s, p, i), LAMBDA a : FoldLeft(cada, Da(a.s, 0, Nulo), a.x))

Ext4Abrir(s, ruta, f) ==
    Luego(BuscarInodo(s, s.parte, Ext4Raiz, ruta), LAMBDA a :
        IF a.x = 0 THEN Da(a.s, -1, Nulo)
        ELSE Luego(LeerInodo(a.s, s.parte, a.x), LAMBDA b :
             IF b.r # 0 THEN Da(b.s, -2, Nulo)
             ELSE IF b.x.modo # "reg" THEN Da(b.s, -3, Nulo)
             ELSE Luego(Reserva(b.s), LAMBDA c :
                  IF c.r # 0 THEN Da(c.s, -4, Nulo)
                  ELSE Da([c.s EXCEPT !.fds[f].tam = b.x.tam, !.fds[f].bufer = TRUE,
                                      !.fds[f].cursor = [arbol |-> b.x.arbol, ext |-> Nada]], 0, Nulo))))

\* The block of the extent kept by the cursor, or a descent of the tree, which
\* keeps the extent when the tree has one level.
Ext4Mapear(s, f, b) ==
    LET c == s.fds[f].cursor
        toma(t) == LET k == IF c.arbol.directos THEN 0
                            ELSE IF c.arbol.prof # 0 THEN 0
                            ELSE SelectInSeq(c.arbol.es, LAMBDA e : b >= e.b /\ b < e.b + e.n)
                   IN  IF k = 0 THEN t ELSE [t EXCEPT !.fds[f].cursor.ext = <<c.arbol.es[k]>>]
    IN  IF c.ext # Nada /\ b >= c.ext[1].b /\ b < c.ext[1].b + c.ext[1].n
        THEN Da(s, 0, c.ext[1].f + b - c.ext[1].b)
        ELSE Si(Mapear(s, s.parte, c.arbol, 6, b), LAMBDA a : Da(toma(a.s), 0, a.x))

Ext4Montar(s, p) ==
    Si(ParticionLeer(s, p, 2, 1, 0), LAMBDA a : Da(a.s, VolActual(a.s, p).rasgos, Nulo))

(***************************************************************************)
(* Streams of NTFS and ext4: one block through the descriptor's buffer.    *)
(***************************************************************************)
\* vfs_usb_leer_sectores
UsbLeer(s, f, lba) ==
    LET d == s.fds[f] IN
    IF lba < s.parte.inicio \/ lba + 1 > s.parte.inicio + s.parte.sectores THEN Da(s, CORRUPTO, Nulo)
    ELSE IF d.cancelado THEN Da(s, -2, Nulo)
    ELSE IF ~Presente(s, d.unidad, d.gen) THEN Da(s, -3, Nulo)
    ELSE Transfiere(s, d.unidad, lba, 1)

\* Fills the descriptor's buffer unless its label says it holds the block; a
\* transfer that fails late has already written over the buffer.
TraerBloque(s, f, b, bloque) ==
    IF s.fds[f].cache = b THEN Da(s, 0, Nulo)
    ELSE Luego(UsbLeer(s, f, s.parte.inicio + bloque), LAMBDA u :
         LET t == IF u.x = Nulo THEN u.s ELSE [u.s EXCEPT !.fds[f].de = u.x[1]]
         IN  IF u.r # 0 THEN Da(t, u.r, Nulo) ELSE Da([t EXCEPT !.fds[f].cache = b], 0, Nulo))

\* The loop of ntfs_leer_stream and ext4_leer_stream: an error after some data
\* is a short read.
RECURSIVE LeerBloques(_, _, _, _)
LeerBloques(s, f, n, leidos) ==
    LET d == s.fds[f]
        b == d.pos \div USector
        dentro == d.pos % USector
        k == Menor(n, USector - dentro)
        corta(t) == Da(t, IF leidos = Nada THEN -5 ELSE Len(leidos), leidos)
    IN  IF n = 0 THEN Da(s, Len(leidos), leidos)
        ELSE IF d.cancelado THEN corta(s)
        ELSE Luego(IF d.fs = "NTFS" THEN NtfsMapear(s, f, b) ELSE Ext4Mapear(s, f, b), LAMBDA m :
             IF m.r # 0 THEN corta(m.s)
             ELSE Luego(TraerBloque(m.s, f, b, m.x), LAMBDA c :
                  IF c.r # 0 THEN corta(c.s)
                  ELSE LeerBloques([c.s EXCEPT !.fds[f].pos = @ + k], f, n - k,
                                   leidos \o SubSeq(Datos(c.s, c.s.fds[f].de), dentro + 1, dentro + k))))

NtfsLeer(s, f, n) ==
    LET d == s.fds[f] IN
    IF d.cursor.residente
    THEN Da([s EXCEPT !.fds[f].pos = @ + n], n, SubSeq(d.cursor.valor, d.pos + 1, d.pos + n))
    ELSE LeerBloques(s, f, n, Nada)

\* fat_lector_leer_stream
FatLeer(s, f, n) ==
    Luego(Leer(s, s.fds[f].cursor, s.fds[f].pos, n, FALSE, f), LAMBDA a :
        LET t == [a.s EXCEPT !.fds[f].cursor = a.x.cursor]
        IN  IF a.r > 0 THEN Da([t EXCEPT !.fds[f].pos = @ + a.r], a.r, a.x.datos) ELSE Da(t, a.r, Nulo))

(***************************************************************************)
(* Descriptors.                                                            *)
(***************************************************************************)
\* vfs_obtener_descriptor: a handle of an older generation names nothing.
Vigente(s, h) == h[1] = s.genfd /\ s.fds[h[2]].en_uso /\ s.fds[h[2]].gfd = h[1]

\* vfs_cerrar and the close of each filesystem: the buffer is given back.
CerrarFd(s, f) ==
    [s EXCEPT !.fds[f] = FdLibre, !.memoria = IF s.fds[f].bufer THEN @ - 1 ELSE @]
Cerrar(s, h) == IF Vigente(s, h) THEN CerrarFd(s, h[2]) ELSE s

\* vfs_desmontar: every descriptor is closed and its handles made stale.
Desmontar(s) ==
    LET t == FoldLeft(LAMBDA w, f : IF w.fds[f].en_uso THEN CerrarFd(w, f) ELSE w, s, SetToSeq(Fds))
    IN  [t EXCEPT !.vol = VolVacio, !.nodos = Nada, !.tipo = "?", !.descon = FALSE, !.ruta = Nada,
                  !.unidad = Nadie, !.cat = Nada, !.genfd = IF @ = MaxGenFd THEN 1 ELSE @ + 1]

\* vfs_esta_montado: asks for the identity of the medium, too.
EstaMontado(s) ==
    IF s.tipo = "?" \/ s.descon THEN Da(s, 0, Nulo)
    ELSE IF ~Presente(s, s.unidad, s.parte.gen) THEN Da(NotificarDesconexion(s, s.unidad), 0, Nulo)
    ELSE Da(s, 1, Nulo)

\* The candidates of vfs_montar_particion: FAT volumes are mounted once to see
\* whether they can be; a chosen number ends the search.
RECURSIVE Candidatas(_, _, _, _, _)
Candidatas(s, ps, i, numero, halladas) ==
    IF i > Len(ps) THEN Da(s, 0, [ps |-> ps, halladas |-> halladas])
    ELSE LET p == ps[i]
             prueba == p.resultado = 0 /\ p.formato \in {"FAT32", "EXFAT"}
             monta == Luego(Reserva(s), LAMBDA m :
                      IF m.r # 0 THEN Da(m.s, NO_SOPORTADO, Nulo)
                      ELSE {[o EXCEPT !.s = Libera(FatDesmontar(@), 1)] : o \in fat_lector_montar(m.s, p)})
         IN  Luego(IF prueba THEN monta ELSE Da(s, p.resultado, Nulo), LAMBDA a :
             LET qs == [ps EXCEPT ![i].resultado = a.r]
             IN  IF numero # 0 /\ p.numero = numero THEN Da(a.s, 0, [ps |-> qs, halladas |-> <<i>>])
                 ELSE Candidatas(a.s, qs, i + 1, numero,
                          IF numero = 0 /\ p.formato # "?" /\ a.r = 0 THEN Append(halladas, i) ELSE halladas))

\* fat32_montar_particion reads the boot sector once more, for the label.
Fat32MontarParticion(s, p) ==
    Si(fat_lector_montar(FatDesmontar(s), p), LAMBDA a :
    Luego(ParticionLeer(a.s, p, 0, 1, 0), LAMBDA b :
        IF b.r # 0 THEN Da(FatDesmontar(b.s), b.r, Nulo) ELSE Da(b.s, 0, Nulo)))

ExfatMontarParticion(s, p) == fat_lector_montar(FatDesmontar(s), p)

MontarVolumen(s, p) ==
    CASE p.formato = "NTFS" -> NtfsMontar(s, p)
      [] p.formato = "EXT4" -> Ext4Montar(s, p)
      [] p.formato = "EXFAT" -> ExfatMontarParticion(s, p)
      [] OTHER -> Fat32MontarParticion(s, p)

\* vfs_montar_particion
Montar(s, u, numero) ==
    LET s0 == [Desmontar([s EXCEPT !.cancel = FALSE]) EXCEPT !.unidad = u]
        intento == Si(Descubrir(s0, u), LAMBDA a :
                   Luego(Candidatas(a.s, a.x, 1, numero, Nada), LAMBDA b :
                   LET hs == b.x.halladas
                       ps == b.x.ps
                   IN  IF Len(hs) > 1 THEN Da(b.s, ELEGIR, Nulo)
                       ELSE IF hs = Nada THEN Da(b.s, IF Len(ps) = 1 THEN ps[1].resultado ELSE DESCONOCIDO, Nulo)
                       ELSE IF ps[hs[1]].resultado # 0 THEN Da(b.s, ps[hs[1]].resultado, Nulo)
                       ELSE Si(MontarVolumen(b.s, ps[hs[1]]), LAMBDA c :
                            Da([c.s EXCEPT !.parte = ps[hs[1]], !.tipo = ps[hs[1]].formato, !.descon = FALSE], 0, Nulo))))
    IN  UNION {IF o.r # 0 THEN Da([o.s EXCEPT !.cat = Nada], o.r, Nulo) ELSE {o} : o \in intento}

\* `if (!vfs_esta_montado()) vfs_montar(g_unidad_activa)`
ConVolumen(s) ==
    Luego(EstaMontado(s), LAMBDA a : IF a.r = 1 THEN Da(a.s, 0, Nulo) ELSE vfs_montar_particion(a.s, a.s.unidad, 0))

\* vfs_abrir: x is the handle.  The descriptor is in use only when it is whole.
Abrir(s, ruta) ==
    LET libres(t) == {f \in Fds : ~t.fds[f].en_uso}
        f(t) == CHOOSE w \in libres(t) : \A z \in libres(t) : w <= z
        nuevo(t) == [t EXCEPT !.fds[f(t)] =
                        [FdLibre EXCEPT !.gfd = t.genfd, !.fs = t.tipo, !.unidad = t.unidad,
                                        !.gen = t.medio[t.unidad].gen, !.ruta = ruta]]
        abre(t, g) == IF t.tipo = "NTFS" THEN NtfsAbrir(t, ruta, g)
                      ELSE IF t.tipo = "EXT4" THEN Ext4Abrir(t, ruta, g)
                      ELSE Si(FatResolver(t, ruta, g), LAMBDA n :
                           IF n.x.dir THEN Da(n.s, NO_ENCONTRADO, Nulo)
                           ELSE Da([n.s EXCEPT !.fds[g].cursor = CursorIniciar(n.x), !.fds[g].tam = n.x.long], 0, Nulo))
        entera(o, g) == IF o.r # 0 THEN Da(CerrarFd(o.s, g), o.r, Nulo)
                        ELSE Da([o.s EXCEPT !.fds[g].en_uso = TRUE], 0, <<o.s.genfd, g>>)
    IN  Luego(ConVolumen([s EXCEPT !.cancel = FALSE]), LAMBDA a :
            IF a.r # 0 THEN Da(a.s, -2, Nulo)
            ELSE IF libres(a.s) = {} THEN Da(a.s, -3, Nulo)
            ELSE IF ~Activo(a.s, a.s.unidad) THEN Da(a.s, -5, Nulo)
            ELSE UNION {entera(o, f(a.s)) : o \in abre(nuevo(a.s), f(a.s))})

\* What the file on the medium of the descriptor holds from off on.
Esperado(s, d, off, n) ==
    LET c == VolActual(s, s.parte).contenido[d.ruta]
    IN  [k \in 1..n |-> IF c[off + k] = "cero" THEN "cero" ELSE <<d.gen>> \o c[off + k]]

\* vfs_leer: identity of the medium first; x is the data.
LeerFd(s, h, n) ==
    LET f == h[2]
        d == s.fds[f]
        pide == Menor(n, d.tam - d.pos)
        ido(t) == NotificarDesconexion([t EXCEPT !.fds[f].cancelado = TRUE], d.unidad)
        leer == IF d.fs \in {"FAT32", "EXFAT"} THEN FatLeer(s, f, n)
                ELSE IF pide <= 0 THEN Da(s, 0, Nulo)
                ELSE IF d.fs = "NTFS" THEN NtfsLeer(s, f, pide) ELSE LeerBloques(s, f, pide, Nada)
        anota(o) == IF o.r > 0 /\ o.x # Esperado(o.s, d, d.pos, o.r)
                    THEN [o EXCEPT !.s.malas = @ \cup {<<d.ruta, d.pos>>}] ELSE o
    IN  IF ~Vigente(s, h) THEN Da(s, -1, Nulo)
        ELSE IF n = 0 THEN Da(s, 0, Nulo)
        ELSE IF d.cancelado THEN Da(s, IF s.descon THEN DESCONECTADO ELSE CANCELADO, Nulo)
        ELSE IF ~Presente(s, d.unidad, d.gen) THEN Da(ido(s), DESCONECTADO, Nulo)
        ELSE UNION {IF o.r < 0 /\ ~Presente(o.s, d.unidad, d.gen)
                    THEN {[o EXCEPT !.s.fds[f].cancelado = TRUE]} ELSE {anota(o)} : o \in leer}

\* vfs_leer_en: the position is put back whatever the read did.
LeerEn(s, h, off, n) ==
    LET f == h[2] IN
    IF ~Vigente(s, h) THEN Da(s, -1, Nulo)
    ELSE IF n = 0 \/ off > s.fds[f].tam THEN Da(s, 0, Nulo)
    ELSE {[o EXCEPT !.s.fds[f].pos = s.fds[f].pos] : o \in vfs_leer([s EXCEPT !.fds[f].pos = off], h, n)}

\* vfs_buscar, from the start
Buscar(s, h, off) ==
    IF ~Vigente(s, h) \/ off > s.fds[h[2]].tam THEN s
    ELSE [s EXCEPT !.fds[h[2]].pos = off, !.fds[h[2]].cache = -1]

CancelarFd(s, h) == IF Vigente(s, h) THEN [s EXCEPT !.fds[h[2]].cancelado = TRUE] ELSE s

(***************************************************************************)
(* Listings and whole files.                                               *)
(***************************************************************************)
\* fat_lector_listar: the page is skipped, then the catalogue fills.
RECURSIVE ListaFat(_, _, _)
ListaFat(s, it, saltar) ==
    Luego(SiguienteNodo(s, it, 0), LAMBDA a :
        IF a.r <= 0 THEN Da(IF a.r < 0 THEN [a.s EXCEPT !.cat = Nada] ELSE a.s, a.r, Nulo)
        ELSE IF saltar > 0 THEN ListaFat(a.s, a.x.it, saltar - 1)
        ELSE IF Len(a.s.cat) = PorCatalogo THEN Da(a.s, 0, Nulo)
        ELSE ListaFat([a.s EXCEPT !.cat = AgregarEntradaCatalogo(@, a.x.nodo, a.s.vol.parte.gen)], a.x.it, 0))

FatListar(s, ruta, pagina) ==
    Si(FatResolver(s, ruta, 0), LAMBDA a :
        IF ~a.x.dir THEN Da(a.s, NO_ENCONTRADO, Nulo)
        ELSE ListaFat([a.s EXCEPT !.cat = Nada], Iterador(a.x), pagina * PorCatalogo))

\* vfs_listar_pagina
Listar(s, ruta, pagina) ==
    LET lista(t) == IF t.tipo = "NTFS" /\ pagina = 0 THEN NtfsListar(t)
                    ELSE IF t.tipo = "EXT4" /\ pagina = 0 THEN Ext4Listar(t, ruta)
                    ELSE IF t.tipo \in {"NTFS", "EXT4"} THEN Da(t, NO_SOPORTADO, Nulo)
                    ELSE FatListar(t, ruta, pagina)
        fin(o) == IF o.r = 0 THEN Da([o.s EXCEPT !.ruta = ruta], 0, Nulo)
                  ELSE Da([o.s EXCEPT !.cat = Nada], o.r, Nulo)
    IN  Luego(EstaMontado([s EXCEPT !.cancel = FALSE]), LAMBDA a :
            IF a.r = 0 THEN Da(a.s, DESCONECTADO, Nulo) ELSE UNION {fin(o) : o \in lista(a.s)})

\* vfs_ejecutar_tree
Tree(s, ruta) ==
    LET ext4(t) == Luego(BuscarInodo(t, t.parte, Ext4Raiz, ruta), LAMBDA b :
                       IF b.x = 0 THEN Da(b.s, -2, Nulo) ELSE Ext4Arbol(b.s, t.parte, b.x, 1))
    IN  Luego(ConVolumen(s), LAMBDA a :
            IF a.r # 0 THEN Da(a.s, -1, Nulo)
            ELSE IF a.s.tipo = "NTFS" THEN NtfsTree(a.s)
            ELSE IF a.s.tipo = "EXT4" THEN ext4(a.s) ELSE FatTree(a.s, ruta))

\* The loop of vfs_leer_archivo_texto.
RECURSIVE Texto(_, _, _)
Texto(s, h, total) ==
    IF total >= TopeTexto THEN Da(Cerrar(s, h), 0, Nulo)
    ELSE Luego(vfs_leer(s, h, 2), LAMBDA a :
         IF a.r > 0 THEN Texto(a.s, h, total + a.r)
         ELSE Da(Cerrar(a.s, h), a.r, Nulo))
LeerTexto(s, ruta) == Si(vfs_abrir(s, ruta), LAMBDA a : Texto(a.s, a.x, 0))

\* vfs_leer_archivo_binario: the block is handed over only when it is whole.
RECURSIVE Binario(_, _, _, _)
Binario(s, h, n, hechos) ==
    LET k == Menor(n - hechos, 4) IN
    IF hechos >= n THEN Da(Cerrar(s, h), 0, Nulo)
    ELSE Luego(vfs_leer(s, h, k), LAMBDA a :
         IF a.r # k THEN Da(Libera(Cerrar(a.s, h), 1), IF a.r < 0 THEN a.r ELSE CORRUPTO, Nulo)
         ELSE Binario(a.s, h, n, hechos + k))

\* Mutation: no memory for the file leaves its descriptor open.
LeerBinarioSinCerrar(s, ruta) ==
    Si(vfs_abrir(s, ruta), LAMBDA a :
    Luego(Reserva(a.s), LAMBDA b :
        IF b.r # 0 THEN Da(b.s, -1, Nulo) ELSE Binario(b.s, a.x, b.s.fds[a.x[2]].tam, 0)))
LeerBinario(s, ruta) ==
    Si(vfs_abrir(s, ruta), LAMBDA a :
    Luego(Reserva(a.s), LAMBDA b :
        IF b.r # 0 THEN Da(Cerrar(b.s, a.x), -1, Nulo)
        ELSE Binario(b.s, a.x, b.s.fds[a.x[2]].tam, 0)))

\* vfs_detectar_tipo_archivo: the type the extension of the name stands for.
DetectarTipoArchivo(s, ruta) == VolActual(s, s.parte).tipos[ruta].nombre

\* vfs_inspeccionar_archivo: x is what the first sector says the file is; without
\* a signature only printable text with the extension of a text has a type.
Inspeccionar(s, ruta) ==
    Si(vfs_abrir(s, ruta), LAMBDA a :
    Luego(vfs_leer(a.s, a.x, 2), LAMBDA b :
        LET t == Cerrar(b.s, a.x)
            tipo == VolActual(t, t.parte).tipos[ruta]
        IN  IF b.r < 0 THEN Da(t, b.r, "otro")
            ELSE IF tipo.firma # "-" THEN Da(t, 0, tipo.firma)
            ELSE Da(t, 0, IF DetectarTipoArchivo(t, ruta) = "txt" /\ tipo.legible THEN "txt" ELSE "otro")))

\* vfs_consultar_ruta: only FAT volumes can tell; x is TRUE for a directory.
Consultar(s, ruta) ==
    IF s.tipo \notin {"FAT32", "EXFAT"} THEN Da(s, NO_SOPORTADO, FALSE)
    ELSE Luego(FatResolver([s EXCEPT !.cancel = FALSE], ruta, 0), LAMBDA a :
         Da(a.s, a.r, IF a.r = 0 THEN a.x.dir ELSE FALSE))

\* vfs_crear_archivo, vfs_crear_directorio
Crear(s) == Da(s, SOLO_LECTURA, Nulo)
=============================================================================
