----------------------------- MODULE MCFicheros -----------------------------
(* Small media: an exFAT disc, a disc with a FAT32 and an NTFS partition,  *)
(* a GPT disc with an ext4 volume.  A sector is addressed from the start   *)
(* of its disc.                                                            *)
EXTENDS Terminal

Base == [oem |-> "-", bpb |-> "-", respaldoExfat |-> FALSE, super |-> FALSE, boot |-> <<0, 0>>, bootsIguales |-> TRUE,
         mayusculas |-> TRUE, clusters |-> 0, raiz |-> 2, fat |-> <<>>, bits |-> <<>>, dir |-> <<>>,
         geometria |-> 0, mft |-> <<>>, rasgos |-> 0, inodos |-> <<>>, arboles |-> <<>>, dirs |-> <<>>, contenido |-> <<>>, tipos |-> <<>>]

Firmado(firma) == [firma |-> firma, nombre |-> firma, legible |-> FALSE]
Escrito(nombre) == [firma |-> "-", nombre |-> nombre, legible |-> TRUE]

\* Root in clusters 2 and 9, bitmap in 3 and 4, file a in 6, 8, 7.
VolExfat == [Base EXCEPT
    !.oem = "EXFAT", !.clusters = 8,
    !.fat = (2 :> 9 @@ 9 :> FinCadena @@ 3 :> 4 @@ 4 :> FinCadena @@ 5 :> FinCadena @@ 6 :> 8 @@ 8 :> 7 @@ 7 :> FinCadena),
    !.bits = (7 :> {2, 3, 4, 5} @@ 8 :> {6, 7, 8, 9}),
    !.dir = (6 :> <<[t |-> "81", cluster |-> 3, contiguo |-> FALSE, long |-> 4],
                    [t |-> "82", cluster |-> 5, contiguo |-> FALSE, long |-> 2],
                    [t |-> "libre"],
                    [t |-> "85", sec |-> 2, suma |-> 1, dir |-> FALSE]>> @@
             13 :> <<[t |-> "c0", suma |-> 1, cluster |-> 6, contiguo |-> FALSE, long |-> 6, valida |-> 5,
                      nombre |-> "a", nombres |-> 0],
                     [t |-> "c1", suma |-> 1]>>),
    !.contenido = (<<"a">> :> <<<<10, 0>>, <<10, 1>>, <<12, 0>>, <<12, 1>>, <<11, 0>>, "cero">>),
    !.tipos = (<<"a">> :> Firmado("png"))]
DiscoExfat == [sectores |-> 14, esquema |-> "directo", tabla |-> <<>>, gpt |-> <<>>, vol |-> (0 :> VolExfat)]

\* Root in cluster 2, long name b in clusters 3 and 4, directory d in 5, text c in
\* 8, 11 and 10: the first and the third sector of the FAT share a slot.
VolFat == [Base EXCEPT
    !.bpb = "FAT32", !.clusters = 10,
    !.fat = (2 :> FinCadena @@ 3 :> 4 @@ 4 :> FinCadena @@ 5 :> FinCadena @@ 6 :> FinCadena @@
             8 :> 11 @@ 11 :> 10 @@ 10 :> FinCadena),
    !.dir = (7 :> <<[t |-> "lfn", orden |-> 1, ultimo |-> TRUE, suma |-> 1, nombre |-> "b"],
                    [t |-> "normal", suma |-> 1, nombre |-> "B~1", dir |-> FALSE, cluster |-> 3, contiguo |-> FALSE, long |-> 4],
                    [t |-> "normal", suma |-> 2, nombre |-> "d", dir |-> TRUE, cluster |-> 5, contiguo |-> FALSE, long |-> 0],
                    [t |-> "normal", suma |-> 3, nombre |-> "c", dir |-> FALSE, cluster |-> 8, contiguo |-> FALSE, long |-> 6]>> @@
             10 :> <<[t |-> "punto"],
                    [t |-> "normal", suma |-> 3, nombre |-> "a", dir |-> FALSE, cluster |-> 6, contiguo |-> FALSE, long |-> 2]>>),
    !.contenido = (<<"b">> :> <<<<8, 0>>, <<8, 1>>, <<9, 0>>, <<9, 1>>>> @@
                   <<"c">> :> <<<<13, 0>>, <<13, 1>>, <<16, 0>>, <<16, 1>>, <<15, 0>>, <<15, 1>>>> @@
                   <<"d", "a">> :> <<<<11, 0>>, <<11, 1>>>>),
    !.tipos = (<<"b">> :> Firmado("mp4") @@ <<"c">> :> Escrito("txt") @@ <<"d", "a">> :> Firmado("bmp"))]
Registro(nombre, padre, sistema, datos) ==
    [fixups |-> TRUE, en_uso |-> TRUE, nombre |-> nombre, padre |-> padre, dir |-> FALSE, sistema |-> sistema, datos |-> datos]
VolNtfs == [Base EXCEPT
    !.oem = "NTFS",
    !.mft = (0 :> Registro("$MFT", 5, TRUE, Nulo) @@
             1 :> Registro("a", 5, FALSE, [residente |-> FALSE, bien |-> TRUE, tam |-> 4,
                                           runs |-> <<[b |-> 0, n |-> 1, f |-> 8], [b |-> 1, n |-> 1, f |-> 7]>>])),
    !.contenido = (<<"a">> :> <<<<25, 0>>, <<25, 1>>, <<24, 0>>, <<24, 1>>>>),
    !.tipos = (<<"a">> :> Firmado("mp3"))]
DiscoMbr == [sectores |-> 28, esquema |-> "mbr",
             tabla |-> <<[tipo |-> "normal", ini |-> 1, n |-> 16, num |-> 1],
                         [tipo |-> "normal", ini |-> 17, n |-> 10, num |-> 2], [tipo |-> "vacia"]>>,
             gpt |-> <<>>, vol |-> (0 :> Base @@ 1 :> VolFat @@ 17 :> VolNtfs)]

VolExt4 == [Base EXCEPT
    !.super = TRUE,
    !.inodos = (2 :> [modo |-> "dir", tam |-> 2, arbol |-> [directos |-> TRUE, prof |-> 0, es |-> <<5>>]] @@
                7 :> [modo |-> "reg", tam |-> 4, arbol |-> [directos |-> FALSE, prof |-> 1, es |-> <<[b |-> 0, n |-> 1, f |-> 8]>>]]),
    !.arboles = (8 :> [directos |-> FALSE, prof |-> 0, es |-> <<[b |-> 0, n |-> 1, f |-> 7], [b |-> 1, n |-> 1, f |-> 6]>>]),
    !.dirs = (5 :> <<[ino |-> 2, nombre |-> ".", dir |-> TRUE], [ino |-> 7, nombre |-> "a", dir |-> FALSE]>>),
    !.contenido = (<<"a">> :> <<<<10, 0>>, <<10, 1>>, <<9, 0>>, <<9, 1>>>>),
    !.tipos = (<<"a">> :> Firmado("jpeg"))]
CabeceraGpt(tabla) == [cabecera |-> 0, tabla |-> tabla, crc |-> TRUE, primero |-> 3, ultimo |-> 15,
                       entradas |-> <<[ini |-> 3, n |-> 12, num |-> 1]>>]
DiscoGpt == [sectores |-> 18, esquema |-> "gpt", tabla |-> <<>>,
             gpt |-> (1 :> [CabeceraGpt(2) EXCEPT !.crc = FALSE] @@ 17 :> CabeceraGpt(16)),
             vol |-> (0 :> Base @@ 3 :> VolExt4)]

Discos == ("exfat" :> DiscoExfat @@ "mbr" :> DiscoMbr @@ "gpt" :> DiscoGpt)

CONSTANT MaxSucesos   \* events of the bus, the keys and the heap in a session

Arranque(i, r, hda, sesion) ==
    LET v == VfsInicio(0 :> [activo |-> TRUE, gen |-> 1] @@ 1 :> [activo |-> FALSE, gen |-> 0], <<i>>, r, MaxSucesos)
    IN  {o.s : o \in TerminalArranque(TerminalInicio(v, hda, sesion))}

Init == \/ \E i \in Imagenes : est \in Arranque(i, Imagenes \ {i}, FALSE, "disco")
        \/ \E hda \in BOOLEAN : est \in Arranque("mbr", {}, hda, "consola")

Spec == Init /\ [][NextTerminal]_est

\* Every block of data a read returned was what the file held at that place on
\* the medium the descriptor was opened on: no data of a medium that replaced
\* it, of another file or of a block cached under the wrong label
\* (vfs_leer, fat_lector_leer, ntfs_leer_stream, ext4_leer_stream).
LecturaFiel == est.malas = {}

\* At the prompt no descriptor is open and every block of the heap is back, on
\* every path of every command, except those krealloc's failure lost.
SinFugas == /\ \A f \in Fds : ~est.fds[f].en_uso
            /\ est.memoria = est.con.perdidos

\* The numbers the user can type name entries of the medium that is mounted: the
\* catalogue is empty when nothing is, and after the unit was seen to leave.
CatalogoVigente ==
    /\ est.cat # Nada => est.tipo # "?"
    /\ \A k \in DOMAIN est.cat : est.cat[k].de = est.parte.gen
    /\ est.descon /\ est.tipo # "EXT4" => est.cat = Nada
=============================================================================
