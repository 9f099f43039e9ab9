------------------------------ MODULE Terminal ------------------------------
(***************************************************************************)
(* terminal.c: the commands of the prompt as transformations of the whole  *)
(* state (Vfs's record with the fields of TerminalInicio), the image       *)
(* decoder of imagen.c they call, and the loop that reads and runs them.   *)
(*                                                                         *)
(* Words, their synonyms and their spelling are left out: an argument is a *)
(* number, a path, or the word a branch asks for.  A command that only     *)
(* prints leaves the state as it is.                                       *)
(***************************************************************************)
EXTENDS Vfs

CONSTANTS Rondas,   \* rounds of the stress test (64) and of the roulette (6)
          ejecutar_comando_abrir(_, _), abrir_tipo(_, _, _), ejecutar_reproducir_mp4_vfs(_, _, _)

MinEntero == -8   \* INT64_MIN, of an integer of four bits

\* rm is g_rm_modo, premio g_el_comando_desbloqueado, parado says how the
\* machine was stopped, perdidos counts blocks no pointer reaches any more.
TerminalInicio(v, hda, sesion) ==
    [v EXCEPT !.con = [rm |-> 1, premio |-> FALSE, audio |-> "no", hda |-> hda, db |-> -24,
                       parado |-> "", perdidos |-> 0,
                       sesion |-> sesion]]

Hecho(s) == Da(s, 0, Nulo)

\* A wait that keeps polling the bus: as many events as there are left.
RECURSIVE Atiende(_)
Atiende(s) == UNION {IF t = s THEN {s} ELSE Atiende(t) : t \in Enchufes(s)}
Espera(s) == UNION {Hecho(t) : t \in Atiende(s)}

(***************************************************************************)
(* Disks and directories.                                                  *)
(***************************************************************************)
\* listar_discos_y_entradas asks every active unit whether it is the open one.
ListarDiscos(s) == IF \E u \in Unidades : s.medio[u].activo THEN EstaMontado(s) ELSE Hecho(s)

Retroceder(s) == Luego(EstaMontado(s), LAMBDA a : ListarDiscos(IF a.r = 1 THEN Desmontar(a.s) ELSE a.s))

\* ejecutar_lectura_usb_msc: one sector, straight from the unit.
VolcarSector(s, u, lba) == IF Activo(s, u) THEN Transfiere(s, u, lba, 1) ELSE Hecho(s)

\* `if (!vfs_esta_montado() && vfs_montar(0) != 0) { listar_discos(); return; }`
ConDisco(s, Resto(_)) ==
    Luego(Luego(EstaMontado(s), LAMBDA a : IF a.r = 1 THEN Hecho(a.s) ELSE vfs_montar_particion(a.s, 0, 0)),
          LAMBDA b : IF b.r # 0 THEN ListarDiscos(b.s) ELSE Resto(b.s))

\* vfs_montar and the listing of the root, or the list of disks.
AbrirDisco(s, u, numero) ==
    Luego(vfs_montar_particion(s, u, numero), LAMBDA a : IF a.r = 0 THEN vfs_listar_pagina(a.s, a.s.ruta, 0) ELSE ListarDiscos(a.s))

\* seleccionar says why it failed instead of listing the disks.
Seleccionar(s, u, numero) ==
    IF u \notin Unidades THEN ListarDiscos(s)
    ELSE Luego(vfs_montar_particion(s, u, numero), LAMBDA a : IF a.r = 0 THEN vfs_listar_pagina(a.s, a.s.ruta, 0) ELSE {a})

ComandoTree(s, ruta) == vfs_ejecutar_tree(s, ruta)
ComandoLs(s, ruta) == ConDisco(s, LAMBDA t : vfs_listar_pagina(t, IF ruta = Nada THEN t.ruta ELSE ruta, 0))
ComandoLsPagina(s, pagina) == vfs_listar_pagina(s, s.ruta, pagina)

(***************************************************************************)
(* Images, sound and video from a file.                                    *)
(***************************************************************************)
\* validar_png: header, body and checksum of every chunk, each a read that must
\* be whole.  A chunk takes two units here.
RECURSIVE ValidarPng(_, _, _, _)
ValidarPng(s, h, pos, tam) ==
    IF pos >= tam THEN Hecho(s)
    ELSE Luego(vfs_leer_en(s, h, pos, 1), LAMBDA a :
         IF a.r # 1 THEN Da(a.s, IF a.r < 0 THEN a.r ELSE CORRUPTO, Nulo)
         ELSE Luego(vfs_leer_en(a.s, h, pos + 1, 1), LAMBDA b :
              IF b.r # 1 THEN Da(b.s, IF b.r < 0 THEN b.r ELSE CORRUPTO, Nulo)
              ELSE ValidarPng(b.s, h, pos + 2, tam)))

\* The callbacks of the decoder: it reads on; the first error is kept and from
\* then on every read is empty.
RECURSIVE Consume(_, _)
Consume(s, h) == Luego(vfs_leer(s, h, 2), LAMBDA a : IF a.r > 0 THEN Consume(a.s, h) ELSE Da(a.s, a.r, Nulo))

\* imagen_decodificar_vfs: leaves one block, the picture, when it succeeds.
DecodificarImagen(s, h, tipo) ==
    LET tam == s.fds[h[2]].tam
        entera(a, n) == IF a.r # n THEN Da(a.s, IF a.r < 0 THEN a.r ELSE CORRUPTO, Nulo) ELSE Hecho(a.s)
        valida(t) == IF tipo = "png" THEN ValidarPng(t, h, 2, tam)
                     ELSE Luego(vfs_leer_en(t, h, tam - 1, 1), LAMBDA a : entera(a, 1))
    IN  Luego(vfs_leer_en(s, h, 0, 2), LAMBDA a :
        Si(entera(a, 2), LAMBDA b :
        Si(valida(b.s), LAMBDA c :
        Luego(vfs_leer(Buscar(c.s, h, 0), h, 2), LAMBDA d :
            IF d.r < 0 THEN Da(d.s, d.r, Nulo)
            ELSE Si(Reserva(Buscar(d.s, h, 0)), LAMBDA e :
                 Luego(Consume(e.s, h), LAMBDA f :
                     IF f.r < 0 THEN Da(Libera(f.s, 1), f.r, Nulo) ELSE Hecho(f.s)))))))

\* visor_imagen_rgb_vfs: the file is closed before the picture is scaled; the
\* wait ends when the medium leaves.
VisorRgb(s, ruta, tipo) ==
    Si(vfs_abrir(s, ruta), LAMBDA a :
    Luego(DecodificarImagen(a.s, a.x, tipo), LAMBDA b :
        IF b.r # 0 THEN Da(Cerrar(b.s, a.x), b.r, Nulo)
        ELSE Luego(Reserva(Cerrar(b.s, a.x)), LAMBDA c :
             IF c.r # 0 THEN Da(Libera(c.s, 1), NO_SOPORTADO, Nulo)
             ELSE Luego(Espera(Libera(c.s, 1)), LAMBDA d :
                  {[o EXCEPT !.s = Libera(@, 1)] : o \in EstaMontado(d.s)}))))

\* visor_imagen_mostrar: twenty seconds on the screen, or none if there is no
\* room for the pixels.
VisorImagen(s) ==
    Luego(Reserva(s), LAMBDA a :
        IF a.r # 0 THEN {a} ELSE {[o EXCEPT !.s = Libera(@, 1)] : o \in Espera(a.s)})
MostrarImagen(s, ruta) ==
    Si(LeerBinario(s, ruta), LAMBDA a : {[o EXCEPT !.s = Libera(@, 1)] : o \in VisorImagen(a.s)})

\* reproductor_mp3_reproducir_vfs as the file sees it: reads in order until the
\* end, an error or the stop key, which cancels the descriptor.
AbrirMp3(s, ruta) ==
    Si(vfs_abrir(s, ruta), LAMBDA a :
    Luego({[s |-> CancelarFd(a.s, a.x), r |-> 0, x |-> Nulo]} \cup Consume(a.s, a.x), LAMBDA b :
        Da(Cerrar(b.s, a.x), b.r, Nulo)))

\* leer_vfs_mp4: each track reads through its own descriptor, wherever it likes.
LeerPista(s, hs, pista, off) == vfs_leer_en(s, hs[pista], off, 2)

\* reproductor_reproducir_fuente as the two descriptors see it.
ReproducirFuente(s, hs) ==
    Luego(LeerPista(s, hs, 1, 0), LAMBDA a :
        IF a.r <= 0 THEN {a}
        ELSE Luego(LeerPista(a.s, hs, 2, 2), LAMBDA b :
             Da(CancelarFd(CancelarFd(b.s, hs[1]), hs[2]), 0, Nulo) \cup
             (IF b.r <= 0 THEN {b} ELSE LeerPista(b.s, hs, 1, 2) \cup LeerPista(b.s, hs, 2, 0))))

\* play ram: the whole file in blocks of 64 KiB, a short read ends it; then
\* reproductor_reproducir_memoria, which only polls.
RECURSIVE CopiarRam(_, _, _, _)
CopiarRam(s, h, hechos, tam) ==
    IF hechos >= tam THEN Hecho(s)
    ELSE UNION {Luego(vfs_leer_en(s, h, hechos, n), LAMBDA a :
                    IF a.r # n THEN Da(a.s, -1, Nulo) ELSE CopiarRam(a.s, h, hechos + n, tam)) :
                n \in {Menor(2, tam - hechos)}}
ReproducirRam(s, h, tam) ==
    Si(Reserva(s), LAMBDA a :
    Luego(CopiarRam(a.s, h, 0, tam), LAMBDA b :
        {[o EXCEPT !.s = Libera(@, 1)] : o \in IF b.r # 0 THEN {b} ELSE Espera(b.s)}))

\* ejecutar_reproducir_mp4_vfs: two descriptors of the same file, both closed on
\* every path; ram is the word in front of the name.
ReproducirMp4(s, ruta, ram) ==
    LET cierra(t, v, a) == Cerrar(Cerrar(t, v), a)
        juega(t, v, a, tam) == IF ram THEN ReproducirRam(t, v, tam) ELSE ReproducirFuente(t, <<v, a>>)
    IN  Si(vfs_abrir(s, ruta), LAMBDA v :
        Luego(vfs_abrir(v.s, ruta), LAMBDA a :
            LET tam == a.s.fds[v.x[2]].tam
            IN  IF a.r # 0 THEN Da(Cerrar(a.s, v.x), -1, Nulo)
                ELSE IF tam = 0 THEN Da(cierra(a.s, v.x, a.x), -1, Nulo)
                ELSE {[o EXCEPT !.s = cierra(@, v.x, a.x)] : o \in juega(a.s, v.x, a.x, tam)}))

\* ejecutar_comando_abrir without an argument: the catalogue, or a listing.
AbrirSinNada(s) ==
    Luego(EstaMontado(s), LAMBDA a :
        IF a.r = 0 THEN ListarDiscos(a.s)
        ELSE IF a.s.cat # Nada THEN Hecho(a.s) ELSE vfs_listar_pagina(a.s, a.s.ruta, 0))

\* The file of that type.
AbrirTipo(s, ruta, tipo) ==
    LET imagen == {"png", "jpeg"}
    IN  CASE tipo = "mp4" -> ejecutar_reproducir_mp4_vfs(s, ruta, FALSE)
          [] tipo = "bmp" -> MostrarImagen(s, ruta)
          [] tipo \in imagen -> VisorRgb(s, ruta, tipo)
          [] tipo = "mp3" -> AbrirMp3(s, ruta)
          [] tipo = "txt" -> LeerTexto(s, ruta)
          [] OTHER -> Hecho(s)

\* ejecutar_comando_abrir: arg is a number of the catalogue or a name.  The name
\* is completed with the path the catalogue shows; a directory becomes the new
\* catalogue, a file is looked into before it is opened.
ComandoAbrir(s, arg) ==
    LET pedida(t) == IF arg.num > 0 THEN ObtenerEntradaCatalogo(t.cat, arg.num) ELSE BuscarEntradaCatalogo(t.cat, arg.nombre)
        abrirRuta(t, ruta, dirCat) ==
            Luego(Consultar(t, ruta), LAMBDA a :
                IF a.r # 0 /\ dirCat THEN Hecho(a.s)
                ELSE IF a.r = 0 /\ a.x THEN vfs_listar_pagina(a.s, ruta, 0)
                ELSE Si(Inspeccionar(a.s, ruta), LAMBDA b : abrir_tipo(b.s, ruta, b.x)))
    IN  ConDisco(s, LAMBDA t :
            UNION {IF k \in DOMAIN t.cat THEN abrirRuta(t, Append(t.ruta, t.cat[k].nombre), t.cat[k].dir)
                   ELSE IF arg.num > 0 THEN Hecho(t)
                   ELSE abrirRuta(t, Append(t.ruta, arg.nombre), FALSE) : k \in {pedida(t)}})

\* ejecutar_comando_leer: nothing, a number (a file of the catalogue before a
\* disk), a sector of the active unit, or a name.
ComandoLeer(s, arg) ==
    IF arg.que = "nada" THEN Luego(EstaMontado(s), LAMBDA a : ListarDiscos(a.s))
    ELSE IF arg.que = "lba" THEN VolcarSector(s, s.unidad, arg.num)
    ELSE IF arg.que = "disco" THEN AbrirDisco(s, arg.num, 0)
    ELSE IF arg.que = "nombre" THEN ejecutar_comando_abrir(s, arg)
    ELSE Luego(EstaMontado(s), LAMBDA a :
         IF a.r = 1 /\ arg.num \in DOMAIN a.s.cat THEN ejecutar_comando_abrir(a.s, arg) ELSE AbrirDisco(a.s, arg.num, 0))

\* ejecutar_comando_disco: one branch for each of its words.
ComandoDisco(s, arg) ==
    CASE arg.que \in {"tree"} -> vfs_ejecutar_tree(s, Nada)
      [] arg.que = "ls" -> vfs_listar_pagina(s, s.ruta, 0)
      [] arg.que \in {"crear", "mkdir", "escribir"} -> Crear(s)
      [] arg.que = "montar" -> AbrirDisco(s, arg.num, 0)
      [] arg.que = "desmontar" -> Retroceder(s)
      [] arg.que = "leer" -> ComandoLeer(s, [arg EXCEPT !.que = "numero"])
      [] arg.que = "lba" -> VolcarSector(s, s.unidad, arg.num)
      [] OTHER -> ListarDiscos(s)

\* The commands that read what other parts keep and print it (ayuda, info, eco,
\* dmesg, memoria, lspci, gpu, apic, dma, iommu, teclado, pray, the table of
\* ports) change nothing that is modelled here.
Informe(s) == Hecho(s)

\* ejecutar_comando_usb; resetting a port makes its unit leave and come back.
ComandoUsb(s, arg) ==
    CASE arg.que = "lba" -> VolcarSector(s, 0, arg.num)
      [] arg.que = "tree" -> vfs_ejecutar_tree(s, Nada)
      [] arg.que = "ls" -> vfs_listar_pagina(s, s.ruta, 0)
      [] arg.que \in {"monitor", "reset"} -> Espera(s)
      [] arg.que = "discos" -> ListarDiscos(s)
      [] OTHER -> Informe(s)

\* touch, mkdir and escribir; the redirection of echo is never reached, since
\* the branch of eco before it takes the line (terminal.c:4047).
ComandoTouch(s) == Crear(s)
ComandoMkdir(s) == Crear(s)
ComandoEscribir(s) == Crear(s)

(***************************************************************************)
(* Memory tests.                                                           *)
(***************************************************************************)
\* krealloc: when it fails it returns nothing and the old block stays taken.
Reasigna(s) == Hecho(s) \cup (IF s.sucesos = 0 THEN {} ELSE Da([s EXCEPT !.sucesos = @ - 1], -1, Nulo))

\* memoria probar: three blocks, a bigger first one, a page.  The pointer to the
\* first block is overwritten by krealloc's result before it is looked at.
MemoriaProbar(s) ==
    Si(Reserva(s), LAMBDA a :
    Luego(Reserva(a.s), LAMBDA b :
        IF b.r # 0 THEN Da(Libera(b.s, 1), -1, Nulo)
        ELSE Luego(Reserva(b.s), LAMBDA c :
             IF c.r # 0 THEN Da(Libera(c.s, 2), -1, Nulo)
             ELSE Luego(Reasigna(c.s), LAMBDA d :
                  IF d.r # 0 THEN Da([Libera(d.s, 2) EXCEPT !.con.perdidos = @ + 1], -1, Nulo)
                  ELSE Luego(Reserva(d.s), LAMBDA e : Hecho(Libera(e.s, IF e.r = 0 THEN 4 ELSE 3)))))))

\* dma probar: one buffer, given back on every path after it exists.
DmaProbar(s) == Si(Reserva(s), LAMBDA a : Hecho(Libera(a.s, 1)))

\* One round of ejecutar_stress_basico: a page, a block and a buffer (of the
\* eight), a poll, the sector of that number of the first ready unit; what was
\* given is taken back and a failure ends the test.
RondaStress(s, ronda) ==
    LET tres == Luego(Reserva(s), LAMBDA a :
                Luego(Reserva(a.s), LAMBDA b :
                {[c EXCEPT !.x = (IF a.r = 0 THEN 1 ELSE 0) + (IF b.r = 0 THEN 1 ELSE 0) + (IF c.r = 0 THEN 1 ELSE 0)] :
                     c \in Reserva(b.s)}))
        lee(t) == LET A == {w \in Unidades : t.medio[w].activo}
                  IN  IF A = {} THEN Hecho(t) ELSE Transfiere(t, CHOOSE w \in A : \A z \in A : w <= z, ronda, 1)
    IN  Luego(tres, LAMBDA a :
        IF a.x # 3 THEN Da(Libera(a.s, a.x), -1, Nulo)
        ELSE UNION {Luego(lee(t), LAMBDA b : Hecho(Libera(b.s, 3))) : t \in Enchufes(a.s)})

RECURSIVE RondasStress(_, _)
RondasStress(s, n) == IF n = 0 THEN Hecho(s) ELSE Si(RondaStress(s, Rondas - n), LAMBDA a : RondasStress(a.s, n - 1))

\* The test takes the HDA over, whatever it was playing, and an idle AC'97; it
\* stops what it started.
ComandoStress(s) ==
    LET toma == s.con.hda \/ s.con.audio = "no"
    IN  Luego(RondasStress(IF toma THEN [s EXCEPT !.con.audio = "bucle"] ELSE s, Rondas), LAMBDA a :
        Hecho(IF toma THEN [a.s EXCEPT !.con.audio = "no"] ELSE a.s))

(***************************************************************************)
(* Tests of the page tables and of the Linux shim: they take memory, which *)
(* is back on every path.                                                  *)
(***************************************************************************)

\* paginacion_ejecutar_autodiagnostico: a frame, mapped (which may need tables
\* there is no memory for), written, unmapped and given back.  Tables are the
\* page tables' own from then on (module Recursos) and not counted here.
PaginacionProbar(s) ==
    Si(Reserva(s), LAMBDA a :
    Luego(Reserva(a.s), LAMBDA b : Da(Libera(b.s, IF b.r = 0 THEN 2 ELSE 1), b.r, Nulo)))

\* linux_shim_ejecutar_autodiagnostico: a coherent buffer, back before ioremap.
LinuxProbar(s) ==
    Si(Reserva(s), LAMBDA a :
    Si(Reserva(Libera(a.s, 1)), LAMBDA b : Hecho(Libera(b.s, 1))))

\* evaluar_expresion, one operation: by zero gives zero; the smallest integer by
\* -1 raises #DE and the machine stops in the handler.
ComandoCalc(s, a, op, b) ==
    IF op \in {"/", "%"} /\ a = MinEntero /\ b = -1 THEN Hecho([s EXCEPT !.con.parado = "#DE"]) ELSE Hecho(s)

(***************************************************************************)
(* Sound, the keyboard and the ends of the machine.                        *)
(***************************************************************************)
\* audio_ac97_reproducir_pcm and _bucle end what was playing; detener stops it.
ComandoMusica(s, que) ==
    CASE que = "detener" -> Hecho([s EXCEPT !.con.audio = "no"])
      [] que = "bucle" -> Hecho([s EXCEPT !.con.audio = "bucle"])
      [] OTHER -> Hecho([s EXCEPT !.con.audio = "una"])
ComandoCangrejo(s) == Hecho([s EXCEPT !.con.audio = "una"])

MinDb == -60
MaxDb == 6
\* audio_ajustar_volumen_db: the sum is kept inside the range.
ComandoVolumen(s, d) ==
    Hecho([s EXCEPT !.con.db = IF @ + d > MaxDb THEN MaxDb ELSE IF @ + d < MinDb THEN MinDb ELSE @ + d])

TecladoProbar(s) == Espera(s)

\* triple_fault_ejecutar is refused while no VM exit can be intercepted, which
\* this commit never says; huevo_quebrar does not come back.
IntercepcionDisponible == FALSE
TripleFault(s, tier) == Hecho(IF IntercepcionDisponible THEN [s EXCEPT !.con.parado = "triple fault"] ELSE s)
HuevoQuebrar(s) == Hecho([s EXCEPT !.con.parado = "huevo"])

RmModo(s, n) == Hecho([s EXCEPT !.con.rm = n])
\* rm: the flag of the line before the mode; mode 0 is the classic end.
ComandoRm(s, bandera) ==
    LET tier == IF bandera = Nulo THEN s.con.rm ELSE bandera
    IN  IF tier \in 1..3 THEN TripleFault(s, tier) ELSE HuevoQuebrar(s)

\* One round of the roulette: the player's shot, then the machine's; a shot kills
\* when it is below the number of the round.
RECURSIVE RondasRuleta(_, _)
RondasRuleta(s, ronda) ==
    LET calla == [s EXCEPT !.con.audio = "no"]
    IN  IF ronda > Rondas THEN Hecho(calla)
        ELSE UNION {IF jugador < ronda THEN HuevoQuebrar(calla)
                    ELSE IF sistema < ronda THEN Hecho([calla EXCEPT !.con.premio = TRUE])
                    ELSE RondasRuleta(s, ronda + 1) : jugador, sistema \in 0..Rondas - 1}
ComandoRuleta(s) == RondasRuleta([s EXCEPT !.con.audio = "bucle"], 1)

\* It does nothing once it is won, and nothing before.
ElComando(s) == Hecho(s)
ComandoApagar(s) == Hecho([s EXCEPT !.con.parado = "apagado"])

(***************************************************************************)
(* terminal_ejecutar: the first unit that mounts, its tree, then the       *)
(* prompt.  The loop counts up to the number of units, not to the last     *)
(* index.                                                                  *)
(***************************************************************************)
RECURSIVE Arranca(_, _, _)
Arranca(s, u, total) ==
    IF u >= total THEN Hecho(s)
    ELSE IF ~Activo(s, u) THEN Arranca(s, u + 1, total)
    ELSE Luego(vfs_montar_particion(s, u, 0), LAMBDA a : IF a.r = 0 THEN vfs_ejecutar_tree(a.s, Nada) ELSE Arranca(a.s, u + 1, total))
TerminalArranque(s) == Arranca(s, 0, Cardinality({u \in Unidades : s.medio[u].activo}))

(***************************************************************************)
(* The prompt: one command at a time, run to its end.                      *)
(***************************************************************************)
VARIABLE est

En(sesion) == est.con.parado = "" /\ est.con.sesion = sesion
Hace(S) == est' \in {o.s : o \in S}

CONSTANTS Numeros, Nombres, Paginas

\* consola_leer_linea polls the bus while it waits for a key.
Sondeo == est.con.parado = "" /\ est' \in Enchufes(est)
MandaTree == En("disco") /\ Hace(ComandoTree(est, Nada))
MandaLs == En("disco") /\ \E r \in {Nada} \cup {<<n>> : n \in Nombres} : Hace(ComandoLs(est, r))
MandaLsPagina == En("disco") /\ \E p \in Paginas : Hace(ComandoLsPagina(est, p))
MandaSeleccionar == En("disco") /\ \E u \in Unidades \cup {2}, n \in Numeros : Hace(Seleccionar(est, u, n))
MandaAbrir ==
    /\ En("disco")
    /\ \/ Hace(AbrirSinNada(est))
       \/ \E n \in Numeros \ {0} : Hace(ejecutar_comando_abrir(est, [num |-> n, nombre |-> ""]))
       \/ \E w \in Nombres : Hace(ejecutar_comando_abrir(est, [num |-> 0, nombre |-> w]))
       \/ \E w \in Nombres, ram \in BOOLEAN : Hace(ejecutar_reproducir_mp4_vfs(est, <<w>>, ram))
MandaLeer == En("disco") /\ \E q \in {"nada", "lba", "disco", "numero"}, n \in Numeros :
                                Hace(ComandoLeer(est, [que |-> q, num |-> n, nombre |-> ""]))
MandaDisco == En("disco") /\ \E q \in {"tree", "ls", "crear", "montar", "desmontar", "leer", "lba", "detalle"}, n \in Numeros :
                                Hace(ComandoDisco(est, [que |-> q, num |-> n, nombre |-> ""]))
MandaUsb == En("disco") /\ \E q \in {"lba", "tree", "ls", "monitor", "reset", "discos", "telemetria"} :
                                Hace(ComandoUsb(est, [que |-> q, num |-> 1, nombre |-> ""]))
MandaCrear == En("disco") /\ (Hace(ComandoTouch(est)) \/ Hace(ComandoMkdir(est)) \/ Hace(ComandoEscribir(est)))
MandaMemoria == En("consola") /\ (Hace(MemoriaProbar(est)) \/ Hace(DmaProbar(est)) \/ Hace(ComandoStress(est)))
MandaAudio ==
    /\ En("consola")
    /\ \/ \E q \in {"detener", "bucle", "corto"} : Hace(ComandoMusica(est, q))
       \/ \E d \in {-40, 40} : Hace(ComandoVolumen(est, d))
       \/ Hace(ComandoCangrejo(est))
MandaTeclado == En("consola") /\ Hace(TecladoProbar(est))
MandaInforme == En("consola") /\ Hace(Informe(est))
MandaPrueba == En("consola") /\ (Hace(PaginacionProbar(est)) \/ Hace(LinuxProbar(est)))
MandaCalc == En("consola") /\ \E a \in {0, 5, MinEntero}, b \in {0, -1}, op \in {"+", "/", "%"} : Hace(ComandoCalc(est, a, op, b))
MandaFin ==
    /\ En("consola")
    /\ \/ \E n \in 0..3 : Hace(RmModo(est, n))
       \/ \E b \in 0..3 : Hace(ComandoRm(est, b))
       \/ Hace(ComandoRm(est, Nulo)) \/ Hace(ComandoRuleta(est)) \/ Hace(ElComando(est)) \/ Hace(ComandoApagar(est))
\* A sound that is not a loop ends by itself.
AudioTermina == est.con.audio = "una" /\ est' = [est EXCEPT !.con.audio = "no"]
Parado == est.con.parado # "" /\ UNCHANGED est

NextTerminal ==
    \/ Sondeo \/ MandaTree \/ MandaLs \/ MandaLsPagina \/ MandaSeleccionar \/ MandaAbrir \/ MandaLeer
    \/ MandaDisco \/ MandaUsb \/ MandaCrear \/ MandaMemoria \/ MandaAudio \/ MandaTeclado \/ MandaInforme
    \/ MandaPrueba \/ MandaCalc \/ MandaFin
    \/ AudioTermina \/ Parado
=============================================================================
