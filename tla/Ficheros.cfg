CONSTANTS
 Disco <- Discos
 Unidades = {0, 1}
 RanurasFat = 2
 PorSectorFat = 4
 PorPagina = 4
 PorDir = 4
 NumPuntos = 2
 PuntoCada = 2
 TopeLectura = 8
 TopeSectores = 2
 MaxProfundidad = 2
 FallosCSW = FALSE
 Nulo = Nulo
 fat_lector_montar <- FatMontar
 vfs_montar_particion <- Montar
 vfs_abrir <- Abrir
 vfs_leer <- LeerFd
 vfs_leer_en <- LeerEn
 vfs_listar_pagina <- Listar
 vfs_ejecutar_tree <- Tree
 ejecutar_comando_abrir <- ComandoAbrir
 abrir_tipo <- AbrirTipo
 ejecutar_reproducir_mp4_vfs <- ReproducirMp4
 Fds = {1, 2}
 PorCatalogo = 2
 MaxGenFd = 3
 TopeTexto = 6
 Rondas = 2
 Numeros = {0, 1, 2}
 Nombres = {"a", "b"}
 Paginas = {0, 1}
 MaxSucesos = 1
SPECIFICATION Spec
INVARIANTS
 LecturaFiel
 SinFugas
 CatalogoVigente
