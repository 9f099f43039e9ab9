# TAEK OS: models, checks and proofs

TAEK OS is a freestanding x86-64 kernel in C: it boots through Limine, brings
up its own memory manager, an SMP work pool, USB, network and audio drivers,
filesystems, an H.264/MP4 player and a port of parts of the Linux i915 driver
with its task runtime. This directory models it in TLA+, checks the models with
TLC and proves the central properties with TLAPS. The repository is the
reference: every definition is translated from the C source, and `PROJECT.json`
gives the lines of each one.

Paths below are relative to `nucleo/` unless they begin with `src/`.

## 1. Inventory

| Component | State | Operations | Interacts with | Hard behaviour | What makes it correct |
|---|---|---|---|---|---|
| SMP work pool (`base/trabajos.c`, `arquitectura/x86_64/smp.c`) | batch (total, siguiente, completados, cancelado, activo), epoch, per-CPU `listo`, `epoca_vista`, `detenido` | iniciar, ejecutar, configurar, cancelar_actual, parar; the loop of an AP | IPI 81; the player and the decoder call it | lock-free cursor, sleep with `sti; hlt`, late APs, reuse of one batch object | each region once; nobody uses a batch that was withdrawn; every call returns |
| H.264 row reconstruction (`controladores/multimedia/h264/reconstruccion.c`) | `avance` per row, `fallo` | ejecutar, fila, cancelar | regions of the pool; service of the player | wavefront: a row waits for the row above, which another CPU computes or the pool skips | intra prediction reads finished neighbours (left, above and both corners); success means every macroblock; no eternal wait |
| Task runtime of the i915 port (`compatibilidad/linux_i915/tareas.c`) | task table, run queue, mutex, wait queues, workqueues | crear, destruir, schedule, despertar, lock, unlock, prepare/finish_wait, queue/cancel/flush/destroy | interrupt handlers; i915 code | lost wakeups, requeue while running, destruction while in use | run queue exact, exclusion, nobody forgotten, counters exact, destruction drains |
| Physical memory and heap (`base/memoria.c`) | stack of frames and their states, list of blocks, counters | asignar, liberar, reasignar, pages | everybody, from the coordinator only | split/join/grow sequences, frames in either order | no overlap, list and statistics exact |
| DMA arena, paging (`base/dma.c`, `base/paginacion.c`) | bitmap, sizes; page tables | asignar, liberar; map, unmap, translate | drivers, PMM | alignment, double release, partial failure of a walk | nothing lost when a call fails half way |
| Linux shim (`compatibilidad/linux.c`) | ioremap table, timers, 64-entry work queue, IRQ table, PCI table | Linux API | drivers | full tables, self-requeueing work | every window, block and page goes back |
| i915 memory support (`compatibilidad/linux_i915/memoria_i915.c`) | references, pins, scatter lists, mappings | get/put, map/unmap | heap, devices | rollback half way, a device that still uses a page | released when and only when unused |
| Network (`controladores/red/pila.c`, `mensajes.c`) | ARP, DHCP, DNS, one TCP connection, pending message | poll, connect, send, close, messages | e1000 | loss, duplication, retransmission, lost application ACK, polls inside polls | the stream delivered is the stream sent; each message kept once |
| e1000 (`controladores/red/e1000.c`) | descriptor rings and their cursors | send, receive, link | DMA arena | the card moves heads and writes back on its own | a frame is delivered once, in order, unmixed |
| xHCI, mass storage (`controladores/xhci.c`, `usb_msc.c`) | command, event and transfer rings, slots, mailboxes, CBW/CSW/data buffers | commands, transfers, enumeration, resets, SCSI reads | DMA, VFS, keyboard | late completions, hot unplug, stalls, shared buffers | completion matched to its request, tables agree with devices |
| Filesystems (`vfs.c`, `fat_lector.c`, `ntfs.c`, `ext4.c`, `particiones.c`) | mounts, catalogue, descriptors, chain caches | mount, open, read, list | USB mass storage | device removed or replaced under a handle, a transfer that fails | a read returns the file's bytes; no descriptor is lost |
| Terminal (`terminal.c`, `consola.c`) | selection, current directory, flags | the commands of the prompt | all | commands that fail half way | nothing leaked, catalogue current |
| Audio (`audio_hda.c`, `audio_ac97.c`) | cyclic DMA buffer, queue, codec answers | enqueue, service, drain, stop | player clock | the controller reads while the driver refills | no block played twice or unwritten |
| Player (`controladores/multimedia/reproductor/*.c`, `h264/decodificador.c`, `mp4/*.c`) | storage ring, sample queues, frame pool, clock | open, poll, decode, present, stop | pool, audio, USB | two readers of a ring, cancellation, late frames | samples are the film's; frames in order |
| GPUs (`controladores/video/**`) | GEM objects, GGTT, VCS ring, sessions, GSP queues | create, pin, submit, rpc | paging, DMA | partial failure of long sequences, a device that does not answer | everything is given back; a device only reaches what it was given |
| IOMMU, boot, CPU tables (`base/iommu.c`, `principal.c`, `arquitectura/x86_64/*.c`) | ACPI walk, stages | boot | all | a failing mapping in the middle of the boot | the machine goes on or stops, and loses nothing |

The kernel has no preemption. Concurrency comes from the application processors
that execute batches, from interrupt handlers, from the cooperative tasks of the
i915 runtime and from devices: a card, a host controller, a disk, a codec and a
network act between any two steps of the driver. `PROJECT.json` lists the
hazards at their lines and the status of every component.

## 2. Modules and the code

**Conventions.** Names are those of the source where TLA+ allows it. Where a driver function
runs to its end without anything else able to act, it is an operator from a
state record to a state record with its result, and an action applies it; where a
device, another CPU or an interrupt can act, it is split at exactly those points.
Definitions whose comment begins with *Mutation* are plausible mistakes: no
specification uses them, and each property is shown to fail when one of them
replaces the correct definition.

### Processors and memory

**`Lote`** is the abstract specification: what `trabajos_ejecutar` promises.
Regions are handed out in order, run at most once, are skipped only after a
cancellation, and the call returns when no executor holds one.

**`Trabajos`** is the pool as it is coded. A step is one load, store or
read-modify-write that another CPU can observe: `trabajos_tomar` is `LeerActivo`,
`Sumar`, `Decidir`, `Region`, `Completar`; an AP goes through `LeerEpoca`,
`MirarParar`, sleep, `Despierta`, `Evaluar`, `Tomar`, `Acusar`; the BSP through
`PrepararCampos`, `PublicarActivo`, `AvanzarEpoca`, `Avisar`, `Esperar`,
`Servicio`, `Acuses`, `Cerrar`, `Retornar`. `Iniciar` may time out with an AP
still on its way, which then appears later. `fase` is the order in which
`principal.c` calls the pool. The refinement mapping to `Lote` reads the state
of a region from the cursor, the history and the position of the CPUs.

**`Reconstruccion`** extends `Lote` (not the pool itself: the refinement is what
makes this sound) with the rows of a slice. An executor walks its row column by
column and waits on `avance` of the row above before an intra macroblock. An inter
macroblock is compensated first and then takes its residue, an intra one is predicted
and completed in one go; any of these may fail the row. Executor 0 also runs the player's service, which may
cancel: first the rows (`fallo`), then the pool.

**`Tareas`** is the task runtime on one logical CPU. `pc` is the saved context
of a suspended task; a section under a spinlock, which is taken with interrupts
off, is one step; interrupt handlers queue works and wake waiters between any
two steps. What tasks do between two calls is free: any sequence of `MaxOps`
calls that a correct client can make (a holder of the mutex does not lock it
again, sleep or return; only the owner destroys). `condicion` is the condition of the wait
queue's users, following the order tareas.h calls *registro previo*.

**`Monton`** is the frame stack and the heap. The list of blocks is a function
from header addresses to records with the four fields of `bloque_heap_t`; each
step of the search and each attempt to grow is an action. `Partido`, `Absorber`
and `AgregarArena` are the pointer manipulations. Addresses are in units of 16 bytes.

### Network

**`Pila`** is `pila.c`: ARP with its waits, ICMP, DHCP, DNS, the one TCP
connection with its single segment in flight and its retransmissions, HTTP.
A wait polls, a poll handles a frame, a handler may send, and a send may wait for
ARP: the nesting is kept as a stack of calls, so a poll runs inside a poll exactly as deep
as the code lets it. When a hop answers, the sends that wait for it, one inside the other,
all leave at once, each with its own segment. The network loses, repeats and reorders frames; peers
answer or not. A frame of DHCP carries the transaction number of its exchange. HTTP is asked for by name (the
query goes to `cfg.dns`, the gateway or another host; with none the call fails) or by a literal address, without a
query (`pila.c:737-760`). Sequence numbers are modulo `Modulo` and begin just below the
wrap. **`Mensajes`** is `mensajes.c`: text messages and their application
acknowledgement, the pending text, the confirmation of a repeated message and the
upload of the log. A session (a *guion*) is a sequence of calls of the user.

### Disks, files and the prompt

**`Xhci`** has the driver's tables (ports, slots, keyboards, bulk entries,
mailboxes), the controller (command ring, event ring, transfer rings, contexts)
and devices on two ports. Each wait of the driver is a point where the
controller and the devices act or the deadline passes; enumeration goes stage by
stage and may fail at each. **`UsbMsc`** adds the bulk-only transport over the
one CBW, CSW and data buffer all units share, registration and reads, and the disk.

**`Lector`** is what the readers share (a medium by sectors, partitions, the
generation of a unit), **`FatLector`** the FAT32 and exFAT reader with its
cached FAT slots, check points and streams, **`Vfs`** ext4 and NTFS, mounts,
descriptors, catalogue, listings and trees, and **`Terminal`** the commands of
the prompt. Files is a sequential component disturbed from outside: in any transfer or
allocation of any command one event may happen (unplugged, replaced, cancel
key, failed transfer, failed allocation). The catalogue is filled and read by
the operators of that name (`AgregarEntradaCatalogo`, `BuscarEntradaCatalogo`). A call from one source file to
another file above it goes through an operator CONSTANT named after the C function,
which the configuration binds.

### Sound and film

**`Audio`** has the two cards and their drivers: HDA with its verbs, late codec
answers, cyclic buffer, stall and drain; AC97 with its descriptors. **`Mp4`**
is the container (which films are refused and where), **`Almacen`** the storage
ring with its demand reads and prefetch and the sample queues, **`Decodificador`** parameter sets, the
picture buffer with marking, output order and reference lists, **`Reproductor`** the main
loop, the clock, presentation, sound feed, the MP3 player and the AAC test. Time
passes only where the code polls or waits.

### Boot, pages, devices

**`Tramas`** is the traffic of the e1000: `red_enviar_trama` and
`red_recibir_trama`, one access to a descriptor, a buffer or a register per step,
against the steps of the card, which moves its head first and writes the status
back later. `aceptadas`, `cable`, `llegadas` and `entregadas` are the history.

**`Puerto`** is the page support of the i915 port under several threads: the
fixed table of pages with references, pins and mappings, blocks that go back to
the heap only as a whole, arrays of pages, scatter-gather tables and their mapping.
A step is one function under `g_pool_lock`, one atomic increment or one
request to the heap; everything longer is a loop over such steps, and each may fail.

**`Recursos`**: paging with the tables a mapping takes, the DMA arena, the
ioremap windows. **`Paginas`**: the functions of `Puerto` as a sequential library for
the code above it. **`Gpu`**: GEM objects, GGTT, VCS ring and decoding sessions.
**`Ethernet`**: choice and configuration of the e1000. **`Shim`**: locks, work queue, timers,
interrupt lines and PCI table of the Linux interface. **`Nvidia`**: bring-up of the GSP.
**`Descubrimiento`**: PCI enumeration, detection of the GPUs, ACPI and IOMMU.
**`Arranque`** composes them: the stages of `principal.c` in their order on a
machine, any request of which may fail, and then commands of the prompt. An access
through a page that was not mapped is a page fault, which ends in
`huevo_quebrar`: the machine is stopped. **`Clientes`** extends it with the code that
has no caller in this commit (the gate of the Intel driver never opens, nothing starts the
GSP, no driver uses the Linux interface), driven as a caller of its outermost functions
would drive it, in any order its contract allows: the video engine
as the host build of `i915_va.c` does, a driver with deferred work, one that
probes its device, and the GSP bring-up.

## 3. Runs

| Run | Instance | Shows |
|---|---|---|
| `trabajos` | 3 CPUs, batches of 0 and 2 regions, 2 published batches | `UnaVez`, `SinUsoTardio`, `ParadaDefinitiva`; the pool implements `Lote` (`ImplementaLote`); every call returns (`LlamadaRetorna`) |
| `trabajos_reconfigura` | 2 CPUs, 4 batches, `cpu n` at any moment | **violation** of `SinUsoTardio`, see the finding |
| `reconstruccion` | 3 executors, 2x3 macroblocks, slices that begin and end inside a row | `IntraConVecinos`, `ExitoReconstruido`, `LoteTermina` |
| `tareas` | 3 tasks, 2 works, 6 calls | `ExclusionMutex`, `NadieOlvidado`, `CuentasExactas`, `DestruccionLimpia`, `CancelacionFirme`, `LlamadaVuelve` |
| `monton` | initial arena of one frame, PMM with frames 3, 4 and 6, requests of 1, 3 and 7 units in pages of 6, 3 live objects | `SinSolape`, `CuentasExactas`, `FracasoJusto`, `LlamadaTermina` |
| `mensajes` | sessions of up to three calls, two DHCP exchanges in a row among them, HTTP by name and by address, one ARP entry, two retransmissions, two texts, sequence numbers that wrap | `EnviosAnidados`, `FlujoFiel`, `MensajesExactos`, `ConcesionConfirmada` |
| `tramas` | rings of 2 and 3 descriptors, 4 frames out and 4 in, two contents | `EnviosFieles`, `EntregasFieles`, `VacioFiel` |
| `usb` | a keyboard at boot, a disk that comes and goes, one fault and two plug events | `LecturaUsbFiel`, `CabezaLibre`, `TablasCoherentes`, `RespuestaPropia` |
| `ficheros` | an exFAT, an MBR (FAT32 and NTFS) and a GPT (ext4) medium, two descriptors, one event in any command | `LecturaFiel`, `SinFugas`, `CatalogoVigente` |
| `reproductor` | two tracks alternated and separated, a film with long lists, one whose order restarts in the middle (mark 5), one with parameter sets in its stream and an IDR that drops what waits, sixteen that are refused (five at a slice: its syntax, an intra or inter macroblock, its residue, a prediction), a song; HDA and AC97 that answer late, stall or leave | `MuestrasFieles`, `SonidoFiel`, `PresentacionFiel` |
| `puerto` | 2 threads, a table of 2 pages, blocks of 1 and 2, arrays and tables of up to 2, room for 5 heap blocks | `CuentasDePagina`, `NadaPerdido`, `DmaVivo` |
| `arranque` | fourteen machines, a request that fails at any place, five uses | `RecursosDevueltos`, `DmaSoloEnLoPropio` |

Deadlock is checked in every run except `mensajes`, `arranque` and `puerto`: a session
ends when its calls have, a machine that met a page fault stays stopped, and `puerto` would report the threads that have nothing left to do.

### What the properties of the device models say

- `EnviosAnidados`: polls nest only as deep as there are retransmissions, and a send that
  waited for an address still finds its own segment in the buffer all share.
- `FlujoFiel`: whatever the network does, what a peer took is a beginning of the request,
  what the kernel took a beginning of the answer.
- `MensajesExactos`: a message reported as sent is with the receiver exactly once; messages
  received are shown in order and none twice.
- `ConcesionConfirmada`: `red_dhcp` reports success only if a server granted the address it installs
  in this exchange, that is with its transaction number.
- `LecturaUsbFiel`: a read that returns 0 gave the caller the bytes of its own unit for this very command, whatever a
  late transfer of one endpoint of that disk left behind; three exceptions, late transfers on *both* of its
  endpoints, one of *another* disk, and a port configured over its slot (all below).
- `RespuestaPropia`: the completion a command accepts is its own, except after a ring was rebuilt with completions
  hidden in the event ring (below). It is proved.
- `CabezaLibre`: the event ring of an idle driver is stuck only behind the events that the
  property names, and these come from a transfer that timed out or a keyboard switched off
  (as long as no command took the completion of another).
- `TablasCoherentes`: the controller writes no freed context, and the maps of ports, slots,
  endpoints and units agree, in every history in which no port was configured over a
  slot it already had (`xhci.c:1787`, below) and no command took the completion of another.
- `LecturaFiel`: a read returns the bytes of the file on the medium it was opened on.
- `SinFugas`: at the prompt no descriptor and no block is left, on every path of every command.
- `CatalogoVigente`: the numbers a user can type name entries of the medium mounted now.
- `MuestrasFieles`, `SonidoFiel`, `PresentacionFiel`: the player gets the film's samples in order though
  two tracks evict each other's blocks; the card plays what was enqueued (as long as every
  codec answer came in time); a picture is shown at its own time, once, and never if an IDR dropped it; pictures are
  shown in order of time, except those that waited when a mark 5 restarted the order (below); each is predicted
  from the pictures it was coded against; and a film that ends has shown or counted every picture but the dropped ones.
- `RecursosDevueltos`, `DmaSoloEnLoPropio`: whichever request fails, frames, arena pages,
  windows, objects and blocks taken are exactly those somebody holds, and no device keeps an address of memory given back.
- `EnviosFieles`, `EntregasFieles`: the wire carries what was accepted, in order; of the frames that
  arrived, the good ones are delivered once, in order, and no bad one is.
  The card stops with frames to send only when the whole send ring was filled.
  `VacioFiel`: `red_recibir_trama` finds nothing only when it has passed every frame written back, and then the
  card has room: no full ring looks empty.
- `CuentasDePagina`, `NadaPerdido`, `DmaVivo`: the counts of a page are the cardinalities of its
  holders, no path (of undo, or of another thread in between) loses a block, and what is
  held, pinned or mapped stays allocated with its whole block.

### Why the bounds are enough

*Trabajos*: three CPUs give two APs that differ (one
participant, one left out or late); two regions let a third fetch overrun; two
batches let anything of the first reach the second; `Tamanos` includes the empty
batch. The safety properties do not depend on them: they are proved.
*Reconstruccion*: three rows give one that waits for a row that itself waits,
and two columns the right edge; proved too. *Tareas*: the first task, the worker
and one client are one task for each role; two works are needed for a queue with
something ahead; six calls reach create, queue, requeue, cancel, destroy and one more.
*Monton*: frames 3 and 4 come out in descending order and 6 interrupts the run; a
request of 7 units needs two frames, 3 splits one, 1 leaves remainders of every size.
*Mensajes*: one ARP entry makes every change of hop wait; sequence numbers are
modulo 16 and begin at 14 and 15, so both streams wrap; two DHCP servers compete;
a session may reconnect, so that segments of an old connection arrive in a new one, or ask for an address twice,
so that offers and grants of the first exchange arrive in the second; two texts have an order; a literal address makes
the SYN itself wait for the hop, with up to two retransmissions inside.
*Usb*: rings of three entries wrap within one enumeration; one fault can hit any
wait, and two events plug, unplug or swap a device inside another's
enumeration. The exceptions its properties name need more than the run has, and instances beside it, checked once, reach
them: two disks at boot with two faults and one plug event (4.2 million states), one disk and an empty port
with keyboards and disks to plug (6.2 million), one port with up to five plug events and no fault,
and two faults with keyboards for the invariant of the proof (3.9 million).
*Ficheros*: a sector holds two units of data, a cluster is one sector, two FAT slots and
four entries for each make both chain crossings and evictions happen; files have several clusters or
extents; two units let one leave while the other is mounted.
*Tramas*: a transmit ring of two and a receive ring of three (one descriptor
never belongs to the card) are full, empty and wrap; proved for every size.
*Puerto*: two pages let a block of two be held by its second page while the
first is free of holders; two threads put, pin and undo at the same page; arrays and tables of
two fail at the second entry with one to undo; `MaxBloques` 5 lets every heap request fail
in some state. Proved for every size.
*Reproductor*: the unit of sound is 32 KiB. The thresholds keep the order and the
distances of the real ones, including the packet by which the sound feed may outrun its queue
(33 against 32). The ring has two blocks, so that two
tracks far apart do evict each other; twelve units of time let a film start, underrun and end.
*Arranque*: arenas of 1 to 14 pages fail at different stages, the failing request is at any
of 17 places, eight objects over ten entries exhaust the translation table, a command ring of four
wraps, two ioremap windows fill the table.

### Fairness

- `Trabajos`: weak fairness of the BSP and of each AP, which execute without being
  preempted; an AP in `hlt` is woken by the latched IPI. That an AP sent to its entry
  point ever arrives is not assumed. The function of a region returns.
- `Reconstruccion`: weak fairness of each executor, of the service and of the return.
  Nothing is assumed of cancellation.
- `Tareas`: the CPU keeps executing (weak fairness of the steps of the runtime) and the functions of
  tasks yield, release the mutex and return (strong fairness, as they may be suspended
  in between). Nothing is assumed of interrupts.
- `Monton`: a call in progress goes on; clients call when they please.
- The other runs check safety only. `Tramas` in particular: only the network calls that block poll the card, the
  prompt does not (`consola.c:229-283`), so nobody owes it a poll. A device, a disk or a network owes nothing, and the deadlines
  that end the driver's waits are steps of the model.

### Finding

`trabajos_reconfigura`: `trabajos_ejecutar` waits for the acknowledgement of the
participants of the batch; BITACORA.md:2575 says of all APs. If the number of CPUs
is reduced and raised again while an AP is between the test of the selection and its
acknowledgement, that AP can load `activo` of a batch it is not waited for in and use
it after it is withdrawn. When the selection changes only while every AP sleeps
(`EsperaReposo`) this cannot happen; that is proved.

### Behaviours met while modelling

The models have these behaviours, and the properties are stated so that they say exactly
how far each reaches.

- `tareas.c:546`: `i915_cancel_work_sync` clears PENDING once and then waits for RUNNING only. A work
  whose function queues it again during the wait is queued when the call returns, where
  BITACORA.md:3180 says that it will not run again; `CancelacionFirme` speaks of works nobody queued since.
- `fat_lector.c:20`: `siguiente_cluster` reads a FAT sector into a slot that stays valid under the label of
  the sector it held. `usb_msc.c:168-173` copies the data before the status phase, so a transfer
  that fails there leaves the slot with one label and another sector. The constant `FallosCSW` turns
  this on; `LecturaFiel` is checked without it.
- `xhci.c:1787`: a forced reset of a port the scan has not seen leaves `ccs` at 0, and the next scan
  configures the port again over its slot. The unit registered for that slot stays active: after a change of disk,
  a read of the old unit returns 0 with sectors of the new disk.
- `usb_msc.c:39`: every disk and every command reads into one `g_msc_dma_buffer`, and a transfer whose
  deadline passed stays queued (`xhci.c:1607` withdraws nothing). With two disks, a data phase of the first that was given up
  (an INQUIRY, say) may be served while the second is read, between its data and the copy (`usb_msc.c:168-173`): that
  read returns 0 with bytes of the other disk. One fault is enough. With one disk the tag of the CSW (`usb_msc.c:190`) excludes it,
  unless transfers of both its endpoints came late: then a late completion of each stands for the two halves of
  the data phase, old data is copied, and the CSW, which the disk sends when it is done, has the right tag. This takes four
  faults, more than the run has; a separate instance (one port, six faults, five commands, three tries) found it,
  and the property true apart from it.
- `xhci.c:919`, `:1042`: completions are matched by the address of the TRB, and an abort rebuilds the ring from its first TRB. If at that
  moment the event ring is stuck behind a transfer event (`xhci.c:402`), completions of the old ring come out later
  and one may pass for that of a new command. The rebuild does pump the events first
  and empties the mailbox, but the pump stops at the stuck event. `RespuestaPropiaCorrecta` proves that this is the only way.
- `xhci.c:402`: an event whose mailbox is full stays at the head of the one event ring and
  holds back every other device.
- Only the level of CCS is compared: a swap between two scans is not seen. Bulk entries stay active
  after a failed Configure Endpoint. The context of a slot is freed even if Disable Slot was not confirmed.
  There is no reset recovery of the bulk-only transport and the residue is not looked at.
- `e1000.c:607`: the send ring has no gap. A ring full of unsent frames has TDT = TDH, which the
  card takes for an empty one: it sends nothing more, so DD never comes back and every later send
  fails. `EnviosFieles` says that this is the only way the card stops short. In receiving one descriptor is kept back.
- `e1000.c:340`, `:552`: the link is asked for before `controlador_listo` is set, so the wait of three
  seconds in `red_iniciar` never sees it.
- `reproductor.c:299`: 750 ms of sound take 33 packets of AAC, the queue guarantees 32: an
  interleaving can empty the PCM queue, which ends the film.
- `decodificador.c:164-170`: a mark 5 sets the order of its picture to 0 and empties nothing, so pictures of before
  that still wait to come out have greater orders and are shown after it, in the wrong place (`:95-106`).
  `PresentacionFiel` says so of no other picture. `decodificador.c:277`: an IDR with `no_output_of_prior_pics` drops what waits.
- `memoria.c:297`: a request that no run of frames can satisfy turns runs of frames into arenas until there are 128, fails, and keeps
  them: the frames are gone for page tables. `FracasoJusto` holds nevertheless.
- `audio_hda.c:837`: the drain compares bytes read, silence included, so an underrun cuts the end.
  A late codec answer shifts the later ones. After a stall the MP3 player waits for a queue nobody starts, until a key.
- `linux.c:619`: `schedule_work` on a full queue leaves the work pending for ever.
  The table of timers fills with timers that never run; interrupt slots are not reused; `iounmap`
  gives back only windows that found a place in the table.
- `memoria_i915.h:24`: `get_page` leaves `g_stats.refs` alone, which `memoria_i915.h:57` calls the sum of
  the reference counts.
- `i915_va.c:113` ignores whether the engine came to rest; the mapping of MMIO pages is
  not looked at by `e1000.c`, ACPI and APIC, so a missing table is a page fault later.
- In `i915_gem.c:77` the CPU's view of an object is a separate block of the heap.
- `gsp_rpc.c:108-131`: an answer that is late is taken for that of the next call (no sequence number is
  compared). `gsp_firmware_descargar` has no caller.

## 4. Proofs

tlapm 1.4.5 (SMT, Zenon and LS4) checks the theorems below for every value of the
constants, under the named ASSUMEs of the modules, which TLC evaluates on every run.
A type invariant is proved with each component.

**Pool** (`TrabajosProof`).
- `TipoCorrecto`: TypeOK, by `TipoInv`, which adds that there is a slot for the AP
  being started and that a region under way has an index of the batch.
- `SinUsoTardioCorrecto`, assuming `EsperaReposo`. The property is not inductive:
  that nobody is in the batch when it is withdrawn depends on what each AP has seen.
  `ControlInv` states that an awake AP holds an epoch newer than the one it has
  acknowledged and not newer than the current one; that a participant whose
  acknowledgement the BSP has seen has acknowledged the current epoch, so it is not
  awake; that only selected CPUs are inside `trabajos_tomar`; and that `activo` is 1,
  and a CPU in the batch, only while the BSP is between publishing and closing it.
- `UnaVezCorrecto` and `ExitoCompletoCorrecto`, assuming in addition that the cursor
  does not wrap within a batch. `ConteoInv` relates the cursor to the indices the CPUs hold
  (all below it, all different), the history of executions and `completados`, which
  counts exactly the regions executed or skipped; skipping requires a cancellation.
- `ParadaDefinitivaCorrecta`, with no assumption: `ParadaInv` follows an AP through the stop, also
  one that appears after the boot deadline.
- `ImplementaLoteCorrecto`: the initial states map to initial states of `Lote`, and every step
  to a step or a stutter. `LotePaso` is the simulation; what makes it go through is `LoteInv`, the
  conjunction of the invariants above, because the state of a region is read from the
  cursor, the history and the indices in the CPUs' hands.

  The cursor is 32 bits wide and moves once per call of `trabajos_tomar`, so 2^32 calls
  in one batch would wrap it. With `Desborda = TRUE` the model has that behaviour, and the
  theorems about the batch assume `~Desborda`.

**Reconstruction** (`ReconstruccionProof`). `TipoCorrecto`, `IntraConVecinosCorrecto`,
`ExitoReconstruidoCorrecto` for every picture size, slice and number of executors, from
the promise of `Lote` alone. The inductive invariant `Inv` says that an
executor in a row holds the region the pool gave it, alone (`Tenencia`, `Exclusiva`);
that a cancellation reaches the rows before the pool (`Aviso`); that, unless something
failed, the columns an executor has passed are reconstructed (`Progreso`) and so are
those that `avance` announces and every column of a finished row (`FilasHechas`),
so an executor that predicts has the row above finished one column past its own;
and that what is returned agrees with `fallo` and with the state of the regions
(`Devuelto`, `Exito`). Without `FilasHechas` the wait on `avance` says nothing about pixels.

**Tasks** (`TareasProof`). All the safety properties of the run, and `ColaExacta` (the run queue holds
exactly the tasks that may run, each once). One inductive invariant in six parts: `PlanInv` (states, run
queue, who is awake), `TablaInv` (what each task runs and where it can be), `MutexInv`, `EsperaInv`,
`WqInv`, which contain the properties and say who is in each list, and `TipoResto`. `NadieOlvidado` is a
conjunction of three (`MutexAtendido`, `EsperaAtendida`, `WorkerAtendido`), one per list. A step that wakes
tasks is reasoned about by the set it wakes (`Despiertan`, `DespiertanTodas`), whatever their order.
`CancelacionFirmeCorrecta` adds `Firmeza`: between the start of a cancel and its return the work is
already out of the queue, and may only be running.

**Memory** (`MontonProof`). `SinSolapeCorrecto`, `ListaIntegraCorrecta` and `FracasoJustoCorrecto`, for
any memory map, request sizes and number of clients. `Lista` states the shape of the
block list in parts that the pointer manipulations preserve: headers are in range (`Bloques`), the links
agree (`Enlazada`), the list ends (`Acaba`), every header is on it (`Conexa`), blocks do not overlap
(`Separada`). The lemmas `MarcaLista`, `FundeLista`, `DivideLista` and `AgregaLista` do this for the four
elementary changes, and the operators of the model are compositions of these. `IMonton` adds that the memory of
the heap is in frames that are its own; `IPunteros` that a client's pointer is a block in use of
enough room; `IBusqueda` that the search has left behind only blocks that do not fit, which is what makes
`FracasoJusto` inductive. `Intervalo` is the pigeonhole that turns a run of frames taken one by one into an
arena.

`CuentasExactasCorrectas` is what `memoria_obtener_estadisticas` reports. The property counts units of memory
(`Memoria`, `MemoriaEnUso`), not sums over blocks: blocks do not overlap, so both are the same number, and a set
that gains or loses an interval is within the prover's reach where a sum over every block is not.
The invariant is `Inv` and `ICuadra`: each counter is the cardinality of the finite set it counts (`ISumas`), every block in
use is that of a live pointer (`IDuenos`), and the page counters follow the length of the stack (`IPaginas`). The lemmas
about the list therefore say more than its shape: a join, a split and a mark keep the same units, a new arena adds exactly
its own, and only the block asked for enters or leaves use (`EnUso`). `UnoMas` turns that into the counts of
`Tomar`, `Liberar` and `Mover`, and `PilaCorta` (the frames of clients are not in the stack) is why the counter of
used pages is never clipped at 0.

`ArenaAssumption` and `UsablesAssumption` say what `memoria.c:535-575` establishes of the initial arena
and the frames.

**Frames of the card** (`TramasProof`). `EnviosFielesCorrecto`, `EntregasFielesCorrecto` and `VacioFielCorrecto`, for rings of every
size. Each ring is a window on a sequence that only grows: indices and registers are
remainders of how much was sent and completed, and the descriptors of the window hold the frames
of their places. `LugarUnico` (two places nearer than the ring is long have different
descriptors) is what makes a buffer belong to one frame. `Parada` turns equal registers into an empty or a full window, and
`MiraFiel` says what the descriptor the driver looks at stands for.

**Pages** (`PuertoProof`). `CuentasDePaginaCorrecta`, `NadaPerdidoCorrecto`, `DmaVivoCorrecto`, for any number of threads,
any table, any blocks. `IPool`: a free entry has nothing, a taken one agrees with its block, and something in
the block is held. `IControl`: what a thread holds at each point of its loops. `IHeap`: the
balance of the heap, kept by counting what each thread has in hand (`Piezas`). A step is proved by
one lemma about the pool (`EvaluarPool`: after a decrement the block stays or goes as a whole) and one about the
threads, joined by `Junta`.

**Network** (`MensajesProof`). `ConcesionConfirmadaCorrecta`, `EnviosAnidadosCorrectos`, `FlujoFielCorrecto` and
`MensajesExactosCorrecto`: all the properties of the run `mensajes`, for every session of calls, any number of connections
and retransmissions, any set of DHCP servers, and every `Modulo` above 7 (2^32 in the code; requests and answers have at most three
units, so fewer than eight consecutive numbers are in use). During a call the frames that left (`salen`) and those
a peer sent (`llegan`) only grow, which is loss, repetition and reordering of any of them; the
invariant says of every one what its numbers stand for.
- The program does not keep the request of a connection that is over, and an old segment may still arrive. The invariant
  is `InvExiste == \E P : Inv(P)`, where `P[c]` is the request connection `c` was opened for; every step
  keeps `P` except the one that opens a connection, which gives it one more value (`ConectarFlujo`, `ConectarMensajes`).
- `IDhcp`: a grant that was taken is in `llegan`, with the transaction number of this exchange and the server that was
  asked; only `red_dhcp` reports its success (`SinDhcp`), and its waits hold no other send (`EsperaVacia`).
- `IEnvio`: what waits at each point of a call. Two sends wait at the same time only for a SYN whose next hop is not known;
  until it answers no segment of that connection was exchanged (`Enlazados`), and when it does they all leave. This is
  what keeps the shared buffer from being overwritten under a send that waits.
- `IFlujo(P)`: the frames of connection `c` carry the unit of `P[c]` (`ISegmentos`) or of the peer's answer that their sequence
  number names; `Emisor`, `Entregado` and `Receptor` place both ends in the two sequences. The numbers wrap, and
  the lemmas about `Mas` (addition modulo `Modulo` is injective on eight consecutive numbers) are what comparing them by
  equality, as the code does, is enough for.
- `IMensajes(P)`: texts sent belong to different calls and each is with the receiver at most once; each answer of the receiver
  stands for what it stored, showed or confirmed (`RespuestaDe`); an identifier is confirmed only if it was
  shown, is kept, or was dropped by a change of receiver (`Atendido`).

These parts were checked with TLC on the instance of the run, with the requests of `P` recorded by a history variable, before they were proved.

**USB** (`XhciProof`). `RespuestaPropiaCorrecta`: `RespuestaPropia` for any number of ports, slots, units and disks, any faults and plug
events, and every command ring of three TRBs or more (`AnilloAssumption`; the code has 64). A completion is known by the place of its TRB, and places are used again
every time the ring wraps and, from the first, after every rebuild: the property is not inductive without what the ring and the event
ring hold at each point.
- `FormaAn` is the ring: behind the driver's place every TRB has the current cycle bit, before it the other, so that
  the controller is up to date (`AlDia`) or has exactly one command to execute (`Pendiente`).
- Between commands (`Reposo`) the controller is up to date and a completion still in the event ring does not name
  the first place, and there is one only if the ring was just built, when the next command takes the first place.
- During a command (`EnCurso`) the completions of earlier ones name other places, and its own, if there, is the last.
  During an abort (`Abortando`, `Abortado`) only the first completion in the event ring may name the first place, and the pump
  before the rebuild takes it.
- `Reconstruye` breaks all this exactly when the event ring is stuck behind a transfer event (`Tapado`); the invariant asks
  for nothing after that, which is the exception of the property.

The actions of the driver other than the waits reduce to one fact: a step goes on without touching the ring, or sends one command (`Sigue`,
`SigueRespuesta`); those of devices, disks and the hand that plugs them only add other events (`AmbienteRespuesta`).

`TablasCoherentesCorrectas`: `TablasCoherentes`, for the same systems; ports, slots and units are counted from 1 (`PuertosAssumption`,
`RanurasAssumption`, `UnidadesAssumption`), which is what lets 0 stand for none, as in the code. The property speaks of the poll that ends a call,
and each call makes the tables disagree for a while with waits in between, so the invariant (`CoherenciaInv`, on top of the one above)
says what holds in every stretch of the driver.
- `Etapa` is the stretch that runs, or that runs when the wait under way ends; `EnMano`, `Registrando`, `Dispone`, `Retirando` say what the
  stretch has in hand: the slot and the buffers of a device being enumerated, a unit already active but not yet in the maps, a slot on its way out.
- `Tablas` relates all tables given that: maps inverse of each other (`Mapas`), contexts of mapped slots distinct (`Mapeadas`), the
  buffers exactly those of mapped slots and of the call (`Memoria`, `Llamada`), addressed slots with a live context (`Direcciones`), endpoints in
  pairs, units and keyboards with their slot (`Parejas`, `Unidades`, `Teclados`).
- The controller acts on a slot at any moment of a command. `Ordenada` says which command is there (`LaOrden`), that a
  completion which says yes means the slot is what the driver will take it to be (`Dicha`, `Hecho`, `Contestada`), and, after the ring was
  given up, that the command left in it can only touch a slot whose disabling was never confirmed, or the one in hand (`Abandonada`).
- Of a step of the driver it is enough that the tables hold after it and that it gives up no slot the abandoned command may touch
  (`Cuida`, `SigueCoherencia`); `HaceTablas` does the same for a command the controller executes.

The invariant asks for nothing once a port was configured over its slot or a completion was taken for another's (`Limpia`): the exceptions of the property.

**Only model-checked.** Liveness, in all runs: it is out of the prover's reach under fairness.
Files, catalogue and prompt: their walks are RECURSIVE operators. `LecturaUsbFiel` and `CabezaLibre`, the player,
and the boot with its clients: planned or too large for this effort.

## 5. Not modelled

Everywhere: pixels, entropy decoding and codec arithmetic; register layouts and
dumps, serial messages, telemetry and drawing; the boot loader and vendored decoders.

- *Weak memory.* The steps are sequentially consistent. The code asks for acquire
  and release, which x86 gives to every load and store; that a processor may
  perform a load before an earlier store to another location is visible (for
  example the store of `epoca_vista` and the next load of `epoca`) is not modelled.
- *Tareas*: tasks on a second logical CPU (only CPU 0 has a task to switch from), and the
  window between the release of the lock and `sti; hlt`. *Monton*: canaries, and sizes near 2^64.
- *Network*: `red_autodiagnostico`, the text of addresses, the stateless answer to a peer's echo request.
- *Files*: `vfs_crear_*` always refuse, so the writers of `fat32.c`, `exfat.c` and `ext4.c`
  are code nothing calls. At the prompt the redirection of `echo` is shadowed by `eco`, and
  triple faults are refused because no VM exit is handled.
- *USB*: the details of the BIOS handoff; writes have no live caller.
- *Player*: telemetry of `reproductor.c`, the path behind `TAEK_I915_HW`, picture order types 1 and 2,
  reference list 1, three internal errors of the MP3 decoder, `cache_fuente.c`, which nothing uses.
- *Boot*: contents of GDT and IDT, copy of the upper half and giant pages, `i915_driver_iniciar`
  behind its gate, printed reports.

Hazards seen and covered by no property: an AP past the boot deadline that the
stop never wakes (`smp.c:182`); the 32-bit cursor (`trabajos.c:15`); a work cancelled after its queue
was destroyed (`tareas.c:525`); a task's state looked at before its lock (`tareas.c:242`); `bytes + 15`
near 2^64 (`memoria.c:243`); frames turned into arenas by a request that fails (`memoria.c:297`); a FAT sector whose transfer
fails late (`fat_lector.c:20`); a codec answer after its deadline (`audio_hda.c:228`); a film that ends early (`reproductor.c:299`); a FIN while a segment waits for its acknowledgement (`pila.c:934`).

## 6. Plan

Done: all modules of section 2; the proofs of section 4.

Next, proofs, in this order:
1. `UsbMsc` and `Xhci`: `CabezaLibre` (what may be in flight for each endpoint), then `LecturaUsbFiel`.
2. `Almacen`: what the two tracks read from the ring is what the film has at that place.
3. Lemmas about the operators of `Recursos` and `Paginas` (what an undo gives back).
