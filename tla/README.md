# EF2SDK: a verification development

EF2SDK is a freestanding SDK for the PlayStation 2: a runtime for the main
processor (EE), three service modules for the I/O processor (IOP) and the
remote-procedure layer (SIF RPC) between them. This directory holds TLA+ models
of its parts, the TLC configurations that check them on small instances and
proofs, checked by TLAPS, that hold for every instance. `PROJECT.json` lists the
runs, and for every definition the source lines it stands for.

## The system

| Part | State it keeps | Operations | What makes it correct |
|---|---|---|---|
| **IOP audio service** `src/iop/audio/src` | PCM ring with read and write index, three semaphores, started / paused flags, volume, queue limit, double SPU2 buffer, DMA and interrupt state | INIT, SUBMIT, START, PAUSE, RESUME, STOP, FLUSH, SET_VOLUME, SET_LATENCY, STATS; play thread; DMA interrupt | frames leave in the order they came, the half being heard is never written, the flags describe the hardware, a waiting submission completes |
| **EE audio client** `src/ee/audio` | bound flag, RPC buffer; rate converter phase and look-ahead frame | init, submit in chunks, controls; convert, mix | chunked conversion equals conversion at once |
| **SIF RPC client** `src/ee/sif/sif.c` | pool of 8 packets, a client record per service, the global wait flag | bind, call, end-packet handler, initialisation | a call returns its own reply; packets come back |
| **Module loader** `src/ee/sif/sif.c` | IOP memory in use, loader patched or not | load, execute from a buffer, patch | no IOP memory is lost, the patch is applied at most once |
| **EE heap** `src/ee/runtime/heap.c` | list of blocks in one arena | malloc, free, calloc, realloc, statistics | blocks tile the arena, live blocks do not overlap, contents survive |
| **Debug log and stdio** `src/ee/runtime`, `src/ee/kernel/debug_sio.c` | 8 KiB ring, counters, SIO mirror flag | write, printf, copy recent, reset | the ring holds the last bytes written |
| **GIF DMA and video** `src/ee/gs` | DMA packet and statistics, frame pages, texture allocator, fallback flag | init, clear, draw, upload, present, vsync | never draws to the displayed frame, textures do not overlap |
| **IOP pad service** `src/iop/pad/src` | per port and slot state, SIO2 transfer semaphore | poll, discovery of a Multitap, configuration, rumble | the client never sees the state of a pad that left |
| **IOP storage service** `src/iop/storage/src` | device table, SIO2 mutex, card protocol state | scan, read page, read and write sectors | a page or sector returned is the one asked for, a scan lists what is plugged in, the globals of the SD protocol fit the table |
| **EE storage client** `src/ee/storage/storage.c` | bound flag, number of devices, progress of a transfer | init, scan, pages, sectors, file access | what a transfer reports is what it moved, in order |
| **EE pad client** `src/ee/input` | bound flag, last reply | poll | copies agree with the service's reply |
| **Kernel services** `src/ee/kernel` | interrupt enable bit, four timers | suspend and resume, configure, start, stop, acknowledge | nesting restores the outer state |
| **C library, startup, crash screen, example** | | | pure functions and straight-line code, not modelled |

**How they interact.** An application on the EE calls a client
(`ef2_audio_submit`), which packs a request and calls `ef2_sif_rpc_call`. The
packet travels by SIF DMA; the IOP's RPC thread of that service runs its handler
and the end packet raises an interrupt on the EE that completes the call. Inside
an IOP module the handler shares globals with threads and interrupt handlers of
the same module. The pad and storage modules share one SIO2 controller.

**What is hard about it.** Concurrency inside ef2audio (a preempting thread and an
interrupt over plain globals); time-outs of RPC calls and SIO2 transfers whose
answers then come late; initialisation that fails half way and is tried again;
fixed pools and rings at their limits; unsigned arithmetic on sizes. Nothing is
persisted by the SDK itself, so crash recovery is no concern. The `hazards` of
`PROJECT.json` name each at its line.

## Modules

### AudioStream: what the audio service promises
Three variables: the part of a submission not accepted yet, the queue, the block
rendered last. A submission enters in order and in pieces; a block consists of
the oldest queued frames followed by silence; FLUSH empties the queue.

### AudioService: the service as it is written
State and actions follow `main.c` and `spu2_direct.c`:

| Model | Code |
|---|---|
| `ring`, `read_frame`, `write_frame`, `queued_frames` | `g_ring` and its indices; a slot holds one stereo frame, a frame is its number modulo `FrameIds` |
| `ring_mutex`, `space_sema`, `transfer_sema` | the three semaphores; -1 while the identifier is invalid (waiting returns at once) |
| `started`, `paused`, `volume`, `queue_limit`, `bvol` | the globals and the volume register |
| `render`, `spu_buffer` | the staged block and the two halves of `g_spu_buffer` |
| `active_block`, `running`, `dma_busy`, `dma_block`, `irq_pending`, `intr_enabled` | backend globals, the DMA channel, the interrupt line and CpuSuspendIntr |
| `play_pc`, `rpc_pc`, `samples`, `source_frame`, `count` | where the threads are, and the locals of `audio_submit` |
| `next_frame`, `unheard` | not in the code: the number of the next frame a client makes, and the halves filled since the DMA streamed them |

Scheduling is part of the model, because the code relies on it: the play thread
(priority 38) preempts the RPC thread (priority 40), an interrupt preempts both.
So the steps of the play thread that cannot block are single actions, the RPC
handlers are split wherever the play thread or the interrupt can change or see
what they use, and a handler that touches nothing the others see is one action.
`PlayCopy` runs with interrupts off, as the code does.

INIT may fail at every call that can: semaphores, interrupt registration, thread
creation and start. A retry runs over what the attempt before left behind.
The RPC functions are issued in any order with any argument of the small sets,
also before INIT.

### SifRpc: the RPC client of the EE
`ef2_sif_bind`, `ef2_sif_call`, the wait and the end-packet handler. One thread
makes requests, as the client library requires; the DMA interrupt that brings an
end packet runs between any two of its steps, so bind and call are one action
per store the handler can see.

| Model | Code |
|---|---|
| `alloc` | slots of `g_rpc_packets` with `EF2_RPC_ALLOC` set |
| `pkt_addr`, `server` | `hdr.pkt_addr` and whether `server` is set, per client record |
| `wait_done` | `g_rpc_wait_done` |
| `pc`, `client`, `packet`, `attempt` | the requesting thread and its locals |
| `registered`, `binds`, `calls` | the IOP: registered services, requests not answered yet |
| `sent`, `reply`, `timeouts` | not in the code: numbers of calls and of the reply in the receive buffer, waits that timed out |

The IOP answers a service's calls in order, at any time or never, and binds at
any time. A wait can time out whenever the flag is not set. `rpc_id` is left
out: the client writes it and nothing reads it. The command layer's start
(`ef2_sif_init`) is taken to have succeeded.

### Allocator: what malloc and free promise
One variable: the regions handed out, by address, with their contents. A region
is allocated outside all others, resized with its contents kept, released.

### Heap: the block list
`heap` holds the headers by address with the four fields of `ef2_heap_block`,
`active` is `g_heap_active`, `mem` what each unit of memory holds, `asked` (not
in the code) the size each client asked for, by the pointer it holds. An action
is a call: malloc or calloc, free, and the three ways realloc succeeds; a call
that fails changes nothing and is no step. Memory is counted in units of 16
bytes: the header is one unit on the EE (four 32-bit fields) and `align_up` makes
every payload whole units. The request `Words` stands for the sizes of the last
unit of the address space, which `align_up` wraps to zero; malloc refuses them.
After each call the client writes all it was given; a client of a wrapped
request writes nothing more. The heap has no locks and the EE program one thread.
Calls are made with pointers clients hold.

### CheckedMultiply: calloc's overflow check
`checked_multiply_u32`, one step per pass of its loop, for words of `2 * Half`.
The module also holds the proof that it is exact, which takes the place of a run.

### PadService: the pad service and what is plugged in
One controller port (the two share only the thread that serves requests). One
step is one SIO2 transfer; with `Lossy`, any may be lost, and pads and Multitaps may be
exchanged between any two.

| Model | Code |
|---|---|
| `slot_count`, `selected`, `state` | `g_slot_count`, `g_selected_slot`, `g_ports`, for the port; of a port state the fields that steer later polls |
| `pc`, `slot`, `previous_id` | where `poll_slot` is (`select_endpoint`, `discover_pad`, `try_profile`, `configure_dualshock` included) and its locals |
| `tap`, `tap_slot`, `pad` | external: the Multitap's slots, the slot it routes to, the pads with their answering profile, identifier and config mode |
| `clean`, `asked` | not in the code: whether the request ran without loss or exchange so far; slots whose client asked for the motors since they were last found empty |

A profile is the timing and framing of a transfer (`transfer_poll`). A pad answers
only in its own; a DualShock obeys the configuration commands that reach it,
also when its answer is lost. A query of the slot count leaves the Multitap's
routing alone, a selection changes it. Buttons, axes and counters are left out.

### StorageCards: what sits in the memory card ports
The answers PS2 memory cards, MMCE card emulators and SD cards may give to each
exchange, by what `storage_backends.c` expects of them; none of it is code of the
repository. A card keeps where it is in a transfer: what the service abandons in the
middle goes on from there. Bytes of such a block can pass for any answer (`Noise`), the one to CMD0
included: a card that is still sending then stays ready without having been reset, and `mx.torn`
(not in the code) marks an initialisation that began with one.

### StorageService: the storage service
`main.c` and `storage_backends.c`; one step is one `ef2_storage_sio2_exchange`, which may time
out with or without the card having acted on it; cards are exchanged between any
two steps.

| Model | Code |
|---|---|
| `devices`, `count` | `g_devices`, `g_device_count`, without product data, identifiers and capabilities |
| `mx` | `g_mx_initialized`, `g_mx_card_type`, `g_mx_sector_count` |
| `pc`, `req`, `reply` | where the RPC handler is, the request it serves, `g_reply` |
| `port`, `info`, `i`, `data` | locals of the scan and of the read and write functions |
| `ports`, `faults` | external: the card in each port; exchanges lost and cards exchanged so far |

Data is named by where it comes from: a chunk by card, page and place, half a sector by
card, sector, place and content, a block of a file by device and position, and the
padding of a line nobody drives is `<<>>`. So a piece that is missing, doubled or
someone else's is a different value. Sector addresses keep their unit (sectors or
bytes) and their width.

### StorageClient: the storage client over the service
Extends StorageService with `storage.c`: `bound`, `known` (`g_storage_bound`,
`g_storage_device_count`), the operation under way (`epc`, `op`, `done`, `dest`) and its `result`;
`began` (not in the code) is what the ports held when it began. Each request goes through
`RpcHandler`, so one run checks the two together. Loading and binding the module succeeds or
fails in one step (`Initialise`); a request may be lost on the way (`CallFails`). A late
answer is SifRpc's subject and left out here: `CallFails` stands for a request that never reached the
service, and the client's guarantees hold as long as no earlier call timed out after it was sent (`sif_late_end`
shows what comes then). Requests are serialized, pad requests
included, as src/docs/STORAGE.md:63-69 asks of the program.

### LogWindow: what the RAM log promises
One variable: the newest bytes written, as many as there is room for.

### DebugLog: the RAM log, its serial mirror and the streams
`debug_log.c`, `debug_sio.c` and the output half of `libc_stdio.c`; one step handles
one byte.

| Model | Code |
|---|---|
| `ring`, `head`, `used`, `total` | `g_debug_ring`, `g_ring_head`, `g_ring_used`, `g_total_bytes` |
| `sio_active`, `sio_failures`, `last_output` | the globals of those names |
| `stdout` | where stdout and stderr lead; the code sets them together |
| `pc`, `data`, `i`, `rest`, `result` | the call in progress: `ef2_debug_write_raw`, or the two prints of `ef2_debug_printf` through `ef2_vfprintf` and `write_all` |
| `line`, `mirror`, `crashed`, `no_memory` | not in the code: the end of the serial line, the window of mirrored bytes, whether the crash handler has been entered, whether `malloc` failed in this call |

A message is any sequence of up to `MaxMessage` bytes, each CR, LF or another
byte. The transmitter may time out at any byte; `malloc` may fail for any part
of a printf; the caller's data may fault at any byte of a raw write, after which
only the crash handler writes. `copy_recent` is an operator: it reads at any
moment. The divisor of a baud rate is a choice between "there is one" and "there
is none", and in the latter case initialisation of the streams leaves them as
they are.

### Video: the GIF DMA channel and the video layer
`gif_dma.c` and `video.c`: one thread makes calls; the DMA channel and the vertical
sync run beside it.

| Model | Code |
|---|---|
| `dma_initialized`, `dma_active`, `open` | `g_gif_dma_initialized`, `g_gif_dma_active`, submissions minus completions |
| `rows`, `layout_rows` | `ef2_video_height` and the height of the active layout, in rows of pages |
| `display`, `draw`, `double`, `cursor`, `dma_available` | the globals of those names |
| `pc`, `todo`, `texture` | the call in progress: the wait it is in, the packets it has still to send, the texture it makes |
| `channel`, `dispfb`, `vsint` | hardware: CHCR.STR with the packet, DISPFB2, CSR.VSINT |
| `trx`, `vram` | external: where image data goes next, and what each block of video memory holds |
| `textures`, `mixed`, `refused`, `edge` | not in the code: textures since the last reset, whether the stream to the GS is unsound, whether the last mode was refused, whether a vertical sync came since the call began |

A draw is the rows of pages it covers, a texture its pages, an image its blocks;
addresses in video memory are linear in the model, where the GS swizzles them
within a page. The application also sends packets of its own and leaves them
in flight (`Foreign`; they draw nothing). The GS executes a packet when its transfer ends, so a
drawing still under way when the frames are swapped is not covered. A wait can time out whenever the
channel is busy. From a packet that went out twice or beside another on, the GS
may do anything, so memory is not followed any more (`Lost`) until an
initialisation finds the channel idle; the same holds after a refused mode. Blocks
of dead textures count as empty.

### AudioServiceProofs, SifRpcProofs, HeapProofs, DebugLogProofs, VideoProofs, StorageProofs, PadServiceProofs
Proofs about the seven modules for every value of their constants.

## Runs

| Run | Question | Instance |
|---|---|---|
| `audio_safety` | Do ring, flags and the half being streamed stay coherent, refills arbitrarily late? Is the service a FIFO? | ring of 4 frames, blocks of 2, submissions of up to 2 frames (3 are refused), latencies of one block, of the ring and a refused one, volumes refused |
| `audio_on_time` | With refills in time: is each block heard once, does a waiting submission complete? | as above, volumes accepted and fairness |
| `sif_safety` | Do packets keep their owner, however late answers come? Does a client stay bound, and every request return? Without timeouts, is nothing left behind? | 2 clients, 3 packets, 2 bind attempts, fairness |
| `sif_late_end` | Is a call that returns success answered? (violated) | 2 clients, 2 packets |
| `heap_safety` | Do blocks tile the arena, with right links, in use exactly when held? Is the list an allocator that keeps contents? | 9 units, sizes 1, 2, 3, 5, two contents |
| `heap_wraps` | Is a resized block as large as asked? (violated) | 9 units, with the wrapped size |
| `pad_exchanges` | Does an undisturbed poll report whether its slot has a pad? Are found pads configured, motors run only when asked, and the topology kept right? | native port and Multitap of 2, one pad, normal or slow |
| `pad_asked_slot` | Is the pad polled the one of the slot asked for? (violated) | Multitap of 2, two pads, no transfer lost |
| `debug_log` | Does the log hold the newest bytes, do readers get them, and does the line follow? | ring of 2 bytes, messages of up to 2, three bytes, buffers of 1 to 4 |
| `storage` | Are pages and file blocks those asked for whatever is lost or exchanged? Do undisturbed scans list what is plugged in, and undisturbed sector transfers move the sectors asked for and no other? Does every operation return? | a memory card of 2 pages, an emulator, SD cards of three types, one fault |
| `video_frames` | Do textures stay intact, do submissions and completions agree, does the picture change only in `present`, on a fresh vertical sync? Does every call return? | 5 pages of 2 blocks, modes of 1 and 2 rows, two textures, images of 2 chunks |
| `video_refused` | Is the size reported the active one? (violated) | as above |

**Bounds of audio.** `RingFrames` = 4 and `BlockFrames` = 2 keep the ratio that matters: the
ring is several blocks long, a submission may be longer than the free room, wrap
round the end, leave an odd number of frames, and an underrun may happen in the
middle of a block. Frames are numbered modulo `FrameIds`; a queue that loses,
repeats or reorders frames differs from `AudioStream` in its length or its order
at the point of the step, so few numbers are needed. Latency 1 gives a
queue limit of one block, 1000 the whole ring, 1001 is refused. `audio_safety` has a
refused volume only (16384), `audio_on_time` an accepted one. The 32-bit diagnostic counters
wrap at `CounterMod`, which is 1: they stand still in the runs, and that no underrun is counted while the
stream is held (`HeldQueueKept`) rests on its theorem, `HeldQueueSafe`, for every `CounterMod`.

**Bounds of SifRpc.** Two clients let an answer meet another client's request,
three packets (eight in the code) let two be abandoned while a third is in use
and let the pool run empty; two attempts (4096 in the code) let an
attempt follow one that found no service. Calls are numbered modulo `CallNos` = 2
where replies are compared, and timeouts counted up to `TimeoutCap`: the
properties only ask whether there was one. The packets bound the requests in
flight, so nothing else is bounded.

**Bounds of Heap.** Nine units hold four blocks with their headers: a free block with
blocks in use, or free, on both sides; splitting with no, one and more units to
spare; growth with a neighbour too small, exact and larger. `Words` = 10 in
`heap_wraps` is just larger than the arena, which is the boundary that matters:
the EE's 32 MiB lie far below 2^32. `heap_safety` leaves the wrapped request out,
because a client's region then leaves its block; the theorems include it.

**Bounds of PadService.** Two slots are the least with a selection that can be wrong;
`MaxPads` = 1 pad at a time moves between the slots and in and out (a second one
may be there in `pad_asked_slot`). All pads are DualShocks: one that answers at
the slow timing only does not hear its configuration, which is how any other
pad behaves. Pads with STAT70 framing are left out, see the findings.

**Bounds of DebugLog.** A ring of two bytes wraps within one message, a message of two
can be cut in the middle or end in CR, a printf of two parts overwrites all of
the ring. `MaxTotal` = 3 lets the byte counter saturate. The theorems take away
the bounds of ring, message and buffer.

**Bounds of Video.** Five pages leave three for textures in the smaller mode: a texture
with a colour table, then one that must start at the next page, or a table that
ends at the end of memory; in the larger mode one texture fills what is left. A
chunk is one block, an image two, so an image continues in a second chunk. The
code's memory has 512 pages. Two modes of different height, with one that is
refused under one standard and accepted under the other, are enough to make `rows` and `layout_rows` differ;
one colour, because the frames start out black.

**Bounds of Storage.** `Chunks` = 2 (of a page), `IoBlocks` = 2 (of a request),
`SectorCount` = 2, `FileSize` = 3 and `MaxCount` = 3: a page can lack either chunk, a transfer takes
two requests of which the last may be partial, start past the end or run over
it. One SD card of each way through `mx_initialize` that ends differently ("v2" cards differ from "hc"
in the capacity bit only, which "v1" has, too). `MaxFaults` = 1: one exchange or request lost or one card exchanged at any point
of any sequence of operations. `AddressSpace` = 1024 lets a
byte address wrap, which 2^32 does at 4 GiB. `MisreadCounts` = {3} is the number of sectors a garbled
register may seem to give, one more than a card has. The SD adapter is looked for in the second port only,
as the code does, and an emulator beside an SD card is left out (`Plugs`): the
two ports meet only in the table. `ReadyPolls` = 2 stands for the attempts of `mmce_write`.

**Deadlock** is not checked for audio: with the ring full and the stream stopped or not
started, `audio_submit` sleeps in the only RPC thread, which then cannot serve the
START, RESUME or FLUSH that would wake it. The smoke test stays clear of this: it
queues 2048 frames, fewer than its queue limit, before it starts the stream. Any
client has to, and `SubmitCompletes` therefore speaks of a playing stream.
In all other modules deadlock is checked.

**Fairness of audio.** The DMA controller finishes a block it has begun, a pending interrupt
is taken, the play thread runs when nothing more urgent does: weak fairness of
each. The RPC thread is preempted by both again and again; a DMA block lasts
10.7 ms (512 frames at 48 kHz), a refill a fraction of that, so it does get the
processor infinitely often: strong fairness of its steps. No fairness of client
requests is assumed. `RefillOnTime` states that ratio of times for the run that
needs it; `audio_safety` lets refills be late. Of a late refill `EachBlockHeardOnce` says nothing:
the code then repeats a block.

**Fairness of SifRpc.** The thread inside a request goes on: weak fairness of
`Progress`, the disjunction of its steps. Among them is the timeout, which comes
because `ef2_wait_flag` counts down. Nothing is assumed of the IOP.

**Fairness of Video.** As in SifRpc: the thread inside a call goes on, and its waits
count down. Nothing is assumed of the channel or of the vertical sync.

**Fairness of Storage.** The caller waits while the service works, so one of them has a step
to take; weak fairness of that step, the disjunction of both. Faults and new
operations are not among them. `EveryOperationReturns` then shows that every loop ends: polls, the
transfer loops, and the stop at a short answer.

## Findings

- **Late end packets** (`sif_late_end`). `ef2_cmd_rpc_end` completes whatever
  request is waiting. After a timeout the late answer completes the next call,
  of any client, which returns 0 before it was answered; the client stays one
  answer behind. The packets themselves stay sound (`PacketOwned`).
- **realloc wraps** (`heap_wraps`). `ef2_realloc` lacks the overflow check of
  `ef2_malloc`; a size from 0xFFFFFFF1 wraps to zero and counts as a shrink, so the
  old pointer comes back as success with a block no larger than before. The run's
  block of one unit stays as it is (`heap.c:109-111`); a larger one is cut down to
  nothing and its contents go back to the heap. The list itself stays sound
  (`BlocksAlwaysTile` includes such requests).
- **The wrong slot is polled** (`pad_asked_slot`). REFRESH_TOPOLOGY sets
  `g_selected_slot` to 0 and selects nothing, so the Multitap routes to the slot
  selected last; the next poll of slot 0 skips the selection, and all its transfers
  go to that other slot. Nothing need be lost or exchanged for it.
- **A refused mode leaves its size** (`video_refused`). `ef2_video_init` stores the size
  before it validates it: `ef2_video_get_size` then reports, and drawing clips
  to, a mode that is not active; with a larger height a draw reaches past its frame.

Met while modelling, and without a run of their own:

- **Free blocks side by side.** The remainder of a shrinking realloc is not
  merged with a free block after it (`heap.c:313`), and frees merge direct
  neighbours only: allocate A and B, shrink A by two units or more after freeing
  B, and free A last; two free blocks remain.
- **STAT70 sticks.** `stat70_bit` survives the pad it was learned from
  (`pad/src/main.c:464`); the search then tries (stat70), (slow), (stat70), never
  the normal profile, and a normal pad plugged in there is not found.
- **A failed selection keeps the marks.** `poll_slot` clears `connected` and
  buttons only (`pad/src/main.c:565`), so a pad plugged in there later is
  reported as new but not configured, with the motor values of the one before.
- **Config mode sticks.** If the exit command is lost, nothing sends it again
  while the pad is connected (`pad/src/main.c:361`).
- **An abandoned transfer still runs.** After a DMA time-out the packet is sent again
  through the FIFO while the channel goes on reading the first copy, from a stack
  frame the caller is about to leave (`video.c:289`); it reaches the GS twice.
  A later `ef2_video_init` makes the channel available again without waiting for
  it (`gif_dma.c:101`).
- **An abandoned sector.** When an exchange fails in the middle of a sector read, the
  card goes on sending; nothing resynchronises, so the next command may take
  data bytes for its reply or start token, and the checksum is read but not checked
  (`storage_backends.c:610`). `SectorsAsAsked` therefore speaks of undisturbed operations that
  start with a card between two commands.
- **A data byte passes for the answer to CMD0.** `mx_initialize` accepts any 0x01 within its attempts
  (`storage_backends.c:570-572`). A scan after an abandoned read of a sector of such bytes does not reset
  the card; the block spoils the echo of CMD8, and an SDHC card, still ready, answers the CMD55 of the other loop
  with 0x00 to its end, which makes it SDV1 (584-585): its sectors are then addressed by the
  byte. Its register may be misread, too. The model takes these steps; `GlobalsFit` and
  `SectorsAsAsked` leave out an initialisation that began in the middle of a block (`mx.torn`).
- **A write that fails** leaves the sector it failed at old or new; the caller learns the number of
  sectors before it.

## Proofs

All theorems are of the form `Spec => []...` or a refinement, from the named
assumption on the constants in each module and nothing else; the four that assume more
(`BlocksHeardOnce`, `HeapIsAllocator`, `PollsTellTheTruth`, `ScansAreFaithful`)
say so in their statement.

**Audio** (ring size a multiple of the block size). `TypeOK` is not inductive by
itself: that `SubmitCopy` reads within
`samples` needs `source_frame + count <= Len(samples)`, which `RingConsistent`
says; so the two are proved together (`TypeCorrect`, `RingSafe`). The argument about the ring
rests on `SlotSum` (moving an index twice is moving it by the sum), which gives
`write_frame = Slot(read_frame, queued_frames)` after a refill took frames and
after a copy published some. `PlaybackSafe` and `StreamedHalfSafe` rest on
`Control`: interrupts are off exactly while the play thread copies; the half it
copies into is not the active one; at each step of START and STOP it is known
which of flags and hardware is ahead; before INIT succeeded nothing plays.
`HeldQueueSafe` needs one thing more, `Rest`: while the loop is stopped the play thread waits for a transfer and none has been
signalled, and only SUBMIT and FLUSH hold the ring's mutex; the copy loop of a
request writes only slots that hold no queued frame (`QueuedApart`, `QueueGrows`).
`ServiceIsStream` is the refinement of `AudioStream`, step by step. It rests on `Handed` (the frames copied and
not yet published are the next ones of the submission) and on reading the queue as a `Window` of the ring: a refill drops
its start, publishing extends its end, and no other step moves it. `BlocksHeardOnce` assumes
`RefillOnTime`, the timing under which the run `AudioOnTime` checks the property; `Heard` says which rendered block
each half holds between two interrupts.

**SIF RPC** (any clients, pool size and number of attempts). `PacketsOwned` is
inductive with the types (`SifTypeCorrect`). `RequestsQuiet` and `RepliesOwn`
follow from `Undisturbed`: until the first timeout, `Orderly` describes at each
position of the thread which packet is in use, which request is in flight and
what the flag says. `ClientsStayBound` needs that a bound client's service is
registered, and that services stay registered.

**Heap** (any arena, word size and requests). `HeapInv` is the conjunction of
`TypeOK`, `BlocksTile`, `LiveBlocks` and `LargeEnough`. The lemmas `SplitSound`,
`MergeSound`, `FreedSound` and `TakenSound` say what each list operation does to
a list that tiles the arena; `Settled` turns that into the invariant after a
call. `HeapIsAllocator` then maps every call to a step of `Allocator`: regions lie
in the payloads of different blocks (`Apart`), new headers are written outside
them (`HeadedKeeps`), so nothing but the caller's region changes. It assumes
`Words \notin Sizes`: with a wrapped request the client's region is no longer
inside its block. `HeldRegionsApart` says without that assumption that the other regions stay apart.

**DebugLog** (any ring, message and buffer size). `Turn` computes `%` within two turns
of the ring and `CellOf` with it the place of the k-th of the newest n bytes;
`WriteShifts` then shows that `RingWrite` shifts the window, which gives the
refinement (`LogIsWindow`), and `CopyIsSuffix` that the reader's own arithmetic
comes to the same cells (`ReadersGetNewest`). `LineFeedsReturn` needs `LastSent`
(`g_last_output` is the last byte of the line, or 0), `SerialNeverAnError` needs
`NoError` (with the sink, an error so far means that memory ran out).
`MirrorShowsLog` rests on `MirrorInv`: during a write, the log is the mirror shifted by the
bytes written to the ring and not yet sent (`Ends`); `EndsWritten` and `EndsSent` carry that over one byte.

**Video** (any memory, modes, textures and chunks). `VideoTypeCorrect` needs that an
accepted mode's two frames fit (`FramesFit`) and that the last chunk of an image
is what is left of it (`ChunksCover`). `StatisticsAgree` is inductive with the types;
`SwapsAreSynchronised` needs `WaitsForFresh`: while a call waits, a set flag was set
since it began.
`TexturesSafe` and `PictureSafe` rest on `MemoryInv`: textures lie behind both frames, each behind the ones before
(`Placement`); the frame drawn to is not the one shown (`Framing`); the packets left are the last ones of the call
(`Sending`) and a busy channel carries the first of them (`Carried`). `Underway` ties this to memory: of a
texture in progress, exactly the packets the GS has executed are written, by the call's count and one more while
a finished transfer has not been noticed. `UploadStep` carries that over one packet, and
`ExecuteSafe` concludes that a packet changes only the frame drawn to, or memory no texture made so far occupies.

**Storage** (any cards, sizes and number of faults). `StorageInv` says of each position of the
service which functions it serves, keeps SD cards out of the table until a scan
ends (`TableFits`), ties the capacity bit to the card once it is ready, unless it was in the middle of a block at CMD0 (`UnitFits`), and says in
`Reading` what makes page reads sound although a chunk carries no number: a card that is still in
the transfer is the one all chunks so far came from, and is as far as the reader;
any other card answers with nothing, which ends the read. The exchanges are grouped by what they
leave alone (`BlockEffect`, `ScanEffect`, `PageKeeps`, `MxOver`, `MxOn`), and one lemma per group
carries the invariant over.
`ClientInv` adds the client and the counters: `Counted` bounds every loop by its size and the table by one
device per port already scanned, `ClientCounts` says that an operation of several requests is under way exactly
while bytes are missing, and that the request under way is the one the operation asks for
(`ClientTypeCorrect`, with a number for `MaxCount`). `FilesAreInOrder` needs, besides, `FilesFit`: in the middle of a file
transfer the card is at the block the service is at, or behind it, or has been exchanged and has no file open
(`FlowFits`); what was read so far is a run of one file (`InOrder`); and undisturbed, the file is
where it was plus what has been moved (`InPlace`). Its steps are grouped by effect, too (`HeaderStep`, `ErrorStep`, ...).
`ScansAreFaithful` rests on `ScanGoes`: while nothing disturbs a scan, the cards are those it began with, between two
commands (`AsPlugged`), the table lists the ports done so far (`SoFar`), and an SD card
is where `mx_initialize` believes it to be (`OnTheWay`). It assumes the types of SD cards `mx_initialize`
knows (`CardsAssumption`) and that they have sectors; a lost exchange or an exchanged card ends the claim (`FaultEnds`).
`SectorsAreAsked` rests on `SectorsGo`: of an undisturbed transfer, the sectors reported so far are
complete and the others as they were (`SectorsDone`), and at each position of the service the card is at the
same half of the same block (`InBlock`); `SectorsPlaced` ties the request to the port and the sectors of the card it was
checked against. That a 32-bit byte address reaches every sector (`AddressFits`) is asked of cards addressed by the
byte only, in the property (`Addressable`), so SDHC cards of any size are included.

**Pad service** (any number of slots, any Multitaps and pads; STAT70 framing included, but for `PollsTellTheTruth`).
`PadInv` adds two things to the types. `Known` is what holds of every slot: one without an
identifier has not been configured (`config_attempted` is clear), and its motors are
on only if its client asked. `Polled` is what a poll has found out at each step:
from the first answer on there is an identifier, since no empty socket answers
(`AnswerIsAPad`), and a pad that was not there before has not been configured when the search ends
(`SettleKeeps`). The second half gives `NewPadsConfigured`, the first `MotorsAreAsked`.
`EntryWritten` carries `Known` over every step that writes the entry of the polled slot.
`Truth` says what an undisturbed poll has learned: which topology was read, and which profiles have failed
so far with a pad that would have answered them. It gives `TopologyIsTap` and, for pads without
STAT70 framing, `PollsTellTheTruth`.

**CheckedMultiply** (any word size). `MultiplyExact`: `result + left * right` is the
product throughout, and each refusal shows that it exceeds a word.

**How long it takes.** Liveness is out of the prover's reach, but not what it rests on: a number of
steps left that is bounded, zero exactly between two calls, used up by every step of the thread
and given back by nobody. `RequestsEnd` proves this of SifRpc (at most 5 * `Attempts` + 1
steps), `CallsEnd` of Video (three steps for a packet: submitted, waited for, written to the FIFO),
`PollsEnd` of the pad service (16 steps, although nothing there is checked for liveness), `OperationsEnd` of
Storage: first come the requests an operation still waits for, then the exchanges left in the one under way
(`Left`, at each position of the service), and a fault, of which there are `MaxFaults`, leaves both as they are.
What remains for TLC is that a step is taken: fairness, and that one is enabled. The audio service has no such number:
`audio_submit` waits for room as long as it takes.

Only model-checked: liveness (`SubmitCompletes`, `EveryRequestReturns`, `CallsReturn`, `EveryOperationReturns`). Only proved:
`MultiplyExact`, and the theorems of PROJECT.json that name no property.

## Not modelled

- **EE audio client and PCM helpers.** A sequential caller of the service, and arithmetic on samples.
- **Module loader and IOP memory.** A straight line of bind, call and DMA requests (SifRpc's subject) to
  modules of the IOP's ROM whose code is not here. What its error paths leave behind
  is under the hazards (`sif.c:1026`), as is what `ef2_sif_init` leaves (`sif.c:389`).
- **EE pad client.** Copies and decodes one reply per call. `memorycard.c` is the same for Sony's MCMAN.
- **The SIO2 registers** below one exchange, of both modules. That pad and storage share the
  controller is excluded by the serialization STORAGE.md asks for.
- **Kernel services.** A few instructions around kernel calls and registers each.
- **C library, formatting, pixel layouts, register programming.** Pure functions.
- **Startup, crash screen, boot example, build.** Straight-line code and demonstration.

`PROJECT.json` gives the reason per component.

## Order of the work

Audio service; SifRpc; Heap and CheckedMultiply; DebugLog; Video; PadService; Storage.
Worth doing next: the SIO2
registers under both services, to state what a shared owner must guarantee.
