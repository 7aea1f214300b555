------------------------------- MODULE Video -------------------------------
(***************************************************************************)
(* The video layer of the EE (src/ee/gs/video.c) and the GIF DMA channel   *)
(* below it (src/ee/gs/gif_dma.c, gif.S).                                  *)
(*                                                                         *)
(* One thread calls the library; beside it run the DMA channel, which      *)
(* carries a packet to the GS, and the vertical sync.  Video memory is     *)
(* counted in blocks of 256 bytes and pages of PageBlocks; a framebuffer   *)
(* has one page per row of pages.                                          *)
(***************************************************************************)
EXTENDS Integers, Sequences

CONSTANTS PageBlocks, VramPages,  \* blocks of a page, pages of the memory
          NtscRows, PalRows,      \* the default heights, in rows of pages
          Heights,                \* heights asked for, 0 for the default
          ChunkBlocks,            \* EF2_GIF_IMAGE_MAX_QWORDS
          TexturePages, Images,   \* padded sizes in pages, image sizes in blocks
          Clut8, Clut4,           \* blocks of the two colour tables
          Names, Colors           \* contents of textures and of drawings

VramBlocks == VramPages * PageBlocks
Black == 0

ASSUME VideoAssumption ==
  /\ PageBlocks \in Nat \ {0} /\ VramPages \in Nat /\ ChunkBlocks \in Nat \ {0}
  /\ NtscRows \in Nat \ {0} /\ PalRows \in Nat \ {0}
  /\ Heights \subseteq Nat
  /\ TexturePages \subseteq Nat \ {0} /\ Images \subseteq Nat \ {0}
  /\ Clut8 \in Nat \ {0} /\ Clut4 \in Nat \ {0}

VARIABLES
  \* the size set last, the height of the active layout, the frames' roles,
  \* the texture cursor (a block), whether the DMA may be used
  rows, layout_rows, display, draw, double, cursor, dma_available,
  \* gif_dma.c: the flags; submissions - completions since the last reset
  dma_initialized, dma_active, open,
  \* hardware: the packet DMA carries, the page DISPFB2 shows, the VSINT flag,
  \* where the running upload continues, what video memory holds
  channel, dispfb, vsint, trx, vram,
  \* the call in progress: where it is, its packets, the texture it makes
  pc, todo, texture,
  \* modelling state: textures made since the allocator was reset; the stream to
  \* the GS has been mixed up; the last mode was refused; a vertical sync came
  \* since the call began
  textures, mixed, refused, edge

frameVars == <<rows, layout_rows, display, draw, double, dispfb, refused>>
dmaVars   == <<dma_available, dma_initialized, dma_active, open, channel>>
gsVars    == <<trx, vram, mixed>>
texVars   == <<cursor, texture, textures>>
syncVars  == <<vsint, edge>>
vars == <<frameVars, dmaVars, gsVars, texVars, syncVars, pc, todo>>

Blocks == 0 .. VramBlocks - 1
Empty  == [b \in Blocks |-> Black]

Packet(op, at, n, data) == [op |-> op, at |-> at, n |-> n, data |-> data]
Foreign == Packet("foreign", 0, 0, Black)

\* A transfer from before the program may still be running.
Init ==
  /\ rows = 0 /\ layout_rows = 0 /\ display = 0 /\ draw = 0 /\ double = FALSE
  /\ cursor = 0 /\ dma_available = FALSE
  /\ dma_initialized = FALSE /\ dma_active = FALSE /\ open = 0
  /\ channel \in {<<>>, <<Foreign>>} /\ dispfb = 0 /\ vsint \in BOOLEAN
  /\ trx = 0 /\ vram = Empty
  /\ pc = "idle" /\ todo = <<>> /\ texture = <<>>
  /\ textures = {} /\ mixed = FALSE /\ refused = FALSE /\ edge = FALSE
-----------------------------------------------------------------------------
(* The GS executes a packet.  Its memory is not followed any more once the *)
(* stream has been mixed up or a mode refused, until it is reset.          *)

\* n blocks from at on; addresses wrap round the end of the memory.
Fill(at, n, data) ==
  LET covered == {k % VramBlocks : k \in at .. at + n - 1}
  IN  [b \in Blocks |-> IF b \in covered THEN data ELSE vram[b]]

Lost == mixed \/ refused

Execute(p) ==
  \/ Lost /\ trx' = 0 /\ vram' = Empty
  \/ ~Lost /\ p.op = "draw" /\ vram' = Fill(p.at, p.n, p.data) /\ UNCHANGED trx
  \/ ~Lost /\ p.op = "setup" /\ trx' = p.at /\ UNCHANGED vram
  \/ ~Lost /\ p.op = "data" /\ vram' = Fill(trx, p.n, p.data) /\ trx' = trx + p.n
  \/ ~Lost /\ p.op \in {"tag", "flush", "foreign"} /\ UNCHANGED <<trx, vram>>

DmaEnd ==
  /\ channel # <<>>
  /\ Execute(channel[1])
  /\ channel' = <<>>
  /\ UNCHANGED <<frameVars, dma_available, dma_initialized, dma_active, open, mixed,
                 texVars, syncVars, pc, todo>>

VSync ==
  /\ vsint' = TRUE /\ edge' = (pc \in {"vsync", "present"})
  /\ UNCHANGED <<frameVars, dmaVars, gsVars, texVars, pc, todo>>
-----------------------------------------------------------------------------
(* gif_dma.c.                                                              *)

\* ef2_gif_dma_wait finds the channel idle.
Complete == /\ open' = IF dma_active THEN open - 1 ELSE open
            /\ dma_active' = FALSE

WaitDone == channel = <<>> /\ Complete
TimedOut == channel # <<>> /\ UNCHANGED <<dma_active, open>>

MutStartUncounted(p) ==
  /\ channel = <<>> /\ channel' = <<p>>
  /\ dma_active' = TRUE
  /\ open' = open + 1

\* Its own wait, then the transfer is started.
Start(p) ==
  /\ channel = <<>> /\ channel' = <<p>>
  /\ dma_active' = TRUE
  /\ open' = IF dma_active THEN open ELSE open + 1

ef2_gif_dma_reset_stats ==
  /\ pc = "idle"
  /\ open' = 0
  /\ UNCHANGED <<frameVars, dma_available, dma_initialized, dma_active, channel,
                 gsVars, texVars, syncVars, pc, todo>>

\* The application sends packets of its own, or waits for them.
ef2_gif_dma_submit_qwords ==
  /\ pc = "idle"
  /\ pc' = IF dma_initialized THEN "app_submit" ELSE "app_init"
  /\ UNCHANGED <<frameVars, dmaVars, gsVars, texVars, syncVars, todo>>

ef2_gif_dma_wait ==
  /\ pc = "idle" /\ pc' = "app_wait"
  /\ UNCHANGED <<frameVars, dmaVars, gsVars, texVars, syncVars, todo>>

AppInit ==
  /\ pc = "app_init"
  /\ \/ WaitDone /\ dma_initialized' = TRUE /\ pc' = "app_submit"
     \/ TimedOut /\ pc' = "idle" /\ UNCHANGED dma_initialized
  /\ UNCHANGED <<frameVars, dma_available, channel, gsVars, texVars, syncVars, todo>>

\* ef2_gif_dma_send_qwords waits afterwards.
AppSubmit ==
  /\ pc = "app_submit"
  /\ \/ Start(Foreign) /\ pc' \in {"idle", "app_wait"}
     \/ TimedOut /\ UNCHANGED channel /\ pc' = "idle"
  /\ UNCHANGED <<frameVars, dma_available, dma_initialized, gsVars, texVars, syncVars, todo>>

AppWait ==
  /\ pc = "app_wait" /\ pc' = "idle"
  /\ (WaitDone \/ TimedOut)
  /\ UNCHANGED <<frameVars, dma_available, dma_initialized, channel, gsVars, texVars, syncVars, todo>>
-----------------------------------------------------------------------------
(* ef2_video_submit_qwords.                                                *)

SendBy(dma) == IF dma THEN "submit" ELSE "fifo"

\* The first packet is out: the next one, or the call returns.
Sent ==
  /\ todo' = Tail(todo)
  /\ IF Len(todo) > 1 THEN pc' = SendBy(dma_available') /\ UNCHANGED texVars
     ELSE /\ pc' = "idle" /\ texture' = <<>>
          /\ textures' = textures \cup {texture[k] : k \in 1 .. Len(texture)}
          /\ cursor' = IF texture = <<>> THEN cursor ELSE texture[1].end

\* From now on the FIFO; a packet whose transfer was started goes out twice.
MutRetry == pc' = "submit" /\ mixed' = mixed /\ UNCHANGED dma_available

FallBack == /\ dma_available' = FALSE /\ pc' = "fifo"
            /\ mixed' = (mixed \/ pc = "sent")

Submit ==
  /\ pc = "submit"
  /\ \/ Start(Head(todo)) /\ pc' = "sent" /\ UNCHANGED <<dma_available, mixed>>
     \/ TimedOut /\ FallBack /\ UNCHANGED channel
  /\ UNCHANGED <<frameVars, dma_initialized, trx, vram, texVars, syncVars, todo>>

SendWait ==
  /\ pc = "sent"
  /\ \/ WaitDone /\ UNCHANGED <<dma_available, mixed>> /\ Sent
     \/ TimedOut /\ FallBack /\ UNCHANGED <<todo, texVars>>
  /\ UNCHANGED <<frameVars, dma_initialized, channel, trx, vram, syncVars>>

\* While a transfer runs, the two mix.
Fifo ==
  /\ pc = "fifo"
  /\ mixed' = (mixed \/ channel # <<>>)
  /\ Execute(Head(todo))
  /\ UNCHANGED <<frameVars, dmaVars, syncVars>>
  /\ Sent

Call(packets) ==
  /\ pc' = SendBy(dma_available)
  /\ todo' = packets
-----------------------------------------------------------------------------
(* Modes.                                                                  *)

Frame(k) == IF k = 0 THEN 0 ELSE layout_rows

Default(standard) == IF standard = "pal" THEN PalRows ELSE NtscRows
Requested(standard, height) == IF height # 0 THEN height ELSE Default(standard)

Accepted(standard, height) ==
  LET r == Requested(standard, height)
  IN  /\ r <= Default(standard) /\ Default(standard) % r = 0
      /\ Default(standard) \div r <= 4
      /\ 2 * r <= VramPages

\* The size is stored before it is validated.
StoreSize(standard, height) == rows' = Requested(standard, height)

\* An unknown standard, field mode or format changes nothing.
VideoInitRefused(standard, height) ==
  /\ pc = "idle" /\ ~Accepted(standard, height)
  /\ StoreSize(standard, height)
  /\ refused' = TRUE
  /\ UNCHANGED <<layout_rows, display, draw, double, dispfb, dmaVars, gsVars,
                 texVars, syncVars, pc, todo>>

\* Frames and textures are laid out anew and the GS is reset, which mixes up a
\* transfer that is running.
ef2_video_init(standard, height) ==
  /\ pc = "idle" /\ Accepted(standard, height)
  /\ StoreSize(standard, height) /\ layout_rows' = Requested(standard, height)
  /\ display' = 0 /\ draw' = 0 /\ double' = FALSE
  /\ cursor' = 2 * Requested(standard, height) * PageBlocks
  /\ textures' = {} /\ vram' = Empty /\ trx' = 0
  /\ refused' = FALSE /\ mixed' = (channel # <<>>)
  /\ pc' = "init"
  /\ UNCHANGED <<dispfb, dmaVars, texture, syncVars, todo>>

\* Rows first to last of the frame drawn to.
Drawing(frame, first, last, color) ==
  Packet("draw", (Frame(frame) + first) * PageBlocks, (last - first + 1) * PageBlocks, color)

\* ef2_gif_dma_init, then the display is programmed and the frame cleared.
InitDma ==
  /\ pc = "init"
  /\ \/ dma_initialized /\ dma_available' = TRUE /\ UNCHANGED <<dma_initialized, dma_active, open>>
     \/ ~dma_initialized /\ WaitDone /\ dma_initialized' = TRUE /\ dma_available' = TRUE
     \/ ~dma_initialized /\ TimedOut /\ dma_available' = FALSE /\ UNCHANGED dma_initialized
  /\ dispfb' = Frame(display)
  /\ todo' = <<Drawing(draw, 0, rows - 1, Black)>>
  /\ pc' = SendBy(dma_available')
  /\ UNCHANGED <<rows, layout_rows, display, draw, double, refused, channel,
                 gsVars, texVars, syncVars>>
-----------------------------------------------------------------------------
(* Frames.                                                                 *)

SetUp == rows # 0

\* The frame drawn to when double buffering begins.
BackBuffer == 1 - display

ef2_video_set_double_buffering(enabled) ==
  /\ pc = "idle" /\ SetUp
  /\ double' = enabled
  /\ draw' = IF ~enabled THEN display ELSE IF double THEN draw ELSE BackBuffer
  /\ UNCHANGED <<rows, layout_rows, display, dispfb, refused, dmaVars, gsVars,
                 texVars, syncVars, pc, todo>>

\* A clipped sprite or line, of any colour; ef2_video_clear is the largest.
DrawRows(first, last, color) ==
  /\ pc = "idle" /\ SetUp
  /\ first <= last /\ last < rows
  /\ Call(<<Drawing(draw, first, last, color)>>)
  /\ UNCHANGED <<frameVars, dmaVars, gsVars, texVars, syncVars>>

ef2_video_draw_rect(first, last, color) == DrawRows(first, last, color)
ef2_video_draw_line(first, last, color) == DrawRows(first, last, color)

\* The rectangle lies within the frame.
ef2_video_draw_texture(first, last, color) == textures # {} /\ DrawRows(first, last, color)
ef2_video_draw_texture_region(first, last, color) == textures # {} /\ DrawRows(first, last, color)

MutKeepVSync == UNCHANGED vsint

ClearVSync == vsint' = FALSE

\* ef2_video_wait_vsync clears a stale event first; present swaps after it.
ef2_video_wait_vsync ==
  /\ pc = "idle" /\ SetUp
  /\ ClearVSync /\ edge' = FALSE
  /\ pc' \in {"vsync", "present"}
  /\ UNCHANGED <<frameVars, dmaVars, gsVars, texVars, todo>>

VSyncTimeout ==
  /\ pc \in {"vsync", "present"} /\ ~vsint
  /\ pc' = "idle" /\ edge' = FALSE
  /\ UNCHANGED <<frameVars, dmaVars, gsVars, texVars, vsint, todo>>

VSyncSeen ==
  /\ pc = "vsync" /\ vsint
  /\ pc' = "idle" /\ edge' = FALSE
  /\ UNCHANGED <<frameVars, dmaVars, gsVars, texVars, vsint, todo>>

MutSwap == display' = draw /\ dispfb' = Frame(draw) /\ UNCHANGED draw

Swap == display' = draw /\ draw' = display /\ dispfb' = Frame(draw)

ef2_video_present ==
  /\ pc = "present" /\ vsint
  /\ pc' = "idle" /\ edge' = FALSE
  /\ IF double THEN Swap
     ELSE UNCHANGED <<display, draw, dispfb>>
  /\ UNCHANGED <<rows, layout_rows, double, refused, dmaVars, gsVars, texVars, vsint, todo>>
-----------------------------------------------------------------------------
(* Textures.                                                               *)

\* The handles are dead, and what they held is not followed any more.
Forget(frames) == vram' = [b \in Blocks |-> IF b < frames * PageBlocks THEN vram[b] ELSE Black]

ef2_video_reset_texture_allocator ==
  /\ pc = "idle"
  /\ cursor' = 2 * layout_rows * PageBlocks /\ textures' = {}
  /\ Forget(2 * layout_rows)
  /\ UNCHANGED <<frameVars, dmaVars, trx, mixed, texture, syncVars, pc, todo>>

\* Its packets: the set-up, then each chunk behind its tag.
ef2_video_upload_image(at, n, data) ==
  LET chunks  == (n + ChunkBlocks - 1) \div ChunkBlocks
      size(k) == IF k * ChunkBlocks <= n THEN ChunkBlocks ELSE n - (k - 1) * ChunkBlocks
  IN  <<Packet("setup", at, 0, Black)>>
      \o [j \in 1 .. 2 * chunks |->
            IF j % 2 = 1 THEN Packet("tag", 0, size((j + 1) \div 2), Black)
            ELSE Packet("data", 0, size(j \div 2), data)]

PageUp(block) == ((block + PageBlocks - 1) \div PageBlocks) * PageBlocks

MutEndWithoutClut(pages, clut) == PageUp(cursor) + pages * PageBlocks

\* Where the allocation ends: pages from the next boundary, then the colours.
EndOf(pages, clut) == PageUp(cursor) + pages * PageBlocks + clut

MutFitsUnaligned(pages, clut) == cursor + pages * PageBlocks + clut <= VramBlocks

Fits(pages, clut) == EndOf(pages, clut) <= VramBlocks

\* n is the size of the image, in blocks.
Upload(name, pages, n, clut) ==
  LET at     == PageUp(cursor)
      colors == at + pages * PageBlocks
  IN  /\ pc = "idle"
      /\ name \notin {t.name : t \in textures} /\ n <= pages * PageBlocks
      /\ Fits(pages, clut)
      /\ texture' = <<[name |-> name, at |-> at, n |-> n,
                       clut |-> colors, m |-> clut, end |-> EndOf(pages, clut)]>>
      /\ Call(ef2_video_upload_image(at, n, name)
              \o (IF clut = 0 THEN <<>> ELSE ef2_video_upload_image(colors, clut, name))
              \o <<Packet("flush", 0, 0, Black)>>)
      /\ UNCHANGED <<frameVars, dmaVars, gsVars, cursor, textures, syncVars>>

ef2_video_upload_rgba32(name, pages, n)   == Upload(name, pages, n, 0)
ef2_video_upload_indexed8(name, pages, n) == Upload(name, pages, n, Clut8)
ef2_video_upload_indexed4(name, pages, n) == Upload(name, pages, n, Clut4)

-----------------------------------------------------------------------------
Rows == 0 .. rows - 1

Calls ==
  \/ \E standard \in {"ntsc", "pal"}, height \in Heights :
       VideoInitRefused(standard, height) \/ ef2_video_init(standard, height)
  \/ \E enabled \in BOOLEAN : ef2_video_set_double_buffering(enabled)
  \/ \E first \in Rows, last \in Rows, color \in Colors :
       \/ ef2_video_draw_rect(first, last, color) \/ ef2_video_draw_line(first, last, color)
       \/ ef2_video_draw_texture(first, last, color)
       \/ ef2_video_draw_texture_region(first, last, color)
  \/ ef2_video_wait_vsync
  \/ ef2_video_reset_texture_allocator
  \/ \E name \in Names, pages \in TexturePages, n \in Images :
       \/ ef2_video_upload_rgba32(name, pages, n)
       \/ ef2_video_upload_indexed8(name, pages, n)
       \/ ef2_video_upload_indexed4(name, pages, n)
  \/ ef2_gif_dma_reset_stats \/ ef2_gif_dma_submit_qwords \/ ef2_gif_dma_wait

\* The thread inside a call.
Progress ==
  \/ InitDma \/ Submit \/ SendWait \/ Fifo
  \/ AppInit \/ AppSubmit \/ AppWait
  \/ VSyncTimeout \/ VSyncSeen \/ ef2_video_present

Next == Calls \/ Progress \/ DmaEnd \/ VSync

Spec == Init /\ [][Next]_vars
FairSpec == Spec /\ WF_vars(Progress)
-----------------------------------------------------------------------------
(* Properties.                                                             *)

PacketType ==
  [op : {"draw", "setup", "tag", "data", "flush", "foreign"}, at : Nat, n : Nat,
   data : Names \cup Colors \cup {Black}]
TextureType == [name : Names, at : Nat, n : Nat, clut : Nat, m : Nat,
                end : 0 .. VramBlocks]

FrameType == /\ rows \in Nat /\ layout_rows \in Nat /\ 2 * layout_rows <= VramPages
             /\ display \in {0, 1} /\ draw \in {0, 1} /\ double \in BOOLEAN
             /\ dispfb \in Nat /\ refused \in BOOLEAN
DmaType == /\ dma_available \in BOOLEAN /\ dma_initialized \in BOOLEAN
           /\ dma_active \in BOOLEAN /\ open \in Int
           /\ channel \in Seq(PacketType) /\ Len(channel) <= 1
GsType == /\ trx \in Nat /\ mixed \in BOOLEAN
          /\ vram \in [Blocks -> Names \cup Colors \cup {Black}]
TexType == /\ cursor \in 0 .. VramBlocks
           /\ texture \in Seq(TextureType) /\ Len(texture) <= 1
           /\ textures \subseteq TextureType
CallType == /\ pc \in {"idle", "init", "submit", "sent", "fifo", "app_init", "app_submit",
                       "app_wait", "vsync", "present"}
            /\ todo \in Seq(PacketType) /\ (pc \in {"submit", "sent", "fifo"} <=> todo # <<>>)
SyncType == vsint \in BOOLEAN /\ edge \in BOOLEAN

\* Type invariant. Two frames fit video memory, the texture cursor stays in it, and
\* a call has packets left exactly while it is sending.
TypeOK == FrameType /\ DmaType /\ GsType /\ TexType /\ CallType /\ SyncType

\* Submissions and completions in the statistics agree up to the transfer not
\* found complete yet, through time-outs whose transfer ends later, packets of the
\* application's own, repeated initialisation and resets of the counters; a reset in the middle of a transfer leaves completions one ahead.
CountsAgree == open \in (IF dma_active THEN {0, 1} ELSE {-1, 0})

\* A texture uploaded since the last reset keeps its image and its colours,
\* whatever is drawn or uploaded after it. This holds while the stream to the GS
\* is sound and no mode was refused.
TexturesIntact ==
  ~Lost =>
    \A t \in textures : \A b \in (t.at .. t.at + t.n - 1) \cup (t.clut .. t.clut + t.m - 1) :
      vram[b] = t.name

\* What the screen shows: the rows of the frame DISPFB2 points to.
Shown == [b \in 0 .. layout_rows * PageBlocks - 1 |-> vram[dispfb * PageBlocks + b]]

\* With double buffering the picture changes only when present swaps the frames:
\* drawing and uploading stay out of sight.
ShownOnlyByPresent ==
  [][double /\ double' /\ ~Lost /\ ~Lost' /\ Shown' # Shown => pc = "present"]_vars

\* Frames are swapped after a vertical sync that came since present was called, not
\* after one remembered from before.
SwapsOnFreshVSync == [][dispfb' # dispfb /\ pc = "present" => edge]_vars

\* Every call returns, whether or not the channel or the display ever answer.
CallsReturn == pc # "idle" ~> pc = "idle"

\* Once a mode is active, ef2_video_get_size returns its dimensions, as VIDEO.md
\* says. It fails: a mode refused later has already stored its own.
SizeIsActive == layout_rows # 0 => rows = layout_rows
=============================================================================
