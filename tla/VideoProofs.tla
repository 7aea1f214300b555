---------------------------- MODULE VideoProofs ----------------------------
(***************************************************************************)
(* Theorems about Video for every size of memory, mode and texture.        *)
(***************************************************************************)
EXTENDS Video, SequenceTheorems, TLAPS

Contents == Names \cup Colors \cup {Black}

\* Blocks times pages.
LEMMA ProductNat == ASSUME NEW a \in Nat, NEW b \in Nat PROVE a * b \in Nat
  OBVIOUS

\* Two frames that fit in pages fit in blocks.
LEMMA FramesFit ==
  ASSUME NEW r \in Nat, 2 * r <= VramPages
  PROVE  2 * r * PageBlocks \in 0 .. VramBlocks
  <1> USE VideoAssumption
  <1>1. VramPages - 2 * r \in Nat
    OBVIOUS
  <1>2. (VramPages - 2 * r) * PageBlocks \in Nat
    BY <1>1, ProductNat
  <1>3. 2 * r * PageBlocks \in Nat
    BY ProductNat
  <1>4. VramPages * PageBlocks = 2 * r * PageBlocks + (VramPages - 2 * r) * PageBlocks
    OBVIOUS
  <1> QED BY <1>2, <1>3, <1>4 DEF VramBlocks

\* What the calls build are packets.
LEMMA PacketIs ==
  ASSUME NEW op \in {"draw", "setup", "tag", "data", "flush", "foreign"},
         NEW at \in Nat, NEW n \in Nat, NEW data \in Contents
  PROVE  Packet(op, at, n, data) \in PacketType
  BY DEF Packet, PacketType, Contents

\* A packet of the application.
LEMMA ForeignIs == Foreign \in PacketType
  BY PacketIs DEF Foreign, Contents

\* A clipped drawing is a packet.
LEMMA DrawingIs ==
  ASSUME FrameType, NEW k \in {0, 1}, NEW first \in Nat, NEW last \in Int, first <= last + 1,
         NEW color \in Contents
  PROVE  Drawing(k, first, last, color) \in PacketType
  <1> USE VideoAssumption
  <1>1. Frame(k) \in Nat
    BY DEF Frame, FrameType
  <1>2. Frame(k) + first \in Nat /\ last - first + 1 \in Nat
    BY <1>1
  <1>3. (Frame(k) + first) * PageBlocks \in Nat /\ (last - first + 1) * PageBlocks \in Nat
    BY <1>2, ProductNat
  <1> QED BY <1>3, PacketIs DEF Drawing

\* The last chunk of an image is not longer than what is left.
LEMMA ChunksCover ==
  ASSUME NEW n \in Nat, NEW k \in 1 .. (n + ChunkBlocks - 1) \div ChunkBlocks
  PROVE  n - (k - 1) * ChunkBlocks \in Nat
  <1> USE VideoAssumption
  <1> DEFINE x == n + ChunkBlocks - 1
             q == x \div ChunkBlocks
  <1>1. x \in Nat /\ q \in Int
    OBVIOUS
  <1>2. ChunkBlocks * q <= x
    BY <1>1
  <1>3. k \in Int /\ q - k \in Nat
    BY <1>1
  <1> HIDE DEF q
  <1>4. (q - k) * ChunkBlocks \in Nat
    BY <1>3, ProductNat
  <1>5. ChunkBlocks * q - k * ChunkBlocks \in Nat
    BY <1>1, <1>3, <1>4
  <1>6. (k - 1) * ChunkBlocks = k * ChunkBlocks - ChunkBlocks
    BY <1>3
  <1>7. k * ChunkBlocks \in Int /\ ChunkBlocks * q \in Int
    BY <1>1, <1>3
  <1> QED BY <1>2, <1>5, <1>6, <1>7

\* The packets of ef2_video_upload_image, one at least.
LEMMA ImageIs ==
  ASSUME NEW at \in Nat, NEW n \in Nat, NEW data \in Contents
  PROVE  /\ ef2_video_upload_image(at, n, data) \in Seq(PacketType)
         /\ ef2_video_upload_image(at, n, data) # <<>>
  <1> USE VideoAssumption
  <1> DEFINE chunks  == (n + ChunkBlocks - 1) \div ChunkBlocks
             size(k) == IF k * ChunkBlocks <= n THEN ChunkBlocks ELSE n - (k - 1) * ChunkBlocks
             body    == [j \in 1 .. 2 * chunks |->
                           IF j % 2 = 1 THEN Packet("tag", 0, size((j + 1) \div 2), Black)
                           ELSE Packet("data", 0, size(j \div 2), data)]
  <1>1. chunks \in Nat
    OBVIOUS
  <1>2. \A k \in 1 .. chunks : size(k) \in Nat
    BY ChunksCover
  <1> HIDE DEF chunks, size
  <1>3. \A j \in 1 .. 2 * chunks : body[j] \in PacketType
    <2> SUFFICES ASSUME NEW j \in 1 .. 2 * chunks PROVE body[j] \in PacketType
      OBVIOUS
    <2>1. Black \in Contents
      BY DEF Contents
    <2>2. CASE j % 2 = 1
      <3>1. (j + 1) \div 2 \in 1 .. chunks
        BY <1>1, <2>2
      <3> QED BY <1>2, <2>1, <2>2, <3>1, PacketIs
    <2>3. CASE j % 2 # 1
      <3>1. j \div 2 \in 1 .. chunks
        BY <1>1, <2>3
      <3> QED BY <1>2, <2>3, <3>1, PacketIs
    <2> QED BY <2>2, <2>3
  <1>4. body \in Seq(PacketType)
    <2>1. 2 * chunks \in Nat
      BY <1>1
    <2> QED BY <1>3, <2>1
  <1>5. Packet("setup", at, 0, Black) \in PacketType
    BY PacketIs DEF Contents
  <1>6. ef2_video_upload_image(at, n, data) = <<Packet("setup", at, 0, Black)>> \o body
    BY DEF ef2_video_upload_image, chunks, size
  <1> HIDE DEF body
  <1> QED BY <1>4, <1>5, <1>6
-----------------------------------------------------------------------------
(* Types.                                                                  *)

\* Filling keeps the type of video memory.
LEMMA FillIs ==
  ASSUME GsType, NEW at \in Int, NEW n \in Int, NEW data \in Contents
  PROVE  Fill(at, n, data) \in [Blocks -> Contents]
  BY DEF Fill, GsType, Contents

\* So does any packet.
LEMMA ExecuteType ==
  ASSUME GsType, NEW p \in PacketType, Execute(p)
  PROVE  trx' \in Nat /\ vram' \in [Blocks -> Contents]
  <1>1. p.at \in Nat /\ p.n \in Nat /\ p.data \in Contents
    BY DEF PacketType, Contents
  <1>2. Empty \in [Blocks -> Contents]
    BY DEF Empty, Contents
  <1>3. trx \in Nat /\ vram \in [Blocks -> Contents]
    BY DEF GsType, Contents
  <1>4. trx + p.n \in Nat
    BY <1>1, <1>3
  <1>5. Fill(p.at, p.n, p.data) \in [Blocks -> Contents] /\ Fill(trx, p.n, p.data) \in [Blocks -> Contents]
    BY <1>1, <1>3, FillIs
  <1>6. CASE UNCHANGED trx /\ vram' = Fill(p.at, p.n, p.data)
    BY <1>3, <1>5, <1>6
  <1>7. CASE trx' = p.at /\ UNCHANGED vram
    BY <1>1, <1>3, <1>7
  <1>8. CASE vram' = Fill(trx, p.n, p.data) /\ trx' = trx + p.n
    BY <1>4, <1>5, <1>8
  <1>9. CASE trx' = 0 /\ vram' = Empty
    BY <1>2, <1>9
  <1>10. CASE UNCHANGED <<trx, vram>>
    BY <1>3, <1>10
  <1> QED BY <1>6, <1>7, <1>8, <1>9, <1>10 DEF Execute

\* Moving on to the next packet, or returning, keeps the types of a call.
LEMMA SentType ==
  ASSUME CallType, TexType, dma_available' \in BOOLEAN, todo # <<>>, Sent
  PROVE  CallType' /\ TexType'
  <1>1. todo \in Seq(PacketType) /\ Len(todo) \in Nat \ {0}
    BY DEF CallType
  <1>2. Tail(todo) \in Seq(PacketType) /\ Len(Tail(todo)) = Len(todo) - 1
    BY <1>1
  <1>3. CASE Len(todo) > 1
    <2>1. Tail(todo) # <<>>
      <3>1. Len(Tail(todo)) # 0
        BY <1>1, <1>2, <1>3
      <3> QED BY <1>2, <3>1, EmptySeq
    <2>2. CallType'
      BY <1>2, <1>3, <2>1 DEF Sent, SendBy, CallType
    <2> QED BY <1>3, <2>2 DEF Sent, texVars, TexType
  <1>4. CASE ~(Len(todo) > 1)
    <2>1. Tail(todo) = <<>>
      <3>1. Len(Tail(todo)) = 0
        BY <1>1, <1>2, <1>4
      <3> QED BY <1>2, <3>1, EmptySeq
    <2>2. CallType'
      BY <1>2, <1>4, <2>1 DEF Sent, CallType
    <2>3. cursor' \in 0 .. VramBlocks
      <3>1. texture # <<>> => texture[1] \in TextureType
        BY DEF TexType
      <3> QED BY <1>4, <3>1 DEF Sent, TexType, TextureType
    <2>4. {texture[k] : k \in 1 .. Len(texture)} \subseteq TextureType
      BY DEF TexType
    <2>5. textures' \subseteq TextureType /\ texture' \in Seq(TextureType) /\ Len(texture') <= 1
      BY <1>4, <2>4 DEF Sent, TexType
    <2> QED BY <2>2, <2>3, <2>5 DEF TexType
  <1> QED BY <1>3, <1>4

\* A call with packets to send starts sending.
LEMMA CallIs ==
  ASSUME CallType, NEW s \in Seq(PacketType), s # <<>>, Call(s)
  PROVE  CallType'
  BY DEF Call, SendBy, CallType

\* The types hold before the first call.
LEMMA InitType == Init => TypeOK
  <1> SUFFICES ASSUME Init PROVE TypeOK
    OBVIOUS
  <1>1. VramBlocks \in Nat
    BY VideoAssumption, ProductNat DEF VramBlocks
  <1>2. FrameType
    <2>1. rows = 0 /\ layout_rows = 0 /\ display = 0 /\ draw = 0 /\ double = FALSE /\ dispfb = 0
          /\ refused = FALSE
      BY DEF Init
    <2>2. 2 * layout_rows <= VramPages
      BY <2>1, VideoAssumption
    <2> QED BY <2>1, <2>2 DEF FrameType
  <1>3. DmaType
    <2>1. channel \in Seq(PacketType) /\ Len(channel) <= 1
      <3>1. CASE channel = <<>>
        BY <3>1
      <3>2. CASE channel = <<Foreign>>
        BY <3>2, ForeignIs
      <3> QED BY <3>1, <3>2 DEF Init
    <2>2. open \in Int
      BY DEF Init
    <2>3. dma_available \in BOOLEAN /\ dma_initialized \in BOOLEAN /\ dma_active \in BOOLEAN
      BY DEF Init
    <2> QED BY <2>1, <2>2, <2>3 DEF DmaType
  <1>4. GsType
    BY DEF Init, GsType, Empty
  <1>5. TexType
    BY <1>1 DEF Init, TexType
  <1>6. CallType
    BY DEF Init, CallType
  <1>7. SyncType
    BY DEF Init, SyncType
  <1> QED BY <1>2, <1>3, <1>4, <1>5, <1>6, <1>7 DEF TypeOK

\* A mode that is accepted.
LEMMA ModeIs ==
  ASSUME NEW standard \in {"ntsc", "pal"}, NEW height \in Heights
  PROVE  /\ Requested(standard, height) \in Nat
         /\ Accepted(standard, height) => 2 * Requested(standard, height) <= VramPages
  BY VideoAssumption DEF Requested, Accepted, Default

\* Every step keeps the types (video.c, gif_dma.c).
LEMMA NextType == TypeOK /\ [Next]_vars => TypeOK'
  <1> SUFFICES ASSUME TypeOK, [Next]_vars PROVE TypeOK'
    OBVIOUS
  <1> USE DEF TypeOK
  \* Each part survives a step that leaves its variables alone.
  <1>a. UNCHANGED frameVars => FrameType'
    BY DEF frameVars, FrameType
  <1>b. UNCHANGED dmaVars => DmaType'
    BY DEF dmaVars, DmaType
  <1>c. UNCHANGED gsVars => GsType'
    BY DEF gsVars, GsType
  <1>d. UNCHANGED texVars => TexType'
    BY DEF texVars, TexType
  <1>e. UNCHANGED syncVars => SyncType'
    BY DEF syncVars, SyncType
  <1>f. UNCHANGED <<pc, todo>> => CallType'
    BY DEF CallType
  \* So does an idle moment: no packets are left.
  <1>g. /\ UNCHANGED todo /\ pc \notin {"submit", "sent", "fifo"}
        /\ pc' \in {"idle", "init", "app_init", "app_submit", "app_wait", "vsync", "present"}
        => CallType'
    BY DEF CallType
  <1>h. ASSUME WaitDone \/ TimedOut PROVE dma_active' \in BOOLEAN /\ open' \in Int
    <2>1. CASE WaitDone
      <3>1. dma_active' \in BOOLEAN
        BY <2>1 DEF WaitDone, Complete
      <3>2. open' \in Int
        BY <2>1 DEF WaitDone, Complete, DmaType
      <3> QED BY <3>1, <3>2
    <2>2. CASE TimedOut
      BY <2>2 DEF TimedOut, DmaType
    <2> QED BY <1>h, <2>1, <2>2
  <1>i. ASSUME NEW p \in PacketType, Start(p)
        PROVE  /\ dma_active' \in BOOLEAN /\ open' \in Int
               /\ channel' \in Seq(PacketType) /\ Len(channel') <= 1
    <2>1. dma_active' \in BOOLEAN
      BY <1>i DEF Start
    <2>2. open' \in Int
      BY <1>i DEF Start, DmaType
    <2>3. channel' \in Seq(PacketType) /\ Len(channel') <= 1
      BY <1>i DEF Start
    <2> QED BY <2>1, <2>2, <2>3
  <1>1. ASSUME DmaEnd PROVE TypeOK'
    <2>1. channel[1] \in PacketType
      BY <1>1 DEF DmaEnd, DmaType
    <2>2. GsType'
      <3>1. trx' \in Nat /\ vram' \in [Blocks -> Contents]
        BY <1>1, <2>1, ExecuteType DEF DmaEnd
      <3> QED BY <1>1, <3>1 DEF DmaEnd, GsType, Contents
    <2>3. DmaType'
      BY <1>1 DEF DmaEnd, DmaType
    <2> QED BY <1>1, <2>2, <2>3, <1>a, <1>d, <1>e, <1>f DEF DmaEnd
  <1>2. ASSUME VSync PROVE TypeOK'
    <2>1. SyncType'
      BY <1>2 DEF VSync, SyncType
    <2> QED BY <1>2, <2>1, <1>a, <1>b, <1>c, <1>d, <1>f DEF VSync
  <1>3. ASSUME ef2_gif_dma_reset_stats PROVE TypeOK'
    <2>1. DmaType'
      BY <1>3 DEF ef2_gif_dma_reset_stats, DmaType
    <2> QED BY <1>3, <2>1, <1>a, <1>c, <1>d, <1>e, <1>f DEF ef2_gif_dma_reset_stats
  <1>4. ASSUME ef2_gif_dma_submit_qwords PROVE TypeOK'
    <2>1. CallType'
      BY <1>4, <1>g DEF ef2_gif_dma_submit_qwords
    <2> QED BY <1>4, <2>1, <1>a, <1>b, <1>c, <1>d, <1>e DEF ef2_gif_dma_submit_qwords
  <1>5. ASSUME ef2_gif_dma_wait PROVE TypeOK'
    <2>1. CallType'
      BY <1>5, <1>g DEF ef2_gif_dma_wait
    <2> QED BY <1>5, <2>1, <1>a, <1>b, <1>c, <1>d, <1>e DEF ef2_gif_dma_wait
  <1>6. ASSUME AppInit PROVE TypeOK'
    <2>1. CallType'
      BY <1>6, <1>g DEF AppInit
    <2>2. dma_active' \in BOOLEAN /\ open' \in Int
      BY <1>6, <1>h DEF AppInit
    <2>3. dma_initialized' \in BOOLEAN
      BY <1>6 DEF AppInit, DmaType
    <2>4. DmaType'
      BY <1>6, <2>2, <2>3 DEF AppInit, DmaType
    <2> QED BY <1>6, <2>1, <2>4, <1>a, <1>c, <1>d, <1>e DEF AppInit
  <1>7. ASSUME AppSubmit PROVE TypeOK'
    <2>1. CallType'
      BY <1>7, <1>g DEF AppSubmit
    <2>2. DmaType'
      <3>1. CASE Start(Foreign)
        BY <1>7, <3>1, <1>i, ForeignIs DEF AppSubmit, DmaType
      <3>2. CASE TimedOut /\ UNCHANGED channel
        BY <1>7, <3>2, <1>h DEF AppSubmit, DmaType
      <3> QED BY <1>7, <3>1, <3>2 DEF AppSubmit
    <2> QED BY <1>7, <2>1, <2>2, <1>a, <1>c, <1>d, <1>e DEF AppSubmit
  <1>8. ASSUME AppWait PROVE TypeOK'
    <2>1. CallType'
      BY <1>8, <1>g DEF AppWait
    <2>2. DmaType'
      BY <1>8, <1>h DEF AppWait, DmaType
    <2> QED BY <1>8, <2>1, <2>2, <1>a, <1>c, <1>d, <1>e DEF AppWait
  <1>9. ASSUME Submit PROVE TypeOK'
    <2>1. todo # <<>> /\ todo \in Seq(PacketType) /\ Head(todo) \in PacketType
      BY <1>9 DEF Submit, CallType
    <2>2. CallType'
      BY <1>9, <2>1 DEF Submit, FallBack, CallType
    <2>3. DmaType' /\ mixed' \in BOOLEAN
      <3>1. CASE Start(Head(todo)) /\ UNCHANGED <<dma_available, mixed>>
        <4>1. mixed' \in BOOLEAN
          BY <3>1 DEF GsType
        <4> QED BY <1>9, <2>1, <3>1, <4>1, <1>i DEF Submit, DmaType
      <3>2. CASE TimedOut /\ FallBack /\ UNCHANGED channel
        <4>1. mixed' \in BOOLEAN /\ dma_available' \in BOOLEAN
          BY <3>2 DEF FallBack, GsType
        <4> QED BY <1>9, <3>2, <4>1, <1>h DEF Submit, DmaType
      <3> QED BY <1>9, <3>1, <3>2 DEF Submit
    <2>4. GsType'
      BY <1>9, <2>3 DEF Submit, GsType
    <2> QED BY <1>9, <2>2, <2>3, <2>4, <1>a, <1>d, <1>e DEF Submit
  <1>10. ASSUME SendWait PROVE TypeOK'
    <2>1. todo # <<>>
      BY <1>10 DEF SendWait, CallType
    <2>2. CASE WaitDone /\ UNCHANGED <<dma_available, mixed>> /\ Sent
      <3>1. DmaType'
        BY <1>10, <2>2, <1>h DEF SendWait, DmaType
      <3>2. GsType'
        BY <1>10, <2>2 DEF SendWait, GsType
      <3>3. CallType' /\ TexType'
        BY <2>1, <2>2, <3>1, SentType DEF DmaType
      <3> QED BY <1>10, <3>1, <3>2, <3>3, <1>a, <1>e DEF SendWait
    <2>3. CASE TimedOut /\ FallBack /\ UNCHANGED <<todo, texVars>>
      <3>1. dma_available' \in BOOLEAN /\ mixed' \in BOOLEAN
        BY <2>3 DEF FallBack, GsType
      <3>2. DmaType'
        BY <1>10, <2>3, <3>1, <1>h DEF SendWait, DmaType
      <3>3. GsType'
        BY <1>10, <3>1 DEF SendWait, GsType
      <3>4. CallType'
        BY <2>1, <2>3 DEF FallBack, CallType
      <3> QED BY <1>10, <2>3, <3>2, <3>3, <3>4, <1>a, <1>d, <1>e DEF SendWait
    <2> QED BY <1>10, <2>2, <2>3 DEF SendWait
  <1>11. ASSUME Fifo PROVE TypeOK'
    <2>1. todo # <<>> /\ Head(todo) \in PacketType
      BY <1>11 DEF Fifo, CallType
    <2>2. DmaType'
      BY <1>11, <1>b DEF Fifo
    <2>3. CallType' /\ TexType'
      BY <1>11, <2>1, <2>2, SentType DEF Fifo, DmaType
    <2>4. GsType'
      <3>1. trx' \in Nat /\ vram' \in [Blocks -> Contents]
        BY <1>11, <2>1, ExecuteType DEF Fifo
      <3>2. mixed' \in BOOLEAN
        BY <1>11 DEF Fifo, GsType
      <3> QED BY <3>1, <3>2 DEF GsType, Contents
    <2> QED BY <1>11, <2>2, <2>3, <2>4, <1>a, <1>e DEF Fifo
  <1>12. ASSUME NEW standard \in {"ntsc", "pal"}, NEW height \in Heights,
                VideoInitRefused(standard, height)
         PROVE  TypeOK'
    <2>1. FrameType'
      BY <1>12, ModeIs DEF VideoInitRefused, StoreSize, FrameType
    <2> QED BY <1>12, <2>1, <1>b, <1>c, <1>d, <1>e, <1>f DEF VideoInitRefused
  <1>13. ASSUME NEW standard \in {"ntsc", "pal"}, NEW height \in Heights,
                ef2_video_init(standard, height)
         PROVE  TypeOK'
    <2>1. Requested(standard, height) \in Nat /\ 2 * Requested(standard, height) <= VramPages
      BY <1>13, ModeIs DEF ef2_video_init
    <2>2. FrameType'
      BY <1>13, <2>1 DEF ef2_video_init, StoreSize, FrameType
    <2>3. TexType'
      BY <1>13, <2>1, FramesFit DEF ef2_video_init, TexType
    <2>4. GsType'
      <3>1. mixed' \in BOOLEAN
        BY <1>13 DEF ef2_video_init
      <3> QED BY <1>13, <3>1 DEF ef2_video_init, GsType, Empty
    <2>5. CallType'
      BY <1>13, <1>g DEF ef2_video_init
    <2> QED BY <1>13, <2>2, <2>3, <2>4, <2>5, <1>b, <1>e DEF ef2_video_init
  <1>14. ASSUME InitDma PROVE TypeOK'
    <2>1. /\ dma_available' \in BOOLEAN /\ dma_initialized' \in BOOLEAN
          /\ dma_active' \in BOOLEAN /\ open' \in Int
      <3>1. CASE dma_initialized /\ dma_available' = TRUE /\ UNCHANGED <<dma_initialized, dma_active, open>>
        BY <3>1 DEF DmaType
      <3>2. CASE ~dma_initialized /\ WaitDone /\ dma_initialized' = TRUE /\ dma_available' = TRUE
        BY <3>2, <1>h
      <3>3. CASE ~dma_initialized /\ TimedOut /\ dma_available' = FALSE /\ UNCHANGED dma_initialized
        BY <3>3, <1>h DEF DmaType
      <3> QED BY <1>14, <3>1, <3>2, <3>3 DEF InitDma
    <2>2. DmaType'
      BY <1>14, <2>1 DEF InitDma, DmaType
    <2>3. FrameType'
      BY <1>14 DEF InitDma, FrameType, Frame
    <2>4. CallType'
      <3>1. Drawing(draw, 0, rows - 1, Black) \in PacketType
        <4>1. draw \in {0, 1} /\ rows \in Nat
          BY DEF FrameType
        <4>2. rows - 1 \in Int /\ 0 <= rows - 1 + 1
          BY <4>1
        <4> QED BY <4>1, <4>2, DrawingIs DEF Contents
      <3>2. todo' \in Seq(PacketType) /\ todo' # <<>>
        BY <1>14, <3>1 DEF InitDma
      <3> QED BY <1>14, <3>2 DEF InitDma, SendBy, CallType
    <2> QED BY <1>14, <2>2, <2>3, <2>4, <1>c, <1>d, <1>e DEF InitDma
  <1>15. ASSUME NEW enabled \in BOOLEAN, ef2_video_set_double_buffering(enabled) PROVE TypeOK'
    <2>1. BackBuffer \in {0, 1}
      BY DEF BackBuffer, FrameType
    <2>2. FrameType'
      BY <1>15, <2>1 DEF ef2_video_set_double_buffering, FrameType
    <2> QED BY <1>15, <2>2, <1>b, <1>c, <1>d, <1>e, <1>f DEF ef2_video_set_double_buffering
  <1>16. ASSUME NEW first \in Rows, NEW last \in Rows, NEW color \in Colors,
                DrawRows(first, last, color)
         PROVE  TypeOK'
    <2>1. Drawing(draw, first, last, color) \in PacketType
      <3>1. draw \in {0, 1} /\ rows \in Nat
        BY DEF FrameType
      <3>2. first \in Nat /\ last \in Int /\ first <= last + 1
        BY <1>16, <3>1 DEF Rows, DrawRows
      <3> QED BY <3>1, <3>2, DrawingIs DEF Contents
    <2>2. CallType'
      <3> DEFINE packets == <<Drawing(draw, first, last, color)>>
      <3>1. packets \in Seq(PacketType) /\ packets # <<>>
        BY <2>1
      <3>2. Call(packets)
        BY <1>16 DEF DrawRows
      <3> HIDE DEF packets
      <3> QED BY <3>1, <3>2, CallIs
    <2> QED BY <1>16, <2>2, <1>a, <1>b, <1>c, <1>d, <1>e DEF DrawRows
  <1>17. ASSUME ef2_video_wait_vsync PROVE TypeOK'
    <2>1. SyncType'
      BY <1>17 DEF ef2_video_wait_vsync, ClearVSync, SyncType
    <2>2. CallType'
      BY <1>17, <1>g DEF ef2_video_wait_vsync
    <2> QED BY <1>17, <2>1, <2>2, <1>a, <1>b, <1>c, <1>d DEF ef2_video_wait_vsync
  <1>18. ASSUME VSyncTimeout \/ VSyncSeen PROVE TypeOK'
    <2>1. SyncType'
      BY <1>18 DEF VSyncTimeout, VSyncSeen, SyncType
    <2>2. CallType'
      BY <1>18, <1>g DEF VSyncTimeout, VSyncSeen
    <2> QED BY <1>18, <2>1, <2>2, <1>a, <1>b, <1>c, <1>d DEF VSyncTimeout, VSyncSeen
  <1>19. ASSUME ef2_video_present PROVE TypeOK'
    <2>1. SyncType'
      BY <1>19 DEF ef2_video_present, SyncType
    <2>2. CallType'
      BY <1>19, <1>g DEF ef2_video_present
    <2>3. FrameType'
      BY <1>19 DEF ef2_video_present, Swap, Frame, FrameType
    <2> QED BY <1>19, <2>1, <2>2, <2>3, <1>b, <1>c, <1>d DEF ef2_video_present
  <1>20. ASSUME ef2_video_reset_texture_allocator PROVE TypeOK'
    <2>1. TexType'
      BY <1>20, FramesFit DEF ef2_video_reset_texture_allocator, TexType, FrameType
    <2>2. GsType'
      BY <1>20 DEF ef2_video_reset_texture_allocator, Forget, GsType
    <2> QED BY <1>20, <2>1, <2>2, <1>a, <1>b, <1>e, <1>f DEF ef2_video_reset_texture_allocator
  <1>21. ASSUME NEW name \in Names, NEW pages \in TexturePages, NEW n \in Images,
                NEW clut \in Nat, Upload(name, pages, n, clut)
         PROVE  TypeOK'
    <2> DEFINE at     == PageUp(cursor)
               colors == at + pages * PageBlocks
               image  == ef2_video_upload_image(at, n, name)
               table  == IF clut = 0 THEN <<>> ELSE ef2_video_upload_image(colors, clut, name)
               flush  == <<Packet("flush", 0, 0, Black)>>
    <2>1. at \in Nat /\ colors \in Nat /\ n \in Nat
      <3>1. (cursor + PageBlocks - 1) \div PageBlocks \in Nat
        BY VideoAssumption DEF TexType
      <3>2. at \in Nat
        BY <3>1, VideoAssumption, ProductNat DEF PageUp
      <3>3. pages * PageBlocks \in Nat
        BY VideoAssumption, ProductNat
      <3> QED BY <3>2, <3>3, VideoAssumption
    <2>2. EndOf(pages, clut) \in 0 .. VramBlocks
      <3>1. EndOf(pages, clut) = colors + clut
        BY DEF EndOf
      <3>2. VramBlocks \in Nat
        BY VideoAssumption, ProductNat DEF VramBlocks
      <3> QED BY <1>21, <2>1, <3>1, <3>2 DEF Upload, Fits
    <2>3. image \in Seq(PacketType) /\ image # <<>>
      BY <2>1, ImageIs DEF Contents
    <2>4. table \in Seq(PacketType)
      BY <2>1, ImageIs DEF Contents
    <2>5. flush \in Seq(PacketType)
      BY PacketIs DEF Contents
    <2> DEFINE packets == image \o table \o flush
    <2>6. Call(packets) /\ UNCHANGED <<frameVars, dmaVars, gsVars, cursor, textures, syncVars>>
      BY <1>21 DEF Upload
    <2>7. texture' = <<[name |-> name, at |-> at, n |-> n, clut |-> colors, m |-> clut,
                        end |-> EndOf(pages, clut)]>>
      BY <1>21 DEF Upload
    <2> HIDE DEF image, table, flush, at, colors
    <2>8. packets \in Seq(PacketType) /\ packets # <<>>
      BY <2>3, <2>4, <2>5
    <2> HIDE DEF packets
    <2>9. CallType'
      BY <2>6, <2>8, CallIs
    <2>10. TexType'
      BY <2>1, <2>2, <2>6, <2>7 DEF TexType, TextureType
    <2> QED BY <2>6, <2>9, <2>10, <1>a, <1>b, <1>c, <1>e
  <1>22. ASSUME Calls PROVE TypeOK'
    <2>1. 0 \in Nat /\ Clut8 \in Nat /\ Clut4 \in Nat
      BY VideoAssumption
    <2> QED BY <1>22, <2>1, <1>3, <1>4, <1>5, <1>12, <1>13, <1>15, <1>16, <1>17, <1>20, <1>21
            DEF Calls, ef2_video_draw_rect, ef2_video_draw_line, ef2_video_draw_texture,
                ef2_video_draw_texture_region, ef2_video_upload_rgba32,
                ef2_video_upload_indexed8, ef2_video_upload_indexed4
  <1>23. ASSUME UNCHANGED vars PROVE TypeOK'
    BY <1>23, <1>a, <1>b, <1>c, <1>d, <1>e, <1>f DEF vars
  <1> QED
    BY <1>1, <1>2, <1>6, <1>7, <1>8, <1>9, <1>10, <1>11, <1>14, <1>18, <1>19, <1>22, <1>23
    DEF Next, Progress

\* The texture cursor stays in video memory, two frames fit in it, and every local
\* of a call keeps its type.
THEOREM VideoTypeCorrect == Spec => []TypeOK
  BY InitType, NextType, PTL DEF Spec
-----------------------------------------------------------------------------
(* The channel and its statistics.                                         *)

\* The calls, drawings and uploads in the form they share.
LEMMA QuietCalls ==
  ASSUME Calls
  PROVE  \/ \E standard \in {"ntsc", "pal"}, height \in Heights : ef2_video_init(standard, height)
         \/ ef2_video_reset_texture_allocator
         \/ \E first \in Rows, last \in Rows, color \in Colors : DrawRows(first, last, color)
         \/ \E name \in Names, pages \in TexturePages, n \in Images, clut \in Nat :
              Upload(name, pages, n, clut)
         \/ \E standard \in {"ntsc", "pal"}, height \in Heights : VideoInitRefused(standard, height)
         \/ \E enabled \in BOOLEAN : ef2_video_set_double_buffering(enabled)
         \/ ef2_video_wait_vsync \/ ef2_gif_dma_reset_stats \/ ef2_gif_dma_submit_qwords
         \/ ef2_gif_dma_wait
  <1>1. 0 \in Nat /\ Clut8 \in Nat /\ Clut4 \in Nat
    BY VideoAssumption
  <1> QED BY <1>1 DEF Calls, ef2_video_draw_rect, ef2_video_draw_line, ef2_video_draw_texture,
                ef2_video_draw_texture_region, ef2_video_upload_rgba32,
                ef2_video_upload_indexed8, ef2_video_upload_indexed4

\* No call touches the channel or the active flag; one resets the counters.
LEMMA CallsKeepDma ==
  ASSUME Calls
  PROVE  /\ UNCHANGED <<dma_active, channel>>
         /\ UNCHANGED open \/ ef2_gif_dma_reset_stats
  <1> USE DEF dmaVars
  <1>1. ASSUME NEW standard, NEW height, ef2_video_init(standard, height)
        PROVE  UNCHANGED <<dma_active, channel, open>>
    BY <1>1 DEF ef2_video_init
  <1>2. ASSUME NEW standard, NEW height, VideoInitRefused(standard, height)
        PROVE  UNCHANGED <<dma_active, channel, open>>
    BY <1>2 DEF VideoInitRefused
  <1>3. ASSUME NEW first, NEW last, NEW color, DrawRows(first, last, color)
        PROVE  UNCHANGED <<dma_active, channel, open>>
    BY <1>3 DEF DrawRows
  <1>4. ASSUME NEW name, NEW pages, NEW n, NEW clut, Upload(name, pages, n, clut)
        PROVE  UNCHANGED <<dma_active, channel, open>>
    BY <1>4 DEF Upload
  <1>5. ASSUME NEW enabled, ef2_video_set_double_buffering(enabled)
        PROVE  UNCHANGED <<dma_active, channel, open>>
    BY <1>5 DEF ef2_video_set_double_buffering
  <1>6. ASSUME \/ ef2_video_reset_texture_allocator \/ ef2_video_wait_vsync
               \/ ef2_gif_dma_submit_qwords \/ ef2_gif_dma_wait
        PROVE  UNCHANGED <<dma_active, channel, open>>
    BY <1>6 DEF ef2_video_reset_texture_allocator, ef2_video_wait_vsync, ef2_gif_dma_submit_qwords,
                ef2_gif_dma_wait
  <1>7. ASSUME ef2_gif_dma_reset_stats PROVE UNCHANGED <<dma_active, channel>>
    BY <1>7 DEF ef2_gif_dma_reset_stats
  <1> QED BY <1>1, <1>2, <1>3, <1>4, <1>5, <1>6, <1>7, QuietCalls

\* Waiting and starting keep the counters in step with the flag.
LEMMA CountsStep == TypeOK /\ CountsAgree /\ [Next]_vars => CountsAgree'
  <1> SUFFICES ASSUME TypeOK, CountsAgree, [Next]_vars PROVE CountsAgree'
    OBVIOUS
  <1>1. open \in Int /\ dma_active \in BOOLEAN
    BY DEF TypeOK, DmaType
  <1>2. CASE UNCHANGED <<dma_active, open>>
    BY <1>2 DEF CountsAgree
  <1>3. ASSUME WaitDone PROVE CountsAgree'
    BY <1>1, <1>3 DEF WaitDone, Complete, CountsAgree
  <1>4. ASSUME NEW p, Start(p) PROVE CountsAgree'
    BY <1>1, <1>4 DEF Start, CountsAgree
  <1>5. ASSUME ef2_gif_dma_reset_stats PROVE CountsAgree'
    BY <1>1, <1>5 DEF ef2_gif_dma_reset_stats, CountsAgree
  <1>6. ASSUME Calls, ~ef2_gif_dma_reset_stats PROVE UNCHANGED <<dma_active, open>>
    BY <1>6, CallsKeepDma
  <1>7. ASSUME Progress PROVE CountsAgree'
    BY <1>2, <1>3, <1>4, <1>7
       DEF Progress, InitDma, Submit, SendWait, Fifo, AppInit, AppSubmit, AppWait, TimedOut,
           VSyncTimeout, VSyncSeen, ef2_video_present, dmaVars
  <1>8. ASSUME DmaEnd \/ VSync PROVE CountsAgree'
    BY <1>2, <1>8 DEF DmaEnd, VSync, dmaVars
  <1>9. ASSUME UNCHANGED vars PROVE CountsAgree'
    BY <1>2, <1>9 DEF vars, dmaVars
  <1> QED BY <1>2, <1>5, <1>6, <1>7, <1>8, <1>9 DEF Next

\* Submissions and completions agree up to the transfer in flight, through
\* time-outs, repeated initialisation and resets of the counters.
THEOREM StatisticsAgree == Spec => []CountsAgree
  <1>1. Init => CountsAgree
    BY DEF Init, CountsAgree
  <1>2. TypeOK /\ TypeOK' /\ CountsAgree /\ [Next]_vars => CountsAgree'
    BY CountsStep
  <1> QED BY <1>1, <1>2, VideoTypeCorrect, PTL DEF Spec
-----------------------------------------------------------------------------
(* Vertical sync.                                                          *)

\* While a call waits, the flag was cleared when it began.
WaitsForFresh == pc \in {"vsync", "present"} /\ vsint => edge

\* A step keeps it: ef2_video_wait_vsync clears the flag, a vertical sync sets both.
LEMMA FreshStep == WaitsForFresh /\ [Next]_vars => WaitsForFresh'
  <1> SUFFICES ASSUME WaitsForFresh, [Next]_vars PROVE WaitsForFresh'
    OBVIOUS
  <1>1. CASE pc' \notin {"vsync", "present"}
    BY <1>1 DEF WaitsForFresh
  <1>2. CASE UNCHANGED <<pc, syncVars>>
    BY <1>2 DEF WaitsForFresh, syncVars
  <1>3. ASSUME ef2_video_wait_vsync PROVE WaitsForFresh'
    BY <1>3 DEF ef2_video_wait_vsync, ClearVSync, WaitsForFresh
  <1>4. ASSUME VSync PROVE WaitsForFresh'
    BY <1>4 DEF VSync, WaitsForFresh
  <1>5. ASSUME Calls PROVE WaitsForFresh'
    BY <1>1, <1>2, <1>3, <1>5
       DEF Calls, VideoInitRefused, ef2_video_init, ef2_video_set_double_buffering,
           ef2_video_draw_rect, ef2_video_draw_line, ef2_video_draw_texture,
           ef2_video_draw_texture_region, DrawRows, Call, SendBy,
           ef2_video_reset_texture_allocator, ef2_video_upload_rgba32,
           ef2_video_upload_indexed8, ef2_video_upload_indexed4, Upload,
           ef2_gif_dma_reset_stats, ef2_gif_dma_submit_qwords, ef2_gif_dma_wait
  <1>6. ASSUME Progress PROVE WaitsForFresh'
    BY <1>1, <1>2, <1>6
       DEF Progress, InitDma, Submit, FallBack, SendWait, Sent, SendBy, Fifo, AppInit,
           AppSubmit, AppWait, VSyncTimeout, VSyncSeen, ef2_video_present
  <1>7. ASSUME DmaEnd PROVE WaitsForFresh'
    BY <1>2, <1>7 DEF DmaEnd
  <1>8. ASSUME UNCHANGED vars PROVE WaitsForFresh'
    BY <1>2, <1>8 DEF vars
  <1> QED BY <1>4, <1>5, <1>6, <1>7, <1>8 DEF Next

\* present swaps the frames only after a vertical sync that came since it was called
\* (ef2_video_wait_vsync clears VSINT first).
THEOREM SwapsAreSynchronised == Spec => SwapsOnFreshVSync
  <1>1. Init => WaitsForFresh
    BY DEF Init, WaitsForFresh
  <1>2. WaitsForFresh /\ [Next]_vars => [dispfb' # dispfb /\ pc = "present" => edge]_vars
    <2> SUFFICES ASSUME WaitsForFresh, Next, dispfb' # dispfb, pc = "present" PROVE edge
      BY DEF vars, frameVars
    <2>1. CASE ef2_video_present
      BY <2>1 DEF ef2_video_present, WaitsForFresh
    <2>2. ~Calls
      BY DEF Calls, VideoInitRefused, ef2_video_init, ef2_video_set_double_buffering,
             ef2_video_draw_rect, ef2_video_draw_line, ef2_video_draw_texture,
             ef2_video_draw_texture_region, DrawRows, ef2_video_wait_vsync,
             ef2_video_reset_texture_allocator, ef2_video_upload_rgba32,
             ef2_video_upload_indexed8, ef2_video_upload_indexed4, Upload,
             ef2_gif_dma_reset_stats, ef2_gif_dma_submit_qwords, ef2_gif_dma_wait
    <2>3. Progress => ef2_video_present
      BY DEF Progress, InitDma, Submit, SendWait, Fifo, AppInit, AppSubmit, AppWait,
             VSyncTimeout, VSyncSeen, frameVars
    <2>4. ~(DmaEnd \/ VSync)
      BY DEF DmaEnd, VSync, frameVars
    <2> QED BY <2>1, <2>2, <2>3, <2>4 DEF Next
  <1> QED BY <1>1, <1>2, FreshStep, PTL DEF Spec, SwapsOnFreshVSync
-----------------------------------------------------------------------------
(* What an upload writes.                                                  *)

Chunks(n)     == (n + ChunkBlocks - 1) \div ChunkBlocks
ChunkSize(n, k) == IF k * ChunkBlocks <= n THEN ChunkBlocks ELSE n - (k - 1) * ChunkBlocks

\* Blocks of an image in its first d chunks, and in its first e packets.
Reached(n, d) == IF d * ChunkBlocks <= n THEN d * ChunkBlocks ELSE n
Moved(n, e) == IF e = 0 THEN 0 ELSE Reached(n, (e - 1) \div 2)

\* Each chunk continues where the last one ended.
LEMMA ReachedNext ==
  ASSUME NEW n \in Nat, NEW k \in 1 .. Chunks(n)
  PROVE  /\ Reached(n, k - 1) \in Nat /\ ChunkSize(n, k) \in Nat
         /\ Reached(n, k - 1) + ChunkSize(n, k) = Reached(n, k)
         /\ Reached(n, k) <= n
  <1> USE VideoAssumption
  <1>1. n - (k - 1) * ChunkBlocks \in Nat
    BY ChunksCover DEF Chunks
  <1>2. Chunks(n) \in Int
    BY DEF Chunks
  <1>3. k \in Int /\ k >= 1
    BY <1>2
  <1>4. k - 1 \in Nat
    BY <1>3
  <1>5. (k - 1) * ChunkBlocks \in Nat
    BY <1>4, ProductNat
  <1>6. (k - 1) * ChunkBlocks + ChunkBlocks = k * ChunkBlocks
    BY <1>3
  <1>7. PICK x \in Nat : x = (k - 1) * ChunkBlocks
    BY <1>5
  <1>8. Reached(n, k - 1) = x
    BY <1>1, <1>7 DEF Reached
  <1> QED BY <1>1, <1>6, <1>7, <1>8 DEF Reached, ChunkSize

\* No chunk, and all of them.
LEMMA ReachedEnds ==
  ASSUME NEW n \in Nat PROVE Reached(n, 0) = 0 /\ Reached(n, Chunks(n)) = n
  <1> USE VideoAssumption
  <1>1. Reached(n, 0) = 0
    BY DEF Reached
  <1>2. Chunks(n) \in Int /\ ChunkBlocks * Chunks(n) >= n
    BY DEF Chunks
  <1>3. Chunks(n) * ChunkBlocks = ChunkBlocks * Chunks(n) /\ Chunks(n) * ChunkBlocks \in Int
    BY <1>2
  <1> QED BY <1>1, <1>2, <1>3 DEF Reached

\* The packets of an image one by one.
LEMMA ImagePackets ==
  ASSUME NEW at \in Nat, NEW n \in Nat, NEW data \in Contents
  PROVE  LET image == ef2_video_upload_image(at, n, data)
         IN  /\ Chunks(n) \in Nat /\ Len(image) = 1 + 2 * Chunks(n)
             /\ image[1] = Packet("setup", at, 0, Black)
             /\ \A k \in 1 .. Chunks(n) :
                  /\ image[2 * k].op = "tag"
                  /\ image[2 * k + 1] = Packet("data", 0, ChunkSize(n, k), data)
  <1> USE VideoAssumption
  <1> DEFINE body == [j \in 1 .. 2 * Chunks(n) |->
                        IF j % 2 = 1 THEN Packet("tag", 0, ChunkSize(n, (j + 1) \div 2), Black)
                        ELSE Packet("data", 0, ChunkSize(n, j \div 2), data)]
             setup == <<Packet("setup", at, 0, Black)>>
  <1>1. Chunks(n) \in Nat
    BY DEF Chunks
  <1>2. ef2_video_upload_image(at, n, data) = setup \o body
    BY DEF ef2_video_upload_image, Chunks, ChunkSize
  <1>3. \A k \in 1 .. Chunks(n) :
          /\ 2 * k - 1 \in 1 .. 2 * Chunks(n) /\ (2 * k - 1) % 2 = 1 /\ (2 * k - 1 + 1) \div 2 = k
          /\ 2 * k \in 1 .. 2 * Chunks(n) /\ (2 * k) % 2 # 1 /\ (2 * k) \div 2 = k
    BY <1>1
  <1>4. \A k \in 1 .. Chunks(n) :
          /\ body[2 * k - 1] = Packet("tag", 0, ChunkSize(n, k), Black)
          /\ body[2 * k] = Packet("data", 0, ChunkSize(n, k), data)
    BY <1>3
  <1>5. PICK S : \A j \in 1 .. 2 * Chunks(n) : body[j] \in S
    <2> WITNESS {body[j] : j \in 1 .. 2 * Chunks(n)}
    <2> QED OBVIOUS
  <1>6. 2 * Chunks(n) \in Nat /\ DOMAIN body = 1 .. 2 * Chunks(n)
    BY <1>1
  <1>7. body \in Seq(S) /\ Len(body) = 2 * Chunks(n)
    BY <1>5, <1>6
  <1> HIDE DEF body
  <1>8. setup \in Seq({Packet("setup", at, 0, Black)}) /\ Len(setup) = 1
        /\ setup[1] = Packet("setup", at, 0, Black)
    OBVIOUS
  <1> HIDE DEF setup
  <1>9. PICK T : T = S \cup {Packet("setup", at, 0, Black)}
    OBVIOUS
  <1>10. setup \in Seq(T) /\ body \in Seq(T)
    BY <1>7, <1>8, <1>9
  <1>11. /\ Len(setup \o body) = 1 + 2 * Chunks(n)
         /\ \A i \in 1 .. 1 + 2 * Chunks(n) :
              (setup \o body)[i] = IF i <= 1 THEN setup[i] ELSE body[i - 1]
    <2>1. /\ Len(setup \o body) = Len(setup) + Len(body)
          /\ \A i \in 1 .. Len(setup) + Len(body) :
               (setup \o body)[i] = IF i <= Len(setup) THEN setup[i] ELSE body[i - Len(setup)]
      BY <1>10, ConcatProperties
    <2> QED BY <1>7, <1>8, <2>1, Zenon
  <1>12. \A k \in 1 .. Chunks(n) :
           /\ 2 * k \in 1 .. 1 + 2 * Chunks(n) /\ ~(2 * k <= 1)
           /\ 2 * k + 1 \in 1 .. 1 + 2 * Chunks(n) /\ ~(2 * k + 1 <= 1) /\ (2 * k + 1) - 1 = 2 * k
           /\ 1 \in 1 .. 1 + 2 * Chunks(n)
    BY <1>1
  <1>13. \A k \in 1 .. Chunks(n) :
           /\ (setup \o body)[2 * k] = Packet("tag", 0, ChunkSize(n, k), Black)
           /\ (setup \o body)[2 * k + 1] = Packet("data", 0, ChunkSize(n, k), data)
    <2> TAKE k \in 1 .. Chunks(n)
    <2>1. (setup \o body)[2 * k] = body[2 * k - 1]
      BY <1>11, <1>12, Zenon
    <2>2. (setup \o body)[2 * k + 1] = body[(2 * k + 1) - 1]
      BY <1>11, <1>12, Zenon
    <2>3. (2 * k + 1) - 1 = 2 * k
      BY <1>12, Zenon
    <2> QED BY <1>4, <2>1, <2>2, <2>3, Zenon
  <1>14. (setup \o body)[1] = Packet("setup", at, 0, Black)
    <2>1. 1 \in 1 .. 1 + 2 * Chunks(n)
      BY <1>1
    <2> QED BY <1>8, <1>11, <2>1
  <1>15. \A k \in 1 .. Chunks(n) : (setup \o body)[2 * k].op = "tag"
    <2>1. Packet("tag", 0, 0, Black).op = "tag" /\ \A x, y : Packet("tag", 0, x, y).op = "tag"
      BY DEF Packet
    <2> QED BY <1>13, <2>1, Zenon
  <1> QED BY <1>1, <1>2, <1>11, <1>13, <1>14, <1>15

\* How many packets that is.
LEMMA ImageSize ==
  ASSUME NEW at \in Nat, NEW n \in Nat, NEW data \in Contents
  PROVE  Chunks(n) \in Nat /\ Len(ef2_video_upload_image(at, n, data)) = 1 + 2 * Chunks(n)
  BY ImagePackets

\* Filling within the memory changes the blocks filled.
LEMMA FillExact ==
  ASSUME GsType, NEW at \in Nat, NEW n \in Nat, at + n <= VramBlocks, NEW data
  PROVE  \A b \in Blocks : Fill(at, n, data)[b] = IF b \in at .. at + n - 1 THEN data ELSE vram[b]
  <1>1. VramBlocks \in Nat
    BY VideoAssumption, ProductNat DEF VramBlocks
  <1>2. PICK v \in Nat : v = VramBlocks
    BY <1>1
  <1>3. ASSUME NEW k \in at .. at + n - 1 PROVE k % VramBlocks = k
    <2>1. k \in Nat /\ k < v
      BY <1>2
    <2> QED BY <1>2, <2>1, SMT
  <1>4. {k % VramBlocks : k \in at .. at + n - 1} = at .. at + n - 1
    BY <1>3
  <1> QED BY <1>4 DEF Fill

Written(at, n, data) == \A b \in at .. at + n - 1 : vram[b] = data

\* The first e packets of an image are executed.
Stage(at, n, data, e) ==
  /\ e \in 0 .. 1 + 2 * Chunks(n)
  /\ e # 0 => trx = at + Moved(n, e)
  /\ Written(at, Moved(n, e), data)

\* The next packet writes the next chunk, and nothing outside the image.
LEMMA ImageStep ==
  ASSUME GsType, ~Lost, NEW at \in Nat, NEW n \in Nat, at + n <= VramBlocks, NEW data \in Contents,
         NEW e, Stage(at, n, data, e), e # 1 + 2 * Chunks(n),
         Execute(ef2_video_upload_image(at, n, data)[e + 1])
  PROVE  /\ Stage(at, n, data, e + 1)'
         /\ \A b \in Blocks \ (at .. at + n - 1) : vram'[b] = vram[b]
  <1> DEFINE image == ef2_video_upload_image(at, n, data)
  <1>1. /\ Chunks(n) \in Nat /\ image[1] = Packet("setup", at, 0, Black)
        /\ \A k \in 1 .. Chunks(n) :
             /\ image[2 * k].op = "tag"
             /\ image[2 * k + 1] = Packet("data", 0, ChunkSize(n, k), data)
    BY ImagePackets
  <1>2. e \in 0 .. 2 * Chunks(n) /\ e + 1 \in 0 .. 1 + 2 * Chunks(n) /\ e + 1 # 0
    BY <1>1 DEF Stage
  <1>3. \A x, y : Moved(x, y)' = Moved(x, y)
    BY DEF Moved, Reached
  <1>4. Execute(image[e + 1])
    OBVIOUS
  <1> HIDE DEF image
  <1>5. CASE e = 0
    <2>1. image[e + 1] = Packet("setup", at, 0, Black)
      BY <1>1, <1>5
    <2>2. trx' = at /\ vram' = vram
      BY <1>4, <2>1 DEF Execute, Packet
    <2>3. Moved(n, e + 1) = 0 /\ Moved(n, e) = 0
      <3>1. ((e + 1) - 1) \div 2 = 0 /\ e + 1 # 0
        BY <1>5
      <3> QED BY <1>5, <3>1, ReachedEnds DEF Moved
    <2> QED BY <1>2, <1>3, <2>2, <2>3 DEF Stage, Written
  <1>6. ASSUME NEW k \in 1 .. Chunks(n), e = 2 * k - 1
        PROVE  /\ Stage(at, n, data, e + 1)'
               /\ \A b \in Blocks \ (at .. at + n - 1) : vram'[b] = vram[b]
    <2>1. image[e + 1].op = "tag"
      <3>1. e + 1 = 2 * k
        BY <1>1, <1>6
      <3> QED BY <1>1, <3>1
    <2>2. trx' = trx /\ vram' = vram
      BY <1>4, <2>1 DEF Execute
    <2>3. Moved(n, e + 1) = Moved(n, e) /\ e # 0
      <3>1. ((e + 1) - 1) \div 2 = k - 1 /\ (e - 1) \div 2 = k - 1 /\ e # 0 /\ e + 1 # 0
        BY <1>1, <1>6
      <3>2. Moved(n, e + 1) = Reached(n, ((e + 1) - 1) \div 2)
        BY <3>1 DEF Moved
      <3>3. Moved(n, e) = Reached(n, (e - 1) \div 2)
        BY <3>1 DEF Moved
      <3> QED BY <3>1, <3>2, <3>3
    <2> QED BY <1>2, <1>3, <2>2, <2>3 DEF Stage, Written
  <1>7. ASSUME NEW k \in 1 .. Chunks(n), e = 2 * k
        PROVE  /\ Stage(at, n, data, e + 1)'
               /\ \A b \in Blocks \ (at .. at + n - 1) : vram'[b] = vram[b]
    <2>1. image[e + 1] = Packet("data", 0, ChunkSize(n, k), data)
      BY <1>1, <1>7
    <2>2. /\ trx' = trx + ChunkSize(n, k) /\ vram' = Fill(trx, ChunkSize(n, k), data)
      BY <1>4, <2>1 DEF Execute, Packet
    <2>3. Moved(n, e) = Reached(n, k - 1) /\ Moved(n, e + 1) = Reached(n, k) /\ e # 0
      <3>1. ((e + 1) - 1) \div 2 = k /\ (e - 1) \div 2 = k - 1 /\ e # 0 /\ e + 1 # 0
        BY <1>1, <1>7
      <3>2. Moved(n, e + 1) = Reached(n, ((e + 1) - 1) \div 2)
        BY <3>1 DEF Moved
      <3>3. Moved(n, e) = Reached(n, (e - 1) \div 2)
        BY <3>1 DEF Moved
      <3> QED BY <3>1, <3>2, <3>3
    <2>4. PICK x \in Nat : x = Reached(n, k - 1)
      BY ReachedNext
    <2>5. PICK s \in Nat : s = ChunkSize(n, k)
      BY ReachedNext
    <2>6. Reached(n, k) = x + s /\ x + s <= n
      BY <2>4, <2>5, ReachedNext
    <2>7. trx = at + x /\ trx' = at + (x + s)
      BY <2>2, <2>3, <2>4, <2>5, <2>6 DEF Stage
    <2>8. \A b \in Blocks : vram'[b] = IF b \in at + x .. at + x + s - 1 THEN data ELSE vram[b]
      <3>1. at + x \in Nat /\ at + x + s <= VramBlocks
        <4>1. VramBlocks \in Nat
          BY VideoAssumption, ProductNat DEF VramBlocks
        <4> QED BY <2>6, <4>1
      <3> QED BY <2>2, <2>5, <2>7, <3>1, FillExact
    <2>9. Written(at, x, data)
      BY <2>3, <2>4 DEF Stage
    <2>10. at .. at + n - 1 \subseteq Blocks
      <3>1. VramBlocks \in Nat
        BY VideoAssumption, ProductNat DEF VramBlocks
      <3> QED BY <3>1 DEF Blocks
    <2>11. Written(at, x + s, data)'
      <3> SUFFICES ASSUME NEW b \in at .. at + (x + s) - 1 PROVE vram'[b] = data
        BY DEF Written
      <3>1. b \in Blocks
        BY <2>6, <2>10
      <3>2. CASE b \in at .. at + x - 1
        BY <2>8, <2>9, <3>1, <3>2 DEF Written
      <3>3. CASE b \in at + x .. at + x + s - 1
        BY <2>8, <3>1, <3>3
      <3> QED BY <3>2, <3>3
    <2>12. \A b \in Blocks \ (at .. at + n - 1) : vram'[b] = vram[b]
      <3> SUFFICES ASSUME NEW b \in Blocks, b \notin at .. at + n - 1 PROVE vram'[b] = vram[b]
        OBVIOUS
      <3>1. b \notin at + x .. at + x + s - 1
        BY <2>6
      <3> QED BY <2>8, <3>1
    <2> QED BY <1>2, <1>3, <2>3, <2>6, <2>7, <2>11, <2>12 DEF Stage
  <1>8. e = 0 \/ \E k \in 1 .. Chunks(n) : e = 2 * k - 1 \/ e = 2 * k
    <2> SUFFICES ASSUME e # 0 PROVE \E k \in 1 .. Chunks(n) : e = 2 * k - 1 \/ e = 2 * k
      OBVIOUS
    <2>1. /\ (e + 1) \div 2 \in 1 .. Chunks(n)
          /\ e = 2 * ((e + 1) \div 2) - 1 \/ e = 2 * ((e + 1) \div 2)
      BY <1>1, <1>2
    <2> QED BY <2>1
  <1> QED BY <1>5, <1>6, <1>7, <1>8

\* The packets of a texture: its image, its colours if it has any, the flush.
ImageLen(t) == 1 + 2 * Chunks(t.n)
TableLen(t) == IF t.m = 0 THEN 0 ELSE 1 + 2 * Chunks(t.m)

Packets(t) ==
  ef2_video_upload_image(t.at, t.n, t.name)
    \o (IF t.m = 0 THEN <<>> ELSE ef2_video_upload_image(t.clut, t.m, t.name))
    \o <<Packet("flush", 0, 0, Black)>>

\* The packets of a texture in their order: image, colours, flush.
LEMMA PacketsAre ==
  ASSUME NEW t \in TextureType
  PROVE  /\ ImageLen(t) \in Nat /\ TableLen(t) \in Nat
         /\ Packets(t) \in Seq(PacketType) /\ Len(Packets(t)) = ImageLen(t) + TableLen(t) + 1
         /\ \A i \in 1 .. ImageLen(t) :
              Packets(t)[i] = ef2_video_upload_image(t.at, t.n, t.name)[i]
         /\ \A i \in 1 .. TableLen(t) :
              Packets(t)[ImageLen(t) + i] = ef2_video_upload_image(t.clut, t.m, t.name)[i]
         /\ Packets(t)[ImageLen(t) + TableLen(t) + 1].op = "flush"
  <1> DEFINE image == ef2_video_upload_image(t.at, t.n, t.name)
             table == IF t.m = 0 THEN <<>> ELSE ef2_video_upload_image(t.clut, t.m, t.name)
             flush == <<Packet("flush", 0, 0, Black)>>
             a == ImageLen(t)
             c == TableLen(t)
  <1>1. t.at \in Nat /\ t.n \in Nat /\ t.clut \in Nat /\ t.m \in Nat /\ t.name \in Contents
    BY DEF TextureType, Contents
  <1>2. image \in Seq(PacketType) /\ Len(image) = a /\ a \in Nat
    <2>1. image \in Seq(PacketType)
      BY <1>1, ImageIs
    <2>2. Chunks(t.n) \in Nat /\ Len(image) = 1 + 2 * Chunks(t.n)
      BY <1>1, ImageSize
    <2> QED BY <2>1, <2>2 DEF ImageLen
  <1>3. table \in Seq(PacketType) /\ Len(table) = c /\ c \in Nat
    <2>1. CASE t.m = 0
      BY <2>1 DEF TableLen
    <2>2. CASE t.m # 0
      <3>1. ef2_video_upload_image(t.clut, t.m, t.name) \in Seq(PacketType)
        BY <1>1, ImageIs
      <3>2. /\ Chunks(t.m) \in Nat
            /\ Len(ef2_video_upload_image(t.clut, t.m, t.name)) = 1 + 2 * Chunks(t.m)
        BY <1>1, ImageSize
      <3> QED BY <2>2, <3>1, <3>2 DEF TableLen
    <2> QED BY <2>1, <2>2
  <1>4. c # 0 => table = ef2_video_upload_image(t.clut, t.m, t.name)
    BY DEF TableLen
  <1>5. flush \in Seq(PacketType) /\ Len(flush) = 1 /\ flush[1].op = "flush"
    <2>1. Packet("flush", 0, 0, Black) \in PacketType
      BY PacketIs DEF Contents
    <2>2. Packet("flush", 0, 0, Black).op = "flush"
      BY DEF Packet
    <2> QED BY <2>1, <2>2
  <1>6. Packets(t) = (image \o table) \o flush
    BY DEF Packets
  <1> HIDE DEF image, table, flush, a, c
  <1>7. /\ image \o table \in Seq(PacketType) /\ Len(image \o table) = a + c
        /\ \A i \in 1 .. a + c : (image \o table)[i] = IF i <= a THEN image[i] ELSE table[i - a]
    <2>1. /\ image \o table \in Seq(PacketType) /\ Len(image \o table) = Len(image) + Len(table)
          /\ \A i \in 1 .. Len(image) + Len(table) :
               (image \o table)[i] = IF i <= Len(image) THEN image[i] ELSE table[i - Len(image)]
      BY <1>2, <1>3, ConcatProperties
    <2> QED BY <1>2, <1>3, <2>1, Zenon
  <1>8. PICK both : both = image \o table
    OBVIOUS
  <1>9. /\ both \o flush \in Seq(PacketType) /\ Len(both \o flush) = a + c + 1
        /\ \A i \in 1 .. a + c + 1 : (both \o flush)[i] = IF i <= a + c THEN both[i] ELSE flush[i - (a + c)]
    <2>1. /\ both \o flush \in Seq(PacketType) /\ Len(both \o flush) = Len(both) + Len(flush)
          /\ \A i \in 1 .. Len(both) + Len(flush) :
               (both \o flush)[i] = IF i <= Len(both) THEN both[i] ELSE flush[i - Len(both)]
      <3>1. both \in Seq(PacketType)
        BY <1>7, <1>8
      <3> QED BY <1>5, <3>1, ConcatProperties
    <2> QED BY <1>5, <1>7, <1>8, <2>1, Zenon
  <1>10. \A i \in 1 .. a : (both \o flush)[i] = image[i]
    <2> TAKE i \in 1 .. a
    <2>1. i \in 1 .. a + c /\ i \in 1 .. a + c + 1 /\ i <= a /\ i <= a + c
      BY <1>2, <1>3
    <2>2. (both \o flush)[i] = both[i]
      BY <1>9, <2>1, Zenon
    <2>3. both[i] = image[i]
      BY <1>7, <1>8, <2>1, Zenon
    <2> QED BY <2>2, <2>3, Zenon
  <1>11. \A i \in 1 .. c : (both \o flush)[a + i] = table[i]
    <2> TAKE i \in 1 .. c
    <2>1. /\ a + i \in 1 .. a + c /\ a + i \in 1 .. a + c + 1 /\ ~(a + i <= a) /\ a + i <= a + c
          /\ (a + i) - a = i
      BY <1>2, <1>3
    <2>2. (both \o flush)[a + i] = both[a + i]
      BY <1>9, <2>1, Zenon
    <2>3. both[a + i] = table[(a + i) - a]
      BY <1>7, <1>8, <2>1, Zenon
    <2> QED BY <2>1, <2>2, <2>3, Zenon
  <1>12. (both \o flush)[a + c + 1] = flush[1]
    <2>1. a + c + 1 \in 1 .. a + c + 1 /\ ~(a + c + 1 <= a + c) /\ (a + c + 1) - (a + c) = 1
      BY <1>2, <1>3
    <2>2. (both \o flush)[a + c + 1] = flush[(a + c + 1) - (a + c)]
      BY <1>9, <2>1, Zenon
    <2> QED BY <2>1, <2>2, Zenon
  <1>13. \A i \in 1 .. c : (both \o flush)[a + i] = ef2_video_upload_image(t.clut, t.m, t.name)[i]
    <2> TAKE i \in 1 .. c
    <2>1. c # 0
      BY <1>3
    <2> QED BY <1>4, <1>11, <2>1, Zenon
  <1>14. Packets(t) = both \o flush
    BY <1>6, <1>8, Zenon
  <1>15. Packets(t)[a + c + 1].op = "flush"
    BY <1>5, <1>12, <1>14, Zenon
  <1> QED BY <1>2, <1>3, <1>9, <1>10, <1>13, <1>14, <1>15, Zenon DEF a, c, image

\* Where a texture lies.
Placed(t) == t.at + t.n <= t.clut /\ t.clut + t.m <= t.end

\* The first e packets of a texture are executed.
Uploaded(t, e) ==
  /\ e \in 0 .. ImageLen(t) + TableLen(t) + 1
  /\ e <= ImageLen(t) => Stage(t.at, t.n, t.name, e)
  /\ e > ImageLen(t) => Written(t.at, t.n, t.name)
  /\ e > ImageLen(t) /\ e <= ImageLen(t) + TableLen(t) =>
       Stage(t.clut, t.m, t.name, e - ImageLen(t))
  /\ e > ImageLen(t) + TableLen(t) => Written(t.clut, t.m, t.name)

\* A whole image is written.
LEMMA StageEnds ==
  ASSUME NEW n \in Nat, NEW at \in Nat, NEW data, Stage(at, n, data, 1 + 2 * Chunks(n))
  PROVE  Written(at, n, data)
  <1>1. Chunks(n) \in Nat
    BY VideoAssumption DEF Chunks
  <1>2. PICK c \in Nat : c = Chunks(n)
    BY <1>1
  <1>3. ((1 + 2 * c) - 1) \div 2 = c /\ 1 + 2 * c # 0
    OBVIOUS
  <1>4. Moved(n, 1 + 2 * c) = Reached(n, c)
    BY <1>3 DEF Moved
  <1>5. Moved(n, 1 + 2 * Chunks(n)) = n
    BY <1>2, <1>4, ReachedEnds
  <1> QED BY <1>5 DEF Stage

\* Before its first packet, nothing of an image is asked for.
LEMMA StageBegins ==
  ASSUME NEW n \in Nat, NEW at \in Nat, NEW data PROVE Stage(at, n, data, 0)
  <1>1. Chunks(n) \in Nat
    BY VideoAssumption DEF Chunks
  <1>2. 0 \in 0 .. 1 + 2 * Chunks(n)
    BY <1>1
  <1>3. Written(at, 0, data)
    BY DEF Written
  <1> QED BY <1>2, <1>3 DEF Stage, Moved

\* Blocks that are left alone stay written.
LEMMA WrittenKept ==
  ASSUME NEW at \in Nat, NEW n \in Nat, NEW data, Written(at, n, data),
         \A b \in at .. at + n - 1 : vram'[b] = vram[b]
  PROVE  Written(at, n, data)'
  BY DEF Written

\* The next packet brings an upload one packet on, and writes nothing outside its texture.
LEMMA UploadStep ==
  ASSUME GsType, ~Lost, NEW t \in TextureType, Placed(t), NEW e, Uploaded(t, e),
         e # ImageLen(t) + TableLen(t) + 1, Execute(Packets(t)[e + 1])
  PROVE  /\ Uploaded(t, e + 1)'
         /\ \A b \in Blocks \ (t.at .. t.end - 1) : vram'[b] = vram[b]
  <1>1. /\ t.at \in Nat /\ t.n \in Nat /\ t.clut \in Nat /\ t.m \in Nat /\ t.name \in Contents
        /\ t.end \in Nat /\ t.end <= VramBlocks /\ VramBlocks \in Nat
    BY VideoAssumption, ProductNat DEF TextureType, Contents, VramBlocks
  <1>2. PICK a \in Nat : a = ImageLen(t)
    BY PacketsAre
  <1>3. PICK c \in Nat : c = TableLen(t)
    BY PacketsAre
  <1>4. /\ \A i \in 1 .. a : Packets(t)[i] = ef2_video_upload_image(t.at, t.n, t.name)[i]
        /\ \A i \in 1 .. c : Packets(t)[a + i] = ef2_video_upload_image(t.clut, t.m, t.name)[i]
        /\ Packets(t)[a + c + 1].op = "flush"
    BY <1>2, <1>3, PacketsAre
  <1>5. e \in 0 .. a + c /\ e + 1 \in 0 .. a + c + 1
    BY <1>2, <1>3 DEF Uploaded
  <1>6. t.at + t.n <= t.clut /\ t.clut + t.m <= t.end
    BY DEF Placed
  <1>7. a = 1 + 2 * Chunks(t.n) /\ Chunks(t.n) \in Nat
    BY <1>2, VideoAssumption, <1>1 DEF ImageLen, Chunks
  <1>8. CASE e < a
    <2>1. Stage(t.at, t.n, t.name, e) /\ e # 1 + 2 * Chunks(t.n)
      BY <1>2, <1>5, <1>7, <1>8 DEF Uploaded
    <2>2. Execute(ef2_video_upload_image(t.at, t.n, t.name)[e + 1])
      <3>1. e + 1 \in 1 .. a
        BY <1>5, <1>8
      <3> QED BY <1>4, <3>1
    <2>3. t.at + t.n <= VramBlocks
      BY <1>1, <1>6
    <2>4. /\ Stage(t.at, t.n, t.name, e + 1)'
          /\ \A b \in Blocks \ (t.at .. t.at + t.n - 1) : vram'[b] = vram[b]
      BY <1>1, <2>1, <2>2, <2>3, ImageStep
    <2>5. \A b \in Blocks \ (t.at .. t.end - 1) : vram'[b] = vram[b]
      <3>1. t.at .. t.at + t.n - 1 \subseteq t.at .. t.end - 1
        BY <1>1, <1>6
      <3> QED BY <2>4, <3>1
    <2>6. e + 1 <= a /\ ~(e + 1 > a) /\ ~(e + 1 > a + c)
      BY <1>5, <1>8
    <2> QED BY <1>2, <1>3, <1>5, <2>4, <2>5, <2>6 DEF Uploaded
  <1>9. CASE a <= e /\ e < a + c
    <2>1. Written(t.at, t.n, t.name)
      <3>1. CASE e = a
        <4>1. Stage(t.at, t.n, t.name, 1 + 2 * Chunks(t.n))
          BY <1>2, <1>7, <3>1 DEF Uploaded
        <4> QED BY <1>1, <4>1, StageEnds
      <3>2. CASE e # a
        <4>1. e > a
          BY <1>5, <1>9, <3>2
        <4> QED BY <1>2, <4>1 DEF Uploaded
      <3> QED BY <3>1, <3>2
    <2>2. PICK f \in Nat : f = e - a /\ e = a + f /\ f < c
      BY <1>5, <1>9
    <2>3. Stage(t.clut, t.m, t.name, f)
      <3>1. CASE f = 0
        BY <1>1, <3>1, StageBegins
      <3>2. CASE f # 0
        <4>1. e > a /\ e <= a + c
          BY <2>2, <3>2
        <4> QED BY <1>2, <1>3, <2>2, <4>1 DEF Uploaded
      <3> QED BY <3>1, <3>2
    <2>4. c = 1 + 2 * Chunks(t.m)
      BY <1>3, <2>2 DEF TableLen
    <2>5. Execute(ef2_video_upload_image(t.clut, t.m, t.name)[f + 1])
      <3>1. f + 1 \in 1 .. c /\ e + 1 = a + (f + 1)
        BY <2>2
      <3> QED BY <1>4, <3>1
    <2>6. t.clut + t.m <= VramBlocks /\ f # 1 + 2 * Chunks(t.m)
      BY <1>1, <1>6, <2>2, <2>4
    <2>7. /\ Stage(t.clut, t.m, t.name, f + 1)'
          /\ \A b \in Blocks \ (t.clut .. t.clut + t.m - 1) : vram'[b] = vram[b]
      BY <1>1, <2>3, <2>5, <2>6, ImageStep
    <2>8. Written(t.at, t.n, t.name)'
      <3>1. \A b \in t.at .. t.at + t.n - 1 : b \in Blocks \ (t.clut .. t.clut + t.m - 1)
        BY <1>1, <1>6 DEF Blocks
      <3> QED BY <1>1, <2>1, <2>7, <3>1, WrittenKept
    <2>9. \A b \in Blocks \ (t.at .. t.end - 1) : vram'[b] = vram[b]
      <3>1. t.clut .. t.clut + t.m - 1 \subseteq t.at .. t.end - 1
        BY <1>1, <1>6
      <3> QED BY <2>7, <3>1
    <2>10. ~(e + 1 <= a) /\ ~(e + 1 > a + c) /\ (e + 1) - a = f + 1
      BY <1>5, <2>2
    <2> QED BY <1>2, <1>3, <1>5, <2>7, <2>8, <2>9, <2>10 DEF Uploaded
  <1>10. CASE e = a + c
    <2>1. Packets(t)[e + 1].op = "flush"
      BY <1>4, <1>10
    <2>2. vram' = vram
      BY <2>1 DEF Execute
    <2>3. Written(t.at, t.n, t.name) /\ Written(t.clut, t.m, t.name)
      <3>1. CASE c = 0
        <4>1. Stage(t.at, t.n, t.name, 1 + 2 * Chunks(t.n))
          BY <1>2, <1>7, <1>10, <3>1 DEF Uploaded
        <4>2. t.m = 0
          <5>1. t.m # 0 => c = 1 + 2 * Chunks(t.m) /\ Chunks(t.m) \in Nat
            BY <1>1, <1>3, VideoAssumption DEF TableLen, Chunks
          <5> QED BY <3>1, <5>1
        <4>3. Written(t.clut, t.m, t.name)
          BY <1>1, <4>2 DEF Written
        <4> QED BY <1>1, <4>1, <4>3, StageEnds
      <3>2. CASE c # 0
        <4>1. e > a /\ e <= a + c /\ e - a = c
          BY <1>10, <3>2
        <4>2. Written(t.at, t.n, t.name) /\ Stage(t.clut, t.m, t.name, c)
          BY <1>2, <1>3, <4>1 DEF Uploaded
        <4>3. c = 1 + 2 * Chunks(t.m)
          BY <1>3, <3>2 DEF TableLen
        <4> QED BY <1>1, <4>2, <4>3, StageEnds
      <3> QED BY <3>1, <3>2
    <2>4. Written(t.at, t.n, t.name)' /\ Written(t.clut, t.m, t.name)'
      BY <1>1, <2>2, <2>3, WrittenKept
    <2>5. ~(e + 1 <= a) /\ ~(e + 1 <= a + c)
      BY <1>10
    <2> QED BY <1>2, <1>3, <1>5, <2>2, <2>4, <2>5 DEF Uploaded
  <1> QED BY <1>5, <1>8, <1>9, <1>10

-----------------------------------------------------------------------------
(* Where packets write.                                                    *)

FrameBlocks == layout_rows * PageBlocks

\* Textures lie behind the frames, each behind the ones made before it.
Placement ==
  /\ 2 * FrameBlocks <= cursor
  /\ \A t \in textures : 2 * FrameBlocks <= t.at /\ Placed(t) /\ t.end <= cursor
  /\ texture # <<>> => todo # <<>> /\ cursor <= texture[1].at /\ Placed(texture[1])

\* The size in use, the roles of the frames, and the frame shown.
Framing ==
  /\ ~refused => rows = layout_rows
  /\ pc = "init" => ~refused /\ ~double
  /\ double => draw # display
  /\ pc # "init" => dispfb = Frame(display)

\* A drawing stays within the frame drawn to.
InFrame(p) == /\ Frame(draw) * PageBlocks <= p.at
              /\ p.at + p.n <= Frame(draw) * PageBlocks + FrameBlocks

\* A call sends the last packets of a texture, or one drawing.
Sending ==
  /\ texture # <<>> =>
       LET all == Packets(texture[1])
       IN  Len(todo) <= Len(all) /\ todo = SubSeq(all, Len(all) - Len(todo) + 1, Len(all))
  /\ texture = <<>> /\ todo # <<>> =>
       /\ Len(todo) = 1 /\ todo[1].op = "draw"
       /\ ~refused => InFrame(todo[1])

\* While the stream is sound, a busy channel carries the packet being sent, or one
\* of the application's.
Carried == ~mixed /\ channel # <<>> => channel[1] = IF pc = "sent" THEN Head(todo) ELSE Foreign

\* The packets the GS has executed of the texture being made.
Executed == Len(Packets(texture[1])) - Len(todo) + (IF pc = "sent" /\ channel = <<>> THEN 1 ELSE 0)

Underway == ~Lost /\ texture # <<>> => Uploaded(texture[1], Executed)

\* The two frames of a layout fit video memory.
LEMMA FrameBlocksNat == ASSUME FrameType
                        PROVE  /\ FrameBlocks \in Nat /\ 2 * layout_rows * PageBlocks = 2 * FrameBlocks
                               /\ 2 * FrameBlocks <= VramBlocks /\ VramBlocks \in Nat
  <1> USE VideoAssumption
  <1>1. layout_rows \in Nat /\ 2 * layout_rows <= VramPages
    BY DEF FrameType
  <1>2. FrameBlocks \in Nat
    BY <1>1, ProductNat DEF FrameBlocks
  <1>3. 2 * layout_rows * PageBlocks = 2 * FrameBlocks
    BY <1>1 DEF FrameBlocks
  <1>4. 2 * layout_rows * PageBlocks \in 0 .. VramBlocks
    BY <1>1, FramesFit
  <1>5. VramBlocks \in Nat
    BY ProductNat DEF VramBlocks
  <1> QED BY <1>2, <1>3, <1>4, <1>5

\* The two frames do not overlap.
LEMMA FramesApart == ASSUME FrameType
                     PROVE  /\ Frame(0) * PageBlocks = 0 /\ Frame(1) * PageBlocks = FrameBlocks
                            /\ \A k \in {0, 1} : Frame(k) * PageBlocks \in {0, FrameBlocks}
  BY VideoAssumption DEF Frame, FrameBlocks, FrameType

\* The next free page is not before the cursor.
LEMMA PageUpIs == ASSUME NEW c \in Nat PROVE PageUp(c) \in Nat /\ c <= PageUp(c)
  <1> USE VideoAssumption
  <1>1. PICK q : q = (c + PageBlocks - 1) \div PageBlocks
    OBVIOUS
  <1>2. q \in Nat /\ c <= PageBlocks * q
    BY <1>1
  <1>3. PageBlocks * q = q * PageBlocks /\ q * PageBlocks \in Nat
    BY <1>2, ProductNat
  <1> QED BY <1>1, <1>2, <1>3 DEF PageUp

\* What Sent does to the call.
LEMMA SentIs ==
  ASSUME CallType, TexType, todo # <<>>, Sent
  PROVE  /\ Len(todo) \in Nat \ {0} /\ Head(todo) = todo[1]
         /\ todo' = Tail(todo) /\ todo' \in Seq(PacketType) /\ Len(todo') = Len(todo) - 1
         /\ \/ Len(todo) > 1 /\ UNCHANGED texVars /\ todo' # <<>> /\ pc' \in {"submit", "fifo"}
            \/ /\ Len(todo) = 1 /\ todo' = <<>> /\ texture' = <<>> /\ pc' = "idle"
               /\ texture = <<>> => UNCHANGED <<cursor, textures>>
               /\ texture # <<>> => /\ textures' = textures \cup {texture[1]}
                                    /\ cursor' = texture[1].end
  <1>1. todo \in Seq(PacketType) /\ Len(todo) \in Nat \ {0} /\ Head(todo) = todo[1]
    BY DEF CallType
  <1>2. todo' = Tail(todo) /\ todo' \in Seq(PacketType) /\ Len(todo') = Len(todo) - 1
    BY <1>1 DEF Sent
  <1>3. CASE Len(todo) > 1
    <2>1. todo' # <<>>
      <3>1. Len(todo') # 0
        <4>1. PICK n \in Nat : n = Len(todo)
          BY <1>1
        <4>2. n - 1 # 0
          BY <1>3, <4>1
        <4> QED BY <1>2, <4>1, <4>2
      <3> QED BY <1>2, <3>1, EmptySeq
    <2>2. pc' \in {"submit", "fifo"} /\ UNCHANGED texVars
      BY <1>3 DEF Sent, SendBy
    <2> QED BY <1>1, <1>2, <1>3, <2>1, <2>2
  <1>4. CASE ~(Len(todo) > 1)
    <2>1. Len(todo) = 1 /\ todo' = <<>>
      <3>1. Len(todo) = 1 /\ Len(todo') = 0
        BY <1>1, <1>2, <1>4
      <3> QED BY <1>2, <3>1, EmptySeq
    <2>2. /\ pc' = "idle" /\ texture' = <<>>
          /\ textures' = textures \cup {texture[k] : k \in 1 .. Len(texture)}
          /\ cursor' = IF texture = <<>> THEN cursor ELSE texture[1].end
      BY <1>4 DEF Sent
    <2>3. texture \in Seq(TextureType) /\ Len(texture) <= 1
      BY DEF TexType
    <2>4. texture = <<>> => {texture[k] : k \in 1 .. Len(texture)} = {}
      <3>1. texture = <<>> => Len(texture) = 0
        OBVIOUS
      <3> QED BY <3>1
    <2>5. texture # <<>> => {texture[k] : k \in 1 .. Len(texture)} = {texture[1]}
      <3>1. texture # <<>> => Len(texture) = 1
        <4>1. texture # <<>> => Len(texture) # 0
          BY <2>3, EmptySeq
        <4>2. Len(texture) \in Nat
          BY <2>3
        <4> QED BY <2>3, <4>1, <4>2
      <3>2. Len(texture) = 1 => 1 .. Len(texture) = {1}
        OBVIOUS
      <3> QED BY <3>1, <3>2
    <2> QED BY <1>1, <1>2, <2>1, <2>2, <2>4, <2>5
  <1> QED BY <1>3, <1>4

\* The texture in progress is one.
LEMMA TextureIs == ASSUME TexType, texture # <<>> PROVE texture[1] \in TextureType
  BY EmptySeq DEF TexType

\* The texture cursor only moves up, from behind the frames, and only once a texture is
\* sent (ef2_video_upload_rgba32 and the indexed uploads).
LEMMA PlacementStep == TypeOK /\ TypeOK' /\ Placement /\ [Next]_vars => Placement'
  <1> SUFFICES ASSUME TypeOK, TypeOK', Placement, [Next]_vars PROVE Placement'
    OBVIOUS
  <1> USE DEF frameVars, dmaVars, gsVars, texVars, syncVars
  <1>0. FrameType /\ TexType /\ CallType
    BY DEF TypeOK
  <1>1. CASE UNCHANGED <<layout_rows, texVars>> /\ (todo = <<>> \/ todo' # <<>>)
    <2>1. FrameBlocks' = FrameBlocks
      BY <1>1 DEF FrameBlocks
    <2>2. \A t : Placed(t)' <=> Placed(t)
      BY DEF Placed
    <2> QED BY <1>1, <2>1, <2>2 DEF Placement
  <1>2. ASSUME Sent, todo # <<>>, UNCHANGED layout_rows PROVE Placement'
    <2>1. FrameBlocks' = FrameBlocks
      BY <1>2 DEF FrameBlocks
    <2>2. \A t : Placed(t)' <=> Placed(t)
      BY DEF Placed
    <2>3. CASE UNCHANGED texVars /\ todo' # <<>>
      BY <1>1, <1>2, <2>3
    <2>4. CASE texture = <<>> /\ texture' = <<>> /\ UNCHANGED <<cursor, textures>>
      BY <2>1, <2>2, <2>4 DEF Placement
    <2>5. CASE /\ texture # <<>> /\ texture' = <<>> /\ textures' = textures \cup {texture[1]}
               /\ cursor' = texture[1].end
      <3>1. PICK t \in TextureType : t = texture[1]
        BY <1>0, <2>5, TextureIs
      <3>2. /\ t.at \in Nat /\ t.n \in Nat /\ t.clut \in Nat /\ t.m \in Nat /\ t.end \in Nat
            /\ \A x \in textures : x.end \in Nat
        BY <1>0, FrameBlocksNat DEF TextureType, TexType
      <3>3. cursor <= t.at /\ Placed(t) /\ 2 * FrameBlocks <= cursor
        BY <2>5, <3>1 DEF Placement
      <3>4. cursor <= t.end /\ 2 * FrameBlocks <= t.at /\ 2 * FrameBlocks <= t.end
        <4>1. FrameBlocks \in Nat /\ cursor \in Nat
          BY <1>0, FrameBlocksNat DEF TexType
        <4> QED BY ONLY <3>2, <3>3, <4>1 DEF Placed
      <3>5. \A x \in textures : 2 * FrameBlocks <= x.at /\ Placed(x) /\ x.end <= t.end
        BY <1>0, <3>2, <3>4 DEF Placement, TexType
      <3>6. textures' = textures \cup {t} /\ cursor' = t.end /\ t.end <= t.end
        BY <2>5, <3>1, <3>2
      <3> QED BY <2>1, <2>2, <2>5, <3>3, <3>4, <3>5, <3>6 DEF Placement
    <2> QED BY <1>0, <1>2, <2>3, <2>4, <2>5, SentIs
  <1>3. ASSUME NEW standard \in {"ntsc", "pal"}, NEW height \in Heights,
               ef2_video_init(standard, height)
        PROVE  Placement'
    <2>1. /\ layout_rows' = Requested(standard, height)
          /\ cursor' = 2 * Requested(standard, height) * PageBlocks
          /\ textures' = {} /\ texture' = texture /\ todo = <<>>
      BY <1>0, <1>3 DEF ef2_video_init, CallType
    <2>2. cursor' = 2 * FrameBlocks'
      <3>1. Requested(standard, height) \in Nat
        BY ModeIs
      <3> QED BY <2>1, <3>1, VideoAssumption DEF FrameBlocks
    <2>3. 2 * FrameBlocks' <= cursor'
      <3>1. cursor' \in Nat
        BY FrameBlocksNat, <1>0 DEF TypeOK, TexType
      <3> QED BY <2>2, <3>1
    <2> QED BY <2>1, <2>3 DEF Placement
  <1>4. CASE ef2_video_reset_texture_allocator
    <2>1. /\ cursor' = 2 * layout_rows * PageBlocks /\ textures' = {}
          /\ UNCHANGED <<layout_rows, texture>> /\ todo = <<>>
      BY <1>0, <1>4 DEF ef2_video_reset_texture_allocator, CallType
    <2>2. cursor' = 2 * FrameBlocks /\ FrameBlocks' = FrameBlocks /\ FrameBlocks \in Nat
      BY <1>0, <2>1, FrameBlocksNat DEF FrameBlocks
    <2> QED BY <2>1, <2>2 DEF Placement
  <1>5. ASSUME NEW first \in Rows, NEW last \in Rows, NEW color \in Colors,
               DrawRows(first, last, color)
        PROVE  Placement'
    BY <1>0, <1>1, <1>5 DEF DrawRows, CallType
  <1>6. ASSUME NEW name \in Names, NEW pages \in TexturePages, NEW n \in Images, NEW clut \in Nat,
               Upload(name, pages, n, clut)
        PROVE  Placement'
    <2>1. PICK t : /\ texture' = <<t>> /\ t.at = PageUp(cursor) /\ t.n = n /\ t.m = clut
                   /\ t.clut = PageUp(cursor) + pages * PageBlocks
                   /\ t.end = EndOf(pages, clut)
      BY <1>6 DEF Upload
    <2>2. /\ n <= pages * PageBlocks /\ UNCHANGED <<layout_rows, cursor, textures>>
          /\ pc' \in {"submit", "fifo"}
      BY <1>6 DEF Upload, Call, SendBy
    <2>3. /\ cursor <= PageUp(cursor) /\ PageUp(cursor) \in Nat /\ n \in Nat
          /\ pages * PageBlocks \in Nat
      <3>1. cursor \in Nat
        BY <1>0, FrameBlocksNat DEF TexType
      <3> QED BY <3>1, VideoAssumption, ProductNat, PageUpIs
    <2>4. PICK p \in Nat : p = pages * PageBlocks
      BY <2>3
    <2>5. Placed(t)
      BY <2>1, <2>2, <2>3, <2>4 DEF Placed, EndOf
    <2>6. todo' # <<>>
      BY <2>2 DEF TypeOK, CallType
    <2>7. FrameBlocks' = FrameBlocks /\ (\A x : Placed(x)' <=> Placed(x)) /\ texture'[1] = t
      BY <2>1, <2>2 DEF FrameBlocks, Placed
    <2> QED BY <2>1, <2>2, <2>3, <2>5, <2>6, <2>7 DEF Placement
  <1>7. ASSUME Calls PROVE Placement'
    <2>1. CASE UNCHANGED <<layout_rows, texVars, todo>>
      BY <1>1, <2>1
    <2> QED BY <1>3, <1>4, <1>5, <1>6, <1>7, <2>1, QuietCalls
            DEF VideoInitRefused, ef2_video_set_double_buffering, ef2_video_wait_vsync,
                ef2_gif_dma_reset_stats, ef2_gif_dma_submit_qwords, ef2_gif_dma_wait
  <1>8. CASE SendWait \/ Fifo
    <2>1. UNCHANGED layout_rows /\ todo # <<>>
      BY <1>0, <1>8 DEF SendWait, Fifo, CallType
    <2>2. Sent \/ UNCHANGED <<texVars, todo>>
      BY <1>8 DEF SendWait, Fifo
    <2> QED BY <1>1, <1>2, <2>1, <2>2
  <1>9. CASE InitDma
    <2>1. UNCHANGED <<layout_rows, texVars>> /\ todo' # <<>>
      BY <1>9 DEF InitDma
    <2> QED BY <1>1, <2>1
  <1>10. CASE Progress /\ ~SendWait /\ ~Fifo /\ ~InitDma
    BY <1>1, <1>10 DEF Progress, Submit, AppInit, AppSubmit, AppWait, VSyncTimeout, VSyncSeen,
                       ef2_video_present
  <1>11. CASE DmaEnd \/ VSync \/ UNCHANGED vars
    BY <1>1, <1>11 DEF DmaEnd, VSync, vars
  <1> QED BY <1>7, <1>8, <1>9, <1>10, <1>11 DEF Next

\* Modes, set_double_buffering and present keep the roles of the frames apart.
LEMMA FramingStep == TypeOK /\ Framing /\ [Next]_vars => Framing'
  <1> SUFFICES ASSUME TypeOK, Framing, [Next]_vars PROVE Framing'
    OBVIOUS
  <1> USE DEF frameVars, dmaVars, gsVars, texVars, syncVars
  <1>0. display \in {0, 1} /\ draw \in {0, 1} /\ double \in BOOLEAN
    BY DEF TypeOK, FrameType
  <1>1. CASE UNCHANGED frameVars /\ pc # "init" /\ pc' # "init"
    BY <1>1 DEF Framing, Frame
  <1>2. CASE InitDma
    BY <1>2 DEF InitDma, SendBy, Framing, Frame
  <1>3. CASE ef2_video_present
    BY <1>0, <1>3 DEF ef2_video_present, Swap, Framing, Frame
  <1>4. ASSUME NEW standard \in {"ntsc", "pal"}, NEW height \in Heights,
               VideoInitRefused(standard, height) \/ ef2_video_init(standard, height)
        PROVE  Framing'
    BY <1>4 DEF VideoInitRefused, ef2_video_init, StoreSize, Framing, Frame
  <1>5. ASSUME NEW enabled \in BOOLEAN, ef2_video_set_double_buffering(enabled) PROVE Framing'
    BY <1>0, <1>5 DEF ef2_video_set_double_buffering, BackBuffer, Framing, Frame
  <1>6. ASSUME Calls PROVE Framing'
    <2>1. CASE \/ \E first \in Rows, last \in Rows, color \in Colors : DrawRows(first, last, color)
               \/ \E name \in Names, pages \in TexturePages, n \in Images, clut \in Nat :
                    Upload(name, pages, n, clut)
      BY <1>1, <2>1 DEF DrawRows, Call, SendBy, Upload
    <2>2. CASE \/ ef2_video_reset_texture_allocator \/ ef2_video_wait_vsync
               \/ ef2_gif_dma_reset_stats \/ ef2_gif_dma_submit_qwords \/ ef2_gif_dma_wait
      BY <1>1, <2>2 DEF ef2_video_reset_texture_allocator, ef2_video_wait_vsync,
           ef2_gif_dma_reset_stats, ef2_gif_dma_submit_qwords, ef2_gif_dma_wait
    <2> QED BY <1>4, <1>5, <1>6, <2>1, <2>2, QuietCalls
  <1>7. CASE Progress /\ ~InitDma /\ ~ef2_video_present
    BY <1>1, <1>7 DEF Progress, Submit, FallBack, SendWait, Sent, SendBy, Fifo, AppInit, AppSubmit,
                      AppWait, VSyncTimeout, VSyncSeen
  <1>8. CASE DmaEnd \/ VSync \/ UNCHANGED vars
    <2>1. UNCHANGED <<frameVars, pc>>
      BY <1>8 DEF DmaEnd, VSync, vars
    <2> QED BY <2>1 DEF Framing, Frame
  <1> QED BY <1>2, <1>3, <1>6, <1>7, <1>8 DEF Next

\* A drawing into the frame drawn to stays in it.
LEMMA DrawingInFrame ==
  ASSUME FrameType, rows = layout_rows, NEW first \in Nat, NEW last \in Int,
         first <= last + 1, last <= rows - 1, NEW color
  PROVE  InFrame(Drawing(draw, first, last, color))
  <1> USE VideoAssumption
  <1>1. Frame(draw) \in Nat /\ layout_rows \in Nat
    BY DEF FrameType, Frame
  <1>2. PICK f \in Nat : f = Frame(draw)
    BY <1>1
  <1>3. first \in Nat /\ last - first + 1 \in Nat /\ layout_rows - (last + 1) \in Nat
    BY <1>1
  <1>4. (layout_rows - (last + 1)) * PageBlocks \in Nat /\ first * PageBlocks \in Nat
    BY <1>3, ProductNat
  <1>5. /\ (f + first) * PageBlocks = f * PageBlocks + first * PageBlocks
        /\ (f + first) * PageBlocks + (last - first + 1) * PageBlocks
             = f * PageBlocks + (last + 1) * PageBlocks
        /\ layout_rows * PageBlocks
             = (last + 1) * PageBlocks + (layout_rows - (last + 1)) * PageBlocks
    BY <1>1, <1>2, <1>3
  <1>7. /\ f * PageBlocks <= (f + first) * PageBlocks
        /\ (f + first) * PageBlocks + (last - first + 1) * PageBlocks
             <= f * PageBlocks + layout_rows * PageBlocks
    <2>1. /\ f * PageBlocks \in Nat /\ (last + 1) * PageBlocks \in Int
          /\ layout_rows * PageBlocks \in Int
      BY <1>1, <1>2, <1>3, ProductNat
    <2> QED BY <1>4, <1>5, <2>1
  <1> QED BY <1>2, <1>7 DEF InFrame, Drawing, Packet, FrameBlocks

\* A shorter end of a sequence is the tail of a longer one.
LEMMA TailOfEnd ==
  ASSUME NEW S, NEW all \in Seq(S), NEW n \in 1 .. Len(all)
  PROVE  LET rest == SubSeq(all, Len(all) - n + 1, Len(all))
         IN  /\ rest \in Seq(S) /\ Len(rest) = n /\ rest[1] = all[Len(all) - n + 1]
             /\ Tail(rest) = SubSeq(all, Len(all) - (n - 1) + 1, Len(all))
  <1>1. PICK l \in Nat : l = Len(all)
    OBVIOUS
  <1>2. n \in Int /\ 1 <= n /\ n <= l /\ l - n + 1 \in 1 .. l /\ l \in l - n + 1 .. l
    BY <1>1
  <1>3. /\ Head(SubSeq(all, l - n + 1, l)) = all[l - n + 1]
        /\ Tail(SubSeq(all, l - n + 1, l)) = SubSeq(all, (l - n + 1) + 1, l)
    BY <1>1, <1>2, HeadTailOfSubSeq
  <1>4. /\ SubSeq(all, l - n + 1, l) \in Seq(S)
        /\ Len(SubSeq(all, l - n + 1, l)) = n
    <2>1. \A i \in l - n + 1 .. l : all[i] \in S
      BY <1>1, <1>2
    <2>2. /\ SubSeq(all, l - n + 1, l) \in Seq(S)
          /\ Len(SubSeq(all, l - n + 1, l))
               = IF l - n + 1 <= l THEN l - (l - n + 1) + 1 ELSE 0
      BY <1>2, <2>1, SubSeqProperties
    <2> QED BY <1>2, <2>2
  <1>5. (l - n + 1) + 1 = l - (n - 1) + 1
    BY <1>2
  <1>6. Head(SubSeq(all, l - n + 1, l)) = SubSeq(all, l - n + 1, l)[1]
    BY <1>2, <1>4
  <1> QED BY <1>1, <1>3, <1>4, <1>5, <1>6

\* The packet to be sent next.
LEMMA NextPacket ==
  ASSUME TypeOK, Sending, texture # <<>>, todo # <<>>
  PROVE  LET all == Packets(texture[1])
         IN  /\ all \in Seq(PacketType) /\ Len(todo) \in 1 .. Len(all)
             /\ Head(todo) = all[Len(all) - Len(todo) + 1]
             /\ Tail(todo) = SubSeq(all, Len(all) - (Len(todo) - 1) + 1, Len(all))
  <1>1. PICK all : all = Packets(texture[1])
    OBVIOUS
  <1>2. all \in Seq(PacketType)
    BY <1>1, TextureIs, PacketsAre DEF TypeOK
  <1>3. todo \in Seq(PacketType) /\ Len(todo) \in Nat \ {0}
    BY EmptySeq DEF TypeOK, CallType
  <1>4. Len(todo) <= Len(all) /\ todo = SubSeq(all, Len(all) - Len(todo) + 1, Len(all))
    BY <1>1 DEF Sending
  <1>5. PICK n : n = Len(todo)
    OBVIOUS
  <1>6. n \in 1 .. Len(all)
    BY <1>2, <1>3, <1>4, <1>5
  <1>7. /\ todo = SubSeq(all, Len(all) - n + 1, Len(all))
    BY <1>4, <1>5
  <1>8. todo[1] = all[Len(all) - n + 1] /\ Tail(todo) = SubSeq(all, Len(all) - (n - 1) + 1, Len(all))
    BY <1>2, <1>6, <1>7, TailOfEnd
  <1>9. Head(todo) = todo[1]
    BY <1>3
  <1> QED BY <1>1, <1>2, <1>5, <1>6, <1>8, <1>9

\* Whatever ef2_video_submit_qwords meets, the packets left are the last ones of the call.
LEMMA SendingStep == TypeOK /\ TypeOK' /\ Placement /\ Framing /\ Sending /\ [Next]_vars => Sending'
  <1> SUFFICES ASSUME TypeOK, TypeOK', Placement, Framing, Sending, [Next]_vars PROVE Sending'
    OBVIOUS
  <1> USE DEF frameVars, dmaVars, gsVars, texVars, syncVars
  <1>0. FrameType /\ TexType /\ CallType /\ TexType' /\ CallType'
    BY DEF TypeOK
  <1>a. todo = <<>> => texture = <<>>
    BY DEF Placement
  <1>b. \A t : Packets(t)' = Packets(t)
    BY DEF Packets, ef2_video_upload_image
  <1>c. draw' = draw /\ layout_rows' = layout_rows => \A p : InFrame(p)' <=> InFrame(p)
    <2> SUFFICES ASSUME draw' = draw, layout_rows' = layout_rows, NEW p
                 PROVE  InFrame(p)' <=> InFrame(p)
      OBVIOUS
    <2>1. Frame(draw)' = Frame(draw)
      BY DEF Frame
    <2>2. FrameBlocks' = FrameBlocks
      BY ONLY layout_rows' = layout_rows DEF FrameBlocks
    <2> QED BY <2>1, <2>2, Zenon DEF InFrame
  <1>1. CASE UNCHANGED <<draw, layout_rows, refused, texture, todo>>
    BY <1>1, <1>c DEF Sending, Packets, ef2_video_upload_image
  <1>2. CASE todo' = <<>> /\ texture' = <<>>
    BY <1>2 DEF Sending
  <1>3. CASE todo = <<>> /\ UNCHANGED <<texture, todo>>
    BY <1>2, <1>3, <1>a
  <1>4. ASSUME Sent, todo # <<>>, UNCHANGED <<draw, layout_rows, refused>> PROVE Sending'
    <2>1. CASE Len(todo) = 1 /\ todo' = <<>> /\ texture' = <<>>
      BY <1>2, <2>1
    <2>2. CASE Len(todo) > 1 /\ texture' = texture /\ todo' # <<>>
      <3>1. texture # <<>>
        <4>1. Len(todo) # 1
          <5>1. PICK n \in Nat : n = Len(todo)
            BY <1>0 DEF CallType
          <5>2. n > 1
            BY <2>2, <5>1
          <5>3. n # 1
            BY <5>2
          <5> QED BY <5>1, <5>3
        <4> QED BY <1>4, <4>1 DEF Sending
      <3>2. PICK all : all = Packets(texture[1])
        OBVIOUS
      <3>3. /\ all \in Seq(PacketType) /\ Len(todo) \in 1 .. Len(all)
            /\ Tail(todo) = SubSeq(all, Len(all) - (Len(todo) - 1) + 1, Len(all))
        BY <1>4, <3>1, <3>2, NextPacket
      <3>4. todo' = Tail(todo) /\ Len(todo') = Len(todo) - 1
        BY <1>0, <1>4, SentIs
      <3>5. Len(todo') <= Len(all) /\ todo' = SubSeq(all, Len(all) - Len(todo') + 1, Len(all))
        <4>1. Len(todo') <= Len(all)
          <5>1. Len(all) \in Nat
            BY ONLY <3>3
          <5>2. Len(todo) \in 1 .. Len(all)
            BY <3>3, Zenon
          <5> QED BY <3>4, <5>1, <5>2
        <4> QED BY <3>3, <3>4, <4>1, Zenon
      <3>6. Packets(texture[1])' = all
        BY <2>2, <3>2 DEF Packets, ef2_video_upload_image
      <3> QED BY <2>2, <3>1, <3>5, <3>6 DEF Sending
    <2> QED BY <1>0, <1>4, <2>1, <2>2, SentIs
  <1>5. ASSUME texture = <<>>, NEW first \in Nat, NEW last \in Int, first <= last + 1,
               last <= rows - 1, NEW color, todo' = <<Drawing(draw, first, last, color)>>,
               UNCHANGED <<rows, draw, layout_rows, refused, texture>>
        PROVE  Sending'
    <2>1. PICK p : p = Drawing(draw, first, last, color)
      OBVIOUS
    <2>2. ~refused => InFrame(p)
      BY <1>0, <1>5, <2>1, DrawingInFrame DEF Framing
    <2>3. p.op = "draw"
      BY <2>1 DEF Drawing, Packet
    <2>4. Len(todo') = 1 /\ todo'[1] = p /\ (InFrame(p)' <=> InFrame(p))
      BY <1>5, <1>c, <2>1
    <2>5. ~refused' => InFrame(todo[1])'
      BY <1>5, <2>2, <2>4 DEF InFrame, Frame, FrameBlocks
    <2> QED BY <1>5, <2>3, <2>4, <2>5 DEF Sending
  <1>6. CASE InitDma
    <2>1. /\ todo' = <<Drawing(draw, 0, rows - 1, Black)>> /\ todo = <<>>
          /\ UNCHANGED <<rows, draw, layout_rows, refused, texture>>
      BY <1>0, <1>6 DEF InitDma, CallType
    <2>2. 0 \in Nat /\ rows - 1 \in Int /\ 0 <= (rows - 1) + 1 /\ rows - 1 <= rows - 1
      BY <1>0 DEF FrameType
    <2> QED BY <1>5, <1>a, <2>1, <2>2
  <1>7. ASSUME NEW first \in Rows, NEW last \in Rows, NEW color \in Colors,
               DrawRows(first, last, color)
        PROVE  Sending'
    <2>1. /\ todo' = <<Drawing(draw, first, last, color)>> /\ todo = <<>> /\ first <= last
          /\ UNCHANGED <<rows, draw, layout_rows, refused, texture>>
      BY <1>0, <1>7 DEF DrawRows, Call, CallType
    <2>2. first \in Nat /\ last \in Int /\ first <= last + 1 /\ last <= rows - 1
      BY <1>0, <2>1 DEF Rows, FrameType
    <2> QED BY <1>5, <1>a, <2>1, <2>2
  <1>8. ASSUME NEW name \in Names, NEW pages \in TexturePages, NEW n \in Images, NEW clut \in Nat,
               Upload(name, pages, n, clut)
        PROVE  Sending'
    <2>1. PICK t : texture' = <<t>> /\ todo' = Packets(t)
      <3> DEFINE t == [name |-> name, at |-> PageUp(cursor), n |-> n,
                       clut |-> PageUp(cursor) + pages * PageBlocks, m |-> clut, end |-> EndOf(pages, clut)]
      <3>1. texture' = <<t>>
        BY <1>8 DEF Upload
      <3>2. todo' = ef2_video_upload_image(t.at, t.n, t.name)
                      \o (IF t.m = 0 THEN <<>> ELSE ef2_video_upload_image(t.clut, t.m, t.name))
                      \o <<Packet("flush", 0, 0, Black)>>
        BY <1>8 DEF Upload, Call
      <3> HIDE DEF t
      <3>3. todo' = Packets(t)
        BY <3>2 DEF Packets
      <3> QED BY <3>1, <3>3
    <2>2. todo' \in Seq(PacketType) /\ Len(todo') \in Nat
      BY <1>0 DEF CallType
    <2>3. SubSeq(todo', 1, Len(todo')) = todo' /\ Len(todo') - Len(todo') + 1 = 1
          /\ Len(todo') <= Len(todo')
      BY <2>2, SubSeqFull
    <2>4. Packets(texture[1])' = todo' /\ texture' # <<>>
      <3>1. texture'[1] = t /\ texture' # <<>>
        BY <2>1
      <3>2. Packets(texture[1])' = Packets(texture'[1])
        BY DEF Packets, ef2_video_upload_image
      <3> QED BY <2>1, <3>1, <3>2
    <2> QED BY <2>3, <2>4 DEF Sending
  <1>9. ASSUME Calls PROVE Sending'
    <2>1. CASE pc = "idle" /\ UNCHANGED <<texture, todo>>
      BY <1>0, <1>3, <2>1 DEF CallType
    <2> QED BY <1>7, <1>8, <1>9, <2>1, QuietCalls
            DEF VideoInitRefused, ef2_video_init, ef2_video_reset_texture_allocator,
                ef2_video_set_double_buffering, ef2_video_wait_vsync,
                ef2_gif_dma_reset_stats, ef2_gif_dma_submit_qwords, ef2_gif_dma_wait
  <1>10. CASE SendWait \/ Fifo
    <2>1. UNCHANGED <<draw, layout_rows, refused>> /\ todo # <<>>
      BY <1>0, <1>10 DEF SendWait, Fifo, CallType
    <2>2. Sent \/ UNCHANGED <<texture, todo>>
      BY <1>10 DEF SendWait, Fifo
    <2> QED BY <1>1, <1>4, <2>1, <2>2
  <1>11. CASE ef2_video_present
    <2>1. todo = <<>> /\ UNCHANGED <<texture, todo>>
      BY <1>0, <1>11 DEF ef2_video_present, CallType
    <2> QED BY <1>3, <2>1
  <1>12. CASE Progress /\ ~SendWait /\ ~Fifo /\ ~InitDma /\ ~ef2_video_present
    BY <1>1, <1>12 DEF Progress, Submit, AppInit, AppSubmit, AppWait, VSyncTimeout, VSyncSeen
  <1>13. CASE DmaEnd \/ VSync \/ UNCHANGED vars
    BY <1>1, <1>13 DEF DmaEnd, VSync, vars
  <1> QED BY <1>6, <1>9, <1>10, <1>11, <1>12, <1>13 DEF Next

\* A transfer carries the packet of the call that waits for it, until the FIFO is used
\* behind a transfer that timed out.
LEMMA CarriedStep == TypeOK /\ Carried /\ [Next]_vars => Carried'
  <1> SUFFICES ASSUME TypeOK, Carried, [Next]_vars PROVE Carried'
    OBVIOUS
  <1> USE DEF frameVars, dmaVars, gsVars, texVars, syncVars
  <1>1. CASE UNCHANGED <<channel, mixed>> /\ pc # "sent" /\ pc' # "sent"
    BY <1>1 DEF Carried
  <1>2. CASE UNCHANGED <<channel, mixed, pc, todo>>
    BY <1>2 DEF Carried
  <1>3. CASE channel' = <<>> \/ mixed'
    BY <1>3 DEF Carried
  <1>4. CASE Submit
    <2>1. CASE Start(Head(todo)) /\ pc' = "sent" /\ todo' = todo
      BY <2>1 DEF Start, Carried
    <2>2. CASE TimedOut /\ FallBack /\ UNCHANGED channel
      <3>1. pc = "submit" /\ pc' = "fifo" /\ mixed \in BOOLEAN
        BY <1>4, <2>2 DEF Submit, FallBack, TypeOK, GsType
      <3>2. mixed' = mixed
        BY <2>2, <3>1 DEF FallBack
      <3> QED BY <1>1, <2>2, <3>1, <3>2
    <2> QED BY <1>4, <2>1, <2>2 DEF Submit
  <1>5. CASE SendWait
    BY <1>3, <1>5 DEF SendWait, WaitDone, FallBack
  <1>6. CASE Fifo
    BY <1>3, <1>6 DEF Fifo
  <1>7. CASE AppSubmit
    <2>1. CASE Start(Foreign)
      BY <1>7, <2>1 DEF AppSubmit, Start, Carried
    <2> QED BY <1>1, <1>7, <2>1 DEF AppSubmit
  <1>8. CASE InitDma \/ AppInit \/ AppWait \/ VSyncTimeout \/ VSyncSeen \/ ef2_video_present
    BY <1>1, <1>8 DEF InitDma, SendBy, AppInit, AppWait, VSyncTimeout, VSyncSeen, ef2_video_present
  <1>9. ASSUME NEW standard \in {"ntsc", "pal"}, NEW height \in Heights,
               ef2_video_init(standard, height)
        PROVE  Carried'
    BY <1>9 DEF ef2_video_init, Carried
  <1>10. CASE Calls
    <2>1. CASE \/ \E first \in Rows, last \in Rows, color \in Colors : DrawRows(first, last, color)
               \/ \E name \in Names, pages \in TexturePages, n \in Images, clut \in Nat :
                    Upload(name, pages, n, clut)
      BY <1>1, <2>1 DEF DrawRows, Call, SendBy, Upload
    <2>2. CASE \/ ef2_video_reset_texture_allocator \/ ef2_video_wait_vsync
               \/ ef2_gif_dma_reset_stats \/ ef2_gif_dma_submit_qwords \/ ef2_gif_dma_wait
      BY <1>1, <2>2 DEF ef2_video_reset_texture_allocator, ef2_video_wait_vsync,
           ef2_gif_dma_reset_stats, ef2_gif_dma_submit_qwords, ef2_gif_dma_wait
    <2>3. CASE \/ \E standard \in {"ntsc", "pal"}, height \in Heights :
                    VideoInitRefused(standard, height)
               \/ \E enabled \in BOOLEAN : ef2_video_set_double_buffering(enabled)
      BY <1>1, <2>3 DEF VideoInitRefused, ef2_video_set_double_buffering
    <2> QED BY <1>9, <1>10, <2>1, <2>2, <2>3, QuietCalls
  <1>11. CASE DmaEnd
    BY <1>3, <1>11 DEF DmaEnd
  <1>12. CASE VSync \/ UNCHANGED vars
    BY <1>2, <1>12 DEF VSync, vars
  <1> QED BY <1>4, <1>5, <1>6, <1>7, <1>8, <1>10, <1>11, <1>12 DEF Next, Progress

\* The frame drawn to, and the memory a texture in progress may use.
Drawable == Frame(draw) * PageBlocks .. Frame(draw) * PageBlocks + FrameBlocks - 1
Writable(b) == b \in Drawable \/ (texture # <<>> /\ cursor <= b)

\* What a drawing changes lies in the frame drawn to.
LEMMA DrawingStays ==
  ASSUME TypeOK, ~Lost, NEW p \in PacketType, p.op = "draw", InFrame(p), Execute(p)
  PROVE  \A b \in Blocks \ Drawable : vram'[b] = vram[b]
  <1>1. p.at \in Nat /\ p.n \in Nat
    BY DEF PacketType
  <1>2. vram' = Fill(p.at, p.n, p.data)
    BY DEF Execute
  <1>3. /\ FrameBlocks \in Nat /\ 2 * FrameBlocks <= VramBlocks /\ VramBlocks \in Nat
        /\ Frame(draw) * PageBlocks \in {0, FrameBlocks}
    BY FrameBlocksNat, FramesApart DEF TypeOK, FrameType
  <1>4. PICK f \in Nat : f = Frame(draw) * PageBlocks
    BY <1>3
  <1>5. f <= p.at /\ p.at + p.n <= f + FrameBlocks
    BY <1>4 DEF InFrame
  <1>6. p.at + p.n <= VramBlocks /\ p.at .. p.at + p.n - 1 \subseteq Drawable
    BY <1>1, <1>3, <1>4, <1>5 DEF Drawable
  <1>7. \A b \in Blocks : Fill(p.at, p.n, p.data)[b]
                            = IF b \in p.at .. p.at + p.n - 1 THEN p.data ELSE vram[b]
    BY <1>1, <1>6, FillExact DEF TypeOK
  <1> QED BY <1>2, <1>6, <1>7

\* Executing the packet to be sent next brings an upload on, and changes only
\* the frame drawn to or the memory behind the textures made so far.
LEMMA ExecuteSafe ==
  ASSUME TypeOK, Placement, Framing, Sending, Underway, ~Lost, todo # <<>>,
         ~(pc = "sent" /\ channel = <<>>), Execute(Head(todo))
  PROVE  /\ texture # <<>> =>
              \A t, e : t = texture[1] /\ e = Len(Packets(t)) - Len(todo) => Uploaded(t, e + 1)'
         /\ \A b \in Blocks : vram'[b] # vram[b] => Writable(b)
  <1>1. todo \in Seq(PacketType) /\ Head(todo) = todo[1] /\ todo[1] \in PacketType
    BY DEF TypeOK, CallType
  <1>2. CASE texture = <<>>
    <2>1. todo[1].op = "draw" /\ InFrame(todo[1])
      BY <1>2 DEF Sending, Lost
    <2>2. \A b \in Blocks \ Drawable : vram'[b] = vram[b]
      BY <1>1, <2>1, DrawingStays
    <2> QED BY <1>2, <2>2 DEF Writable
  <1>3. CASE texture # <<>>
    <2>1. PICK t \in TextureType : t = texture[1]
      BY <1>3, TextureIs DEF TypeOK
    <2>2. PICK l \in Nat, n \in Nat : l = Len(Packets(t)) /\ n = Len(todo)
      <3>1. Packets(t) \in Seq(PacketType)
        BY PacketsAre
      <3>2. Len(Packets(t)) \in Nat /\ Len(todo) \in Nat
        BY <1>1, <3>1
      <3> QED BY <3>2
    <2>3. n \in 1 .. l /\ Head(todo) = Packets(t)[l - n + 1]
      BY <1>3, <2>1, <2>2, NextPacket
    <2>4. PICK e : e = l - n
      OBVIOUS
    <2>5. Uploaded(t, e)
      <3>1. Executed = l - n + 0
        BY <2>1, <2>2 DEF Executed
      <3>2. Executed = e
        BY <2>2, <2>4, <3>1
      <3> QED BY <1>3, <2>1, <3>2 DEF Underway
    <2>6. Placed(t) /\ cursor <= t.at
      BY <1>3, <2>1 DEF Placement
    <2>7. e # ImageLen(t) + TableLen(t) + 1
      <3>1. l = ImageLen(t) + TableLen(t) + 1
        BY <2>2, PacketsAre
      <3>2. e # l
        BY <2>2, <2>3, <2>4
      <3> QED BY <3>1, <3>2
    <2>8. Execute(Packets(t)[e + 1])
      BY <2>3, <2>4
    <2>9. GsType
      BY DEF TypeOK
    <2>10. /\ Uploaded(t, e + 1)'
           /\ \A b \in Blocks \ (t.at .. t.end - 1) : vram'[b] = vram[b]
      BY <2>5, <2>6, <2>7, <2>8, <2>9, UploadStep
    <2>11. \A b \in Blocks : b \in t.at .. t.end - 1 => cursor <= b
      <3>1. cursor \in Nat /\ t.at \in Nat /\ t.end \in Int
        BY FrameBlocksNat DEF TypeOK, TexType, TextureType
      <3> QED BY <2>6, <3>1
    <2> QED BY <1>3, <2>1, <2>2, <2>4, <2>10, <2>11 DEF Writable
  <1> QED BY <1>2, <1>3

Intact(t) == Written(t.at, t.n, t.name) /\ Written(t.clut, t.m, t.name)

\* The property in terms of what is written.
LEMMA IntactIs == TexturesIntact <=> (~Lost => \A t \in textures : Intact(t))
  BY DEF TexturesIntact, Intact, Written

\* A texture made lies behind the frames and before the cursor, out of reach.
LEMMA OutOfReach ==
  ASSUME TypeOK, Placement, \A b \in Blocks : vram'[b] # vram[b] => Writable(b),
         NEW t \in textures, Intact(t)
  PROVE  Intact(t)'
  <1>1. /\ t.at \in Nat /\ t.n \in Nat /\ t.clut \in Nat /\ t.m \in Nat /\ t.end \in 0 .. VramBlocks
        /\ cursor \in Nat
    BY FrameBlocksNat DEF TypeOK, TexType, TextureType
  <1>2. 2 * FrameBlocks <= t.at /\ t.at + t.n <= t.clut /\ t.clut + t.m <= t.end /\ t.end <= cursor
    BY DEF Placement, Placed
  <1>3. FrameBlocks \in Nat /\ VramBlocks \in Nat /\ Frame(draw) * PageBlocks \in {0, FrameBlocks}
    BY FrameBlocksNat, FramesApart DEF TypeOK, FrameType
  <1>4. PICK f \in {0, FrameBlocks} : f = Frame(draw) * PageBlocks
    BY <1>3
  <1>5. \A b \in t.at .. t.end - 1 : b \in Blocks /\ ~Writable(b)
    <2> TAKE b \in t.at .. t.end - 1
    <2>1. b \in Int /\ 2 * FrameBlocks <= b /\ b < cursor /\ b < VramBlocks
      BY <1>1, <1>2, <1>3
    <2>2. b \notin f .. f + FrameBlocks - 1
      BY <1>3, <1>4, <2>1
    <2>3. ~(cursor <= b)
      BY <1>1, <2>1
    <2> QED BY <1>3, <1>4, <2>1, <2>2, <2>3 DEF Writable, Drawable, Blocks
  <1>6. \A b \in t.at .. t.end - 1 : vram'[b] = vram[b]
    BY <1>5
  <1>7. /\ t.at .. t.at + t.n - 1 \subseteq t.at .. t.end - 1
        /\ t.clut .. t.clut + t.m - 1 \subseteq t.at .. t.end - 1
    BY <1>1, <1>2
  <1> QED BY <1>1, <1>6, <1>7, WrittenKept DEF Intact

\* With its last packet executed a texture is in memory.
LEMMA UploadedIsIntact ==
  ASSUME NEW t \in TextureType, NEW e, e = Len(Packets(t)), Uploaded(t, e)'
  PROVE  Intact(t)'
  <1>1. PICK a \in Nat, c \in Nat : a = ImageLen(t) /\ c = TableLen(t)
    BY PacketsAre
  <1>2. e = a + c + 1
    BY <1>1, PacketsAre
  <1>3. e > a /\ e > a + c
    BY <1>1, <1>2
  <1> QED BY <1>1, <1>3 DEF Uploaded, Intact

\* The packets of a texture are the same in every state.
LEMMA PacketsRigid == \A t : Packets(t)' = Packets(t)
  BY DEF Packets, ef2_video_upload_image

\* With its first packet executed, a call moves on.
LEMMA SentMovesOn ==
  ASSUME TypeOK, Sending, todo # <<>>, Sent,
         texture # <<>> =>
           \A t, e : t = texture[1] /\ e = Len(Packets(t)) - Len(todo) => Uploaded(t, e + 1)'
  PROVE  /\ Underway'
         /\ \A t \in textures' : t \in textures \/ Intact(t)'
  <1>1. CASE texture = <<>>
    <2>1. texture' = <<>> /\ textures' = textures
      BY <1>1, SentIs DEF TypeOK, texVars
    <2> QED BY <2>1 DEF Underway
  <1>2. CASE texture # <<>>
    <2>1. PICK t \in TextureType : t = texture[1]
      BY <1>2, TextureIs DEF TypeOK
    <2>2. PICK l \in Nat, n \in Nat : l = Len(Packets(t)) /\ n = Len(todo)
      <3>1. Packets(t) \in Seq(PacketType)
        BY PacketsAre
      <3>2. Len(Packets(t)) \in Nat /\ Len(todo) \in Nat
        BY <3>1 DEF TypeOK, CallType
      <3> QED BY <3>2
    <2>3. PICK e : e = l - n
      OBVIOUS
    <2>4. Uploaded(t, e + 1)'
      BY <1>2, <2>1, <2>2, <2>3
    <2>5. CASE n > 1 /\ UNCHANGED texVars /\ pc' \in {"submit", "fifo"}
      <3>1. texture' = texture /\ textures' = textures
        BY <2>5 DEF texVars
      <3>2. Len(todo') = n - 1
        BY <2>2, SentIs DEF TypeOK
      <3>3. Len(Packets(texture[1]))' = l
        BY <2>1, <2>2, <3>1, PacketsRigid
      <3>4. Executed' = l - (n - 1) + 0
        <4>1. pc' # "sent"
          BY <2>5
        <4> QED BY <3>2, <3>3, <4>1 DEF Executed
      <3>5. Executed' = e + 1
        BY <2>2, <2>3, <3>4
      <3>6. Uploaded(texture[1], Executed)'
        <4>1. texture'[1] = t
          BY <2>1, <3>1
        <4> QED BY <2>4, <3>5, <4>1
      <3> QED BY <3>1, <3>6 DEF Underway
    <2>6. CASE n = 1 /\ texture' = <<>> /\ textures' = textures \cup {t}
      <3>1. e + 1 = l
        BY <2>2, <2>3, <2>6
      <3>2. e + 1 = Len(Packets(t))
        BY <2>2, <3>1
      <3>3. Intact(t)'
        BY <2>4, <3>2, UploadedIsIntact
      <3> QED BY <2>6, <3>3 DEF Underway
    <2> QED BY <1>2, <2>1, <2>2, <2>5, <2>6, SentIs DEF TypeOK
  <1> QED BY <1>1, <1>2

-----------------------------------------------------------------------------
(* Textures and the picture are out of reach.                              *)

MemoryInv == Placement /\ Framing /\ Sending /\ Carried /\ Underway

\* DMA brings the packet it carries to the GS, before or after the call gave up on it.
LEMMA DmaEndSafe ==
  ASSUME TypeOK, MemoryInv, ~Lost, DmaEnd
  PROVE  Underway' /\ \A b \in Blocks : vram'[b] # vram[b] => Writable(b)
  <1>1. /\ channel # <<>> /\ channel' = <<>> /\ Execute(channel[1])
        /\ UNCHANGED <<pc, todo, texture, textures, mixed, refused>>
    BY DEF DmaEnd, texVars, frameVars
  <1>2. channel[1] = IF pc = "sent" THEN Head(todo) ELSE Foreign
    BY <1>1 DEF MemoryInv, Carried, Lost
  <1>3. CASE pc = "sent"
    <2>1. todo # <<>> /\ Execute(Head(todo)) /\ ~(pc = "sent" /\ channel = <<>>)
      BY <1>1, <1>2, <1>3 DEF TypeOK, CallType
    <2>2. /\ texture # <<>> =>
               \A t, e : t = texture[1] /\ e = Len(Packets(t)) - Len(todo) => Uploaded(t, e + 1)'
          /\ \A b \in Blocks : vram'[b] # vram[b] => Writable(b)
      BY <2>1, ExecuteSafe DEF MemoryInv
    <2>3. Executed' = Len(Packets(texture[1])) - Len(todo) + 1
      BY <1>1, <1>3, PacketsRigid DEF Executed
    <2>4. ASSUME texture # <<>> PROVE Uploaded(texture[1], Executed)'
      <3>1. PICK t, e : t = texture[1] /\ e = Len(Packets(t)) - Len(todo)
        OBVIOUS
      <3>2. Uploaded(t, e + 1)'
        BY <2>2, <2>4, <3>1
      <3>3. texture'[1] = t /\ Executed' = e + 1
        BY <1>1, <2>3, <3>1
      <3> QED BY <3>2, <3>3
    <2> QED BY <1>1, <2>2, <2>4 DEF Underway
  <1>4. CASE pc # "sent"
    <2>1. Foreign.op = "foreign"
      BY DEF Foreign, Packet
    <2>2. trx' = trx /\ vram' = vram
      BY <1>1, <1>2, <1>4, <2>1 DEF Execute
    <2>3. Executed' = Executed
      BY <1>1, <1>4, PacketsRigid DEF Executed
    <2>4. \A t, e : Uploaded(t, e)' <=> Uploaded(t, e)
      BY <2>2 DEF Uploaded, Stage, Written
    <2>5. Underway'
      BY <1>1, <2>3, <2>4 DEF MemoryInv, Underway, Lost
    <2> QED BY <2>2, <2>5
  <1> QED BY <1>3, <1>4

\* ef2_gif_fifo_send executes the packet and moves on.
LEMMA FifoSafe ==
  ASSUME TypeOK, MemoryInv, ~Lost, Fifo
  PROVE  /\ Underway' /\ (\A b \in Blocks : vram'[b] # vram[b] => Writable(b))
         /\ \A t \in textures' : t \in textures \/ Intact(t)'
  <1>1. todo # <<>> /\ ~(pc = "sent" /\ channel = <<>>) /\ Execute(Head(todo)) /\ Sent
    BY DEF Fifo, TypeOK, CallType
  <1>2. /\ texture # <<>> =>
             \A t, e : t = texture[1] /\ e = Len(Packets(t)) - Len(todo) => Uploaded(t, e + 1)'
        /\ \A b \in Blocks : vram'[b] # vram[b] => Writable(b)
    BY <1>1, ExecuteSafe DEF MemoryInv
  <1> QED BY <1>1, <1>2, SentMovesOn DEF MemoryInv

\* A transfer found complete has written what it carried.
LEMMA SendWaitSafe ==
  ASSUME TypeOK, MemoryInv, ~Lost, SendWait, ~Lost'
  PROVE  /\ Underway' /\ vram' = vram
         /\ \A t \in textures' : t \in textures \/ Intact(t)'
  <1>1. pc = "sent" /\ todo # <<>> /\ UNCHANGED <<trx, vram>>
    BY DEF SendWait, TypeOK, CallType
  <1>2. WaitDone /\ Sent
    BY <1>1 DEF SendWait, FallBack, Lost
  <1>3. ASSUME texture # <<>>, NEW t, NEW e, t = texture[1], e = Len(Packets(t)) - Len(todo)
        PROVE  Uploaded(t, e + 1)'
    <2>1. Executed = e + 1
      BY <1>1, <1>2, <1>3 DEF Executed, WaitDone
    <2>2. Uploaded(t, e + 1)
      BY <1>3, <2>1 DEF MemoryInv, Underway
    <2> QED BY <1>1, <2>2 DEF Uploaded, Stage, Written
  <1> QED BY <1>1, <1>2, <1>3, SentMovesOn DEF MemoryInv

\* A new texture starts with none of its packets executed.
LEMMA UploadBegins ==
  ASSUME TypeOK, TypeOK', NEW name, NEW pages, NEW n, NEW clut, Upload(name, pages, n, clut)
  PROVE  Underway' /\ UNCHANGED <<vram, textures, mixed, refused, layout_rows, dispfb>>
  <1>1. PICK t : texture' = <<t>> /\ todo' = Packets(t)
    <2> WITNESS [name |-> name, at |-> PageUp(cursor), n |-> n,
                 clut |-> PageUp(cursor) + pages * PageBlocks, m |-> clut, end |-> EndOf(pages, clut)]
    <2> QED BY DEF Upload, Call, Packets
  <1>2. t \in TextureType
    <2>1. texture'[1] = t /\ texture' # <<>>
      BY <1>1
    <2> QED BY <2>1, EmptySeq DEF TypeOK, TexType
  <1>3. pc' # "sent"
    BY DEF Upload, Call, SendBy
  <1>4. Len(Packets(texture[1]))' = Len(todo')
    BY <1>1, PacketsRigid
  <1>5. Len(todo') \in Nat
    BY DEF TypeOK, CallType
  <1>6. Executed' = 0
    BY <1>3, <1>4, <1>5 DEF Executed
  <1>7. Uploaded(t, 0)'
    <2>1. PICK a \in Nat, c \in Nat : a = ImageLen(t) /\ c = TableLen(t) /\ a >= 1
      <3>1. t.n \in Nat
        BY <1>2 DEF TextureType
      <3>2. Chunks(t.n) \in Nat
        BY <3>1, VideoAssumption DEF Chunks
      <3> QED BY <1>2, <3>2, PacketsAre DEF ImageLen
    <2>2. 0 \in 0 .. a + c + 1 /\ ~(0 > a) /\ ~(0 > a + c)
      BY <2>1
    <2>3. Stage(t.at, t.n, t.name, 0)'
      <3>1. t.n \in Nat /\ t.at \in Nat
        BY <1>2 DEF TextureType
      <3>2. Chunks(t.n) \in Nat
        BY <3>1, VideoAssumption DEF Chunks
      <3>3. 0 \in 0 .. 1 + 2 * Chunks(t.n)
        BY <3>2
      <3>4. Moved(t.n, 0) = 0 /\ t.at .. t.at + 0 - 1 = {}
        BY <3>1 DEF Moved
      <3> QED BY <3>3, <3>4 DEF Stage, Written
    <2> QED BY <2>1, <2>2, <2>3 DEF Uploaded
  <1>8. texture'[1] = t
    BY <1>1
  <1>9. Underway'
    BY <1>6, <1>7, <1>8 DEF Underway
  <1> QED BY <1>9 DEF Upload, frameVars, gsVars, Call

\* The packets of a texture take effect one after the other, by DMA and FIFO alike.
LEMMA UnderwayStep == TypeOK /\ TypeOK' /\ MemoryInv /\ [Next]_vars => Underway'
  <1> SUFFICES ASSUME TypeOK, TypeOK', MemoryInv, [Next]_vars PROVE Underway'
    OBVIOUS
  <1> USE DEF frameVars, dmaVars, gsVars, texVars, syncVars
  <1>a. todo = <<>> => texture = <<>>
    BY DEF MemoryInv, Placement
  <1>1. CASE todo = <<>> /\ UNCHANGED texture
    BY <1>a, <1>1 DEF Underway
  <1>2. CASE UNCHANGED <<trx, vram, mixed, refused, texture, todo>> /\ Executed' = Executed
    <2>1. \A t, e : Uploaded(t, e)' <=> Uploaded(t, e)
      BY <1>2 DEF Uploaded, Stage, Written
    <2> QED BY <1>2, <2>1 DEF MemoryInv, Underway, Lost
  <1>3. CASE Lost'
    BY <1>3 DEF Underway
  <1>4. CASE DmaEnd
    <2>1. Lost' <=> Lost
      BY <1>4 DEF DmaEnd, Lost
    <2> QED BY <1>3, <1>4, <2>1, DmaEndSafe
  <1>5. CASE Fifo
    <2>1. Lost => Lost'
      BY <1>5 DEF Fifo, Lost
    <2> QED BY <1>3, <1>5, <2>1, FifoSafe
  <1>6. CASE SendWait
    <2>1. Lost => Lost'
      BY <1>6 DEF SendWait, FallBack, Lost
    <2> QED BY <1>3, <1>6, <2>1, SendWaitSafe
  <1>7. CASE Submit
    <2>1. UNCHANGED <<trx, vram, refused, texture, todo>> /\ pc = "submit"
      BY <1>7 DEF Submit
    <2>2. CASE Start(Head(todo)) /\ pc' = "sent" /\ UNCHANGED mixed
      <3>1. Executed' = Executed
        <4>1. channel' # <<>>
          BY <2>2 DEF Start
        <4> QED BY <2>1, <2>2, <4>1, PacketsRigid DEF Executed
      <3> QED BY <1>2, <2>1, <2>2, <3>1
    <2>3. CASE FallBack
      <3>1. pc' = "fifo" /\ mixed \in BOOLEAN
        BY <2>3 DEF FallBack, TypeOK, GsType
      <3>2. mixed' = mixed
        BY <2>1, <2>3, <3>1 DEF FallBack
      <3>3. Executed' = Executed
        BY <2>1, <3>1, PacketsRigid DEF Executed
      <3> QED BY <1>2, <2>1, <3>2, <3>3
    <2> QED BY <1>7, <2>2, <2>3 DEF Submit
  <1>8. ASSUME NEW name \in Names, NEW pages \in TexturePages, NEW n \in Images, NEW clut \in Nat,
               Upload(name, pages, n, clut)
        PROVE  Underway'
    BY <1>8, UploadBegins
  <1>9. ASSUME Calls PROVE Underway'
    <2>1. CASE pc = "idle" /\ UNCHANGED texture
      BY <1>1, <2>1 DEF TypeOK, CallType
    <2>2. CASE \E first \in Rows, last \in Rows, color \in Colors : DrawRows(first, last, color)
      BY <2>1, <2>2 DEF DrawRows
    <2>3. CASE \E standard \in {"ntsc", "pal"}, height \in Heights :
                 VideoInitRefused(standard, height) \/ ef2_video_init(standard, height)
      BY <2>1, <2>3 DEF VideoInitRefused, ef2_video_init
    <2>4. CASE \/ ef2_video_reset_texture_allocator \/ ef2_video_wait_vsync
               \/ ef2_gif_dma_reset_stats \/ ef2_gif_dma_submit_qwords \/ ef2_gif_dma_wait
               \/ \E enabled \in BOOLEAN : ef2_video_set_double_buffering(enabled)
      BY <2>1, <2>4 DEF ef2_video_reset_texture_allocator, ef2_video_wait_vsync,
           ef2_video_set_double_buffering, ef2_gif_dma_reset_stats, ef2_gif_dma_submit_qwords,
           ef2_gif_dma_wait
    <2> QED BY <1>8, <1>9, <2>2, <2>3, <2>4, QuietCalls
  <1>10. CASE InitDma \/ AppInit \/ AppSubmit \/ AppWait \/ VSyncTimeout \/ VSyncSeen
              \/ ef2_video_present
    <2>1. todo = <<>> /\ UNCHANGED texture
      BY <1>10 DEF InitDma, AppInit, AppSubmit, AppWait, VSyncTimeout, VSyncSeen,
           ef2_video_present, TypeOK, CallType
    <2> QED BY <1>1, <2>1
  <1>11. CASE VSync \/ UNCHANGED vars
    <2>1. UNCHANGED <<trx, vram, mixed, refused, texture, todo, pc, channel>>
      BY <1>11 DEF VSync, vars
    <2>2. Executed' = Executed
      BY <2>1, PacketsRigid DEF Executed
    <2> QED BY <1>2, <2>1, <2>2
  <1> QED BY <1>4, <1>5, <1>6, <1>7, <1>9, <1>10, <1>11 DEF Next, Progress

\* Before the first mode there is no texture.
LEMMA MemoryInit == Init => MemoryInv /\ TexturesIntact
  <1> SUFFICES ASSUME Init PROVE MemoryInv /\ TexturesIntact
    OBVIOUS
  <1>1. /\ rows = 0 /\ layout_rows = 0 /\ ~double /\ cursor = 0 /\ dispfb = 0 /\ display = 0
        /\ pc = "idle" /\ todo = <<>> /\ texture = <<>> /\ textures = {} /\ ~refused
        /\ channel \in {<<>>, <<Foreign>>}
    BY DEF Init
  <1>2. Placement
    <2>1. 2 * FrameBlocks = 0
      BY <1>1, VideoAssumption DEF FrameBlocks
    <2> QED BY <1>1, <2>1 DEF Placement
  <1>3. Framing
    BY <1>1 DEF Framing, Frame
  <1>4. Sending /\ Underway /\ TexturesIntact
    BY <1>1 DEF Sending, Underway, TexturesIntact
  <1>5. Carried
    <2>1. channel = <<Foreign>> => channel[1] = Foreign
      OBVIOUS
    <2> QED BY <1>1, <2>1 DEF Carried
  <1> QED BY <1>2, <1>3, <1>4, <1>5 DEF MemoryInv

\* The packets a call has left, those the GS has executed and what they have written
\* agree, at every step of ef2_video_submit_qwords and after every time-out.
THEOREM MemoryInvariant == Spec => [](TypeOK /\ MemoryInv)
  <1>1. TypeOK /\ TypeOK' /\ MemoryInv /\ [Next]_vars => MemoryInv'
    BY PlacementStep, FramingStep, SendingStep, CarriedStep, UnderwayStep DEF MemoryInv
  <1> QED BY <1>1, MemoryInit, VideoTypeCorrect, PTL DEF Spec

\* No step of a call, of the channel or of the display spoils a texture.
LEMMA IntactStep ==
  ASSUME TypeOK, TypeOK', MemoryInv, TexturesIntact, [Next]_vars PROVE TexturesIntact'
  <1> USE DEF frameVars, dmaVars, gsVars, texVars, syncVars
  <1>a. todo = <<>> => texture = <<>>
    BY DEF MemoryInv, Placement
  <1>b. TexturesIntact' <=> (~Lost' => \A t \in textures' : Intact(t)')
    BY DEF TexturesIntact, Intact, Written
  <1>1. CASE Lost' \/ textures' = {}
    BY <1>1, <1>b
  <1>2. CASE UNCHANGED <<vram, mixed, refused, textures>>
    BY <1>2 DEF TexturesIntact, Lost
  <1>3. ASSUME ~Lost, \A b \in Blocks : vram'[b] # vram[b] => Writable(b),
               \A t \in textures' : t \in textures \/ Intact(t)'
        PROVE  TexturesIntact'
    <2>1. \A t \in textures : Intact(t)
      BY <1>3, IntactIs
    <2>2. ASSUME NEW t \in textures PROVE Intact(t)'
      BY <1>3, <2>1, <2>2, OutOfReach DEF MemoryInv
    <2> QED BY <1>3, <1>b, <2>2
  <1>4. CASE DmaEnd
    <2>1. (Lost' <=> Lost) /\ textures' = textures
      BY <1>4 DEF DmaEnd, Lost
    <2>2. CASE ~Lost
      BY <1>3, <1>4, <2>1, <2>2, DmaEndSafe
    <2> QED BY <1>1, <2>1, <2>2
  <1>5. CASE Fifo
    <2>1. Lost => Lost'
      BY <1>5 DEF Fifo, Lost
    <2>2. CASE ~Lost
      BY <1>3, <1>5, <2>2, FifoSafe
    <2> QED BY <1>1, <2>1, <2>2
  <1>6. CASE SendWait
    <2>1. Lost => Lost'
      BY <1>6 DEF SendWait, FallBack, Lost
    <2>2. CASE ~Lost /\ ~Lost'
      BY <1>3, <1>6, <2>2, SendWaitSafe
    <2> QED BY <1>1, <2>1, <2>2
  <1>7. CASE Submit
    <2>1. UNCHANGED <<vram, refused, textures>> /\ (mixed' = mixed \/ mixed')
      BY <1>7 DEF Submit, FallBack, TypeOK, GsType
    <2> QED BY <1>1, <1>2, <2>1 DEF Lost
  <1>8. ASSUME Calls PROVE TexturesIntact'
    <2>1. CASE \E name \in Names, pages \in TexturePages, n \in Images, clut \in Nat :
                 Upload(name, pages, n, clut)
      BY <1>2, <2>1, UploadBegins
    <2>2. CASE \E first \in Rows, last \in Rows, color \in Colors : DrawRows(first, last, color)
      BY <1>2, <2>2 DEF DrawRows
    <2>3. CASE \/ \E standard \in {"ntsc", "pal"}, height \in Heights :
                    VideoInitRefused(standard, height) \/ ef2_video_init(standard, height)
               \/ ef2_video_reset_texture_allocator
      BY <1>1, <2>3 DEF VideoInitRefused, ef2_video_init, ef2_video_reset_texture_allocator, Lost
    <2>4. CASE \/ ef2_video_wait_vsync
               \/ ef2_gif_dma_reset_stats \/ ef2_gif_dma_submit_qwords \/ ef2_gif_dma_wait
               \/ \E enabled \in BOOLEAN : ef2_video_set_double_buffering(enabled)
      BY <1>2, <2>4 DEF ef2_video_wait_vsync,
           ef2_video_set_double_buffering, ef2_gif_dma_reset_stats, ef2_gif_dma_submit_qwords,
           ef2_gif_dma_wait
    <2> QED BY <1>8, <2>1, <2>2, <2>3, <2>4, QuietCalls
  <1>9. CASE InitDma \/ AppInit \/ AppSubmit \/ AppWait \/ VSyncTimeout \/ VSyncSeen
             \/ ef2_video_present
    <2>1. UNCHANGED <<vram, mixed, refused, textures>>
      BY <1>9 DEF InitDma, AppInit, AppSubmit, AppWait, VSyncTimeout, VSyncSeen, ef2_video_present
    <2> QED BY <1>2, <2>1
  <1>10. CASE VSync \/ UNCHANGED vars
    BY <1>2, <1>10 DEF VSync, vars
  <1> QED BY <1>4, <1>5, <1>6, <1>7, <1>8, <1>9, <1>10 DEF Next, Progress

\* A texture keeps its image and its colours until the allocator is reset, whatever is
\* drawn or uploaded after it, for every size of memory, mode, image and chunk.
THEOREM TexturesSafe == Spec => []TexturesIntact
  <1>1. TypeOK /\ TypeOK' /\ MemoryInv /\ TexturesIntact /\ [Next]_vars => TexturesIntact'
    BY IntactStep
  <1> QED BY <1>1, MemoryInit, MemoryInvariant, PTL DEF Spec

\* What the screen shows is out of reach while there is a frame to draw to behind it.
LEMMA ShownOutOfReach ==
  ASSUME TypeOK, MemoryInv, double, pc # "init",
         \A b \in Blocks : vram'[b] # vram[b] => Writable(b)
  PROVE  \A b \in 0 .. layout_rows * PageBlocks - 1 :
           vram'[dispfb * PageBlocks + b] = vram[dispfb * PageBlocks + b]
  <1>1. /\ FrameBlocks \in Nat /\ 2 * FrameBlocks <= VramBlocks /\ VramBlocks \in Nat
        /\ Frame(0) * PageBlocks = 0 /\ Frame(1) * PageBlocks = FrameBlocks
    BY FrameBlocksNat, FramesApart DEF TypeOK
  <1>2. dispfb = Frame(display) /\ draw # display /\ display \in {0, 1} /\ draw \in {0, 1}
    BY DEF MemoryInv, Framing, TypeOK, FrameType
  <1>3. PICK s \in {0, FrameBlocks}, f \in {0, FrameBlocks} :
          /\ s = dispfb * PageBlocks /\ f = Frame(draw) * PageBlocks
          /\ s = f + FrameBlocks \/ f = s + FrameBlocks
    <2>1. CASE display = 0 /\ draw = 1
      <3>1. dispfb * PageBlocks = 0 /\ Frame(draw) * PageBlocks = FrameBlocks
        BY <1>1, <1>2, <2>1
      <3> QED BY <1>1, <3>1
    <2>2. CASE display = 1 /\ draw = 0
      <3>1. dispfb * PageBlocks = FrameBlocks /\ Frame(draw) * PageBlocks = 0
        BY <1>1, <1>2, <2>2
      <3> QED BY <1>1, <3>1
    <2> QED BY <1>2, <2>1, <2>2
  <1>4. cursor \in Nat /\ 2 * FrameBlocks <= cursor
    BY <1>1 DEF TypeOK, TexType, MemoryInv, Placement
  <1>5. ASSUME NEW b \in 0 .. FrameBlocks - 1 PROVE s + b \in Blocks /\ ~Writable(s + b)
    <2>1. s + b \in Int /\ 0 <= s + b /\ s + b < 2 * FrameBlocks
      BY <1>1, <1>3, <1>5
    <2>2. s + b \notin f .. f + FrameBlocks - 1
      BY <1>1, <1>3, <1>5
    <2>3. ~(cursor <= s + b) /\ s + b < VramBlocks
      BY <1>1, <1>4, <2>1
    <2> QED BY <1>1, <1>3, <2>1, <2>2, <2>3 DEF Writable, Drawable, Blocks
  <1>6. layout_rows * PageBlocks = FrameBlocks
    BY DEF FrameBlocks
  <1> QED BY <1>3, <1>5, <1>6

\* The picture depends on the blocks shown only.
LEMMA ShownIs ==
  ASSUME UNCHANGED <<layout_rows, dispfb>>,
         \A b \in 0 .. layout_rows * PageBlocks - 1 :
           vram'[dispfb * PageBlocks + b] = vram[dispfb * PageBlocks + b]
  PROVE  Shown' = Shown
  BY DEF Shown

\* With two frames in use, only present changes the picture.
LEMMA PictureStep ==
  ASSUME TypeOK, TypeOK', MemoryInv, [Next]_vars, double, double', ~Lost, ~Lost', Shown' # Shown
  PROVE  pc = "present"
  <1> SUFFICES ASSUME pc # "present" PROVE FALSE
    OBVIOUS
  <1> USE DEF frameVars, dmaVars, gsVars, texVars, syncVars
  <1>1. ASSUME UNCHANGED <<vram, layout_rows, dispfb>> PROVE FALSE
    BY <1>1 DEF Shown
  <1>2. ASSUME UNCHANGED <<layout_rows, dispfb>>,
               \A b \in Blocks : vram'[b] # vram[b] => Writable(b), pc # "init"
        PROVE  FALSE
    BY <1>2, ShownOutOfReach, ShownIs
  <1>3. pc # "init"
    BY DEF MemoryInv, Framing
  <1>4. ASSUME DmaEnd PROVE FALSE
    BY <1>2, <1>3, <1>4, DmaEndSafe DEF DmaEnd
  <1>5. ASSUME Fifo PROVE FALSE
    BY <1>2, <1>3, <1>5, FifoSafe DEF Fifo
  <1>6. ASSUME ef2_video_reset_texture_allocator PROVE FALSE
    <2>1. UNCHANGED <<layout_rows, dispfb>> /\ Forget(2 * layout_rows)
      BY <1>6 DEF ef2_video_reset_texture_allocator
    <2>2. /\ FrameBlocks \in Nat /\ 2 * layout_rows * PageBlocks = 2 * FrameBlocks
          /\ cursor \in Nat /\ 2 * FrameBlocks <= cursor
      BY FrameBlocksNat DEF TypeOK, TexType, MemoryInv, Placement
    <2>3. \A b \in Blocks : b < 2 * FrameBlocks => vram'[b] = vram[b]
      BY <2>1, <2>2 DEF Forget
    <2>4. \A b \in 0 .. layout_rows * PageBlocks - 1 :
            vram'[dispfb * PageBlocks + b] = vram[dispfb * PageBlocks + b]
      <3>1. /\ FrameBlocks \in Nat /\ 2 * FrameBlocks <= VramBlocks /\ VramBlocks \in Nat
            /\ dispfb * PageBlocks \in {0, FrameBlocks}
        BY <1>3, FrameBlocksNat, FramesApart DEF TypeOK, FrameType, MemoryInv, Framing
      <3>2. PICK s \in {0, FrameBlocks} : s = dispfb * PageBlocks
        BY <3>1
      <3>3. \A b \in 0 .. FrameBlocks - 1 : s + b \in Blocks /\ s + b < 2 * FrameBlocks
        BY <3>1 DEF Blocks
      <3> QED BY <2>3, <3>2, <3>3 DEF FrameBlocks
    <2> QED BY <2>1, <2>4, ShownIs
  <1>7. ASSUME Calls PROVE FALSE
    <2>1. CASE \E name \in Names, pages \in TexturePages, n \in Images, clut \in Nat :
                 Upload(name, pages, n, clut)
      BY <1>1, <2>1, UploadBegins
    <2>2. CASE \E first \in Rows, last \in Rows, color \in Colors : DrawRows(first, last, color)
      BY <1>1, <2>2 DEF DrawRows
    <2>3. CASE \E standard \in {"ntsc", "pal"}, height \in Heights :
                 VideoInitRefused(standard, height) \/ ef2_video_init(standard, height)
      BY <2>3 DEF VideoInitRefused, ef2_video_init, Lost
    <2>4. CASE \/ ef2_video_wait_vsync
               \/ ef2_gif_dma_reset_stats \/ ef2_gif_dma_submit_qwords \/ ef2_gif_dma_wait
               \/ \E enabled \in BOOLEAN : ef2_video_set_double_buffering(enabled)
      BY <1>1, <2>4 DEF ef2_video_wait_vsync,
           ef2_video_set_double_buffering, ef2_gif_dma_reset_stats, ef2_gif_dma_submit_qwords,
           ef2_gif_dma_wait
    <2> QED BY <1>6, <1>7, <2>1, <2>2, <2>3, <2>4, QuietCalls
  <1>8. ASSUME \/ InitDma \/ Submit \/ SendWait \/ AppInit \/ AppSubmit \/ AppWait \/ VSyncTimeout
               \/ VSyncSeen \/ ef2_video_present
        PROVE  FALSE
    <2>1. UNCHANGED <<vram, layout_rows, dispfb>>
      BY <1>3, <1>8 DEF InitDma, Submit, SendWait, AppInit, AppSubmit, AppWait, VSyncTimeout,
           VSyncSeen, ef2_video_present
    <2> QED BY <1>1, <2>1
  <1>9. ASSUME VSync \/ UNCHANGED vars PROVE FALSE
    <2>1. UNCHANGED <<vram, layout_rows, dispfb>>
      BY <1>9 DEF VSync, vars
    <2> QED BY <1>1, <2>1
  <1> QED BY <1>4, <1>5, <1>7, <1>8, <1>9 DEF Next, Progress

\* With double buffering, drawing and uploading stay out of sight: the picture changes
\* only in ef2_video_present, for every size of memory, mode, image and chunk.
THEOREM PictureSafe == Spec => ShownOnlyByPresent
  <1>1. TypeOK /\ TypeOK' /\ MemoryInv /\ [Next]_vars
          => [double /\ double' /\ ~Lost /\ ~Lost' /\ Shown' # Shown => pc = "present"]_vars
    BY PictureStep
  <1> QED BY <1>1, MemoryInvariant, PTL DEF Spec, ShownOnlyByPresent
-----------------------------------------------------------------------------
(* How long a call takes.                                                  *)

\* The steps the thread has left, at most: a packet is submitted, waited for and,
\* where that times out, written to the FIFO.
StepsLeft ==
  CASE pc = "idle"       -> 0
    [] pc = "init"       -> 4
    [] pc = "submit"     -> 3 * Len(todo)
    [] pc = "sent"       -> 3 * Len(todo) - 1
    [] pc = "fifo"       -> 3 * Len(todo) - 2
    [] pc = "app_init"   -> 3
    [] pc = "app_submit" -> 2
    [] pc = "app_wait"   -> 1
    [] pc = "vsync"      -> 1
    [] pc = "present"    -> 1

\* Its value at each place.
LEMMA StepsAre ==
  /\ pc = "idle" => StepsLeft = 0
  /\ pc = "init" => StepsLeft = 4
  /\ pc = "submit" => StepsLeft = 3 * Len(todo)
  /\ pc = "sent" => StepsLeft = 3 * Len(todo) - 1
  /\ pc = "fifo" => StepsLeft = 3 * Len(todo) - 2
  /\ pc = "app_init" => StepsLeft = 3
  /\ pc = "app_submit" => StepsLeft = 2
  /\ pc \in {"app_wait", "vsync", "present"} => StepsLeft = 1
  <1>1. /\ pc = "idle" => StepsLeft = 0
        /\ pc = "init" => StepsLeft = 4
        /\ pc = "submit" => StepsLeft = 3 * Len(todo)
        /\ pc = "sent" => StepsLeft = 3 * Len(todo) - 1
    BY DEF StepsLeft
  <1>2. /\ pc = "fifo" => StepsLeft = 3 * Len(todo) - 2
        /\ pc = "app_init" => StepsLeft = 3
        /\ pc = "app_submit" => StepsLeft = 2
    BY DEF StepsLeft
  <1>3. /\ pc = "app_wait" => StepsLeft = 1
        /\ pc = "vsync" => StepsLeft = 1
        /\ pc = "present" => StepsLeft = 1
    BY DEF StepsLeft
  <1> QED BY <1>1, <1>2, <1>3

\* They are a number, and none are left exactly between two calls.
LEMMA StepsAreNumbers ==
  ASSUME CallType PROVE StepsLeft \in Nat /\ (StepsLeft = 0 <=> pc = "idle")
  <1>1. pc \in {"submit", "sent", "fifo"} => Len(todo) \in Nat \ {0}
    BY EmptySeq DEF CallType
  <1> QED BY <1>1, StepsAre DEF CallType

\* The value after a step.
LEMMA StepsAreAfter ==
  /\ pc' = "idle" => StepsLeft' = 0
  /\ pc' = "submit" => StepsLeft' = 3 * Len(todo')
  /\ pc' = "sent" => StepsLeft' = 3 * Len(todo') - 1
  /\ pc' = "fifo" => StepsLeft' = 3 * Len(todo') - 2
  /\ pc' = "app_submit" => StepsLeft' = 2
  /\ pc' = "app_wait" => StepsLeft' = 1
  <1>1. /\ pc' = "idle" => StepsLeft' = 0
        /\ pc' = "submit" => StepsLeft' = 3 * Len(todo')
        /\ pc' = "sent" => StepsLeft' = 3 * Len(todo') - 1
    BY DEF StepsLeft
  <1>2. /\ pc' = "fifo" => StepsLeft' = 3 * Len(todo') - 2
        /\ pc' = "app_submit" => StepsLeft' = 2
        /\ pc' = "app_wait" => StepsLeft' = 1
    BY DEF StepsLeft
  <1> QED BY <1>1, <1>2

\* Each step of the thread inside a call uses one up.
LEMMA ProgressSteps == ASSUME CallType, Progress PROVE StepsLeft' < StepsLeft
  <1>1. pc \in {"submit", "sent", "fifo"} => todo \in Seq(PacketType) /\ Len(todo) \in Nat \ {0}
    BY EmptySeq DEF CallType
  \* A packet out of the way takes its three steps with it.
  <1>2. ASSUME pc \in {"sent", "fifo"}, Sent
        PROVE  StepsLeft' \in Int /\ StepsLeft' <= 3 * (Len(todo) - 1)
    <2>1. Len(todo') = Len(todo) - 1
      <3>1. Len(Tail(todo)) = Len(todo) - 1
        BY <1>1, <1>2
      <3> QED BY <1>2, <3>1 DEF Sent
    <2>2. CASE Len(todo) > 1
      <3>1. pc' = "submit" \/ pc' = "fifo"
        BY <1>2, <2>2 DEF Sent, SendBy
      <3> QED BY <1>1, <1>2, <2>1, <3>1, StepsAreAfter
    <2>3. CASE ~(Len(todo) > 1)
      <3>1. pc' = "idle"
        BY <1>2, <2>3 DEF Sent
      <3> QED BY <1>1, <1>2, <3>1, StepsAreAfter
    <2> QED BY <2>2, <2>3
  <1>3. ASSUME InitDma PROVE StepsLeft' < StepsLeft
    <2>1. pc = "init" /\ (pc' = "submit" \/ pc' = "fifo") /\ Len(todo') = 1
      BY <1>3 DEF InitDma, SendBy
    <2> QED BY <2>1, StepsAre, StepsAreAfter
  <1>4. ASSUME Submit PROVE StepsLeft' < StepsLeft
    <2>1. pc = "submit" /\ (pc' = "sent" \/ pc' = "fifo") /\ todo' = todo
      BY <1>4 DEF Submit, FallBack
    <2> QED BY <1>1, <2>1, StepsAre, StepsAreAfter
  <1>5. ASSUME SendWait PROVE StepsLeft' < StepsLeft
    <2>1. pc = "sent" /\ (Sent \/ (pc' = "fifo" /\ todo' = todo))
      BY <1>5 DEF SendWait, FallBack
    <2>2. Len(todo) \in Nat \ {0} /\ StepsLeft = 3 * Len(todo) - 1
      BY <1>1, <2>1, StepsAre
    <2>3. CASE Sent
      <3>1. StepsLeft' \in Int /\ StepsLeft' <= 3 * (Len(todo) - 1)
        BY <1>2, <2>1, <2>3
      <3> QED BY <2>2, <3>1
    <2>4. CASE pc' = "fifo" /\ todo' = todo
      <3>1. StepsLeft' = 3 * Len(todo) - 2
        BY <2>4, StepsAreAfter
      <3> QED BY <2>2, <3>1
    <2> QED BY <2>1, <2>3, <2>4
  <1>6. ASSUME Fifo PROVE StepsLeft' < StepsLeft
    <2>1. pc = "fifo" /\ Sent
      BY <1>6 DEF Fifo
    <2>2. Len(todo) \in Nat \ {0} /\ StepsLeft = 3 * Len(todo) - 2
      BY <1>1, <2>1, StepsAre
    <2>3. StepsLeft' \in Int /\ StepsLeft' <= 3 * (Len(todo) - 1)
      BY <1>2, <2>1
    <2> QED BY <2>2, <2>3
  <1>7. ASSUME AppInit \/ AppSubmit \/ AppWait PROVE StepsLeft' < StepsLeft
    <2>1. \/ pc = "app_init" /\ (pc' = "app_submit" \/ pc' = "idle")
          \/ pc = "app_submit" /\ (pc' = "app_wait" \/ pc' = "idle")
          \/ pc = "app_wait" /\ pc' = "idle"
      BY <1>7 DEF AppInit, AppSubmit, AppWait
    <2> QED BY <2>1, StepsAre, StepsAreAfter
  <1>8. ASSUME VSyncTimeout \/ VSyncSeen \/ ef2_video_present PROVE StepsLeft' < StepsLeft
    <2>1. pc \in {"vsync", "present"} /\ pc' = "idle"
      BY <1>8 DEF VSyncTimeout, VSyncSeen, ef2_video_present
    <2> QED BY <2>1, StepsAre, StepsAreAfter
  <1> QED BY <1>3, <1>4, <1>5, <1>6, <1>7, <1>8 DEF Progress

\* A call ends after at most three steps of the thread for each of its packets: each
\* uses one up, and nothing the DMA or the display does meanwhile gives one back,
\* whatever times out.
THEOREM CallsEnd ==
  Spec => /\ [](StepsLeft \in Nat /\ (StepsLeft = 0 <=> pc = "idle"))
          /\ [][pc # "idle" => IF Progress THEN StepsLeft' < StepsLeft
                               ELSE StepsLeft' = StepsLeft]_vars
  <1>1. TypeOK => StepsLeft \in Nat /\ (StepsLeft = 0 <=> pc = "idle")
    BY StepsAreNumbers DEF TypeOK
  <1>2. TypeOK /\ [Next]_vars
        => [pc # "idle" => IF Progress THEN StepsLeft' < StepsLeft
                           ELSE StepsLeft' = StepsLeft]_vars
    <2> SUFFICES ASSUME TypeOK, Next, pc # "idle", ~Progress PROVE StepsLeft' = StepsLeft
      BY ProgressSteps DEF TypeOK
    <2>1. Calls => pc = "idle"
      <3>1. /\ \A standard, height : VideoInitRefused(standard, height) => pc = "idle"
            /\ \A standard, height : ef2_video_init(standard, height) => pc = "idle"
            /\ \A enabled : ef2_video_set_double_buffering(enabled) => pc = "idle"
        BY DEF VideoInitRefused, ef2_video_init, ef2_video_set_double_buffering
      <3>2. \A first, last, color : DrawRows(first, last, color) => pc = "idle"
        BY DEF DrawRows
      <3>3. \A name, pages, n, clut : Upload(name, pages, n, clut) => pc = "idle"
        BY DEF Upload
      <3>4. \/ ef2_video_wait_vsync \/ ef2_video_reset_texture_allocator
            \/ ef2_gif_dma_reset_stats \/ ef2_gif_dma_submit_qwords \/ ef2_gif_dma_wait
            => pc = "idle"
        BY DEF ef2_video_wait_vsync, ef2_video_reset_texture_allocator, ef2_gif_dma_reset_stats,
             ef2_gif_dma_submit_qwords, ef2_gif_dma_wait
      <3> QED BY <3>1, <3>2, <3>3, <3>4 DEF Calls, ef2_video_draw_rect, ef2_video_draw_line,
                ef2_video_draw_texture, ef2_video_draw_texture_region,
                ef2_video_upload_rgba32, ef2_video_upload_indexed8, ef2_video_upload_indexed4
    <2>2. pc' = pc /\ todo' = todo
      BY <2>1 DEF Next, DmaEnd, VSync
    <2> QED BY <2>2 DEF StepsLeft
  <1> QED BY <1>1, <1>2, VideoTypeCorrect, PTL DEF Spec
=============================================================================
