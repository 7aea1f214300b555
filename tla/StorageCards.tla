---------------------------- MODULE StorageCards ----------------------------
(***************************************************************************)
(* What can sit in the two memory card ports, as src/iop/storage talks to  *)
(* it: PS2 memory cards, MMCE card emulators, SD cards in an MX4SIO        *)
(* adapter.  Each operator gives the answers a card may give to one        *)
(* exchange: the card afterwards and the reply.  A line nobody drives      *)
(* stays at 0xFF: "silent", <<>> for data, -1 for a number.                *)
(***************************************************************************)
EXTENDS Integers, Sequences, FiniteSets

CONSTANTS MemoryCards,  \* PS2 memory cards, of two pages
          Emulators,    \* MMCE devices, whose virtual cards have one page
          SdTypes,      \* SD cards, named by their type: "mmc", "v1", "v2", "hc"
          Chunks,       \* chunks of MC_PIO_READ_CHUNK bytes in a page
          SectorCount,  \* sectors of an SD card
          MisreadCounts, \* sectors that bytes of a block give when taken for a CSD
          FileSize      \* length of the file on an emulator, in blocks of 256 bytes

\* Other names than these would be cards mx_initialize knows no type for.
ASSUME CardsAssumption == SdTypes \subseteq {"mmc", "v1", "v2", "hc"} /\ MisreadCounts \subseteq Nat

Nothing == -1
Words   == {0, 1}  \* contents of half a sector: the old ones, the new ones
Sectors == 0 .. SectorCount - 1

(* kind and identity; the page or sector under transfer and how far the     *)
(* transfer is; an SD card's level (0 off, 1 idle, 2 ready) and memory; an  *)
(* emulator's file position.                                                *)
CardOf(kind, id) ==
  [kind |-> kind, id |-> id, sel |-> Nothing, step |-> 0, flow |-> "quiet",
   level |-> 0, file |-> Nothing, got |-> <<>>,
   disk |-> IF kind = "sd" THEN [s \in Sectors |-> <<0, 0>>] ELSE <<>>]

NoCard == CardOf("none", "none")
AllCards == {NoCard} \cup {CardOf("mc", c) : c \in MemoryCards}
            \cup {CardOf("mmce", e) : e \in Emulators} \cup {CardOf("sd", t) : t \in SdTypes}

Ans(c, r) == [card |-> c, reply |-> r]
Silent(c) == {Ans(c, "silent")}
Padding(c) == {Ans(c, <<>>)}  \* 0xFF where data is expected
Quiet(c)  == [c EXCEPT !.flow = "quiet", !.sel = Nothing, !.step = 0, !.got = <<>>]
-----------------------------------------------------------------------------
(* Native memory card commands; an emulator answers them too.              *)

Native(c)  == c.kind \in {"mc", "mmce"}
PagesOf(c) == IF c.kind = "mc" THEN 2 ELSE 1

Terminator(c) == IF Native(c) THEN {Ans(c, "ok"), Ans(c, "mismatch")} ELSE Silent(c)
Geometry(c)   == IF Native(c) THEN {Ans(c, "ok")} ELSE Silent(c)

SelectPage(c, page) ==
  IF Native(c) /\ page < PagesOf(c)
  THEN {Ans([c EXCEPT !.sel = page, !.step = 0], "ok")}
  ELSE Silent(c)

\* The next chunk of the selected page.
NextChunk(c) ==
  IF Native(c) /\ c.sel # Nothing /\ c.step < Chunks
  THEN {Ans([c EXCEPT !.step = @ + 1], <<c.id, c.sel, c.step>>)}
  ELSE Padding(c)

EndTransfer(c) ==
  IF Native(c) /\ c.sel # Nothing
  THEN {Ans([c EXCEPT !.sel = Nothing, !.step = 0], "ok")}
  ELSE Silent(c)
-----------------------------------------------------------------------------
(* MMCE commands.  An emulator left in the middle of a file operation      *)
(* takes the next command or refuses it once.                              *)

Emulates(c, answers) ==
  IF c.kind # "mmce" THEN Silent(c)
  ELSE answers \cup (IF c.flow = "quiet" THEN {} ELSE Silent(Quiet(c)))

Ping(c)     == Emulates(c, {Ans(Quiet(c), "ok")})
OneShot(c)  == Emulates(c, {Ans(Quiet(c), "ok")})
CloseFile(c) == Emulates(c, {Ans([Quiet(c) EXCEPT !.file = Nothing],
                                 IF c.file = Nothing THEN "refused" ELSE "ok")})
SeekFile(c, to) ==
  Emulates(c, {IF c.file = Nothing THEN Ans(Quiet(c), "refused")
               ELSE Ans([Quiet(c) EXCEPT !.file = to], "ok")})

OpenFile(c) == Emulates(c, {Ans([c EXCEPT !.flow = "path"], "ok")})
TakePath(c) == IF c.flow = "path" THEN {Ans([c EXCEPT !.flow = "end"], "ok")} ELSE Silent(c)
OpenEnd(c)  == IF c.flow = "end"
               THEN {Ans([Quiet(c) EXCEPT !.file = 0], "ok"), Ans(Quiet(c), "silent")}
               ELSE Silent(c)

\* The header of a read or write; step counts what was moved, sel is where it began.
FileHeader(c, flow) ==
  Emulates(c, {IF c.file = Nothing THEN Ans(Quiet(c), "refused")
               ELSE Ans([c EXCEPT !.flow = flow, !.step = 0], "ok")})

\* A block of a read; past the end of the file the line carries padding.
SendBlock(c) ==
  IF c.flow = "read" /\ c.file < FileSize
  THEN {Ans([c EXCEPT !.file = @ + 1, !.step = @ + 1], <<c.id, c.file>>)}
  ELSE Padding(c)

FileReady(c) == IF c.flow = "write" THEN {Ans(c, "ok"), Ans(c, "wait")} ELSE Silent(c)

\* A block of a write; a file that cannot grow drops it.
TakeBlock(c) ==
  IF c.flow = "write" /\ c.file < FileSize
  THEN {Ans([c EXCEPT !.file = @ + 1, !.step = @ + 1], "ok")}
  ELSE {Ans(c, "ok")}

\* The footer carries the number of blocks moved.
Footer(c) == IF c.flow \in {"read", "write"} THEN {Ans(Quiet(c), c.step)} ELSE {Ans(c, -1)}
-----------------------------------------------------------------------------
(* SD commands.  Replies: "r0" and "r1" (ready, idle), "other" (an error), *)
(* "silent".  A card in the middle of a block has two ways to take a       *)
(* command: as the card it is once the block is over, or with bytes of the *)
(* block, any of which may seem to be the reply; a card that takes a block *)
(* or stores one drives the line low or not at all.  What is checked over  *)
(* several bytes (memory card and MMCE commands) is never mistaken so.     *)

Noise(c) == {"r0", "other", "silent"} \cup (IF c.flow = "send" THEN {"r1", "hc"} ELSE {})
Garbled(c, replies) == {Ans(d, r) : d \in {c, Quiet(c)}, r \in replies}
Obeys(c, answers) == IF c.kind # "sd" THEN Silent(c)
                     ELSE answers \cup (IF c.flow = "quiet" THEN {} ELSE Garbled(c, Noise(c)))

Reset(c)     == Obeys(c, {Ans([Quiet(c) EXCEPT !.level = 1], "r1")})
Version(c)   == Obeys(c, {Ans(Quiet(c), IF c.level = 0 THEN "silent"
                                        ELSE IF c.level = 1 /\ c.id \in {"v2", "hc"} THEN "r1" ELSE "other")})

\* The initialisation loops: ACMD41 for cards of version 2, for those of version
\* 1, and CMD1.  A card that is ready answers CMD55 with 0: the first loop
\* fails on it, the second goes on to its end and takes that 0 for success.
GetsReady(c, takes) ==
  Obeys(c, IF c.level = 0 THEN Silent(Quiet(c))
           ELSE IF takes THEN {Ans([Quiet(c) EXCEPT !.level = 2], "r0")}
           ELSE {Ans(Quiet(c), "other")})

V2Loop(c)  == GetsReady(c, c.level = 1 /\ c.id \in {"v2", "hc"})
V1Loop(c)  == GetsReady(c, (c.level = 1 /\ c.id \in {"v1", "v2"}) \/ (c.level = 2 /\ c.id # "mmc"))
MmcLoop(c) == GetsReady(c, c.level = 2 \/ c.id = "mmc")

HighCapacity(c) == Obeys(c, {Ans(Quiet(c), IF c.level < 2 THEN "other"
                                           ELSE IF c.id = "hc" THEN "hc" ELSE "r0")})
BlockLength(c)  == Obeys(c, {Ans(Quiet(c), IF c.level = 2 THEN "r0" ELSE "other")})

\* CMD9 and the register: the number of sectors it gives.
Capacity(c) ==
  IF c.kind # "sd" THEN {Ans(c, Nothing)}
  ELSE {Ans(Quiet(c), IF c.level = 2 THEN SectorCount ELSE Nothing)}
       \cup (IF c.flow = "quiet" THEN {} ELSE Garbled(c, MisreadCounts \cup {Nothing}))

\* The sector at an address: high capacity cards count sectors, others bytes.
SectorAt(c, address) ==
  IF c.id = "hc" THEN address
  ELSE IF address % 512 = 0 THEN address \div 512 ELSE Nothing

\* CMD17 and CMD24.
Transfer(c, address, flow) ==
  Obeys(c, {IF c.level = 2 /\ SectorAt(c, address) \in Sectors
            THEN Ans([Quiet(c) EXCEPT !.flow = flow, !.sel = SectorAt(c, address)], "r0")
            ELSE Ans(Quiet(c), IF c.level = 0 THEN "silent" ELSE "other")})

\* Waiting for 0xFF: a data byte can be 0xFF, a busy card may stay busy.
IdleLine(c) ==
  IF c.flow = "send" THEN {Ans(c, "idle"), Ans(Quiet(c), "idle")}
  ELSE IF c.flow = "busy" THEN {Ans(Quiet(c), "idle"), Ans(c, "never")}
  ELSE {Ans(c, "idle")}

\* Waiting for the start token 0xFE, which a data byte can be, too.
StartToken(c) ==
  IF c.flow # "send" THEN {Ans(c, "never")}
  ELSE IF c.step = 0 THEN {Ans([c EXCEPT !.step = 1], "token")}
  ELSE {Ans(c, "token"), Ans(Quiet(c), "never")}

SendHalf(c) ==
  IF c.flow = "send" /\ c.step \in {1, 2}
  THEN {Ans([c EXCEPT !.step = @ + 1], <<c.id, c.sel, c.step, c.disk[c.sel][c.step]>>)}
  ELSE Padding(c)

SendCrc(c) == {Ans(IF c.flow = "send" THEN Quiet(c) ELSE c, "ok")}

TakeToken(c)   == {Ans(IF c.flow = "recv" /\ c.step = 0 THEN [c EXCEPT !.step = 1] ELSE c, "ok")}
TakeHalf(c, w) == {Ans(IF c.flow = "recv" /\ c.step \in {1, 2}
                       THEN [c EXCEPT !.step = @ + 1, !.got = Append(@, w)] ELSE c, "ok")}
TakeCrc(c)     == {Ans(IF c.flow = "recv" /\ c.step = 3 THEN [c EXCEPT !.step = 4] ELSE c, "ok")}

\* The data response: a complete block is stored or rejected; a byte of an
\* abandoned block can look like an acceptance.
DataResponse(c) ==
  IF c.flow = "recv" /\ c.step = 4
  THEN {Ans([Quiet(c) EXCEPT !.flow = "busy", !.disk[c.sel] = c.got], "accepted"),
        Ans(Quiet(c), "rejected")}
  ELSE IF c.flow = "send" THEN {Ans(c, "accepted"), Ans(Quiet(c), "rejected")}
  ELSE {Ans(c, "rejected")}
=============================================================================
