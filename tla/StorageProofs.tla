---------------------------- MODULE StorageProofs ----------------------------
(***************************************************************************)
(* Proofs about the storage service and its client, for every set of       *)
(* cards, page, sector and file size and any number of faults: a page that *)
(* is read is the page asked for, the globals of the SD protocol fit the   *)
(* device table and the card, no transfer counts beyond its size, files    *)
(* are read and written in order, a scan nothing disturbs lists what is    *)
(* plugged in, sectors are those asked for, and every operation ends.      *)
(***************************************************************************)
EXTENDS StorageClient, SequenceTheorems, TLAPS

USE DEF Ports, MxPort
-----------------------------------------------------------------------------
(* The inductive invariant.                                                *)

Fields    == {"kind", "id", "sel", "step", "flow", "level", "file", "got", "disk"}
IsCard(c) == DOMAIN c = Fields
CardIds   == MemoryCards \cup Emulators

\* The ports hold cards, and those that answer card commands have a name.
CardsFit == /\ DOMAIN ports = Ports
            /\ \A p \in Ports : IsCard(ports[p]) /\ (Native(ports[p]) => ports[p].id \in CardIds)

ScanPcs  == {"ping", "terminator", "geometry", "card", "channel", "status"}
PagePcs  == {"select", "chunk", "finish"}
ReadyPcs == {"mx_version", "mx_v2", "mx_ocr", "mx_v1", "mx_mmc", "mx_block", "mx_csd"}
MxPcs    == {"mx_wake", "mx_reset"} \cup ReadyPcs
BlockPcs == {"rd_wait", "rd_cmd", "rd_token", "rd_half", "rd_crc",
             "wr_wait", "wr_cmd", "wr_token", "wr_half", "wr_crc", "wr_response", "wr_busy",
             "mmce_one", "open_header", "open_path", "open_end",
             "read_header", "read_block", "write_header", "write_ready", "write_block"}

\* Each position serves the functions it belongs to.
Where == /\ pc \in {"idle", "replied"} \cup ScanPcs \cup PagePcs \cup MxPcs \cup BlockPcs
         /\ port \in Ports
         /\ pc \in ScanPcs \cup MxPcs => req.fn = "scan"
         /\ pc \in PagePcs => req.fn \in {"scan", "read_page"}
         /\ pc \in BlockPcs => req.fn \notin {"scan", "read_page"}
         /\ pc \in MxPcs => port = MxPort

Kinds   == {"mc", "mmce"}
Devices == [kind : {"none", "mx"} \cup Kinds, port : Ports, pages : 0..2, checked : BOOLEAN, sectors : Nat]
Mxs     == [ok : BOOLEAN, type : {"sc", "hc"}, count : Nat, torn : BOOLEAN]
InScan  == pc \in ScanPcs \cup MxPcs \/ (pc \in PagePcs /\ req.fn = "scan")

\* The table, and in the middle of a scan: no SD card is listed yet.
TableFits ==
  /\ devices \in Seq(Devices) /\ count \in 0 .. Len(devices) /\ info \in Devices
  /\ mx \in Mxs
  /\ \A k \in 1 .. Len(devices) : devices[k].kind = "mx" => mx.ok /\ mx.count = devices[k].sectors
  /\ InScan => \A k \in 1 .. Len(devices) : devices[k].kind # "mx"
  /\ InScan /\ pc # "ping" => info.kind \in Kinds

\* A ready SD card is addressed in its own unit; on the way there the globals say
\* that none is known.  All this if the card was between two commands at CMD0: it
\* is so from then on, and the loops for older cards find no ready SDHC card.
Addressed(c) == c.level = 2 => (mx.type = "hc" <=> c.id = "hc")
Unready(c)   == c.id = "hc" => c.level # 2
OldPcs       == {"mx_version", "mx_v1", "mx_mmc"}
UnitFits == /\ mx.ok /\ ~mx.torn => mx.count = SectorCount /\ Addressed(ports[MxPort])
            /\ pc \in MxPcs \ {"mx_wake"} => ~mx.ok
            /\ pc \in ReadyPcs /\ ~mx.torn => ports[MxPort].flow = "quiet"
            /\ pc \in OldPcs /\ ~mx.torn => Unready(ports[MxPort])
            /\ pc \in {"mx_block", "mx_csd"} /\ ~mx.torn => Addressed(ports[MxPort])

PageOf(c, n) == [k \in 1..n |-> <<c, PageAsked, k - 1>>]

\* The data read so far is the first i chunks of a page, and a card that is
\* still sending is the one they came from, at chunk i.
Reading == pc \in {"chunk", "finish"} =>
             /\ i \in 0..Chunks /\ (pc = "chunk" => i < Chunks) /\ (pc = "finish" => i = Chunks)
             /\ \E c \in CardIds :
                  /\ data = PageOf(c, i)
                  /\ Native(Card) /\ Card.sel # Nothing =>
                       Card.id = c /\ Card.sel = PageAsked /\ Card.step = i

StorageInv == CardsFit /\ Where /\ TableFits /\ UnitFits /\ Reading /\ PageIsAsked
-----------------------------------------------------------------------------
(* What exchanges leave alone.                                             *)

\* d is card c after an exchange; Same keeps the level of an SD card, too.
Still(c, d) == IsCard(d) /\ d.kind = c.kind /\ d.id = c.id
Same(c, d)  == Still(c, d) /\ d.level = c.level

PortsStill == DOMAIN ports' = Ports /\ \A p \in Ports : Still(ports[p], ports'[p])
PortsSame  == DOMAIN ports' = Ports /\ \A p \in Ports : Same(ports[p], ports'[p])

\* A card that abandons a transfer is the same card.
LEMMA QuietSame == ASSUME NEW c, IsCard(c) PROVE Same(c, Quiet(c))
  BY DEF IsCard, Fields, Still, Same, Quiet

\* Silence and padding leave a card alone.
LEMMA SilentSame ==
  ASSUME NEW c, IsCard(c)
  PROVE  /\ \A a \in Silent(c) : Same(c, a.card)
         /\ \A a \in Padding(c) : Same(c, a.card)
         /\ \A a \in Silent(Quiet(c)) : Same(c, a.card)
         /\ \A R : \A a \in Garbled(c, R) : Same(c, a.card)
  BY QuietSame DEF Silent, Padding, Garbled, Ans, Same, Still

\* The memory card commands move within a page.
LEMMA NativeSame ==
  ASSUME NEW c, IsCard(c), NEW n
  PROVE  /\ \A a \in Terminator(c) : Same(c, a.card)
         /\ \A a \in Geometry(c) : Same(c, a.card)
         /\ \A a \in SelectPage(c, n) : Same(c, a.card)
         /\ \A a \in NextChunk(c) : Same(c, a.card)
         /\ \A a \in EndTransfer(c) : Same(c, a.card)
  <1>1. /\ \A a \in Terminator(c) : Same(c, a.card)
        /\ \A a \in Geometry(c) : Same(c, a.card)
    BY SilentSame DEF Terminator, Geometry, Ans, Same, Still
  <1>0. \A m, r : Same(c, Ans([c EXCEPT !.sel = m, !.step = 0], r).card)
    BY DEF Ans, Same, Still, IsCard, Fields
  <1>2. \A a \in SelectPage(c, n) : Same(c, a.card)
    BY <1>0, SilentSame DEF SelectPage
  <1>3. \A a \in NextChunk(c) : Same(c, a.card)
    BY SilentSame DEF NextChunk, Ans, Same, Still, IsCard, Fields
  <1>4. \A a \in EndTransfer(c) : Same(c, a.card)
    BY <1>0, SilentSame DEF EndTransfer
  <1> QED BY <1>1, <1>2, <1>3, <1>4

\* So do the commands of an emulator.
LEMMA EmulatesSame ==
  ASSUME NEW c, IsCard(c), NEW S, \A a \in S : Same(c, a.card)
  PROVE  \A a \in Emulates(c, S) : Same(c, a.card)
  BY SilentSame DEF Emulates

\* The one-exchange commands of an emulator leave it the card it is.
LEMMA CommandSame ==
  ASSUME NEW c, IsCard(c)
  PROVE  /\ \A a \in Ping(c) : Same(c, a.card)
         /\ \A a \in OneShot(c) : Same(c, a.card)
         /\ \A a \in CloseFile(c) : Same(c, a.card)
         /\ \A n : \A a \in SeekFile(c, n) : Same(c, a.card)
  <1>1. \A r : Same(c, Ans(Quiet(c), r).card)
    BY QuietSame DEF Ans
  <1>2. \A a \in Ping(c) \cup OneShot(c) : Same(c, a.card)
    BY <1>1, EmulatesSame DEF Ping, OneShot
  <1>3. \A r : \A n : Same(c, Ans([Quiet(c) EXCEPT !.file = n], r).card)
    BY QuietSame DEF Ans, Same, Still, IsCard, Fields
  <1>4. \A a \in CloseFile(c) : Same(c, a.card)
    BY <1>3, EmulatesSame DEF CloseFile
  <1>5. ASSUME NEW n PROVE \A a \in SeekFile(c, n) : Same(c, a.card)
    BY <1>1, <1>3, EmulatesSame DEF SeekFile
  <1> QED BY <1>2, <1>4, <1>5

\* So do opening, reading and writing a file.
LEMMA FileSame ==
  ASSUME NEW c, IsCard(c)
  PROVE  /\ \A a \in OpenFile(c) : Same(c, a.card)
         /\ \A a \in TakePath(c) : Same(c, a.card)
         /\ \A a \in OpenEnd(c) : Same(c, a.card)
         /\ \A f : \A a \in FileHeader(c, f) : Same(c, a.card)
         /\ \A a \in SendBlock(c) : Same(c, a.card)
         /\ \A a \in FileReady(c) : Same(c, a.card)
         /\ \A a \in TakeBlock(c) : Same(c, a.card)
         /\ \A a \in Footer(c) : Same(c, a.card)
  <1>1. \A r : Same(c, Ans(c, r).card) /\ Same(c, Ans(Quiet(c), r).card)
    BY QuietSame DEF Ans, Same, Still
  <1>2. \A f, r : Same(c, Ans([c EXCEPT !.flow = f], r).card)
    BY DEF Ans, Same, Still, IsCard, Fields
  <1>3. \A f, r : Same(c, Ans([c EXCEPT !.flow = f, !.step = 0], r).card)
    BY DEF Ans, Same, Still, IsCard, Fields
  <1>4. \A r : Same(c, Ans([c EXCEPT !.file = @ + 1, !.step = @ + 1], r).card)
    BY DEF Ans, Same, Still, IsCard, Fields
  <1>5. \A r : Same(c, Ans([Quiet(c) EXCEPT !.file = 0], r).card)
    BY QuietSame DEF Ans, Same, Still, IsCard, Fields
  <1>6. /\ \A a \in OpenFile(c) : Same(c, a.card)
        /\ \A f : \A a \in FileHeader(c, f) : Same(c, a.card)
    BY <1>1, <1>2, <1>3, EmulatesSame DEF OpenFile, FileHeader
  <1>7. /\ \A a \in TakePath(c) : Same(c, a.card)
        /\ \A a \in OpenEnd(c) : Same(c, a.card)
    BY <1>1, <1>2, <1>5, SilentSame DEF TakePath, OpenEnd
  <1>8. /\ \A a \in SendBlock(c) : Same(c, a.card)
        /\ \A a \in TakeBlock(c) : Same(c, a.card)
    BY <1>1, <1>4, SilentSame DEF SendBlock, TakeBlock
  <1>9. /\ \A a \in FileReady(c) : Same(c, a.card)
        /\ \A a \in Footer(c) : Same(c, a.card)
    BY <1>1, SilentSame DEF FileReady, Footer
  <1> QED BY <1>6, <1>7, <1>8, <1>9

\* SD commands once a card is ready change no more than the block under way.
LEMMA SectorSame ==
  ASSUME NEW c, IsCard(c)
  PROVE  /\ \A n, f : \A a \in Transfer(c, n, f) : Same(c, a.card)
         /\ \A a \in IdleLine(c) : Same(c, a.card)
         /\ \A a \in StartToken(c) : Same(c, a.card)
         /\ \A a \in SendHalf(c) : Same(c, a.card)
         /\ \A a \in SendCrc(c) : Same(c, a.card)
         /\ \A a \in TakeToken(c) : Same(c, a.card)
         /\ \A w : \A a \in TakeHalf(c, w) : Same(c, a.card)
         /\ \A a \in TakeCrc(c) : Same(c, a.card)
         /\ \A a \in DataResponse(c) : Same(c, a.card)
  <1>1. \A r : Same(c, Ans(c, r).card) /\ Same(c, Ans(Quiet(c), r).card)
    BY QuietSame DEF Ans, Same, Still
  <1>2. \A n, r : Same(c, Ans([c EXCEPT !.step = n], r).card)
    BY DEF Ans, Same, Still, IsCard, Fields
  <1>3. \A f, n, r : Same(c, Ans([Quiet(c) EXCEPT !.flow = f, !.sel = n], r).card)
    BY QuietSame DEF Ans, Same, Still, IsCard, Fields
  <1>4. ASSUME NEW n, NEW f
        PROVE  \A a \in Transfer(c, n, f) : Same(c, a.card)
    <2>1. \A m : Same(c, Ans([Quiet(c) EXCEPT !.flow = f, !.sel = m], "r0").card)
      BY <1>3
    <2>2. \A a \in Garbled(c, Noise(c)) \cup Silent(c) : Same(c, a.card)
      BY SilentSame
    <2> HIDE DEF Same
    <2> QED BY <1>1, <2>1, <2>2 DEF Transfer, Obeys
  <1>5. /\ \A a \in IdleLine(c) : Same(c, a.card)
        /\ \A a \in SendCrc(c) : Same(c, a.card)
    BY <1>1 DEF IdleLine, SendCrc
  <1>6. \A a \in StartToken(c) : Same(c, a.card)
    BY <1>1, <1>2 DEF StartToken
  <1>7. \A a \in SendHalf(c) : Same(c, a.card)
    BY <1>2, SilentSame DEF SendHalf
  <1>8. /\ \A a \in TakeToken(c) : Same(c, a.card)
        /\ \A a \in TakeCrc(c) : Same(c, a.card)
    BY <1>1, <1>2 DEF TakeToken, TakeCrc
  <1>9. \A w, r : Same(c, Ans([c EXCEPT !.step = @ + 1, !.got = Append(@, w)], r).card)
    BY DEF Ans, Same, Still, IsCard, Fields
  <1>10. \A w : \A a \in TakeHalf(c, w) : Same(c, a.card)
    BY <1>1, <1>9 DEF TakeHalf
  <1>11. \A r : Same(c, Ans([Quiet(c) EXCEPT !.flow = "busy", !.disk[c.sel] = c.got], r).card)
    BY QuietSame DEF Ans, Same, Still, IsCard, Fields
  <1>12. \A a \in DataResponse(c) : Same(c, a.card)
    BY <1>1, <1>11 DEF DataResponse
  <1> QED BY <1>4, <1>5, <1>6, <1>7, <1>8, <1>10, <1>12

\* If no answer changes the card, an exchange changes no card, lost or not.
LEMMA ExchangeStays ==
  ASSUME CardsFit, NEW p \in Ports, NEW S,
         (\E a \in S : CardAnswers(p, a)) \/ ExchangeLost(p, S)
  PROVE  /\ (\A a \in S : Still(ports[p], a.card)) => PortsStill
         /\ (\A a \in S : Same(ports[p], a.card)) => PortsSame
  BY DEF CardsFit, CardAnswers, ExchangeLost, PortsStill, PortsSame, Same, Still
-----------------------------------------------------------------------------
(* Sector transfers and MMCE commands touch no table and no scan.          *)

BlockEffect == /\ pc \in BlockPcs /\ pc' \in BlockPcs \cup {"replied"}
               /\ UNCHANGED <<tableVars, req, port, info>>
               /\ PortsSame

\* mx_read_sector touches the card and the reply only.
LEMMA ReadSectorEffect == ASSUME CardsFit, Where, ReadSectorStep PROVE BlockEffect
  <1> USE DEF Card, Serving, BlockStep, Continue, FailBlock, Fail, Answer, Go, BlockPcs
  <1>0. IsCard(Card) /\ port \in Ports
    BY DEF CardsFit, Where
  <1>1. CASE SectorWait("rd_wait", "rd_cmd")
    <2>1. (\E a \in IdleLine(Card) : CardAnswers(port, a)) \/ ExchangeLost(port, IdleLine(Card))
      BY <1>1 DEF SectorWait, Exchange
    <2>2. PortsSame
      BY <1>0, <2>1, ExchangeStays, SectorSame
    <2> QED BY <1>1, <2>2 DEF SectorWait, Exchange, BlockEffect
  <1>2. CASE SectorCommand("rd_cmd", "send", "rd_token")
    <2>1. \/ \E a \in Transfer(Card, Address, "send") : CardAnswers(port, a)
          \/ ExchangeLost(port, Transfer(Card, Address, "send"))
      BY <1>2 DEF SectorCommand, Exchange
    <2>2. PortsSame
      BY <1>0, <2>1, ExchangeStays, SectorSame
    <2> QED BY <1>2, <2>2 DEF SectorCommand, Exchange, BlockEffect
  <1>3. CASE SectorToken
    <2>1. (\E a \in StartToken(Card) : CardAnswers(port, a)) \/ ExchangeLost(port, StartToken(Card))
      BY <1>3 DEF SectorToken, Exchange
    <2>2. PortsSame
      BY <1>0, <2>1, ExchangeStays, SectorSame
    <2> QED BY <1>3, <2>2 DEF SectorToken, Exchange, BlockEffect
  <1>4. CASE SectorHalf
    <2>1. (\E a \in SendHalf(Card) : CardAnswers(port, a)) \/ ExchangeLost(port, SendHalf(Card))
      BY <1>4 DEF SectorHalf, Exchange
    <2>2. PortsSame
      BY <1>0, <2>1, ExchangeStays, SectorSame
    <2> QED BY <1>4, <2>2 DEF SectorHalf, Exchange, BlockEffect
  <1>5. CASE SectorCrc
    <2>1. (\E a \in SendCrc(Card) : CardAnswers(port, a)) \/ ExchangeLost(port, SendCrc(Card))
      BY <1>5 DEF SectorCrc, Exchange
    <2>2. PortsSame
      BY <1>0, <2>1, ExchangeStays, SectorSame
    <2> QED BY <1>5, <2>2 DEF SectorCrc, Exchange, BlockEffect
  <1> QED BY <1>1, <1>2, <1>3, <1>4, <1>5 DEF ReadSectorStep

\* mx_write_sector touches the card and the reply only.
LEMMA WriteSectorEffect == ASSUME CardsFit, Where, WriteSectorStep PROVE BlockEffect
  <1> USE DEF Card, Serving, BlockStep, Continue, FailBlock, Fail, Answer, Go, BlockPcs
  <1>0. IsCard(Card) /\ port \in Ports
    BY DEF CardsFit, Where
  <1>1. CASE SectorWait("wr_wait", "wr_cmd")
    <2>1. (\E a \in IdleLine(Card) : CardAnswers(port, a)) \/ ExchangeLost(port, IdleLine(Card))
      BY <1>1 DEF SectorWait, Exchange
    <2>2. PortsSame
      BY <1>0, <2>1, ExchangeStays, SectorSame
    <2> QED BY <1>1, <2>2 DEF SectorWait, Exchange, BlockEffect
  <1>2. CASE SectorCommand("wr_cmd", "recv", "wr_token")
    <2>1. \/ \E a \in Transfer(Card, Address, "recv") : CardAnswers(port, a)
          \/ ExchangeLost(port, Transfer(Card, Address, "recv"))
      BY <1>2 DEF SectorCommand, Exchange
    <2>2. PortsSame
      BY <1>0, <2>1, ExchangeStays, SectorSame
    <2> QED BY <1>2, <2>2 DEF SectorCommand, Exchange, BlockEffect
  <1>3. CASE WriteToken
    <2>1. (\E a \in TakeToken(Card) : CardAnswers(port, a)) \/ ExchangeLost(port, TakeToken(Card))
      BY <1>3 DEF WriteToken, Exchange
    <2>2. PortsSame
      BY <1>0, <2>1, ExchangeStays, SectorSame
    <2> QED BY <1>3, <2>2 DEF WriteToken, Exchange, BlockEffect
  <1>4. CASE WriteHalf
    <2>1. (\E a \in TakeHalf(Card, req.w) : CardAnswers(port, a)) \/ ExchangeLost(port, TakeHalf(Card, req.w))
      BY <1>4 DEF WriteHalf, Exchange
    <2>2. PortsSame
      BY <1>0, <2>1, ExchangeStays, SectorSame
    <2> QED BY <1>4, <2>2 DEF WriteHalf, Exchange, BlockEffect
  <1>5. CASE WriteCrc
    <2>1. (\E a \in TakeCrc(Card) : CardAnswers(port, a)) \/ ExchangeLost(port, TakeCrc(Card))
      BY <1>5 DEF WriteCrc, Exchange
    <2>2. PortsSame
      BY <1>0, <2>1, ExchangeStays, SectorSame
    <2> QED BY <1>5, <2>2 DEF WriteCrc, Exchange, BlockEffect
  <1>6. CASE WriteResponse
    <2>1. (\E a \in DataResponse(Card) : CardAnswers(port, a)) \/ ExchangeLost(port, DataResponse(Card))
      BY <1>6 DEF WriteResponse, Exchange
    <2>2. PortsSame
      BY <1>0, <2>1, ExchangeStays, SectorSame
    <2> QED BY <1>6, <2>2 DEF WriteResponse, Exchange, BlockEffect
  <1>7. CASE WriteBusy
    <2>1. (\E a \in IdleLine(Card) : CardAnswers(port, a)) \/ ExchangeLost(port, IdleLine(Card))
      BY <1>7 DEF WriteBusy, Exchange
    <2>2. PortsSame
      BY <1>0, <2>1, ExchangeStays, SectorSame
    <2> QED BY <1>7, <2>2 DEF WriteBusy, Exchange, BlockEffect
  <1> QED BY <1>1, <1>2, <1>3, <1>4, <1>5, <1>6, <1>7 DEF WriteSectorStep

\* The MMCE commands touch the card and the reply only.
LEMMA MmceEffect == ASSUME CardsFit, Where, MmceStep PROVE BlockEffect
  <1> USE DEF Card, Serving, BlockStep, Continue, FailBlock, Fail, Answer, Go, BlockPcs
  <1>0. IsCard(Card) /\ port \in Ports
    BY DEF CardsFit, Where
  <1>1. CASE MmceValue
    <2>1. (\E a \in OneShot(Card) : CardAnswers(port, a)) \/ ExchangeLost(port, OneShot(Card))
      BY <1>1 DEF MmceValue, OneExchange, Exchange
    <2>2. PortsSame
      BY <1>0, <2>1, ExchangeStays, CommandSame, FileSame
    <2> QED BY <1>1, <2>2 DEF MmceValue, OneExchange, Exchange, BlockEffect
  <1>2. CASE MmceSet
    <2>1. (\E a \in OneShot(Card) : CardAnswers(port, a)) \/ ExchangeLost(port, OneShot(Card))
      BY <1>2 DEF MmceSet, OneExchange, Exchange
    <2>2. PortsSame
      BY <1>0, <2>1, ExchangeStays, CommandSame, FileSame
    <2> QED BY <1>2, <2>2 DEF MmceSet, OneExchange, Exchange, BlockEffect
  <1>3. CASE MmceClose
    <2>1. (\E a \in CloseFile(Card) : CardAnswers(port, a)) \/ ExchangeLost(port, CloseFile(Card))
      BY <1>3 DEF MmceClose, OneExchange, Exchange
    <2>2. PortsSame
      BY <1>0, <2>1, ExchangeStays, CommandSame, FileSame
    <2> QED BY <1>3, <2>2 DEF MmceClose, OneExchange, Exchange, BlockEffect
  <1>4. CASE MmceLseek
    <2>1. (\E a \in SeekFile(Card, req.at) : CardAnswers(port, a)) \/ ExchangeLost(port, SeekFile(Card, req.at))
      BY <1>4 DEF MmceLseek, OneExchange, Exchange
    <2>2. PortsSame
      BY <1>0, <2>1, ExchangeStays, CommandSame, FileSame
    <2> QED BY <1>4, <2>2 DEF MmceLseek, OneExchange, Exchange, BlockEffect
  <1>5. CASE MmceOpenHeader
    <2>1. (\E a \in OpenFile(Card) : CardAnswers(port, a)) \/ ExchangeLost(port, OpenFile(Card))
      BY <1>5 DEF MmceOpenHeader, OpenStep, Exchange
    <2>2. PortsSame
      BY <1>0, <2>1, ExchangeStays, CommandSame, FileSame
    <2> QED BY <1>5, <2>2 DEF MmceOpenHeader, OpenStep, Exchange, BlockEffect
  <1>6. CASE MmceOpenPath
    <2>1. (\E a \in TakePath(Card) : CardAnswers(port, a)) \/ ExchangeLost(port, TakePath(Card))
      BY <1>6 DEF MmceOpenPath, Exchange
    <2>2. PortsSame
      BY <1>0, <2>1, ExchangeStays, CommandSame, FileSame
    <2> QED BY <1>6, <2>2 DEF MmceOpenPath, Exchange, BlockEffect
  <1>7. CASE MmceOpenEnd
    <2>1. (\E a \in OpenEnd(Card) : CardAnswers(port, a)) \/ ExchangeLost(port, OpenEnd(Card))
      BY <1>7 DEF MmceOpenEnd, Exchange
    <2>2. PortsSame
      BY <1>0, <2>1, ExchangeStays, CommandSame, FileSame
    <2> QED BY <1>7, <2>2 DEF MmceOpenEnd, Exchange, BlockEffect
  <1>8. CASE MmceHeader("read_header", "read", "read_block")
    <2>1. (\E a \in FileHeader(Card, "read") : CardAnswers(port, a)) \/ ExchangeLost(port, FileHeader(Card, "read"))
      BY <1>8 DEF MmceHeader, Exchange
    <2>2. PortsSame
      BY <1>0, <2>1, ExchangeStays, CommandSame, FileSame
    <2> QED BY <1>8, <2>2 DEF MmceHeader, Exchange, BlockEffect
  <1>9. CASE MmceReadBlock
    <2>1. (\E a \in SendBlock(Card) : CardAnswers(port, a)) \/ ExchangeLost(port, SendBlock(Card))
      BY <1>9 DEF MmceReadBlock, Exchange
    <2>2. PortsSame
      BY <1>0, <2>1, ExchangeStays, CommandSame, FileSame
    <2> QED BY <1>9, <2>2 DEF MmceReadBlock, Exchange, BlockEffect
  <1>10. CASE MmceReadEnd
    <2>1. (\E a \in Footer(Card) : CardAnswers(port, a)) \/ ExchangeLost(port, Footer(Card))
      BY <1>10 DEF MmceReadEnd, Exchange
    <2>2. PortsSame
      BY <1>0, <2>1, ExchangeStays, CommandSame, FileSame
    <2> QED BY <1>10, <2>2 DEF MmceReadEnd, Moved, Exchange, BlockEffect
  <1>11. CASE MmceHeader("write_header", "write", "write_ready")
    <2>1. (\E a \in FileHeader(Card, "write") : CardAnswers(port, a)) \/ ExchangeLost(port, FileHeader(Card, "write"))
      BY <1>11 DEF MmceHeader, Exchange
    <2>2. PortsSame
      BY <1>0, <2>1, ExchangeStays, CommandSame, FileSame
    <2> QED BY <1>11, <2>2 DEF MmceHeader, Exchange, BlockEffect
  <1>12. CASE MmceWriteReady
    <2>1. (\E a \in FileReady(Card) : CardAnswers(port, a)) \/ ExchangeLost(port, FileReady(Card))
      BY <1>12 DEF MmceWriteReady, Exchange
    <2>2. PortsSame
      BY <1>0, <2>1, ExchangeStays, CommandSame, FileSame
    <2> QED BY <1>12, <2>2 DEF MmceWriteReady, Exchange, BlockEffect
  <1>13. CASE MmceWriteBlock
    <2>1. (\E a \in TakeBlock(Card) : CardAnswers(port, a)) \/ ExchangeLost(port, TakeBlock(Card))
      BY <1>13 DEF MmceWriteBlock, Exchange
    <2>2. PortsSame
      BY <1>0, <2>1, ExchangeStays, CommandSame, FileSame
    <2> QED BY <1>13, <2>2 DEF MmceWriteBlock, Exchange, BlockEffect
  <1>14. CASE MmceWriteEnd
    <2>1. (\E a \in Footer(Card) : CardAnswers(port, a)) \/ ExchangeLost(port, Footer(Card))
      BY <1>14 DEF MmceWriteEnd, Exchange
    <2>2. PortsSame
      BY <1>0, <2>1, ExchangeStays, CommandSame, FileSame
    <2> QED BY <1>14, <2>2 DEF MmceWriteEnd, Moved, Exchange, BlockEffect
  <1> QED BY <1>1, <1>2, <1>3, <1>4, <1>5, <1>6, <1>7, <1>8, <1>9, <1>10, <1>11, <1>12, <1>13, <1>14 DEF MmceStep

\* Cards that stay what they are go on answering by their names.
LEMMA CardsStillFit == ASSUME CardsFit, PortsStill PROVE CardsFit'
  BY DEF CardsFit, PortsStill, Still, Native

\* Keeping the level is more than staying the card.
LEMMA SameIsStill == PortsSame => PortsStill
  BY DEF PortsSame, PortsStill, Same

\* Sector transfers and MMCE commands keep the invariant.
LEMMA BlockKeeps == ASSUME StorageInv, BlockEffect PROVE StorageInv'
  <1>1. CardsFit'
    BY CardsStillFit, SameIsStill DEF StorageInv, BlockEffect
  <1>2. Where'
    BY DEF StorageInv, Where, BlockEffect, ScanPcs, PagePcs, MxPcs, ReadyPcs, BlockPcs
  <1>3. TableFits'
    BY DEF StorageInv, TableFits, BlockEffect, tableVars, InScan, ScanPcs, PagePcs, MxPcs, ReadyPcs, BlockPcs
  <1>4. UnitFits'
    BY DEF StorageInv, UnitFits, Addressed, Unready, OldPcs, BlockEffect, PortsSame, Same, Still, tableVars,
           MxPcs, ReadyPcs, BlockPcs
  <1>5. Reading'
    BY DEF Reading, BlockEffect, BlockPcs
  <1>6. PageIsAsked'
    BY DEF StorageInv, Where, PageIsAsked, BlockEffect
  <1> QED BY <1>1, <1>2, <1>3, <1>4, <1>5, <1>6 DEF StorageInv
-----------------------------------------------------------------------------
(* The scan up to the SD card.                                             *)

ListsOne == devices' = devices \/ \E d \in Devices : d.kind \in Kinds /\ devices' = Append(devices, d)

ScanEffect ==
  /\ InScan /\ req.fn = "scan"
  /\ pc' \in ScanPcs \cup {"select", "mx_wake", "replied"}
  /\ UNCHANGED <<req, mx>> /\ PortsSame
  /\ port' \in Ports /\ (pc' = "mx_wake" => port' = MxPort)
  /\ info' \in Devices /\ (pc' # "ping" => info'.kind \in Kinds)
  /\ ListsOne /\ count' \in {count, Len(devices')}

\* The steps of a scan before the SD card keep the invariant.
LEMMA ScanKeeps == ASSUME StorageInv, ScanEffect PROVE StorageInv'
  <1>1. CardsFit'
    BY CardsStillFit, SameIsStill DEF StorageInv, ScanEffect
  <1>2. Where'
    BY DEF StorageInv, Where, ScanEffect, ScanPcs, PagePcs, MxPcs, ReadyPcs, BlockPcs
  <1>3. TableFits'
    <2>1. /\ devices' \in Seq(Devices) /\ Len(devices') >= Len(devices)
          /\ \A k \in 1 .. Len(devices') : devices'[k].kind # "mx"
      <3>1. /\ devices \in Seq(Devices)
            /\ \A k \in 1 .. Len(devices) : devices[k].kind # "mx"
        BY DEF StorageInv, TableFits, ScanEffect
      <3>2. CASE devices' = devices
        BY <3>1, <3>2
      <3>3. ASSUME NEW d \in Devices, d.kind \in Kinds, devices' = Append(devices, d)
            PROVE  /\ devices' \in Seq(Devices) /\ Len(devices') >= Len(devices)
                   /\ \A k \in 1 .. Len(devices') : devices'[k].kind # "mx"
        <4>1. /\ devices' \in Seq(Devices) /\ Len(devices') = Len(devices) + 1
              /\ \A k \in 1 .. Len(devices) : devices'[k] = devices[k]
              /\ devices'[Len(devices) + 1] = d
          BY <3>1, <3>3
        <4>2. d.kind # "mx"
          BY <3>3 DEF Kinds
        <4> QED BY <3>1, <4>1, <4>2
      <3> QED BY <3>2, <3>3 DEF ScanEffect, ListsOne
    <2>2. count' \in 0 .. Len(devices')
      BY <2>1 DEF StorageInv, TableFits, ScanEffect
    <2>3. info' \in Devices /\ (pc' # "ping" => info'.kind \in Kinds) /\ mx' = mx
      BY DEF ScanEffect
    <2>4. mx' \in Mxs
      BY <2>3 DEF StorageInv, TableFits
    <2> QED BY <2>1, <2>2, <2>3, <2>4 DEF TableFits
  <1>4. UnitFits'
    BY DEF StorageInv, UnitFits, Addressed, Unready, OldPcs, ScanEffect, PortsSame, Same, Still,
           ScanPcs, MxPcs, ReadyPcs
  <1>5. Reading'
    BY DEF Reading, ScanEffect, ScanPcs
  <1>6. PageIsAsked'
    BY DEF PageIsAsked, ScanEffect
  <1> QED BY <1>1, <1>2, <1>3, <1>4, <1>5, <1>6 DEF StorageInv

\* The port is done: the next one is asked, or the scan ends.
LEMMA NextPortGoes ==
  ASSUME NEW found, NextPort(found), Where
  PROVE  /\ devices' = found /\ count' \in {count, Len(devices')}
         /\ port' \in Ports /\ pc' \in {"ping", "replied"}
  BY DEF NextPort, Where, Go, Answer

\* A device entry made for a port is one.
LEMMA DeviceTyped ==
  ASSUME NEW k \in {"none", "mx"} \cup Kinds, NEW p \in Ports
  PROVE  Device(k, p) \in Devices /\ Device(k, p).kind = k
  <1>1. NoDevice \in Devices
    BY DEF NoDevice, Devices
  <1>2. [NoDevice EXCEPT !.kind = k] \in Devices /\ [NoDevice EXCEPT !.kind = k].kind = k
    BY <1>1 DEF Devices
  <1> QED BY <1>2 DEF Device, Devices

\* mmce_ping only decides the kind of the device.
LEMMA ScanPingEffect == ASSUME StorageInv, ScanPing, req.fn = "scan" PROVE ScanEffect
  <1> USE DEF Card, Serving, Go
  <1>0. IsCard(Card) /\ port \in Ports /\ info \in Devices /\ CardsFit
    BY DEF StorageInv, CardsFit, Where, TableFits
  <1>1. (\E a \in Ping(Card) : CardAnswers(port, a)) \/ ExchangeLost(port, Ping(Card))
    BY DEF ScanPing, Exchange
  <1>2. PortsSame
    BY <1>0, <1>1, ExchangeStays, CommandSame
  <1>3. \A k \in Kinds : Device(k, port) \in Devices /\ Device(k, port).kind = k
    BY <1>0, DeviceTyped
  <1>4. /\ \E k \in Kinds : info' = Device(k, port)
        /\ pc' = "terminator" /\ pc = "ping" /\ UNCHANGED <<tableVars, port, req>>
    BY DEF ScanPing, Exchange, Kinds
  <1> QED BY <1>0, <1>2, <1>3, <1>4 DEF ScanEffect, ListsOne, InScan, ScanPcs, tableVars

\* mc_set_terminator decides nothing.
LEMMA ScanTerminatorEffect == ASSUME StorageInv, ScanTerminator, req.fn = "scan" PROVE ScanEffect
  <1> USE DEF Card, Serving, Go
  <1>0. IsCard(Card) /\ port \in Ports /\ CardsFit
    BY DEF StorageInv, CardsFit, Where
  <1>1. (\E a \in Terminator(Card) : CardAnswers(port, a)) \/ ExchangeLost(port, Terminator(Card))
    BY DEF ScanTerminator, Exchange
  <1>2. PortsSame
    BY <1>0, <1>1, ExchangeStays, NativeSame
  <1>3. pc' = "geometry" /\ pc = "terminator" /\ UNCHANGED <<tableVars, localVars, req>>
    BY DEF ScanTerminator, Exchange
  <1>4. info \in Devices /\ info.kind \in Kinds
    BY <1>3 DEF StorageInv, TableFits, InScan, ScanPcs
  <1> QED BY <1>0, <1>2, <1>3, <1>4 DEF ScanEffect, ListsOne, InScan, ScanPcs, tableVars, localVars

\* Without geometry nothing is listed, and only the MX4SIO port is asked on.
LEMMA NoGeometryGoes ==
  ASSUME Where, NoGeometry
  PROVE  /\ devices' = devices /\ count' \in {count, Len(devices')}
         /\ port' \in Ports /\ pc' \in {"card", "mx_wake", "ping", "replied"}
         /\ pc' = "mx_wake" => port' = MxPort
  BY NextPortGoes DEF NoGeometry, Go, Where

\* mc_get_spec decides whether a page is read, the SD card is tried or the port is done.
LEMMA ScanGeometryEffect == ASSUME StorageInv, ScanGeometry, req.fn = "scan" PROVE ScanEffect
  <1> USE DEF Card, Serving
  <1>0. IsCard(Card) /\ port \in Ports /\ CardsFit /\ Where
    BY DEF StorageInv, CardsFit, Where
  <1>1. (\E a \in Geometry(Card) : CardAnswers(port, a)) \/ ExchangeLost(port, Geometry(Card))
    BY DEF ScanGeometry, Exchange
  <1>2. PortsSame
    BY <1>0, <1>1, ExchangeStays, NativeSame
  <1>3. pc = "geometry" /\ UNCHANGED <<mx, req>>
    BY DEF ScanGeometry
  <1>4. info \in Devices /\ info.kind \in Kinds
    BY <1>3 DEF StorageInv, TableFits, InScan, ScanPcs
  <1>5. \/ /\ info' = [info EXCEPT !.pages = PagesOf(Card)]
           /\ pc' = "select" /\ UNCHANGED <<devices, count, port>>
        \/ NoGeometry /\ info' = info
    BY DEF ScanGeometry, Exchange, Go
  <1>6. info' \in Devices /\ info'.kind \in Kinds
    BY <1>4, <1>5 DEF Devices, PagesOf
  <1>7. /\ devices' = devices /\ count' \in {count, Len(devices')}
        /\ port' \in Ports /\ pc' \in {"select", "card", "mx_wake", "ping", "replied"}
        /\ pc' = "mx_wake" => port' = MxPort
    BY <1>0, <1>5, NoGeometryGoes
  <1> QED BY <1>0, <1>2, <1>3, <1>6, <1>7 DEF ScanEffect, ListsOne, InScan, ScanPcs

ScanCardOrChannel == ScanValue("card", "channel") \/ ScanValue("channel", "status")

\* A value of the emulator decides nothing.
LEMMA ScanValueEffect == ASSUME StorageInv, ScanCardOrChannel, req.fn = "scan" PROVE ScanEffect
  <1> USE DEF Card, Serving, Go
  <1>0. IsCard(Card) /\ port \in Ports /\ CardsFit
    BY DEF StorageInv, CardsFit, Where
  <1>1. (\E a \in OneShot(Card) : CardAnswers(port, a)) \/ ExchangeLost(port, OneShot(Card))
    BY DEF ScanCardOrChannel, ScanValue, Exchange
  <1>2. PortsSame
    BY <1>0, <1>1, ExchangeStays, CommandSame
  <1>3. /\ pc' \in {"channel", "status"} /\ pc \in {"card", "channel"}
        /\ UNCHANGED <<tableVars, localVars, req>>
    BY DEF ScanCardOrChannel, ScanValue, Exchange
  <1>4. info \in Devices /\ info.kind \in Kinds
    BY <1>3 DEF StorageInv, TableFits, InScan, ScanPcs
  <1> QED BY <1>0, <1>2, <1>3, <1>4 DEF ScanEffect, ListsOne, InScan, ScanPcs, tableVars, localVars

\* The emulator's status is asked for, and it is listed.
LEMMA ScanStatusEffect == ASSUME StorageInv, ScanStatus, req.fn = "scan" PROVE ScanEffect
  <1> USE DEF Card, Serving
  <1>0. IsCard(Card) /\ port \in Ports /\ CardsFit /\ Where
    BY DEF StorageInv, CardsFit, Where
  <1>1. (\E a \in OneShot(Card) : CardAnswers(port, a)) \/ ExchangeLost(port, OneShot(Card))
    BY DEF ScanStatus, Exchange
  <1>2. PortsSame
    BY <1>0, <1>1, ExchangeStays, CommandSame
  <1>3. pc = "status" /\ UNCHANGED <<mx, info, req>> /\ NextPort(Append(devices, info))
    BY DEF ScanStatus, Exchange
  <1>4. info \in Devices /\ info.kind \in Kinds
    BY <1>3 DEF StorageInv, TableFits, InScan, ScanPcs
  <1>5. /\ devices' = Append(devices, info) /\ count' \in {count, Len(devices')}
        /\ port' \in Ports /\ pc' \in {"ping", "replied"}
    BY <1>0, <1>3, NextPortGoes
  <1> QED BY <1>0, <1>2, <1>3, <1>4, <1>5 DEF ScanEffect, ListsOne, InScan, ScanPcs
-----------------------------------------------------------------------------
(* Reading a page, for the scan and for the client.                        *)

\* A page read so far, and the chunk after it.
LEMMA NextOfPage ==
  ASSUME NEW c, NEW p, NEW n \in Nat
  PROVE  /\ <<>> = [k \in 1..0 |-> <<c, p, k - 1>>]
         /\ Append([k \in 1..n |-> <<c, p, k - 1>>], <<c, p, n>>) = [k \in 1 .. n + 1 |-> <<c, p, k - 1>>]
  <1> DEFINE T == {<<c, p, k>> : k \in Int}
             s == [k \in 1..n |-> <<c, p, k - 1>>]
             t == [k \in 1 .. n + 1 |-> <<c, p, k - 1>>]
             e == <<c, p, n>>
  <1>1. e \in T /\ s \in [1..n -> T] /\ t \in [1 .. n + 1 -> T]
    OBVIOUS
  <1>2. t[n + 1] = e /\ \A k \in 1..n : t[k] = s[k]
    OBVIOUS
  <1>3. [k \in 1..0 |-> <<c, p, k - 1>>] = <<>>
    OBVIOUS
  <1> HIDE DEF T, s, t, e
  <1>4. s \in Seq(T) /\ Len(s) = n
    BY <1>1
  <1>5. Append(s, e) \in [1 .. n + 1 -> T] /\ Append(s, e)[n + 1] = e /\ \A k \in 1..n : Append(s, e)[k] = s[k]
    <2>1. Append(s, e) \in Seq(T) /\ Len(Append(s, e)) = n + 1
      BY <1>1, <1>4
    <2>2. Append(s, e)[n + 1] = e /\ \A k \in 1..n : Append(s, e)[k] = s[k]
      BY <1>1, <1>4
    <2>3. Append(s, e) \in [1 .. Len(Append(s, e)) -> T]
      BY <2>1, LenProperties
    <2> QED BY <2>1, <2>2, <2>3
  <1>6. Append(s, e) = t
    BY <1>1, <1>2, <1>5
  <1> QED BY <1>3, <1>6 DEF s, t, e

PageKeeps == UNCHANGED <<req, tableVars, port, info>> /\ PortsSame

\* The client's read is over, with all of the page if it says so.
PageOver == /\ pc \in PagePcs /\ ~Scanning /\ pc' = "replied" /\ PageKeeps
            /\ reply'.result = "ok" => \E c \in CardIds : data' = PageOf(c, Chunks)

PageOn == pc \in PagePcs /\ pc' \in {"chunk", "finish"} /\ PageKeeps /\ Reading'

\* The end of a page read is the scan's or the client's.
LEMMA PageDoneGoes ==
  ASSUME StorageInv, pc \in PagePcs, NEW ok \in BOOLEAN, PageDone(ok), PortsSame, UNCHANGED <<mx, req>>,
         ok => \E c \in CardIds : data' = PageOf(c, Chunks)
  PROVE  ScanEffect \/ PageOver
  <1>0. Where
    BY DEF StorageInv
  <1>1. CASE ~Scanning
    <2>1. pc' = "replied" /\ UNCHANGED <<devices, count, port, info>> /\ (reply'.result = "ok" => ok)
      BY <1>1 DEF PageDone, Answer, Fail
    <2> QED BY <1>1, <2>1 DEF PageOver, PageKeeps, tableVars
  <1>2. CASE Scanning
    <2>1. ScanChecked(ok) /\ InScan /\ pc # "ping" /\ req.fn = "scan"
      BY <1>2 DEF PageDone, Scanning, InScan, PagePcs
    <2>2. info \in Devices /\ info.kind \in Kinds
      BY <2>1 DEF StorageInv, TableFits
    <2>3. info' = [info EXCEPT !.checked = ok]
      BY <2>1 DEF ScanChecked
    <2>4. info' \in Devices /\ info'.kind \in Kinds
      BY <2>2, <2>3 DEF Devices
    <2>5. /\ ListsOne /\ count' \in {count, Len(devices')}
          /\ port' \in Ports /\ pc' \in {"card", "ping", "replied"}
      <3>1. CASE pc' = "card" /\ UNCHANGED <<devices, count, port>>
        BY <1>0, <3>1 DEF ListsOne, Where
      <3>2. CASE NextPort(Append(devices, info'))
        <4>1. PICK found : found = Append(devices, info')
          OBVIOUS
        <4>2. NextPort(found)
          BY <3>2, <4>1 DEF NextPort
        <4>3. /\ devices' = found /\ count' \in {count, Len(devices')}
              /\ port' \in Ports /\ pc' \in {"ping", "replied"}
          BY <1>0, <4>2, NextPortGoes
        <4>4. ListsOne
          BY <2>4, <4>1, <4>3 DEF ListsOne
        <4> QED BY <4>3, <4>4
      <3> QED BY <2>1, <3>1, <3>2 DEF ScanChecked, Go
    <2> QED BY <2>1, <2>4, <2>5 DEF ScanEffect, ScanPcs
  <1> QED BY <1>1, <1>2

\* A selected page: nothing is read yet, and the card will send this page.
LEMMA ReadSelectEffect == ASSUME StorageInv, ReadSelect PROVE ScanEffect \/ PageOver \/ PageOn
  <1> DEFINE S == SelectPage(Card, PageAsked)
  <1>0. IsCard(Card) /\ port \in Ports /\ CardsFit /\ pc \in PagePcs
    BY DEF StorageInv, CardsFit, Where, Card, ReadSelect, Serving, PagePcs
  <1>1. (\E a \in S : CardAnswers(port, a)) \/ ExchangeLost(port, S)
    BY DEF ReadSelect, Exchange
  <1>2. PortsSame
    BY <1>0, <1>1, ExchangeStays, NativeSame DEF Card
  <1>3. /\ i' = 0 /\ data' = <<>> /\ UNCHANGED <<mx, req>>
        /\ PageDone(FALSE) \/ \E a \in S : CardAnswers(port, a) /\ a.reply = "ok" /\ PageGoes("chunk")
    BY DEF ReadSelect, Exchange, Serving
  <1>4. CASE PageDone(FALSE)
    BY <1>0, <1>2, <1>3, <1>4, PageDoneGoes
  <1>5. ASSUME NEW a \in S, CardAnswers(port, a), a.reply = "ok", PageGoes("chunk")
        PROVE  PageOn
    <2>1. Native(Card) /\ a.card = [Card EXCEPT !.sel = PageAsked, !.step = 0]
      BY <1>5 DEF SelectPage, Silent, Ans
    <2>2. a.card.sel = PageAsked /\ a.card.step = 0 /\ a.card.id = Card.id
      BY <1>0, <2>1 DEF IsCard, Fields
    <2>3. pc' = "chunk" /\ UNCHANGED <<devices, count, port, info, req, mx>> /\ Card' = a.card
      BY <1>0, <1>3, <1>5 DEF PageGoes, Go, CardAnswers, Card, CardsFit
    <2>4. PageAsked' = PageAsked
      BY <2>3 DEF PageAsked, Scanning
    <2>5. Card.id \in CardIds /\ 0 < Chunks /\ Chunks \in Nat
      BY <1>0, <2>1, StorageAssumption DEF CardsFit, Card
    <2>6. data' = [k \in 1..0 |-> <<Card.id, PageAsked, k - 1>>]
      BY <1>3, NextOfPage
    <2>7. Reading'
      BY <1>3, <2>2, <2>3, <2>4, <2>5, <2>6 DEF Reading, PageOf
    <2> QED BY <1>0, <1>2, <2>3, <2>7 DEF PageOn, PageKeeps, tableVars
  <1> QED BY <1>3, <1>4, <1>5

\* A chunk that is taken is the next one: a card that answers with data is the
\* one the chunks before came from, and it is as far as the reader.
LEMMA ReadChunkEffect == ASSUME StorageInv, ReadChunk PROVE ScanEffect \/ PageOver \/ PageOn
  <1> DEFINE S == NextChunk(Card)
  <1>0. IsCard(Card) /\ port \in Ports /\ CardsFit /\ pc \in PagePcs /\ pc = "chunk"
    BY DEF StorageInv, CardsFit, Where, Card, ReadChunk, Serving, PagePcs
  <1>1. (\E a \in S : CardAnswers(port, a)) \/ ExchangeLost(port, S)
    BY DEF ReadChunk, Exchange
  <1>2. PortsSame
    BY <1>0, <1>1, ExchangeStays, NativeSame DEF Card
  <1>3. /\ UNCHANGED <<mx, req>>
        /\ \/ PageDone(FALSE)
           \/ \E a \in S : /\ CardAnswers(port, a) /\ a.reply # <<>>
                           /\ data' = Append(data, a.reply) /\ i' = i + 1
                           /\ PageGoes(IF i + 1 < Chunks THEN "chunk" ELSE "finish")
    BY DEF ReadChunk, Exchange, Serving
  <1>4. CASE PageDone(FALSE)
    BY <1>0, <1>2, <1>3, <1>4, PageDoneGoes
  <1>5. ASSUME NEW a \in S, CardAnswers(port, a), a.reply # <<>>, data' = Append(data, a.reply), i' = i + 1,
               PageGoes(IF i + 1 < Chunks THEN "chunk" ELSE "finish")
        PROVE  PageOn
    <2>1. /\ Native(Card) /\ Card.sel # Nothing
          /\ a.card = [Card EXCEPT !.step = @ + 1] /\ a.reply = <<Card.id, Card.sel, Card.step>>
      BY <1>5 DEF NextChunk, Padding, Ans
    <2>2. a.card.sel = Card.sel /\ a.card.step = Card.step + 1 /\ a.card.id = Card.id
      BY <1>0, <2>1 DEF IsCard, Fields
    <2>3. i \in 0..Chunks /\ i < Chunks /\ Chunks \in Nat
      BY <1>0, StorageAssumption DEF StorageInv, Reading
    <2>4. PICK c \in CardIds :
            data = PageOf(c, i) /\ Card.id = c /\ Card.sel = PageAsked /\ Card.step = i
      BY <1>0, <2>1 DEF StorageInv, Reading
    <2>5. /\ UNCHANGED <<devices, count, port, info, req, mx>> /\ Card' = a.card
          /\ pc' = IF i + 1 < Chunks THEN "chunk" ELSE "finish"
      BY <1>0, <1>3, <1>5 DEF PageGoes, Go, CardAnswers, Card, CardsFit
    <2>6. PageAsked' = PageAsked
      BY <2>5 DEF PageAsked, Scanning
    <2>7. data' = PageOf(c, i + 1)
      BY <1>5, <2>1, <2>3, <2>4, NextOfPage DEF PageOf
    <2>8. Reading'
      <3>1. /\ i' \in 0..Chunks /\ (pc' = "chunk" => i' < Chunks) /\ (pc' = "finish" => i' = Chunks)
        BY <1>5, <2>3, <2>5
      <3>2. data' = PageOf(c, i)'
        BY <1>5, <2>6, <2>7 DEF PageOf
      <3>3. Card'.id = c /\ Card'.sel = PageAsked' /\ Card'.step = i'
        BY <1>5, <2>2, <2>4, <2>5, <2>6
      <3> QED BY <2>4, <3>1, <3>2, <3>3 DEF Reading
    <2> QED BY <1>0, <1>2, <2>5, <2>8 DEF PageOn, PageKeeps, tableVars
  <1> QED BY <1>3, <1>4, <1>5

\* At the end all chunks are there.
LEMMA ReadFinishEffect == ASSUME StorageInv, ReadFinish PROVE ScanEffect \/ PageOver \/ PageOn
  <1> DEFINE S == EndTransfer(Card)
  <1>0. IsCard(Card) /\ port \in Ports /\ CardsFit /\ pc \in PagePcs /\ pc = "finish"
    BY DEF StorageInv, CardsFit, Where, Card, ReadFinish, Serving, PagePcs
  <1>1. (\E a \in S : CardAnswers(port, a)) \/ ExchangeLost(port, S)
    BY DEF ReadFinish, Exchange
  <1>2. PortsSame
    BY <1>0, <1>1, ExchangeStays, NativeSame DEF Card
  <1>3. UNCHANGED <<mx, req, i, data>> /\ \E ok \in BOOLEAN : PageDone(ok)
    BY DEF ReadFinish, Exchange, Serving
  <1>4. \E c \in CardIds : data' = PageOf(c, Chunks)
    BY <1>0, <1>3 DEF StorageInv, Reading
  <1> QED BY <1>0, <1>2, <1>3, <1>4, PageDoneGoes

\* The steps of mc_read_page that leave the table alone keep it fitting.
LEMMA PageKeepsFit == ASSUME StorageInv, PageKeeps, pc \in PagePcs, pc' \in PagePcs \cup {"replied"}
                      PROVE  CardsFit' /\ Where' /\ TableFits' /\ UnitFits'
  <1>1. CardsFit'
    BY CardsStillFit, SameIsStill DEF StorageInv, PageKeeps
  <1>2. Where'
    BY DEF StorageInv, Where, PageKeeps, ScanPcs, PagePcs, MxPcs, ReadyPcs, BlockPcs
  <1>3. TableFits'
    BY DEF StorageInv, TableFits, PageKeeps, tableVars, InScan, ScanPcs, PagePcs, MxPcs, ReadyPcs
  <1>4. UnitFits'
    BY DEF StorageInv, UnitFits, Addressed, Unready, OldPcs, PageKeeps, PortsSame, Same, Still, tableVars,
           PagePcs, MxPcs, ReadyPcs
  <1> QED BY <1>1, <1>2, <1>3, <1>4

\* mc_read_page keeps the invariant.
LEMMA PageStepKeeps == ASSUME StorageInv, PageStep PROVE StorageInv'
  <1>1. CASE ScanEffect
    BY <1>1, ScanKeeps
  <1>2. CASE PageOver
    <2>1. CardsFit' /\ Where' /\ TableFits' /\ UnitFits'
      BY <1>2, PageKeepsFit DEF PageOver
    <2>2. Reading'
      BY <1>2 DEF Reading, PageOver
    <2>3. PageIsAsked'
      BY <1>2 DEF PageIsAsked, PageOver, PageKeeps, PageOf, PageAsked, Scanning, CardIds
    <2> QED BY <2>1, <2>2, <2>3 DEF StorageInv
  <1>3. CASE PageOn
    <2>1. CardsFit' /\ Where' /\ TableFits' /\ UnitFits'
      BY <1>3, PageKeepsFit DEF PageOn, PagePcs
    <2>2. Reading' /\ PageIsAsked'
      BY <1>3 DEF PageIsAsked, PageOn
    <2> QED BY <2>1, <2>2 DEF StorageInv
  <1> QED BY <1>1, <1>2, <1>3, ReadSelectEffect, ReadChunkEffect, ReadFinishEffect DEF PageStep
-----------------------------------------------------------------------------
(* mx_initialize.                                                          *)

\* A card between two commands is there after an exchange that leaves it there.
LEMMA ExchangeQuiet ==
  ASSUME CardsFit, NEW p \in Ports, NEW S,
         (\E a \in S : CardAnswers(p, a)) \/ ExchangeLost(p, S),
         ports[p].flow = "quiet", \A a \in S : a.card.flow = "quiet"
  PROVE  ports'[p].flow = "quiet"
  BY DEF CardsFit, CardAnswers, ExchangeLost

\* A card that is between two commands obeys one, and any card stays the card it is.
LEMMA ObeysStill ==
  ASSUME NEW c, IsCard(c), NEW S
  PROVE  /\ \A a \in Obeys(c, S) : a \in S \/ Same(c, a.card)
         /\ c.flow = "quiet" => \A a \in Obeys(c, S) : a \in S \/ a = Ans(c, "silent")
  BY SilentSame DEF Obeys, Silent

\* A reset leaves a card not ready and between two commands, unless it was sending.
LEMMA ResetStill ==
  ASSUME NEW c, IsCard(c)
  PROVE  \A a \in Reset(c) : /\ Still(c, a.card)
                             /\ a.reply = "r1" /\ c.flow # "send" => a.card.flow = "quiet" /\ a.card.level = 1
  <1> DEFINE ready == [Quiet(c) EXCEPT !.level = 1]
  <1>1. Still(c, ready) /\ ready.flow = "quiet" /\ ready.level = 1
    BY DEF Still, IsCard, Fields, Quiet
  <1>2. Ans(ready, "r1").card = ready
    BY DEF Ans
  <1>3. \A a \in Silent(c) : Still(c, a.card) /\ a.reply # "r1"
    BY SilentSame DEF Same, Silent, Ans
  <1>4. \A a \in Garbled(c, Noise(c)) : Still(c, a.card) /\ (c.flow # "send" => a.reply # "r1")
    <2>1. \A a \in Garbled(c, Noise(c)) : Still(c, a.card) /\ a.reply \in Noise(c)
      BY SilentSame DEF Same, Garbled, Ans
    <2>2. c.flow # "send" => "r1" \notin Noise(c)
      BY DEF Noise
    <2> QED BY <2>1, <2>2
  <1> HIDE DEF ready
  <1>5. \A a \in Reset(c) : a = Ans(ready, "r1") \/ a \in Silent(c) \/ a \in Garbled(c, Noise(c))
    BY DEF Reset, Obeys, ready
  <1> QED BY <1>1, <1>2, <1>3, <1>4, <1>5

\* The questions of mx_initialize leave a card the card it is, and between two
\* commands if it is.
LEMMA AskedStill ==
  ASSUME NEW c, IsCard(c)
  PROVE  \A a \in Version(c) \cup HighCapacity(c) \cup BlockLength(c) \cup Capacity(c) :
           Same(c, a.card) /\ (c.flow = "quiet" => a.card.flow = "quiet")
  <1>1. Same(c, c) /\ Same(c, Quiet(c)) /\ Quiet(c).flow = "quiet"
    BY QuietSame DEF Same, Still, Quiet, IsCard, Fields
  <1>2. \A d, r : Ans(d, r).card = d
    BY DEF Ans
  <1>3. \A r : \A a \in Obeys(c, {Ans(Quiet(c), r)}) : a.card \in {c, Quiet(c)}
    BY <1>2 DEF Obeys, Silent, Garbled
  <1>4. \A a \in Capacity(c) : a.card \in {c, Quiet(c)}
    BY <1>2 DEF Capacity, Garbled
  <1>5. \A a \in Version(c) \cup HighCapacity(c) \cup BlockLength(c) : a.card \in {c, Quiet(c)}
    BY <1>3 DEF Version, HighCapacity, BlockLength
  <1> QED BY <1>1, <1>4, <1>5

\* The answers of the initialisation loops.
LEMMA GetsReadyAnswers ==
  ASSUME NEW c, NEW takes \in BOOLEAN, NEW a \in GetsReady(c, takes)
  PROVE  \/ a = Ans([Quiet(c) EXCEPT !.level = 2], "r0") /\ takes
         \/ a \in {Ans(Quiet(c), "silent"), Ans(Quiet(c), "other"), Ans(c, "silent")}
         \/ c.flow # "quiet" /\ a \in Garbled(c, Noise(c))
  BY DEF GetsReady, Obeys, Silent

\* The loops leave a card between two commands, and make ready what they accept.
LEMMA GetsReadyStill ==
  ASSUME NEW c, IsCard(c), NEW takes \in BOOLEAN
  PROVE  \A a \in GetsReady(c, takes) :
           /\ Still(c, a.card)
           /\ c.flow = "quiet" => /\ a.card.flow = "quiet"
                                  /\ takes \/ (Same(c, a.card) /\ a.reply # "r0")
  <1> DEFINE ready == [Quiet(c) EXCEPT !.level = 2]
  <1>1. Still(c, ready) /\ ready.flow = "quiet"
    BY DEF Still, IsCard, Fields, Quiet
  <1>2. Same(c, c) /\ Same(c, Quiet(c)) /\ Quiet(c).flow = "quiet"
    BY QuietSame DEF Same, Still, Quiet, IsCard, Fields
  <1>3. \A r, d : Ans(d, r).card = d /\ Ans(d, r).reply = r
    BY DEF Ans
  <1>4. \A a \in Garbled(c, Noise(c)) : Still(c, a.card)
    BY SilentSame DEF Same
  <1>5. \A d : Same(c, d) => Still(c, d)
    BY DEF Same
  <1> HIDE DEF ready
  <1>6. ASSUME NEW a \in GetsReady(c, takes)
        PROVE  /\ Still(c, a.card)
               /\ c.flow = "quiet" => /\ a.card.flow = "quiet"
                                      /\ takes \/ (Same(c, a.card) /\ a.reply # "r0")
    <2>1. \/ a = Ans(ready, "r0") /\ takes
          \/ a \in {Ans(Quiet(c), "silent"), Ans(Quiet(c), "other"), Ans(c, "silent")}
          \/ c.flow # "quiet" /\ a \in Garbled(c, Noise(c))
      BY GetsReadyAnswers DEF ready
    <2>2. CASE a = Ans(ready, "r0") /\ takes
      BY <1>1, <1>3, <2>2
    <2>3. CASE a \in {Ans(Quiet(c), "silent"), Ans(Quiet(c), "other"), Ans(c, "silent")}
      BY <1>2, <1>3, <1>5, <2>3
    <2>4. CASE c.flow # "quiet" /\ a \in Garbled(c, Noise(c))
      BY <1>4, <2>4
    <2> QED BY <2>1, <2>2, <2>3, <2>4
  <1> QED BY <1>6

\* The initialisation is over without a card, or goes on.
MxOver == /\ pc \in MxPcs /\ req.fn = "scan" /\ pc' = "replied"
          /\ UNCHANGED <<req, port, devices, info>> /\ count' = Len(devices')
          /\ PortsStill /\ mx' \in Mxs /\ ~mx'.ok

MxOn == /\ pc \in MxPcs /\ req.fn = "scan" /\ pc' \in {"mx_reset"} \cup ReadyPcs
        /\ UNCHANGED <<req, port, devices, count, info>>
        /\ PortsStill /\ mx' \in Mxs /\ ~mx'.ok
        /\ pc' \in ReadyPcs /\ ~mx'.torn => ports'[MxPort].flow = "quiet"
        /\ pc' \in OldPcs /\ ~mx'.torn => Unready(ports'[MxPort])
        /\ pc' \in {"mx_block", "mx_csd"} /\ ~mx'.torn => Addressed(ports[MxPort])'

\* mx_initialize keeps the invariant while it goes on, and when it fails.
LEMMA MxGoneKeeps == ASSUME StorageInv, MxOver \/ MxOn PROVE StorageInv'
  <1>1. CardsFit'
    BY CardsStillFit DEF StorageInv, MxOver, MxOn
  <1>2. Where'
    BY DEF StorageInv, Where, MxOver, MxOn, ScanPcs, PagePcs, MxPcs, ReadyPcs, BlockPcs
  <1>3. InScan /\ pc # "ping"
    BY DEF InScan, MxOver, MxOn, MxPcs, ReadyPcs
  <1>4. TableFits'
    BY <1>3 DEF StorageInv, TableFits, MxOver, MxOn
  <1>5. UnitFits'
    BY DEF UnitFits, Addressed, Unready, MxOver, MxOn, MxPcs, ReadyPcs, OldPcs
  <1>6. Reading' /\ PageIsAsked'
    BY DEF Reading, PageIsAsked, MxOver, MxOn, ReadyPcs
  <1> QED BY <1>1, <1>2, <1>4, <1>5, <1>6 DEF StorageInv

\* What each step of mx_initialize starts from.
MxBegins == /\ CardsFit /\ IsCard(Card) /\ port = MxPort /\ Card = ports[MxPort] /\ req.fn = "scan"
            /\ mx \in Mxs
            /\ pc # "mx_wake" => ~mx.ok
            /\ pc \in ReadyPcs /\ ~mx.torn => Card.flow = "quiet"
            /\ pc \in OldPcs /\ ~mx.torn => Unready(Card)
            /\ pc \in {"mx_block", "mx_csd"} /\ ~mx.torn => Addressed(Card)

\* In mx_initialize the card is the one in the MX4SIO port.
LEMMA MxBeginsSo == ASSUME StorageInv, pc \in MxPcs PROVE MxBegins
  <1>1. port = MxPort /\ req.fn = "scan" /\ CardsFit
    BY DEF StorageInv, Where
  <1> QED BY <1>1 DEF StorageInv, MxBegins, TableFits, UnitFits, Card, CardsFit

\* A failure of mx_initialize ends the scan without the card.
LEMMA MxFailsOver ==
  ASSUME MxBegins, MxFails, UNCHANGED req, PortsStill, pc \in MxPcs \ {"mx_wake"}
  PROVE  MxOver
  BY DEF MxBegins, MxFails, NextPort, Answer, MxOver

\* The wake-up clocks forget the card known before.
LEMMA MxWakeEffect == ASSUME StorageInv, MxWake PROVE MxOver \/ MxOn
  <1>0. MxBegins /\ pc = "mx_wake" /\ pc \in MxPcs /\ UNCHANGED req /\ port \in Ports
    BY MxBeginsSo DEF MxWake, MxStep, Serving, MxPcs, MxBegins
  <1>1. (\E a \in Silent(Card) : CardAnswers(port, a)) \/ ExchangeLost(port, Silent(Card))
    BY DEF MxWake, Exchange
  <1>2. PortsStill
    BY <1>0, <1>1, ExchangeStays, SilentSame, SameIsStill DEF MxBegins
  <1>3. mx' \in Mxs /\ ~mx'.ok
    BY <1>0 DEF MxWake, MxBegins, Mxs
  <1>4. \/ pc' = "mx_reset" /\ UNCHANGED <<devices, count, port, info>>
        \/ NextPort(devices) /\ info' = info
    BY DEF MxWake, Exchange, Go, MxKeeps
  <1>5. CASE pc' = "mx_reset" /\ UNCHANGED <<devices, count, port, info>>
    BY <1>0, <1>2, <1>3, <1>5 DEF MxOn, MxBegins, ReadyPcs, OldPcs
  <1>6. CASE NextPort(devices) /\ info' = info
    BY <1>0, <1>2, <1>3, <1>6 DEF MxOver, NextPort, Answer, MxBegins
  <1> QED BY <1>4, <1>5, <1>6

\* CMD0 leaves a card that obeys between two commands and not ready.
LEMMA MxResetEffect == ASSUME StorageInv, MxReset PROVE MxOver \/ MxOn
  <1>0. MxBegins /\ pc = "mx_reset" /\ pc \in MxPcs /\ UNCHANGED req /\ port \in Ports
    BY MxBeginsSo DEF MxReset, MxStep, Serving, MxPcs, MxBegins
  <1>1. (\E a \in Reset(Card) : CardAnswers(port, a)) \/ ExchangeLost(port, Reset(Card))
    BY DEF MxReset, Exchange
  <1>2. PortsStill
    BY <1>0, <1>1, ExchangeStays, ResetStill DEF MxBegins
  <1>3. mx' \in Mxs /\ ~mx'.ok /\ (~mx'.torn => Card.flow # "send")
    BY <1>0 DEF MxReset, MxBegins, Mxs
  <1>4. \/ NextPort(devices) /\ info' = info
        \/ \E a \in Reset(Card) : CardAnswers(port, a) /\ a.reply = "r1" /\ Go("mx_version") /\ MxKeeps
    BY DEF MxReset, Exchange
  <1>5. CASE NextPort(devices) /\ info' = info
    BY <1>0, <1>2, <1>3, <1>5 DEF MxOver, NextPort, Answer, MxBegins
  <1>6. ASSUME NEW a \in Reset(Card), CardAnswers(port, a), a.reply = "r1", Go("mx_version"), MxKeeps
        PROVE  MxOn
    <2>1. ports'[MxPort] = a.card
      BY <1>0, <1>6 DEF MxBegins, CardAnswers, CardsFit
    <2>2. ~mx'.torn => ports'[MxPort].flow = "quiet" /\ Unready(ports'[MxPort])
      BY <1>0, <1>3, <1>6, <2>1, ResetStill DEF MxBegins, Unready
    <2> QED BY <1>0, <1>2, <1>3, <1>6, <2>2 DEF MxOn, MxBegins, MxKeeps, Go, ReadyPcs, OldPcs
  <1> QED BY <1>4, <1>5, <1>6

\* An answer that leaves the card what it is, or none.
LEMMA AskedEffect ==
  ASSUME MxBegins, NEW S, \A a \in S : Same(Card, a.card) /\ (Card.flow = "quiet" => a.card.flow = "quiet"),
         (\E a \in S : CardAnswers(port, a)) \/ ExchangeLost(port, S)
  PROVE  /\ PortsStill /\ Same(Card, ports'[MxPort])
         /\ Card.flow = "quiet" => ports'[MxPort].flow = "quiet"
  <1>1. CardsFit /\ port \in Ports /\ port = MxPort /\ Card = ports[port]
    BY DEF MxBegins
  <1>2. PortsSame
    BY <1>1, ExchangeStays
  <1>3. Card.flow = "quiet" => ports'[MxPort].flow = "quiet"
    BY <1>1, ExchangeQuiet
  <1> QED BY <1>1, <1>2, <1>3, SameIsStill DEF PortsSame

\* A question that goes on to another leaves what is known of the card.
LEMMA MxGoesOn ==
  ASSUME MxBegins, pc \in ReadyPcs, NEW next \in ReadyPcs, UNCHANGED req, MxGoes(next), PortsStill,
         Card.flow = "quiet" => ports'[MxPort].flow = "quiet",
         next \in OldPcs => pc \in OldPcs /\ (~mx.torn => Unready(ports'[MxPort])),
         next \in {"mx_block", "mx_csd"} => pc = "mx_block" /\ Same(Card, ports'[MxPort])
  PROVE  MxOn
  <1>1. mx' = mx /\ ~mx.ok /\ mx \in Mxs /\ pc' = next /\ MxKeeps
    BY DEF MxBegins, MxGoes, Go, ReadyPcs
  <1>2. next \in {"mx_block", "mx_csd"} /\ ~mx.torn => Addressed(ports[MxPort])'
    BY <1>1 DEF MxBegins, Addressed, Same, Still
  <1> QED BY <1>1, <1>2 DEF MxOn, MxBegins, MxKeeps, MxPcs

\* CMD8 decides which loop is next.
LEMMA MxVersionEffect == ASSUME StorageInv, MxVersion PROVE MxOn
  <1> DEFINE S == Version(Card)
  <1>0. MxBegins /\ pc = "mx_version" /\ pc \in ReadyPcs /\ pc \in MxPcs /\ UNCHANGED req
    BY MxBeginsSo DEF MxVersion, MxStep, Serving, MxPcs, ReadyPcs
  <1>1. (\E a \in S : CardAnswers(port, a)) \/ ExchangeLost(port, S)
    BY DEF MxVersion, Exchange
  <1>2. /\ PortsStill /\ Same(Card, ports'[MxPort])
        /\ Card.flow = "quiet" => ports'[MxPort].flow = "quiet"
    <2>1. \A a \in S : Same(Card, a.card) /\ (Card.flow = "quiet" => a.card.flow = "quiet")
      BY <1>0, AskedStill DEF MxBegins
    <2> HIDE DEF S
    <2> QED BY <1>0, <1>1, <2>1, AskedEffect
  <1>3. \E next \in {"mx_v1", "mx_v2"} : MxGoes(next)
    BY DEF MxVersion, Exchange
  <1>4. pc \in OldPcs /\ (~mx.torn => Unready(ports'[MxPort]))
    BY <1>0, <1>2 DEF MxBegins, OldPcs, Unready, Same, Still
  <1>5. ASSUME NEW next \in {"mx_v1", "mx_v2"}, MxGoes(next) PROVE MxOn
    BY <1>0, <1>2, <1>4, <1>5, MxGoesOn DEF ReadyPcs
  <1> QED BY <1>3, <1>5

\* A loop leaves the card between two commands and not ready, or accepts it.
LEMMA ReadyEffect ==
  ASSUME MxBegins, NEW takes \in BOOLEAN,
         (\E a \in GetsReady(Card, takes) : CardAnswers(port, a)) \/ ExchangeLost(port, GetsReady(Card, takes))
  PROVE  /\ PortsStill /\ ports'[MxPort].id = Card.id
         /\ Card.flow = "quiet" => ports'[MxPort].flow = "quiet"
         /\ Card.flow = "quiet" /\ Unready(Card) /\ (takes => Card.id # "hc") =>
              /\ Unready(ports'[MxPort])
              /\ \A a \in GetsReady(Card, takes) : a.reply = "r0" => Card.id # "hc"
  <1> DEFINE S == GetsReady(Card, takes)
  <1>1. IsCard(Card) /\ Card = ports[port] /\ port \in Ports /\ port = MxPort /\ CardsFit
    BY DEF MxBegins
  <1>2. \A a \in S : /\ Still(Card, a.card)
                     /\ Card.flow = "quiet" => /\ a.card.flow = "quiet"
                                               /\ takes \/ (Same(Card, a.card) /\ a.reply # "r0")
    BY <1>1, GetsReadyStill
  <1>3. (\E a \in S : CardAnswers(port, a)) \/ ExchangeLost(port, S)
    OBVIOUS
  <1> HIDE DEF S
  <1>4. PortsStill
    BY <1>1, <1>2, <1>3, ExchangeStays
  <1>5. Card.flow = "quiet" => ports'[MxPort].flow = "quiet"
    BY <1>1, <1>2, <1>3, ExchangeQuiet
  <1>6. ports'[MxPort].id = Card.id
    BY <1>1, <1>4 DEF PortsStill, Still
  <1>7. ASSUME Card.flow = "quiet", Unready(Card), takes => Card.id # "hc"
        PROVE  Unready(ports'[MxPort]) /\ \A a \in S : a.reply = "r0" => Card.id # "hc"
    <2>1. CASE Card.id # "hc"
      BY <1>6, <2>1 DEF Unready
    <2>2. CASE ~takes
      <3>1. \A a \in S : Same(ports[port], a.card) /\ a.reply # "r0"
        BY <1>1, <1>2, <1>7, <2>2
      <3>2. PortsSame
        BY <1>1, <1>3, <3>1, ExchangeStays
      <3> QED BY <1>1, <1>7, <3>1, <3>2 DEF PortsSame, Same, Still, Unready
    <2> QED BY <1>7, <2>1, <2>2
  <1> QED BY <1>4, <1>5, <1>6, <1>7 DEF S

\* The loop for version 2 goes on to the capacity bit.
LEMMA MxV2ReadyEffect == ASSUME StorageInv, MxV2Ready PROVE MxOver \/ MxOn
  <1> DEFINE takes == Card.level = 1 /\ Card.id \in {"v2", "hc"}
             S == GetsReady(Card, takes)
  <1>0. MxBegins /\ pc = "mx_v2" /\ pc \in ReadyPcs /\ pc \in MxPcs /\ UNCHANGED req
    BY MxBeginsSo DEF MxV2Ready, MxStep, Serving, MxPcs, ReadyPcs
  <1>1. (\E a \in S : CardAnswers(port, a)) \/ ExchangeLost(port, S)
    BY DEF MxV2Ready, Exchange, V2Loop
  <1>2. MxFails \/ \E next \in {"mx_v2", "mx_ocr"} : MxGoes(next)
    BY DEF MxV2Ready, Exchange
  <1> HIDE DEF takes
  <1>3. PortsStill /\ (Card.flow = "quiet" => ports'[MxPort].flow = "quiet")
    BY <1>0, <1>1, ReadyEffect DEF takes
  <1>4. CASE MxFails
    BY <1>0, <1>3, <1>4, MxFailsOver
  <1>5. ASSUME NEW next \in {"mx_v2", "mx_ocr"}, MxGoes(next) PROVE MxOn
    BY <1>0, <1>3, <1>5, MxGoesOn DEF ReadyPcs, OldPcs
  <1> QED BY <1>2, <1>4, <1>5

\* Recording the type that fits the card goes on to the next command.
LEMMA MxTypedOn ==
  ASSUME MxBegins, pc \in ReadyPcs, UNCHANGED req, PortsStill,
         Card.flow = "quiet" => ports'[MxPort].flow = "quiet",
         NEW type \in {"sc", "hc"}, NEW next \in {"mx_block", "mx_csd"}, MxTyped(type, next),
         ~mx.torn /\ ports'[MxPort].level = 2 => (type = "hc" <=> ports'[MxPort].id = "hc")
  PROVE  MxOn
  <1>1. mx' = [mx EXCEPT !.type = type] /\ pc' = next /\ MxKeeps
    BY DEF MxTyped, Go
  <1>2. mx' \in Mxs /\ ~mx'.ok /\ mx'.type = type /\ mx'.torn = mx.torn
    BY <1>1 DEF MxBegins, ReadyPcs, Mxs
  <1>3. ~mx'.torn => Addressed(ports[MxPort])'
    BY <1>2 DEF Addressed
  <1>4. ~mx'.torn => ports'[MxPort].flow = "quiet"
    BY <1>2 DEF MxBegins
  <1> QED BY <1>1, <1>2, <1>3, <1>4 DEF MxOn, MxBegins, MxKeeps, MxPcs, ReadyPcs, OldPcs

\* CMD58 tells the capacity of a card between two commands, if it is ready.
LEMMA CapacityBit ==
  ASSUME NEW c, c.flow = "quiet", NEW a \in HighCapacity(c), a.reply \in {"hc", "r0"}
  PROVE  a.reply = "hc" <=> c.id = "hc"
  BY DEF HighCapacity, Obeys, Silent, Ans

\* The capacity bit gives the type of the card.
LEMMA MxOcrEffect == ASSUME StorageInv, MxOcr PROVE MxOver \/ MxOn
  <1> DEFINE S == HighCapacity(Card)
  <1>0. MxBegins /\ pc = "mx_ocr" /\ pc \in ReadyPcs /\ pc \in MxPcs /\ UNCHANGED req
    BY MxBeginsSo DEF MxOcr, MxStep, Serving, MxPcs, ReadyPcs
  <1>1. (\E a \in S : CardAnswers(port, a)) \/ ExchangeLost(port, S)
    BY DEF MxOcr, Exchange
  <1>2. /\ PortsStill /\ Same(Card, ports'[MxPort])
        /\ Card.flow = "quiet" => ports'[MxPort].flow = "quiet"
    <2>1. \A a \in S : Same(Card, a.card) /\ (Card.flow = "quiet" => a.card.flow = "quiet")
      BY <1>0, AskedStill DEF MxBegins
    <2> HIDE DEF S
    <2> QED BY <1>0, <1>1, <2>1, AskedEffect
  <1>3. MxFails \/ \E a \in S : /\ a.reply \in {"hc", "r0"}
                                /\ MxTyped(IF a.reply = "hc" THEN "hc" ELSE "sc", "mx_csd")
    BY DEF MxOcr, Exchange
  <1>4. CASE MxFails
    BY <1>0, <1>2, <1>4, MxFailsOver
  <1>5. ASSUME NEW a \in S, a.reply \in {"hc", "r0"}, MxTyped(IF a.reply = "hc" THEN "hc" ELSE "sc", "mx_csd")
        PROVE  MxOn
    <2>1. ~mx.torn => (a.reply = "hc" <=> Card.id = "hc")
      BY <1>0, <1>5, CapacityBit DEF MxBegins
    <2> DEFINE type == IF a.reply = "hc" THEN "hc" ELSE "sc"
    <2>2. /\ type \in {"sc", "hc"} /\ MxTyped(type, "mx_csd")
          /\ ~mx.torn => (type = "hc" <=> ports'[MxPort].id = "hc")
      BY <1>2, <1>5, <2>1 DEF Same, Still
    <2> HIDE DEF type
    <2> QED BY <1>0, <1>2, <2>2, MxTypedOn
  <1> QED BY <1>3, <1>4, <1>5

\* A loop's answer to a card accepted as an old one, and to one that goes on.
LEMMA OldLoopEffect ==
  ASSUME MxBegins, pc \in {"mx_v1", "mx_mmc"}, UNCHANGED req,
         NEW takes \in BOOLEAN, takes /\ Unready(Card) => Card.id # "hc",
         NEW S, S = GetsReady(Card, takes), (\E a \in S : CardAnswers(port, a)) \/ ExchangeLost(port, S)
  PROVE  /\ PortsStill
         /\ \A next \in {"mx_v1", "mx_mmc"} : MxGoes(next) => MxOn
         /\ (\E a \in S : a.reply = "r0") /\ MxTyped("sc", "mx_block") => MxOn
  <1>0. pc \in ReadyPcs /\ pc \in OldPcs
    BY DEF ReadyPcs, OldPcs
  <1>1. /\ PortsStill /\ ports'[MxPort].id = Card.id
        /\ Card.flow = "quiet" => ports'[MxPort].flow = "quiet"
        /\ Card.flow = "quiet" /\ Unready(Card) /\ (takes => Card.id # "hc") =>
             /\ Unready(ports'[MxPort])
             /\ \A a \in S : a.reply = "r0" => Card.id # "hc"
    BY ReadyEffect
  <1>2. ~mx.torn => Card.flow = "quiet" /\ Unready(Card)
    BY <1>0 DEF MxBegins
  <1>3. ~mx.torn => /\ Unready(ports'[MxPort])
                    /\ \A a \in S : a.reply = "r0" => ports'[MxPort].id # "hc"
    BY <1>1, <1>2
  <1>4. ASSUME NEW next \in {"mx_v1", "mx_mmc"}, MxGoes(next) PROVE MxOn
    BY <1>0, <1>1, <1>3, <1>4, MxGoesOn DEF ReadyPcs
  <1>5. ASSUME NEW a \in S, a.reply = "r0", MxTyped("sc", "mx_block") PROVE MxOn
    <2>1. ~mx.torn => ports'[MxPort].id # "hc"
      BY <1>3, <1>5
    <2> QED BY <1>0, <1>1, <1>5, <2>1, MxTypedOn
  <1> QED BY <1>1, <1>4, <1>5

\* The loop for version 1 accepts no high capacity card that was reset.
LEMMA MxV1ReadyEffect == ASSUME StorageInv, MxV1Ready PROVE MxOn
  <1> DEFINE takes == (Card.level = 1 /\ Card.id \in {"v1", "v2"}) \/ (Card.level = 2 /\ Card.id # "mmc")
             S == GetsReady(Card, takes)
  <1>0. MxBegins /\ pc = "mx_v1" /\ UNCHANGED req
    BY MxBeginsSo DEF MxV1Ready, MxStep, Serving, MxPcs, ReadyPcs
  <1>1. (\E a \in S : CardAnswers(port, a)) \/ ExchangeLost(port, S)
    BY DEF MxV1Ready, Exchange, V1Loop
  <1>2. \/ \E next \in {"mx_v1", "mx_mmc"} : MxGoes(next)
        \/ (\E a \in S : a.reply = "r0") /\ MxTyped("sc", "mx_block")
    BY DEF MxV1Ready, Exchange, V1Loop
  <1>3. takes /\ Unready(Card) => Card.id # "hc"
    BY DEF Unready
  <1> HIDE DEF takes
  <1>4. takes \in BOOLEAN
    BY DEF takes
  <1> QED BY <1>0, <1>1, <1>2, <1>3, <1>4, OldLoopEffect

\* Neither does the loop for MMC.
LEMMA MxMmcReadyEffect == ASSUME StorageInv, MxMmcReady PROVE MxOver \/ MxOn
  <1> DEFINE takes == Card.level = 2 \/ Card.id = "mmc"
             S == GetsReady(Card, takes)
  <1>0. MxBegins /\ pc = "mx_mmc" /\ pc \in MxPcs /\ UNCHANGED req
    BY MxBeginsSo DEF MxMmcReady, MxStep, Serving, MxPcs, ReadyPcs
  <1>1. (\E a \in S : CardAnswers(port, a)) \/ ExchangeLost(port, S)
    BY DEF MxMmcReady, Exchange, MmcLoop
  <1>2. \/ MxFails
        \/ MxGoes("mx_mmc")
        \/ (\E a \in S : a.reply = "r0") /\ MxTyped("sc", "mx_block")
    BY DEF MxMmcReady, Exchange, MmcLoop
  <1>3. takes /\ Unready(Card) => Card.id # "hc"
    BY DEF Unready
  <1> HIDE DEF takes
  <1>4. takes \in BOOLEAN
    BY DEF takes
  <1>5. PortsStill /\ (MxGoes("mx_mmc") => MxOn) /\ ((\E a \in S : a.reply = "r0") /\ MxTyped("sc", "mx_block") => MxOn)
    BY <1>0, <1>1, <1>3, <1>4, OldLoopEffect
  <1>6. CASE MxFails
    BY <1>0, <1>5, <1>6, MxFailsOver
  <1> QED BY <1>2, <1>5, <1>6

\* CMD16 changes nothing that is known of the card.
LEMMA MxBlockLengthEffect == ASSUME StorageInv, MxBlockLength PROVE MxOver \/ MxOn
  <1> DEFINE S == BlockLength(Card)
  <1>0. MxBegins /\ pc = "mx_block" /\ pc \in ReadyPcs /\ pc \in MxPcs /\ UNCHANGED req
    BY MxBeginsSo DEF MxBlockLength, MxStep, Serving, MxPcs, ReadyPcs
  <1>1. (\E a \in S : CardAnswers(port, a)) \/ ExchangeLost(port, S)
    BY DEF MxBlockLength, Exchange
  <1>2. /\ PortsStill /\ Same(Card, ports'[MxPort])
        /\ Card.flow = "quiet" => ports'[MxPort].flow = "quiet"
    <2>1. \A a \in S : Same(Card, a.card) /\ (Card.flow = "quiet" => a.card.flow = "quiet")
      BY <1>0, AskedStill DEF MxBegins
    <2> HIDE DEF S
    <2> QED BY <1>0, <1>1, <2>1, AskedEffect
  <1>3. MxFails \/ \E next \in {"mx_block", "mx_csd"} : MxGoes(next)
    BY DEF MxBlockLength, Exchange
  <1>4. CASE MxFails
    BY <1>0, <1>2, <1>4, MxFailsOver
  <1>5. ASSUME NEW next \in {"mx_block", "mx_csd"}, MxGoes(next) PROVE MxOn
    BY <1>0, <1>2, <1>5, MxGoesOn DEF ReadyPcs, OldPcs
  <1> QED BY <1>3, <1>4, <1>5

\* The card is known, and listed last.
MxFound(n) == /\ n \in Nat /\ (~mx.torn => n = SectorCount)
              /\ pc = "mx_csd" /\ pc' = "replied" /\ UNCHANGED <<req, port>>
              /\ mx' = [mx EXCEPT !.ok = TRUE, !.count = n]
              /\ info' \in Devices /\ info'.sectors = n
              /\ devices' = Append(devices, info') /\ count' = Len(devices')
              /\ PortsStill /\ Same(ports[MxPort], ports'[MxPort])

\* A card between two commands gives its own sectors.
LEMMA CapacityCounts ==
  ASSUME NEW c, NEW a \in Capacity(c), a.reply > 0
  PROVE  a.reply \in Nat /\ (c.flow = "quiet" => a.reply = SectorCount)
  BY StorageAssumption, CardsAssumption DEF Capacity, Garbled, Ans, Nothing

\* The capacity lists the card, or ends the scan without it.
LEMMA MxCapacityEffect == ASSUME StorageInv, MxCapacity PROVE MxOver \/ \E n : MxFound(n)
  <1> DEFINE S == Capacity(Card)
  <1>0. MxBegins /\ pc = "mx_csd" /\ pc \in ReadyPcs /\ pc \in MxPcs /\ UNCHANGED req
    BY MxBeginsSo DEF MxCapacity, MxStep, Serving, MxPcs, ReadyPcs
  <1>1. (\E a \in S : CardAnswers(port, a)) \/ ExchangeLost(port, S)
    BY DEF MxCapacity, Exchange
  <1>2. PortsStill /\ Same(Card, ports'[MxPort])
    <2>1. \A a \in S : Same(Card, a.card) /\ (Card.flow = "quiet" => a.card.flow = "quiet")
      BY <1>0, AskedStill DEF MxBegins
    <2> HIDE DEF S
    <2> QED BY <1>0, <1>1, <2>1, AskedEffect
  <1>3. \/ MxFails
        \/ \E a \in S : /\ a.reply > 0
                        /\ mx' = [mx EXCEPT !.ok = TRUE, !.count = a.reply]
                        /\ info' = [Device("mx", MxPort) EXCEPT !.sectors = a.reply]
                        /\ NextPort(Append(devices, info'))
    BY DEF MxCapacity, Exchange
  <1>4. CASE MxFails
    BY <1>0, <1>2, <1>4, MxFailsOver
  <1>5. ASSUME NEW a \in S, a.reply > 0,
               mx' = [mx EXCEPT !.ok = TRUE, !.count = a.reply],
               info' = [Device("mx", MxPort) EXCEPT !.sectors = a.reply],
               NextPort(Append(devices, info'))
        PROVE  MxFound(a.reply)
    <2>1. Device("mx", MxPort) \in Devices /\ a.reply \in Nat /\ (~mx.torn => a.reply = SectorCount)
      BY <1>0, <1>5, DeviceTyped, CapacityCounts DEF MxBegins
    <2>2. info' \in Devices /\ info'.sectors = a.reply
      BY <1>5, <2>1 DEF Devices
    <2>3. devices' = Append(devices, info') /\ count' = Len(devices') /\ pc' = "replied" /\ UNCHANGED port
      BY <1>0, <1>5 DEF NextPort, Answer, MxBegins
    <2> QED BY <1>0, <1>2, <1>5, <2>1, <2>2, <2>3 DEF MxFound, MxBegins
  <1> QED BY <1>3, <1>4, <1>5

\* A card that is listed is the one the globals describe.
LEMMA MxFoundKeeps == ASSUME StorageInv, NEW n, MxFound(n) PROVE StorageInv'
  <1>1. CardsFit'
    BY CardsStillFit DEF StorageInv, MxFound
  <1>2. Where'
    BY DEF StorageInv, Where, MxFound, ScanPcs, PagePcs, MxPcs, ReadyPcs, BlockPcs
  <1>3. InScan /\ mx \in Mxs /\ n \in Nat
    BY DEF StorageInv, TableFits, InScan, MxFound, MxPcs, ReadyPcs
  <1>4. mx' \in Mxs /\ mx'.ok /\ mx'.count = n /\ mx'.type = mx.type /\ mx'.torn = mx.torn
    BY <1>3 DEF MxFound, Mxs
  <1>5. TableFits'
    <2>1. devices \in Seq(Devices) /\ \A k \in 1 .. Len(devices) : devices[k].kind # "mx"
      BY <1>3 DEF StorageInv, TableFits
    <2>2. /\ devices' \in Seq(Devices) /\ Len(devices') = Len(devices) + 1
          /\ \A k \in 1 .. Len(devices) : devices'[k] = devices[k]
          /\ devices'[Len(devices) + 1].sectors = n
      <3>1. PICK d \in Devices : d = info' /\ d.sectors = n /\ devices' = Append(devices, d)
        BY DEF MxFound
      <3> QED BY <2>1, <3>1
    <2>3. \A k \in 1 .. Len(devices') : devices'[k].kind = "mx" => devices'[k].sectors = n
      BY <2>1, <2>2
    <2>4. count' \in 0 .. Len(devices') /\ info' \in Devices /\ ~InScan'
      BY <2>1, <2>2 DEF MxFound, InScan, ScanPcs, PagePcs, MxPcs, ReadyPcs
    <2> QED BY <1>4, <2>2, <2>3, <2>4 DEF TableFits
  <1>6. UnitFits'
    <2>1. ~mx'.torn => mx'.count = SectorCount /\ Addressed(ports[MxPort])'
      BY <1>4 DEF StorageInv, UnitFits, Addressed, MxFound, Same, Still
    <2> QED BY <2>1 DEF UnitFits, MxFound, MxPcs, ReadyPcs, OldPcs
  <1>7. Reading' /\ PageIsAsked'
    BY <1>3 DEF StorageInv, Where, Reading, PageIsAsked, MxFound, MxPcs, ReadyPcs
  <1> QED BY <1>1, <1>2, <1>5, <1>6, <1>7 DEF StorageInv

\* Every step of ef2_storage_backend_scan keeps the invariant.
LEMMA ScanStepKeeps == ASSUME StorageInv, ScanStep PROVE StorageInv'
  <1>1. req.fn = "scan"
    BY DEF StorageInv, Where, ScanStep, ScanPing, ScanTerminator, ScanGeometry, ScanValue, ScanStatus,
           Serving, MxInitStep, MxWake, MxReset, MxVersion, MxV2Ready, MxOcr, MxV1Ready, MxMmcReady,
           MxBlockLength, MxCapacity, MxStep, ScanPcs, MxPcs, ReadyPcs
  <1>2. CASE ScanPing \/ ScanTerminator \/ ScanGeometry \/ ScanCardOrChannel \/ ScanStatus
    BY <1>1, <1>2, ScanKeeps, ScanPingEffect, ScanTerminatorEffect, ScanGeometryEffect, ScanValueEffect,
       ScanStatusEffect
  <1>3. CASE MxInitStep
    <2>1. MxOver \/ MxOn \/ \E n : MxFound(n)
      BY <1>3, MxWakeEffect, MxResetEffect, MxVersionEffect, MxV2ReadyEffect, MxOcrEffect,
         MxV1ReadyEffect, MxMmcReadyEffect, MxBlockLengthEffect, MxCapacityEffect DEF MxInitStep
    <2> QED BY <2>1, MxGoneKeeps, MxFoundKeeps
  <1> QED BY <1>2, <1>3 DEF ScanStep, ScanCardOrChannel
-----------------------------------------------------------------------------
(* Requests, replies and cards coming and going.                           *)

\* A request leads to the position that serves it.
LEMMA RpcHandlerKeeps == ASSUME StorageInv, NEW r, r.index \in Nat, RpcHandler(r) PROVE StorageInv'
  <1> DEFINE d == DeviceAt(r.index)
  <1>1. CardsFit' /\ (mx' = mx /\ ports' = ports)
    BY DEF StorageInv, CardsFit, RpcHandler, ScanBegin, mediaVars, tableVars
  <1>2. CASE r.fn = "scan" /\ ScanBegin
    <2>1. /\ req' = r /\ devices' = <<>> /\ count' = 0 /\ port' = 2 /\ info' = NoDevice /\ pc' = "ping"
      BY <1>2 DEF RpcHandler, ScanBegin, ScanClears, Go
    <2>2. Where'
      BY <1>2, <2>1 DEF Where, ScanPcs, PagePcs, MxPcs, ReadyPcs, BlockPcs
    <2>3. TableFits'
      BY <1>1, <2>1 DEF StorageInv, TableFits, NoDevice, Devices
    <2>4. UnitFits'
      BY <1>1, <2>1 DEF StorageInv, UnitFits, Addressed, Unready, OldPcs, MxPcs, ReadyPcs
    <2>5. Reading' /\ PageIsAsked'
      BY <2>1 DEF Reading, PageIsAsked
    <2> QED BY <1>1, <2>2, <2>3, <2>4, <2>5 DEF StorageInv
  <1>3. CASE /\ pc' = "replied" /\ (r.fn \in {"init", "get_device"} \/ reply'.result = "error")
             /\ UNCHANGED <<tableVars, localVars>>
    <2>1. Where' /\ TableFits' /\ UnitFits'
      BY <1>1, <1>3 DEF StorageInv, Where, TableFits, UnitFits, Addressed, Unready, OldPcs, InScan, tableVars, localVars,
                        ScanPcs, PagePcs, MxPcs, ReadyPcs, BlockPcs
    <2>2. Reading' /\ PageIsAsked'
      BY <1>3 DEF Reading, PageIsAsked, RpcHandler
    <2> QED BY <1>1, <2>1, <2>2 DEF StorageInv
  <1>4. CASE /\ Entry(r, d) # "refused" /\ pc' = Entry(r, d)
             /\ info' = d /\ port' = info'.port /\ UNCHANGED tableVars
    <2>1. req' = r
      BY DEF RpcHandler
    <2>2. /\ pc' \in {"select"} \cup BlockPcs
          /\ pc' = "select" => r.fn = "read_page"
          /\ pc' \in BlockPcs => r.fn \notin {"scan", "read_page"}
      BY <1>4 DEF Entry, BlockPcs, ValueFns
    <2>3. d \in Devices
      <3>1. devices \in Seq(Devices) /\ count \in 0 .. Len(devices)
        BY DEF StorageInv, TableFits
      <3>2. NoDevice \in Devices
        BY DEF NoDevice, Devices
      <3>3. r.index < count => devices[r.index + 1] \in Devices
        BY <3>1
      <3> QED BY <3>2, <3>3 DEF DeviceAt
    <2>4. Where'
      BY <1>4, <2>1, <2>2, <2>3 DEF Where, Devices, ScanPcs, PagePcs, MxPcs, ReadyPcs, BlockPcs
    <2>5. TableFits'
      BY <1>1, <1>4, <2>1, <2>2, <2>3 DEF StorageInv, TableFits, InScan, tableVars,
                                       ScanPcs, PagePcs, MxPcs, ReadyPcs, BlockPcs
    <2>6. UnitFits'
      BY <1>1, <2>2 DEF StorageInv, UnitFits, Addressed, Unready, OldPcs, MxPcs, ReadyPcs, BlockPcs
    <2>7. Reading' /\ PageIsAsked'
      BY <2>2 DEF Reading, PageIsAsked, BlockPcs
    <2> QED BY <1>1, <2>4, <2>5, <2>6, <2>7 DEF StorageInv
  <1> QED BY <1>2, <1>3, <1>4 DEF RpcHandler, Answer, Fail, Go

\* So does handing the reply to the client.
LEMMA ReturnedKeeps == ASSUME StorageInv, Returned PROVE StorageInv'
  <1>1. /\ pc' = "idle" /\ req' = NoRequest /\ port' = 2 /\ info' = NoDevice
        /\ UNCHANGED <<ports, devices, count, mx>>
    BY DEF Returned, mediaVars, tableVars
  <1>2. CardsFit' /\ UnitFits'
    BY <1>1 DEF StorageInv, CardsFit, UnitFits, Addressed, Unready, OldPcs, MxPcs, ReadyPcs
  <1>3. Where'
    BY <1>1 DEF Where, ScanPcs, PagePcs, MxPcs, ReadyPcs, BlockPcs
  <1>4. TableFits'
    BY <1>1 DEF StorageInv, TableFits, InScan, NoDevice, Devices, ScanPcs, PagePcs, MxPcs, ReadyPcs
  <1>5. Reading' /\ PageIsAsked'
    BY <1>1 DEF Reading, PageIsAsked
  <1> QED BY <1>2, <1>3, <1>4, <1>5 DEF StorageInv

\* A card that is plugged in is between two commands and in no transfer.
LEMMA FreshCard ==
  ASSUME NEW c \in AllCards
  PROVE  /\ IsCard(c) /\ (Native(c) => c.id \in CardIds)
         /\ c.level = 0 /\ c.flow = "quiet" /\ c.sel = Nothing
  <1>1. ASSUME NEW kind, NEW id
        PROVE  /\ IsCard(CardOf(kind, id)) /\ CardOf(kind, id).kind = kind /\ CardOf(kind, id).id = id
               /\ CardOf(kind, id).level = 0 /\ CardOf(kind, id).flow = "quiet" /\ CardOf(kind, id).sel = Nothing
    BY DEF CardOf, IsCard, Fields
  <1>2. CASE c = NoCard
    BY <1>1, <1>2 DEF NoCard, Native
  <1>3. CASE c \in {CardOf("mc", m) : m \in MemoryCards}
    BY <1>1, <1>3 DEF CardIds
  <1>4. CASE c \in {CardOf("mmce", e) : e \in Emulators}
    BY <1>1, <1>4 DEF CardIds
  <1>5. CASE c \in {CardOf("sd", t) : t \in SdTypes}
    BY <1>1, <1>5 DEF Native
  <1> QED BY <1>2, <1>3, <1>4, <1>5 DEF AllCards

\* Taking a card out and putting another in: its capacity is not the old
\* one's, but it is not ready before it was initialised.
LEMMA CardExchangedKeeps == ASSUME StorageInv, CardExchanged PROVE StorageInv'
  <1>1. PICK p \in Ports, c \in AllCards : ports' = [ports EXCEPT ![p] = c]
    BY DEF CardExchanged, Plugs
  <1>2. /\ IsCard(c) /\ (Native(c) => c.id \in CardIds)
        /\ c.level = 0 /\ c.flow = "quiet" /\ c.sel = Nothing
    BY FreshCard
  <1>3. /\ UNCHANGED <<devices, count, mx, pc, req, port, info, i, data, reply>>
        /\ \A q \in Ports : ports'[q] \in {ports[q], c}
        /\ DOMAIN ports' = Ports
    BY <1>1 DEF CardExchanged, tableVars, localVars, StorageInv, CardsFit
  <1>4. CardsFit' /\ Where' /\ TableFits'
    BY <1>2, <1>3 DEF StorageInv, CardsFit, Where, TableFits, InScan
  <1>5. UnitFits'
    BY <1>2, <1>3 DEF StorageInv, UnitFits, Addressed, Unready, OldPcs
  <1>6. Reading'
    <2>1. PageAsked' = PageAsked /\ (Card' = Card \/ Card'.sel = Nothing)
      BY <1>2, <1>3 DEF PageAsked, Scanning, Card, StorageInv, Where
    <2>2. \A d : PageOf(d, i)' = PageOf(d, i)
      BY <1>3, <2>1 DEF PageOf
    <2> QED BY <1>3, <2>1, <2>2 DEF StorageInv, Reading
  <1>7. PageIsAsked'
    BY <1>3 DEF StorageInv, PageIsAsked
  <1> QED BY <1>4, <1>5, <1>6, <1>7 DEF StorageInv

\* So does every step of the service.
LEMMA ServiceStepKeeps == ASSUME StorageInv, ServiceStep PROVE StorageInv'
  <1>1. CardsFit /\ Where
    BY DEF StorageInv
  <1> QED BY <1>1, ScanStepKeeps, PageStepKeeps, BlockKeeps, ReadSectorEffect, WriteSectorEffect, MmceEffect
          DEF ServiceStep
-----------------------------------------------------------------------------
(* The client, and the theorems.                                           *)

\* The operation under way names a device by a natural number.
OpFits == DOMAIN op = {"fn", "index", "at", "size", "w"} /\ op.index \in Nat

\* Nothing the invariant speaks of is touched.
LEMMA UntouchedKeeps ==
  ASSUME StorageInv, UNCHANGED <<ports, tableVars, pc, req, localVars, reply>>
  PROVE  StorageInv'
  <1>1. UNCHANGED <<ports, devices, count, mx, pc, req, port, info, i, data, reply>>
    BY DEF tableVars, localVars
  <1>2. CardsFit' /\ Where' /\ TableFits' /\ UnitFits' /\ PageIsAsked'
    BY <1>1 DEF StorageInv, CardsFit, Where, TableFits, InScan, UnitFits, Addressed, PageIsAsked
  <1>3. Reading'
    BY <1>1 DEF StorageInv, Reading, PageOf, PageAsked, Scanning, Card
  <1> QED BY <1>2, <1>3 DEF StorageInv

\* The module starts with an empty table.
LEMMA StorageInit == Init => StorageInv /\ OpFits
  <1> SUFFICES ASSUME Init PROVE StorageInv /\ OpFits
    OBVIOUS
  <1>1. CardsFit /\ ports[MxPort].level = 0
    BY FreshCard DEF Init, ServiceInit, CardsFit
  <1>2. Where
    BY DEF Init, ServiceInit, Where, ScanPcs, PagePcs, MxPcs, ReadyPcs, BlockPcs
  <1>3. TableFits
    BY DEF Init, ServiceInit, TableFits, InScan, Mxs, NoDevice, Devices, ScanPcs, PagePcs, MxPcs, ReadyPcs
  <1>4. UnitFits
    BY <1>1 DEF Init, ServiceInit, UnitFits, Addressed, Unready, OldPcs, MxPcs, ReadyPcs
  <1>5. Reading /\ PageIsAsked
    BY DEF Init, ServiceInit, Reading, PageIsAsked
  <1>6. OpFits
    BY DEF Init, OpFits, NoOp, NoRequest
  <1> QED BY <1>1, <1>2, <1>3, <1>4, <1>5, <1>6 DEF StorageInv

\* What a request asks for a device by.
LEMMA RequestNamesDevice == OpFits => RequestOf.index \in Nat
  BY DEF OpFits, RequestOf, NoRequest, FileRequest, SectorRequest, OneRequest

\* A call of the API asks for a device by a number.
LEMMA BeginKeeps == ASSUME StorageInv, NEW o \in Operations, Begin(o) PROVE StorageInv' /\ OpFits'
  <1>1. OpFits'
    BY DEF Begin, Operations, OpFits
  <1>2. UNCHANGED <<ports, tableVars, pc, req, localVars, reply>>
    BY DEF Begin, serviceVars, mediaVars
  <1> QED BY <1>1, <1>2, UntouchedKeeps

\* The client's steps keep the invariant.
LEMMA CallerStepKeeps == ASSUME StorageInv, OpFits, CallerStep PROVE StorageInv' /\ OpFits'
  <1>1. CASE Initialise
    BY <1>1, UntouchedKeeps DEF Initialise, serviceVars, mediaVars, OpFits
  <1>2. CASE Call
    BY <1>2, RpcHandlerKeeps, RequestNamesDevice DEF Call, OpFits
  <1>3. CASE InitDone \/ Taken \/ Refusal
    BY <1>3, ReturnedKeeps DEF InitDone, Taken, Refusal, OpFits
  <1>4. CASE Leave
    BY <1>4, UntouchedKeeps DEF Leave, serviceVars, mediaVars, OpFits, NoOp, NoRequest
  <1> QED BY <1>1, <1>2, <1>3, <1>4 DEF CallerStep

\* Every step keeps the invariant.
LEMMA StorageKept == StorageInv /\ OpFits /\ [Next]_vars => StorageInv' /\ OpFits'
  <1> SUFFICES ASSUME StorageInv, OpFits, [Next]_vars PROVE StorageInv' /\ OpFits'
    OBVIOUS
  <1>1. ASSUME NEW o \in Operations, Begin(o) PROVE StorageInv' /\ OpFits'
    BY <1>1, BeginKeeps
  <1>2. CASE CallerStep
    BY <1>2, CallerStepKeeps
  <1>3. CASE CallFails
    BY <1>3, UntouchedKeeps DEF CallFails, OpFits
  <1>4. CASE (ServiceStep \/ CardExchanged) /\ UNCHANGED clientVars
    BY <1>4, ServiceStepKeeps, CardExchangedKeeps DEF clientVars, OpFits
  <1>5. CASE UNCHANGED vars
    BY <1>5, UntouchedKeeps DEF vars, serviceVars, mediaVars, clientVars, OpFits
  <1> QED BY <1>1, <1>2, <1>3, <1>4, <1>5 DEF Next

\* The invariant holds throughout.
LEMMA StorageAlways == Spec => [](StorageInv /\ OpFits)
  BY StorageInit, StorageKept, PTL DEF Spec

\* Whatever exchanges time out and cards are exchanged between the steps of
\* mc_read_page, a page it returns with success is the page asked for: all its
\* chunks, in order, and of one card.
THEOREM PagesAreAsked == Spec => []PageIsAsked
  BY StorageAlways, PTL DEF StorageInv

\* An SD card in the table has as many sectors as g_mx_sector_count says, whatever is
\* lost or exchanged. If mx_initialize sent CMD0 to a card that was between two
\* commands, that number is right, and while the card takes sector commands it is
\* addressed in its own unit.
THEOREM GlobalsFitCards == Spec => []GlobalsFit
  <1>1. StorageInv => GlobalsFit
    <2> SUFFICES ASSUME StorageInv PROVE GlobalsFit
      OBVIOUS
    <2>1. \A k \in 1..count : devices[k].kind = "mx" => mx.ok /\ mx.count = devices[k].sectors
      BY DEF StorageInv, TableFits
    <2> QED BY <2>1 DEF StorageInv, UnitFits, Addressed, GlobalsFit, ListedIsKnown
  <1> QED BY <1>1, StorageAlways, PTL
-----------------------------------------------------------------------------
(* The counters of a card.                                                 *)

Streams == {"read", "write"}

CardTyped(c) == /\ c.step \in Nat /\ c.file \in Nat \cup {Nothing}
                /\ c.flow \in Streams => c.kind = "mmce" /\ c.file \in Nat

\* The answers a card may give to one exchange of the service.
Replies(c) ==
  {Ping(c), OneShot(c), Terminator(c), Geometry(c), NextChunk(c), EndTransfer(c), Silent(c),
   Reset(c), Version(c), HighCapacity(c), BlockLength(c), Capacity(c), CloseFile(c),
   OpenFile(c), TakePath(c), OpenEnd(c), SendBlock(c), Footer(c), FileReady(c), TakeBlock(c),
   IdleLine(c), StartToken(c), SendHalf(c), SendCrc(c), TakeToken(c), TakeCrc(c), DataResponse(c)}
  \cup {SelectPage(c, PageAsked), SeekFile(c, req.at), TakeHalf(c, req.w),
        Transfer(c, Address, "send"), Transfer(c, Address, "recv"),
        FileHeader(c, "read"), FileHeader(c, "write"), V2Loop(c), V1Loop(c), MmcLoop(c)}

\* Abandoning a transfer keeps the counters.
LEMMA QuietTyped == ASSUME NEW c, IsCard(c), CardTyped(c) PROVE IsCard(Quiet(c)) /\ CardTyped(Quiet(c))
  BY DEF CardTyped, Quiet, IsCard, Fields, Streams

\* So do silence, padding and garbled answers.
LEMMA PlainTyped ==
  ASSUME NEW c, IsCard(c), CardTyped(c)
  PROVE  /\ \A a \in Silent(c) : CardTyped(a.card)
         /\ \A a \in Padding(c) : CardTyped(a.card)
         /\ \A a \in Silent(Quiet(c)) : CardTyped(a.card)
         /\ \A R : \A a \in Garbled(c, R) : CardTyped(a.card)
  BY QuietTyped DEF Silent, Padding, Garbled, Ans

\* The memory card commands count chunks.
LEMMA NativeTyped ==
  ASSUME NEW c, IsCard(c), CardTyped(c), NEW n
  PROVE  /\ \A a \in Terminator(c) : CardTyped(a.card)
         /\ \A a \in Geometry(c) : CardTyped(a.card)
         /\ \A a \in SelectPage(c, n) : CardTyped(a.card)
         /\ \A a \in NextChunk(c) : CardTyped(a.card)
         /\ \A a \in EndTransfer(c) : CardTyped(a.card)
  <1>1. /\ \A a \in Terminator(c) : CardTyped(a.card)
        /\ \A a \in Geometry(c) : CardTyped(a.card)
    BY PlainTyped DEF Terminator, Geometry, Ans
  <1>2. \A m, r : CardTyped(Ans([c EXCEPT !.sel = m, !.step = 0], r).card)
    BY DEF Ans, CardTyped, IsCard, Fields
  <1>3. \A a \in SelectPage(c, n) : CardTyped(a.card)
    BY <1>2, PlainTyped DEF SelectPage
  <1>4. \A r : CardTyped(Ans([c EXCEPT !.step = @ + 1], r).card)
    BY DEF Ans, CardTyped, IsCard, Fields
  <1>5. \A a \in NextChunk(c) : CardTyped(a.card)
    BY <1>4, PlainTyped DEF NextChunk
  <1>6. \A a \in EndTransfer(c) : CardTyped(a.card)
    BY <1>2, PlainTyped DEF EndTransfer
  <1> QED BY <1>1, <1>3, <1>5, <1>6

\* The commands of an emulator count blocks, and a file under transfer is open.
LEMMA FileTyped ==
  ASSUME NEW c, IsCard(c), CardTyped(c), NEW n \in Nat
  PROVE  /\ \A a \in Ping(c) : CardTyped(a.card)
         /\ \A a \in OneShot(c) : CardTyped(a.card)
         /\ \A a \in CloseFile(c) : CardTyped(a.card)
         /\ \A a \in SeekFile(c, n) : CardTyped(a.card)
         /\ \A a \in OpenFile(c) : CardTyped(a.card)
         /\ \A a \in TakePath(c) : CardTyped(a.card)
         /\ \A a \in OpenEnd(c) : CardTyped(a.card)
         /\ \A flow \in Streams : \A a \in FileHeader(c, flow) : CardTyped(a.card)
         /\ \A a \in SendBlock(c) : CardTyped(a.card)
         /\ \A a \in FileReady(c) : CardTyped(a.card)
         /\ \A a \in TakeBlock(c) : CardTyped(a.card)
         /\ \A a \in Footer(c) : CardTyped(a.card)
  <1>1. ASSUME NEW S, c.kind = "mmce" => \A a \in S : CardTyped(a.card)
        PROVE  \A a \in Emulates(c, S) : CardTyped(a.card)
    BY <1>1, PlainTyped DEF Emulates
  <1>2. \A r : CardTyped(Ans(Quiet(c), r).card)
    BY QuietTyped DEF Ans
  <1>3. \A r : \A m \in Nat \cup {Nothing} : CardTyped(Ans([Quiet(c) EXCEPT !.file = m], r).card)
    BY DEF Ans, CardTyped, Quiet, IsCard, Fields, Streams
  <1>4. \A flow \in {"path", "end"} : \A r : CardTyped(Ans([c EXCEPT !.flow = flow], r).card)
    BY DEF Ans, CardTyped, IsCard, Fields, Streams
  <1>5. /\ \A a \in Ping(c) : CardTyped(a.card)
        /\ \A a \in OneShot(c) : CardTyped(a.card)
        /\ \A a \in CloseFile(c) : CardTyped(a.card)
        /\ \A a \in SeekFile(c, n) : CardTyped(a.card)
        /\ \A a \in OpenFile(c) : CardTyped(a.card)
    BY <1>1, <1>2, <1>3, <1>4 DEF Ping, OneShot, CloseFile, SeekFile, OpenFile
  <1>6. /\ \A a \in TakePath(c) : CardTyped(a.card)
        /\ \A a \in OpenEnd(c) : CardTyped(a.card)
    BY <1>2, <1>3, <1>4, PlainTyped DEF TakePath, OpenEnd
  <1>7. ASSUME NEW flow \in Streams PROVE \A a \in FileHeader(c, flow) : CardTyped(a.card)
    <2>1. c.kind = "mmce" /\ c.file # Nothing =>
            CardTyped(Ans([c EXCEPT !.flow = flow, !.step = 0], "ok").card)
      BY <1>7 DEF Ans, CardTyped, IsCard, Fields, Streams
    <2> QED BY <1>1, <1>2, <2>1 DEF FileHeader
  <1>8. c.flow \in Streams => \A r : CardTyped(Ans([c EXCEPT !.file = @ + 1, !.step = @ + 1], r).card)
    <2>1. c.kind = "mmce" => \A f, m \in Nat : \A r : CardTyped(Ans([c EXCEPT !.file = f, !.step = m], r).card)
      BY DEF Ans, CardTyped, IsCard, Fields, Streams
    <2>2. c.flow \in Streams => c.kind = "mmce" /\ c.file + 1 \in Nat /\ c.step + 1 \in Nat
      BY DEF CardTyped
    <2> QED BY <2>1, <2>2
  <1>9. \A r : CardTyped(Ans(c, r).card)
    BY DEF Ans
  <1>10. /\ \A a \in SendBlock(c) : CardTyped(a.card)
         /\ \A a \in FileReady(c) : CardTyped(a.card)
         /\ \A a \in TakeBlock(c) : CardTyped(a.card)
         /\ \A a \in Footer(c) : CardTyped(a.card)
    BY <1>2, <1>8, <1>9, PlainTyped DEF SendBlock, FileReady, TakeBlock, Footer, Streams
  <1> QED BY <1>5, <1>6, <1>7, <1>10

\* The commands of an SD card count halves.
LEMMA SectorTyped ==
  ASSUME NEW c, IsCard(c), CardTyped(c), NEW n
  PROVE  /\ \A a \in Reset(c) : CardTyped(a.card)
         /\ \A a \in Version(c) : CardTyped(a.card)
         /\ \A takes : \A a \in GetsReady(c, takes) : CardTyped(a.card)
         /\ \A a \in HighCapacity(c) : CardTyped(a.card)
         /\ \A a \in BlockLength(c) : CardTyped(a.card)
         /\ \A a \in Capacity(c) : CardTyped(a.card)
         /\ \A flow \in {"send", "recv"} : \A a \in Transfer(c, n, flow) : CardTyped(a.card)
         /\ \A a \in IdleLine(c) : CardTyped(a.card)
         /\ \A a \in StartToken(c) : CardTyped(a.card)
         /\ \A a \in SendHalf(c) : CardTyped(a.card)
         /\ \A a \in SendCrc(c) : CardTyped(a.card)
         /\ \A a \in TakeToken(c) : CardTyped(a.card)
         /\ \A w : \A a \in TakeHalf(c, w) : CardTyped(a.card)
         /\ \A a \in TakeCrc(c) : CardTyped(a.card)
         /\ \A a \in DataResponse(c) : CardTyped(a.card)
  <1>1. ASSUME NEW S, \A a \in S : CardTyped(a.card)
        PROVE  \A a \in Obeys(c, S) : CardTyped(a.card)
    BY <1>1, PlainTyped DEF Obeys
  <1>2. \A r : CardTyped(Ans(Quiet(c), r).card)
    BY QuietTyped DEF Ans
  <1>3. \A r : CardTyped(Ans(c, r).card)
    BY DEF Ans
  <1>4. \A l, r : /\ CardTyped(Ans([c EXCEPT !.level = l], r).card)
                  /\ CardTyped(Ans([Quiet(c) EXCEPT !.level = l], r).card)
    BY DEF Ans, CardTyped, Quiet, IsCard, Fields, Streams
  <1>5. /\ \A a \in Reset(c) : CardTyped(a.card)
        /\ \A a \in Version(c) : CardTyped(a.card)
        /\ \A takes : \A a \in GetsReady(c, takes) : CardTyped(a.card)
        /\ \A a \in HighCapacity(c) : CardTyped(a.card)
        /\ \A a \in BlockLength(c) : CardTyped(a.card)
        /\ \A a \in Capacity(c) : CardTyped(a.card)
    <2>1. \A a \in Reset(c) : CardTyped(a.card)
      BY <1>1, <1>4 DEF Reset
    <2>2. \A a \in Version(c) : CardTyped(a.card)
      BY <1>1, <1>2 DEF Version
    <2>3. \A takes : \A a \in GetsReady(c, takes) : CardTyped(a.card)
      BY <1>1, <1>2, <1>4, PlainTyped DEF GetsReady
    <2>4. \A a \in HighCapacity(c) : CardTyped(a.card)
      BY <1>1, <1>2 DEF HighCapacity
    <2>5. \A a \in BlockLength(c) : CardTyped(a.card)
      BY <1>1, <1>2 DEF BlockLength
    <2>6. \A a \in Capacity(c) : CardTyped(a.card)
      BY <1>2, <1>3, PlainTyped DEF Capacity
    <2> QED BY <2>1, <2>2, <2>3, <2>4, <2>5, <2>6
  <1>6. ASSUME NEW flow \in {"send", "recv"} PROVE \A a \in Transfer(c, n, flow) : CardTyped(a.card)
    <2>1. \A s, r : CardTyped(Ans([Quiet(c) EXCEPT !.flow = flow, !.sel = s], r).card)
      BY <1>6 DEF Ans, CardTyped, Quiet, IsCard, Fields, Streams
    <2> QED BY <1>1, <1>2, <2>1 DEF Transfer
  <1>7. /\ \A a \in IdleLine(c) : CardTyped(a.card)
        /\ \A a \in SendCrc(c) : CardTyped(a.card)
    BY <1>2, <1>3 DEF IdleLine, SendCrc, Ans
  <1>8. \A m \in Nat : \A r : CardTyped(Ans([c EXCEPT !.step = m], r).card)
    BY DEF Ans, CardTyped, IsCard, Fields
  <1>9. \A r : CardTyped(Ans([c EXCEPT !.step = @ + 1], r).card)
    BY DEF Ans, CardTyped, IsCard, Fields
  <1>10. /\ \A a \in StartToken(c) : CardTyped(a.card)
         /\ \A a \in SendHalf(c) : CardTyped(a.card)
    <2>1. \A a \in StartToken(c) : CardTyped(a.card)
      BY <1>2, <1>3, <1>8 DEF StartToken
    <2>2. \A a \in SendHalf(c) : CardTyped(a.card)
      BY <1>9, PlainTyped DEF SendHalf
    <2> QED BY <2>1, <2>2
  <1>11. /\ \A a \in TakeToken(c) : CardTyped(a.card)
         /\ \A a \in TakeCrc(c) : CardTyped(a.card)
    BY <1>3, <1>8 DEF TakeToken, TakeCrc
  <1>12. \A w, r : CardTyped(Ans([c EXCEPT !.step = @ + 1, !.got = Append(@, w)], r).card)
    <2>1. \A m \in Nat : \A g, r : CardTyped(Ans([c EXCEPT !.step = m, !.got = g], r).card)
      BY DEF Ans, CardTyped, IsCard, Fields
    <2>2. c.step + 1 \in Nat
      BY DEF CardTyped
    <2> QED BY <2>1, <2>2
  <1>13. \A w : \A a \in TakeHalf(c, w) : CardTyped(a.card)
    BY <1>3, <1>12 DEF TakeHalf
  <1>14. \A r : CardTyped(Ans([Quiet(c) EXCEPT !.flow = "busy", !.disk[c.sel] = c.got], r).card)
    BY DEF Ans, CardTyped, Quiet, IsCard, Fields, Streams
  <1>15. \A a \in DataResponse(c) : CardTyped(a.card)
    BY <1>2, <1>3, <1>14 DEF DataResponse
  <1> QED BY <1>5, <1>6, <1>7, <1>10, <1>11, <1>13, <1>15

\* Whatever the service asks of a card, its counters stay natural numbers.
LEMMA RepliesTyped ==
  ASSUME NEW c, IsCard(c), CardTyped(c), req.at \in Nat, NEW S \in Replies(c)
  PROVE  \A a \in S : CardTyped(a.card)
  BY PlainTyped, NativeTyped, FileTyped, SectorTyped DEF Replies, V2Loop, V1Loop, MmcLoop, Streams

\* An exchange of the service: an answer of the card in the port, or a loss.
Exchanged(S) == (\E a \in S : CardAnswers(port, a)) \/ ExchangeLost(port, S)

\* Each step of the scan of a port is one exchange.
LEMMA ScanExchange == ASSUME ScanStep, ~MxInitStep PROVE \E S \in Replies(Card) : Exchanged(S)
  <1>1. CASE ScanPing
    <2>1. Exchanged(Ping(Card))
      BY <1>1 DEF ScanPing, Exchange, Exchanged
    <2>2. Ping(Card) \in Replies(Card)
      BY DEF Replies
    <2> QED BY <2>1, <2>2
  <1>2. CASE ScanTerminator
    <2>1. Exchanged(Terminator(Card))
      BY <1>2 DEF ScanTerminator, Exchange, Exchanged
    <2>2. Terminator(Card) \in Replies(Card)
      BY DEF Replies
    <2> QED BY <2>1, <2>2
  <1>3. CASE ScanGeometry
    <2>1. Exchanged(Geometry(Card))
      BY <1>3 DEF ScanGeometry, Exchange, Exchanged
    <2>2. Geometry(Card) \in Replies(Card)
      BY DEF Replies
    <2> QED BY <2>1, <2>2
  <1>4. CASE ScanCardOrChannel \/ ScanStatus
    <2>1. Exchanged(OneShot(Card))
      BY <1>4 DEF ScanCardOrChannel, ScanValue, ScanStatus, Exchange, Exchanged
    <2>2. OneShot(Card) \in Replies(Card)
      BY DEF Replies
    <2> QED BY <2>1, <2>2
  <1> QED BY <1>1, <1>2, <1>3, <1>4 DEF ScanStep, ScanCardOrChannel

\* Each step of mx_initialize is one exchange.
LEMMA MxExchange == ASSUME MxInitStep PROVE \E S \in Replies(Card) : Exchanged(S)
  <1>1. CASE MxWake
    <2>1. Exchanged(Silent(Card))
      BY <1>1 DEF MxStep, MxWake, Exchange, Exchanged
    <2>2. Silent(Card) \in Replies(Card)
      BY DEF Replies
    <2> QED BY <2>1, <2>2
  <1>2. CASE MxReset
    <2>1. Exchanged(Reset(Card))
      BY <1>2 DEF MxStep, MxReset, Exchange, Exchanged
    <2>2. Reset(Card) \in Replies(Card)
      BY DEF Replies
    <2> QED BY <2>1, <2>2
  <1>3. CASE MxVersion
    <2>1. Exchanged(Version(Card))
      BY <1>3 DEF MxStep, MxVersion, Exchange, Exchanged
    <2>2. Version(Card) \in Replies(Card)
      BY DEF Replies
    <2> QED BY <2>1, <2>2
  <1>4. CASE MxV2Ready
    <2>1. Exchanged(V2Loop(Card))
      BY <1>4 DEF MxStep, MxV2Ready, Exchange, Exchanged
    <2>2. V2Loop(Card) \in Replies(Card)
      BY DEF Replies
    <2> QED BY <2>1, <2>2
  <1>5. CASE MxOcr
    <2>1. Exchanged(HighCapacity(Card))
      BY <1>5 DEF MxStep, MxOcr, Exchange, Exchanged
    <2>2. HighCapacity(Card) \in Replies(Card)
      BY DEF Replies
    <2> QED BY <2>1, <2>2
  <1>6. CASE MxV1Ready
    <2>1. Exchanged(V1Loop(Card))
      BY <1>6 DEF MxStep, MxV1Ready, Exchange, Exchanged
    <2>2. V1Loop(Card) \in Replies(Card)
      BY DEF Replies
    <2> QED BY <2>1, <2>2
  <1>7. CASE MxMmcReady
    <2>1. Exchanged(MmcLoop(Card))
      BY <1>7 DEF MxStep, MxMmcReady, Exchange, Exchanged
    <2>2. MmcLoop(Card) \in Replies(Card)
      BY DEF Replies
    <2> QED BY <2>1, <2>2
  <1>8. CASE MxBlockLength
    <2>1. Exchanged(BlockLength(Card))
      BY <1>8 DEF MxStep, MxBlockLength, Exchange, Exchanged
    <2>2. BlockLength(Card) \in Replies(Card)
      BY DEF Replies
    <2> QED BY <2>1, <2>2
  <1>9. CASE MxCapacity
    <2>1. Exchanged(Capacity(Card))
      BY <1>9 DEF MxStep, MxCapacity, Exchange, Exchanged
    <2>2. Capacity(Card) \in Replies(Card)
      BY DEF Replies
    <2> QED BY <2>1, <2>2
  <1> QED BY <1>1, <1>2, <1>3, <1>4, <1>5, <1>6, <1>7, <1>8, <1>9 DEF MxInitStep

\* Each step of mc_read_page is one exchange.
LEMMA PageExchange == ASSUME PageStep PROVE \E S \in Replies(Card) : Exchanged(S)
  <1>1. CASE ReadSelect
    <2>1. Exchanged(SelectPage(Card, PageAsked))
      BY <1>1 DEF ReadSelect, Exchange, Exchanged
    <2>2. SelectPage(Card, PageAsked) \in Replies(Card)
      BY DEF Replies
    <2> QED BY <2>1, <2>2
  <1>2. CASE ReadChunk
    <2>1. Exchanged(NextChunk(Card))
      BY <1>2 DEF ReadChunk, Exchange, Exchanged
    <2>2. NextChunk(Card) \in Replies(Card)
      BY DEF Replies
    <2> QED BY <2>1, <2>2
  <1>3. CASE ReadFinish
    <2>1. Exchanged(EndTransfer(Card))
      BY <1>3 DEF ReadFinish, Exchange, Exchanged
    <2>2. EndTransfer(Card) \in Replies(Card)
      BY DEF Replies
    <2> QED BY <2>1, <2>2
  <1> QED BY <1>1, <1>2, <1>3 DEF PageStep

\* Each step of mx_read_sector is one exchange.
LEMMA ReadExchange == ASSUME ReadSectorStep PROVE \E S \in Replies(Card) : Exchanged(S)
  <1>1. CASE SectorWait("rd_wait", "rd_cmd")
    <2>1. Exchanged(IdleLine(Card))
      BY <1>1 DEF SectorWait, Exchange, Exchanged
    <2>2. IdleLine(Card) \in Replies(Card)
      BY DEF Replies
    <2> QED BY <2>1, <2>2
  <1>2. CASE SectorCommand("rd_cmd", "send", "rd_token")
    <2>1. Exchanged(Transfer(Card, Address, "send"))
      BY <1>2 DEF SectorCommand, Exchange, Exchanged
    <2>2. Transfer(Card, Address, "send") \in Replies(Card)
      BY DEF Replies
    <2> QED BY <2>1, <2>2
  <1>3. CASE SectorToken
    <2>1. Exchanged(StartToken(Card))
      BY <1>3 DEF SectorToken, Exchange, Exchanged
    <2>2. StartToken(Card) \in Replies(Card)
      BY DEF Replies
    <2> QED BY <2>1, <2>2
  <1>4. CASE SectorHalf
    <2>1. Exchanged(SendHalf(Card))
      BY <1>4 DEF SectorHalf, Exchange, Exchanged
    <2>2. SendHalf(Card) \in Replies(Card)
      BY DEF Replies
    <2> QED BY <2>1, <2>2
  <1>5. CASE SectorCrc
    <2>1. Exchanged(SendCrc(Card))
      BY <1>5 DEF SectorCrc, Exchange, Exchanged
    <2>2. SendCrc(Card) \in Replies(Card)
      BY DEF Replies
    <2> QED BY <2>1, <2>2
  <1> QED BY <1>1, <1>2, <1>3, <1>4, <1>5 DEF ReadSectorStep

\* Each step of mx_write_sector is one exchange.
LEMMA WriteExchange == ASSUME WriteSectorStep PROVE \E S \in Replies(Card) : Exchanged(S)
  <1>1. CASE SectorWait("wr_wait", "wr_cmd")
    <2>1. Exchanged(IdleLine(Card))
      BY <1>1 DEF SectorWait, Exchange, Exchanged
    <2>2. IdleLine(Card) \in Replies(Card)
      BY DEF Replies
    <2> QED BY <2>1, <2>2
  <1>2. CASE SectorCommand("wr_cmd", "recv", "wr_token")
    <2>1. Exchanged(Transfer(Card, Address, "recv"))
      BY <1>2 DEF SectorCommand, Exchange, Exchanged
    <2>2. Transfer(Card, Address, "recv") \in Replies(Card)
      BY DEF Replies
    <2> QED BY <2>1, <2>2
  <1>3. CASE WriteToken
    <2>1. Exchanged(TakeToken(Card))
      BY <1>3 DEF WriteToken, Exchange, Exchanged
    <2>2. TakeToken(Card) \in Replies(Card)
      BY DEF Replies
    <2> QED BY <2>1, <2>2
  <1>4. CASE WriteHalf
    <2>1. Exchanged(TakeHalf(Card, req.w))
      BY <1>4 DEF WriteHalf, Exchange, Exchanged
    <2>2. TakeHalf(Card, req.w) \in Replies(Card)
      BY DEF Replies
    <2> QED BY <2>1, <2>2
  <1>5. CASE WriteCrc
    <2>1. Exchanged(TakeCrc(Card))
      BY <1>5 DEF WriteCrc, Exchange, Exchanged
    <2>2. TakeCrc(Card) \in Replies(Card)
      BY DEF Replies
    <2> QED BY <2>1, <2>2
  <1>6. CASE WriteResponse
    <2>1. Exchanged(DataResponse(Card))
      BY <1>6 DEF WriteResponse, Exchange, Exchanged
    <2>2. DataResponse(Card) \in Replies(Card)
      BY DEF Replies
    <2> QED BY <2>1, <2>2
  <1>7. CASE WriteBusy
    <2>1. Exchanged(IdleLine(Card))
      BY <1>7 DEF WriteBusy, Exchange, Exchanged
    <2>2. IdleLine(Card) \in Replies(Card)
      BY DEF Replies
    <2> QED BY <2>1, <2>2
  <1> QED BY <1>1, <1>2, <1>3, <1>4, <1>5, <1>6, <1>7 DEF WriteSectorStep

\* Each step of the MMCE commands is one exchange.
LEMMA MmceExchange == ASSUME MmceStep PROVE \E S \in Replies(Card) : Exchanged(S)
  <1>1. CASE MmceValue
    <2>1. Exchanged(OneShot(Card))
      BY <1>1 DEF MmceValue, OneExchange, Exchange, Exchanged
    <2>2. OneShot(Card) \in Replies(Card)
      BY DEF Replies
    <2> QED BY <2>1, <2>2
  <1>2. CASE MmceSet
    <2>1. Exchanged(OneShot(Card))
      BY <1>2 DEF MmceSet, OneExchange, Exchange, Exchanged
    <2>2. OneShot(Card) \in Replies(Card)
      BY DEF Replies
    <2> QED BY <2>1, <2>2
  <1>3. CASE MmceClose
    <2>1. Exchanged(CloseFile(Card))
      BY <1>3 DEF MmceClose, OneExchange, Exchange, Exchanged
    <2>2. CloseFile(Card) \in Replies(Card)
      BY DEF Replies
    <2> QED BY <2>1, <2>2
  <1>4. CASE MmceLseek
    <2>1. Exchanged(SeekFile(Card, req.at))
      BY <1>4 DEF MmceLseek, OneExchange, Exchange, Exchanged
    <2>2. SeekFile(Card, req.at) \in Replies(Card)
      BY DEF Replies
    <2> QED BY <2>1, <2>2
  <1>5. CASE MmceOpenHeader
    <2>1. Exchanged(OpenFile(Card))
      BY <1>5 DEF MmceOpenHeader, OpenStep, Exchange, Exchanged
    <2>2. OpenFile(Card) \in Replies(Card)
      BY DEF Replies
    <2> QED BY <2>1, <2>2
  <1>6. CASE MmceOpenPath
    <2>1. Exchanged(TakePath(Card))
      BY <1>6 DEF MmceOpenPath, Exchange, Exchanged
    <2>2. TakePath(Card) \in Replies(Card)
      BY DEF Replies
    <2> QED BY <2>1, <2>2
  <1>7. CASE MmceOpenEnd
    <2>1. Exchanged(OpenEnd(Card))
      BY <1>7 DEF MmceOpenEnd, Exchange, Exchanged
    <2>2. OpenEnd(Card) \in Replies(Card)
      BY DEF Replies
    <2> QED BY <2>1, <2>2
  <1>8. CASE MmceHeader("read_header", "read", "read_block")
    <2>1. Exchanged(FileHeader(Card, "read"))
      BY <1>8 DEF MmceHeader, Exchange, Exchanged
    <2>2. FileHeader(Card, "read") \in Replies(Card)
      BY DEF Replies
    <2> QED BY <2>1, <2>2
  <1>9. CASE MmceReadBlock
    <2>1. Exchanged(SendBlock(Card))
      BY <1>9 DEF MmceReadBlock, Exchange, Exchanged
    <2>2. SendBlock(Card) \in Replies(Card)
      BY DEF Replies
    <2> QED BY <2>1, <2>2
  <1>10. CASE MmceReadEnd
    <2>1. Exchanged(Footer(Card))
      BY <1>10 DEF MmceReadEnd, Exchange, Exchanged
    <2>2. Footer(Card) \in Replies(Card)
      BY DEF Replies
    <2> QED BY <2>1, <2>2
  <1>11. CASE MmceHeader("write_header", "write", "write_ready")
    <2>1. Exchanged(FileHeader(Card, "write"))
      BY <1>11 DEF MmceHeader, Exchange, Exchanged
    <2>2. FileHeader(Card, "write") \in Replies(Card)
      BY DEF Replies
    <2> QED BY <2>1, <2>2
  <1>12. CASE MmceWriteReady
    <2>1. Exchanged(FileReady(Card))
      BY <1>12 DEF MmceWriteReady, Exchange, Exchanged
    <2>2. FileReady(Card) \in Replies(Card)
      BY DEF Replies
    <2> QED BY <2>1, <2>2
  <1>13. CASE MmceWriteBlock
    <2>1. Exchanged(TakeBlock(Card))
      BY <1>13 DEF MmceWriteBlock, Exchange, Exchanged
    <2>2. TakeBlock(Card) \in Replies(Card)
      BY DEF Replies
    <2> QED BY <2>1, <2>2
  <1>14. CASE MmceWriteEnd
    <2>1. Exchanged(Footer(Card))
      BY <1>14 DEF MmceWriteEnd, Exchange, Exchanged
    <2>2. Footer(Card) \in Replies(Card)
      BY DEF Replies
    <2> QED BY <2>1, <2>2
  <1> QED BY <1>1, <1>2, <1>3, <1>4, <1>5, <1>6, <1>7, <1>8, <1>9, <1>10, <1>11, <1>12, <1>13, <1>14 DEF MmceStep

\* Every step of the service keeps the counters of the cards.
LEMMA PortsTyped ==
  ASSUME CardsFit, Where, req.at \in Nat, \A p \in Ports : CardTyped(ports[p]), ServiceStep
  PROVE  \A p \in Ports : CardTyped(ports'[p])
  <1>1. PICK S \in Replies(Card) : Exchanged(S)
    BY ScanExchange, MxExchange, PageExchange, ReadExchange, WriteExchange, MmceExchange
       DEF ServiceStep, ScanStep
  <1>2. port \in Ports /\ IsCard(Card) /\ CardTyped(Card) /\ DOMAIN ports = Ports
    BY DEF CardsFit, Where, Card
  <1>3. \A a \in S : CardTyped(a.card)
    BY <1>1, <1>2, RepliesTyped
  <1> QED BY <1>1, <1>2, <1>3 DEF Exchanged, CardAnswers, ExchangeLost, Card
-----------------------------------------------------------------------------
(* How far loops and tables get.                                           *)

\* A chunk or block that is appended.
LEMMA AppendLen ==
  ASSUME NEW S, NEW s \in Seq(S), NEW e
  PROVE  Append(s, e) \in Seq(S \cup {e}) /\ Len(Append(s, e)) = Len(s) + 1
  <1>1. s \in Seq(S \cup {e})
    OBVIOUS
  <1> QED BY <1>1

LoopBound == Chunks + IoBlocks + ReadyPolls + 2

HalfPcs  == {"rd_token", "rd_half", "wr_token", "wr_half"}
ReadPcs  == {"read_header", "read_block"}
WritePcs == {"write_header", "write_ready", "write_block"}

\* The loop counter, the data and the value of a reply, at each position.
LoopsCount ==
  /\ i \in 0 .. LoopBound /\ (\E S : data \in Seq(S)) /\ Len(data) <= i
  /\ pc \in HalfPcs => i \in {1, 2}
  /\ pc \in ReadPcs \cup WritePcs => req.size \in 0 .. IoBlocks
  /\ pc \in ReadPcs => req.fn = "mmce_read"
  /\ pc \in WritePcs => req.fn = "mmce_write"
  /\ pc \in BlockPcs \ (ReadPcs \cup WritePcs) => req.fn \notin Moves
  /\ pc \in {"read_block", "write_block"} => i <= req.size
  /\ pc = "write_ready" => i < ReadyPolls
  /\ pc \in {"write_ready", "write_block"} => data = <<>>
  /\ pc = "replied" /\ reply.result = "ok" /\ req.fn \in Moves => reply.value \in 0 .. req.size

\* A scan has listed one device at most per port it has done with.
TableCounts == Len(devices) <= 2 /\ (InScan => Len(devices) <= port - 2)

Counted == /\ \A p \in Ports : CardTyped(ports[p])
           /\ req.at \in Nat /\ LoopsCount /\ TableCounts

\* Moving on in a scan.
OnToNext ==
  \/ UNCHANGED <<devices, port>> /\ InScan
  \/ /\ InScan
     /\ devices' = devices \/ \E d : devices' = Append(devices, d)
     /\ (port = 2 /\ port' = 3) \/ pc' = "replied"

\* One device per port is the most a scan lists.
LEMMA OnToNextCounts ==
  ASSUME StorageInv, TableCounts, OnToNext PROVE TableCounts'
  <1>1. devices \in Seq(Devices) /\ Len(devices) \in Nat /\ port \in {2, 3}
    BY DEF StorageInv, TableFits, Where
  <1>2. ASSUME NEW d, devices' = Append(devices, d) PROVE Len(devices') = Len(devices) + 1
    BY <1>1, <1>2, AppendLen
  <1>3. Len(devices) <= port - 2
    BY DEF TableCounts, OnToNext
  <1>4. CASE UNCHANGED <<devices, port>>
    BY <1>1, <1>3, <1>4 DEF TableCounts
  <1>5. CASE /\ devices' = devices \/ \E d : devices' = Append(devices, d)
             /\ (port = 2 /\ port' = 3) \/ pc' = "replied"
    <2>1. Len(devices') \in {Len(devices), Len(devices) + 1}
      BY <1>2, <1>5
    <2>2. pc' = "replied" => ~InScan'
      BY DEF InScan, ScanPcs, PagePcs, MxPcs, ReadyPcs
    <2> QED BY <1>1, <1>3, <1>5, <2>1, <2>2 DEF TableCounts
  <1> QED BY <1>4, <1>5 DEF OnToNext

\* The steps of a scan leave counter and data alone.
LEMMA ScanOn ==
  ASSUME StorageInv, ScanStep
  PROVE  OnToNext /\ UNCHANGED <<req, i, data>> /\ pc' \in ScanPcs \cup MxPcs \cup {"select", "replied"}
  <1> USE DEF Serving, Go, Answer, InScan, OnToNext, NextPort, ScanPcs, MxPcs, ReadyPcs
  <1>0. port \in {2, 3} /\ (pc \in MxPcs => port = MxPort)
    BY DEF StorageInv, Where
  <1>1. CASE ScanPing \/ ScanTerminator
    BY <1>1 DEF ScanPing, ScanTerminator, Exchange, tableVars, localVars
  <1>2. CASE ScanGeometry
    BY <1>0, <1>2 DEF ScanGeometry, Exchange, NoGeometry
  <1>3. CASE ScanCardOrChannel \/ ScanStatus
    <2>1. CASE ScanCardOrChannel
      BY <2>1 DEF ScanCardOrChannel, ScanValue, Exchange, tableVars, localVars
    <2>2. CASE ScanStatus
      BY <1>0, <2>2 DEF ScanStatus, Exchange
    <2> QED BY <1>3, <2>1, <2>2
  <1>4. CASE MxWake \/ MxReset \/ MxVersion
    <2>1. CASE MxWake
      BY <1>0, <2>1 DEF MxWake, Exchange, MxStep, MxKeeps
    <2>2. CASE MxReset
      BY <1>0, <2>2 DEF MxReset, Exchange, MxStep, MxKeeps, MxGoes, MxFails
    <2>3. CASE MxVersion
      BY <1>0, <2>3 DEF MxVersion, Exchange, MxStep, MxKeeps, MxGoes
    <2> QED BY <1>4, <2>1, <2>2, <2>3
  <1>5. CASE MxV2Ready \/ MxOcr \/ MxV1Ready
    <2>1. CASE MxV2Ready
      BY <1>0, <2>1 DEF MxV2Ready, Exchange, MxStep, MxKeeps, MxGoes, MxFails
    <2>2. CASE MxOcr
      BY <1>0, <2>2 DEF MxOcr, Exchange, MxStep, MxKeeps, MxTyped, MxFails
    <2>3. CASE MxV1Ready
      BY <1>0, <2>3 DEF MxV1Ready, Exchange, MxStep, MxKeeps, MxTyped, MxGoes
    <2> QED BY <1>5, <2>1, <2>2, <2>3
  <1>6. CASE MxMmcReady \/ MxBlockLength \/ MxCapacity
    <2>1. CASE MxMmcReady
      BY <1>0, <2>1 DEF MxMmcReady, Exchange, MxStep, MxKeeps, MxTyped, MxGoes, MxFails
    <2>2. CASE MxBlockLength
      BY <1>0, <2>2 DEF MxBlockLength, Exchange, MxStep, MxKeeps, MxGoes, MxFails
    <2>3. CASE MxCapacity
      BY <1>0, <2>3 DEF MxCapacity, Exchange, MxStep, MxFails
    <2> QED BY <1>6, <2>1, <2>2, <2>3
  <1> QED BY <1>1, <1>2, <1>3, <1>4, <1>5, <1>6 DEF ScanStep, MxInitStep, ScanCardOrChannel

\* The steps of a page read, for the scan and for the client.
LEMMA PageStepGoes ==
  ASSUME StorageInv, PageStep
  PROVE  /\ req' = req /\ pc' \in PagePcs \cup {"ping", "card", "replied"}
         /\ req.fn \in {"scan", "read_page"}
         /\ \/ i' = 0 /\ data' = <<>>
            \/ UNCHANGED <<i, data>>
            \/ i \in 0 .. Chunks - 1 /\ i' = i + 1 /\ \E r : data' = Append(data, r)
         /\ OnToNext \/ (~InScan /\ ~InScan' /\ devices' = devices)
  <1> USE DEF Serving, Go, Answer, Fail, NextPort, PageGoes, PageDone, Scanning, ScanChecked
  <1>1. /\ pc \in PagePcs /\ req' = req /\ req.fn \in {"scan", "read_page"}
        /\ pc' \in PagePcs \cup {"ping", "card", "replied"}
    <2>1. pc \in PagePcs /\ req' = req
      BY DEF PageStep, ReadSelect, ReadChunk, ReadFinish, PagePcs
    <2>2. pc' \in PagePcs \cup {"ping", "card", "replied"}
      <3>1. CASE ReadSelect
        BY <3>1 DEF ReadSelect, Exchange, PagePcs
      <3>2. CASE ReadChunk
        BY <3>2 DEF ReadChunk, Exchange, PagePcs
      <3>3. CASE ReadFinish
        BY <3>3 DEF ReadFinish, Exchange, PagePcs
      <3> QED BY <3>1, <3>2, <3>3 DEF PageStep
    <2> QED BY <2>1, <2>2 DEF StorageInv, Where
  <1>2. \/ i' = 0 /\ data' = <<>>
        \/ UNCHANGED <<i, data>>
        \/ i \in 0 .. Chunks - 1 /\ i' = i + 1 /\ \E r : data' = Append(data, r)
    <2>1. CASE ReadSelect \/ ReadFinish
      BY <2>1 DEF ReadSelect, ReadFinish
    <2>2. CASE ReadChunk
      <3>1. pc = "chunk"
        BY <2>2 DEF ReadChunk
      <3>2. i \in 0 .. Chunks /\ i < Chunks
        BY <3>1 DEF StorageInv, Reading
      <3>3. UNCHANGED <<i, data>> \/ (i' = i + 1 /\ \E r : data' = Append(data, r))
        BY <2>2 DEF ReadChunk, Exchange
      <3>4. i \in 0 .. Chunks - 1
        BY <3>2, StorageAssumption
      <3> QED BY <3>3, <3>4
    <2> QED BY <2>1, <2>2 DEF PageStep
  <1>3. UNCHANGED <<devices, port>> \/ (~Scanning /\ devices' = devices) \/ (Scanning /\ ScanChecked(TRUE))
        \/ (Scanning /\ ScanChecked(FALSE))
    <2>1. CASE ReadSelect
      BY <2>1 DEF ReadSelect, Exchange
    <2>2. CASE ReadChunk
      BY <2>2 DEF ReadChunk, Exchange
    <2>3. CASE ReadFinish
      BY <2>3 DEF ReadFinish, Exchange
    <2> QED BY <2>1, <2>2, <2>3 DEF PageStep
  <1>4. CASE req.fn = "scan"
    <2>1. InScan
      BY <1>1, <1>4 DEF InScan
    <2>2. UNCHANGED <<devices, port>> \/ ScanChecked(TRUE) \/ ScanChecked(FALSE)
      BY <1>3, <1>4
    <2>3. port \in {2, 3}
      BY DEF StorageInv, Where
    <2>4. OnToNext
      BY <2>1, <2>2, <2>3 DEF OnToNext
    <2> QED BY <1>1, <1>2, <2>4
  <1>5. CASE req.fn # "scan"
    <2>1. devices' = devices
      BY <1>3, <1>5
    <2>2. ~InScan
      BY <1>1, <1>5 DEF InScan, PagePcs, ScanPcs, MxPcs, ReadyPcs
    <2>3. pc' \in PagePcs \cup {"replied"}
      <3>1. CASE ReadSelect
        BY <1>5, <3>1 DEF ReadSelect, Exchange, PagePcs
      <3>2. CASE ReadChunk
        BY <1>5, <3>2 DEF ReadChunk, Exchange, PagePcs
      <3>3. CASE ReadFinish
        BY <1>5, <3>3 DEF ReadFinish, Exchange, PagePcs
      <3> QED BY <3>1, <3>2, <3>3 DEF PageStep
    <2>4. ~InScan'
      BY <1>1, <1>5, <2>3 DEF InScan, PagePcs, ScanPcs, MxPcs, ReadyPcs
    <2> QED BY <1>1, <1>2, <2>1, <2>2, <2>4
  <1> QED BY <1>4, <1>5
-----------------------------------------------------------------------------
\* A step of a sector transfer counts a half or nothing.
SectorCounts ==
  /\ pc \in BlockPcs \ (ReadPcs \cup WritePcs) /\ req' = req
  /\ pc' \in (BlockPcs \ (ReadPcs \cup WritePcs)) \cup {"replied"}
  /\ \/ UNCHANGED <<i, data>> /\ (pc' \in HalfPcs => pc \in {"rd_token", "wr_token"})
     \/ i' = 1 /\ data' = <<>>
     \/ /\ pc \in HalfPcs /\ i' = i + 1 /\ (i = 2 => pc' \notin HalfPcs)
        /\ data' = data \/ \E r : data' = Append(data, r)

\* Such a step keeps the loop within its two halves.
LEMMA SectorCounted == ASSUME LoopsCount, SectorCounts PROVE LoopsCount'
  <1>0. LoopBound \in Nat /\ LoopBound >= 5
    BY StorageAssumption DEF LoopBound
  <1>1. req.fn \notin Moves
    BY DEF LoopsCount, SectorCounts
  <1>2. i' \in 0 .. LoopBound /\ (\E S : data' \in Seq(S)) /\ Len(data') <= i' /\ (pc' \in HalfPcs => i' \in {1, 2})
    <2>1. CASE UNCHANGED <<i, data>> /\ (pc' \in HalfPcs => pc \in {"rd_token", "wr_token"})
      BY <2>1 DEF LoopsCount, HalfPcs
    <2>2. CASE i' = 1 /\ data' = <<>>
      BY <1>0, <2>2
    <2>3. CASE /\ pc \in HalfPcs /\ i' = i + 1 /\ (i = 2 => pc' \notin HalfPcs)
               /\ data' = data \/ \E r : data' = Append(data, r)
      <3>1. i \in {1, 2}
        BY <2>3 DEF LoopsCount
      <3>2. CASE data' = data
        BY <1>0, <2>3, <3>1, <3>2 DEF LoopsCount
      <3>3. CASE \E r : data' = Append(data, r)
        <4>1. PICK S, r : data \in Seq(S) /\ data' = Append(data, r)
          BY <3>3 DEF LoopsCount
        <4>2. data' \in Seq(S \cup {r}) /\ Len(data') = Len(data) + 1 /\ Len(data) \in Nat
          BY <4>1, AppendLen
        <4>3. Len(data) <= i
          BY DEF LoopsCount
        <4> QED BY <1>0, <2>3, <3>1, <4>2, <4>3
      <3> QED BY <2>3, <3>2, <3>3
    <2> QED BY <2>1, <2>2, <2>3 DEF SectorCounts
  <1>3. pc' \notin ReadPcs \cup WritePcs /\ req'.fn \notin Moves
    BY <1>1 DEF SectorCounts, ReadPcs, WritePcs
  <1> QED BY <1>2, <1>3 DEF LoopsCount, ReadPcs, WritePcs

\* The steps of mx_read_sector count like that.
LEMMA ReadSectorCounts == ASSUME ReadSectorStep PROVE SectorCounts
  <1> USE DEF BlockStep, Serving, Go, Answer, Fail, Continue, FailBlock, BlockPcs, ReadPcs, WritePcs, HalfPcs
  <1>1. CASE SectorWait("rd_wait", "rd_cmd")
    BY <1>1 DEF SectorWait, Exchange, SectorCounts
  <1>2. CASE SectorCommand("rd_cmd", "send", "rd_token")
    BY <1>2 DEF SectorCommand, Exchange, SectorCounts
  <1>3. CASE SectorToken
    BY <1>3 DEF SectorToken, Exchange, SectorCounts
  <1>4. CASE SectorHalf
    BY <1>4 DEF SectorHalf, Exchange, SectorCounts
  <1>5. CASE SectorCrc
    BY <1>5 DEF SectorCrc, Exchange, SectorCounts
  <1> QED BY <1>1, <1>2, <1>3, <1>4, <1>5 DEF ReadSectorStep

\* The steps of mx_write_sector do, too.
LEMMA WriteSectorCounts == ASSUME WriteSectorStep PROVE SectorCounts
  <1> USE DEF BlockStep, Serving, Go, Answer, Fail, Continue, FailBlock, BlockPcs, ReadPcs, WritePcs, HalfPcs
  <1>1. CASE SectorWait("wr_wait", "wr_cmd")
    BY <1>1 DEF SectorWait, Exchange, SectorCounts
  <1>2. CASE SectorCommand("wr_cmd", "recv", "wr_token")
    BY <1>2 DEF SectorCommand, Exchange, SectorCounts
  <1>3. CASE WriteToken
    BY <1>3 DEF WriteToken, Exchange, SectorCounts
  <1>4. CASE WriteHalf
    BY <1>4 DEF WriteHalf, Exchange, SectorCounts
  <1>5. CASE WriteCrc \/ WriteResponse \/ WriteBusy
    <2>1. CASE WriteCrc
      BY <2>1 DEF WriteCrc, Exchange, SectorCounts
    <2>2. CASE WriteResponse
      BY <2>2 DEF WriteResponse, Exchange, SectorCounts
    <2>3. CASE WriteBusy
      BY <2>3 DEF WriteBusy, Exchange, SectorCounts
    <2> QED BY <1>5, <2>1, <2>2, <2>3
  <1> QED BY <1>1, <1>2, <1>3, <1>4, <1>5 DEF WriteSectorStep

\* What the card counts, the footer says.
LEMMA FooterCounts == ASSUME NEW c, CardTyped(c) PROVE \A a \in Footer(c) : a.reply \in Nat \cup {-1}
  BY DEF Footer, Ans, CardTyped

\* A step of an MMCE request that is over in one piece.
OneGoes ==
  /\ pc \in BlockPcs \ (ReadPcs \cup WritePcs) /\ UNCHANGED <<req, i, data>>
  /\ pc' \in (BlockPcs \ (ReadPcs \cup WritePcs)) \cup {"replied"} /\ pc' \notin HalfPcs

\* A step of a file transfer.
Clamped == /\ pc' = "replied"
           /\ reply' \in [result : {"error"}, value : {0}] \cup [result : {"ok"}, value : 0 .. req.size]
Block(p) == pc = p /\ pc' = p /\ i < req.size /\ i' = i + 1
TransferGoes ==
  /\ pc \in ReadPcs \cup WritePcs /\ req' = req
  /\ \/ UNCHANGED <<i, data>> /\ Clamped
     \/ i' = 0 /\ data' = <<>> /\ Clamped
     \/ i' = 0 /\ data' = <<>> /\ pc = "read_header" /\ pc' = "read_block"
     \/ i' = 0 /\ data' = <<>> /\ pc = "write_header" /\ pc' = "write_ready"
     \/ i' = i + 1 /\ data' = data /\ pc = "write_ready" /\ pc' = "write_ready" /\ i + 1 < ReadyPolls
     \/ i' = 0 /\ data' = data /\ pc = "write_ready" /\ pc' = "write_block"
     \/ data' = data /\ Block("write_block")
     \/ Block("read_block") /\ \E r : data' = Append(data, r)

\* Such a step keeps the loop within the size of the request.
LEMMA TransferCounted == ASSUME LoopsCount, TransferGoes PROVE LoopsCount'
  <1>0. LoopBound \in Nat /\ LoopBound >= 5 /\ ReadyPolls \in Nat \ {0} /\ IoBlocks \in Nat \ {0}
        /\ LoopBound > IoBlocks /\ LoopBound > ReadyPolls
    BY StorageAssumption DEF LoopBound
  <1>e. (\E S : <<>> \in Seq(S)) /\ Len(<<>>) = 0
    OBVIOUS
  <1>1. req' = req /\ req.size \in 0 .. IoBlocks /\ pc \in ReadPcs \cup WritePcs
        /\ (pc \in ReadPcs => req.fn = "mmce_read") /\ (pc \in WritePcs => req.fn = "mmce_write")
        /\ (pc \in {"read_block", "write_block"} => i <= req.size)
        /\ (pc \in {"write_ready", "write_block"} => data = <<>>)
        /\ i \in 0 .. LoopBound /\ (\E S : data \in Seq(S)) /\ Len(data) <= i
    BY DEF LoopsCount, TransferGoes
  <1> USE DEF ReadPcs, WritePcs, HalfPcs, BlockPcs
  <1>2. CASE Clamped /\ (UNCHANGED <<i, data>> \/ (i' = 0 /\ data' = <<>>))
    <2>1. i' \in 0 .. LoopBound /\ (\E S : data' \in Seq(S)) /\ Len(data') <= i'
      <3>1. CASE UNCHANGED <<i, data>>
        BY <1>1, <3>1
      <3>2. CASE i' = 0 /\ data' = <<>>
        BY <1>0, <1>e, <3>2
      <3> QED BY <1>2, <3>1, <3>2
    <2> QED BY <1>0, <1>1, <1>2, <2>1 DEF LoopsCount, Clamped
  <1>3. CASE \/ i' = 0 /\ data' = <<>> /\ pc = "read_header" /\ pc' = "read_block"
             \/ i' = 0 /\ data' = <<>> /\ pc = "write_header" /\ pc' = "write_ready"
             \/ i' = i + 1 /\ data' = data /\ pc = "write_ready" /\ pc' = "write_ready" /\ i + 1 < ReadyPolls
             \/ i' = 0 /\ data' = data /\ pc = "write_ready" /\ pc' = "write_block"
             \/ data' = data /\ Block("write_block")
    <2>0. data = <<>> \/ data' = <<>>
      BY <1>1, <1>3 DEF Block
    <2>e. data' = <<>>
      BY <1>3, <2>0 DEF Block
    <2>i. i' \in 0 .. LoopBound
      BY <1>0, <1>1, <1>3 DEF Block
    <2>1. i' \in 0 .. LoopBound /\ (\E S : data' \in Seq(S)) /\ Len(data') <= i'
      BY <1>e, <2>e, <2>i
    <2>2. /\ pc' \in {"read_block", "write_block"} => i' <= req.size
          /\ pc' = "write_ready" => i' < ReadyPolls
          /\ pc' \in {"write_ready", "write_block"} => data' = <<>>
          /\ pc' \in ReadPcs => pc \in ReadPcs
          /\ pc' \in WritePcs => pc \in WritePcs
          /\ pc' \in {"read_block", "write_block", "write_ready"}
      BY <1>0, <1>1, <1>3 DEF Block
    <2> QED BY <1>0, <1>1, <2>1, <2>2 DEF LoopsCount
  <1>4. CASE Block("read_block") /\ \E r : data' = Append(data, r)
    <2>1. PICK S, r : data \in Seq(S) /\ data' = Append(data, r)
      BY <1>1, <1>4
    <2>2. data' \in Seq(S \cup {r}) /\ Len(data') = Len(data) + 1 /\ Len(data) \in Nat
      BY <2>1, AppendLen
    <2>3. i' = i + 1 /\ i < req.size /\ pc' = "read_block" /\ pc = "read_block"
      BY <1>4 DEF Block
    <2> QED BY <1>0, <1>1, <2>2, <2>3 DEF LoopsCount
  <1> QED BY <1>2, <1>3, <1>4 DEF TransferGoes

\* A step of one exchange counts nothing.
LEMMA OneCounted == ASSUME LoopsCount, OneGoes PROVE LoopsCount'
  BY DEF LoopsCount, OneGoes, ReadPcs, WritePcs, HalfPcs, BlockPcs

\* The count in the footer never exceeds the size of the request.
LEMMA MovedClamps ==
  ASSUME NEW n \in Nat \cup {-1}, req.size \in Nat, Moved(n) PROVE Clamped
  <1>1. 0 \in 0 .. req.size /\ req.size \in 0 .. req.size
    OBVIOUS
  <1> QED BY <1>1 DEF Moved, Fail, Answer, Clamped

\* The steps of all MMCE requests but read and write.
LEMMA OneSteps ==
  ASSUME MmceValue \/ MmceSet \/ MmceClose \/ MmceLseek \/ MmceOpenHeader \/ MmceOpenPath \/ MmceOpenEnd
  PROVE  OneGoes
  <1> USE DEF BlockStep, Serving, Go, Answer, Fail, Continue, FailBlock, BlockPcs, ReadPcs, WritePcs, HalfPcs
  <1>1. ASSUME NEW fns, NEW S, OneExchange(fns, S) PROVE OneGoes
    BY <1>1 DEF OneExchange, Exchange, OneGoes
  <1>2. CASE MmceOpenHeader
    BY <1>2 DEF MmceOpenHeader, OpenStep, Exchange, OneGoes
  <1>3. CASE MmceOpenPath
    BY <1>3 DEF MmceOpenPath, Exchange, OneGoes
  <1>4. CASE MmceOpenEnd
    BY <1>4 DEF MmceOpenEnd, Exchange, OneGoes
  <1> QED BY <1>1, <1>2, <1>3, <1>4 DEF MmceValue, MmceSet, MmceClose, MmceLseek

\* The steps of ef2_storage_backend_mmce_read and _write.
LEMMA TransferSteps ==
  ASSUME LoopsCount, CardTyped(Card), MmceStep,
         ~(MmceValue \/ MmceSet \/ MmceClose \/ MmceLseek \/ MmceOpenHeader \/ MmceOpenPath \/ MmceOpenEnd)
  PROVE  TransferGoes
  <1> USE DEF BlockStep, Serving, Go, Continue, BlockPcs, ReadPcs, WritePcs
  <1>0. pc \in ReadPcs \cup WritePcs => req.size \in Nat
    BY DEF LoopsCount
  <1>f. ASSUME pc \in ReadPcs \cup WritePcs, Fail PROVE Clamped
    <2>1. 0 \in 0 .. req.size
      BY <1>0, <1>f
    <2> QED BY <1>f, <2>1 DEF Fail, Answer, Clamped
  <1>1. CASE MmceHeader("read_header", "read", "read_block")
    BY <1>1, <1>f DEF MmceHeader, Exchange, TransferGoes
  <1>2. CASE MmceHeader("write_header", "write", "write_ready")
    BY <1>2, <1>f DEF MmceHeader, Exchange, TransferGoes
  <1>3. CASE MmceReadBlock
    BY <1>3, <1>f DEF MmceReadBlock, Exchange, TransferGoes, Block, FailBlock
  <1>4. CASE MmceWriteBlock
    BY <1>4, <1>f DEF MmceWriteBlock, Exchange, TransferGoes, Block, FailBlock
  <1>5. CASE MmceWriteReady
    BY <1>5, <1>f DEF MmceWriteReady, Exchange, TransferGoes, FailBlock
  <1>6. CASE MmceReadEnd \/ MmceWriteEnd
    <2>1. pc \in ReadPcs \cup WritePcs /\ req' = req
      BY <1>6 DEF MmceReadEnd, MmceWriteEnd
    <2>2. Exchange(port, Footer(Card), LAMBDA r : Moved(r) /\ UNCHANGED <<i, data>>, FailBlock)
      BY <1>6 DEF MmceReadEnd, MmceWriteEnd
    <2>3. Clamped /\ UNCHANGED <<i, data>>
      <3>1. CASE \E a \in Footer(Card) : Moved(a.reply) /\ UNCHANGED <<i, data>>
        BY <1>0, <2>1, <3>1, FooterCounts, MovedClamps
      <3>2. CASE FailBlock
        BY <1>f, <2>1, <3>2 DEF FailBlock
      <3> QED BY <2>2, <3>1, <3>2 DEF Exchange
    <2> QED BY <2>1, <2>3 DEF TransferGoes
  <1> QED BY <1>1, <1>2, <1>3, <1>4, <1>5, <1>6 DEF MmceStep
-----------------------------------------------------------------------------
\* Every step of the service keeps the counts and the request.
LEMMA ServiceStepCounts ==
  ASSUME StorageInv, Counted, ServiceStep PROVE Counted' /\ req' = req
  <1>1. CardsFit /\ Where
    BY DEF StorageInv
  <1>2. (\A p \in Ports : CardTyped(ports[p]))'
    BY <1>1, PortsTyped DEF Counted
  <1>3. LoopBound \in Nat /\ LoopBound >= Chunks + 2 /\ Chunks \in Nat \ {0}
    BY StorageAssumption DEF LoopBound
  <1>4. CASE ScanStep
    <2>1. OnToNext /\ UNCHANGED <<req, i, data>> /\ pc' \in ScanPcs \cup MxPcs \cup {"select", "replied"}
      BY <1>4, ScanOn
    <2>2. TableCounts'
      BY <2>1, OnToNextCounts DEF Counted
    <2>3. req.fn = "scan" \/ pc \in PagePcs
      BY <1>1, <2>1 DEF OnToNext, InScan, Where
    <2>4. req.fn \in {"scan", "read_page"}
      BY <1>1, <2>3 DEF Where
    <2>5. LoopsCount'
      BY <2>1, <2>4 DEF Counted, LoopsCount, HalfPcs, ReadPcs, WritePcs, BlockPcs, Moves,
                        ScanPcs, MxPcs, ReadyPcs
    <2> QED BY <1>2, <2>1, <2>2, <2>5 DEF Counted
  <1>5. CASE PageStep
    <2>1. /\ req' = req /\ pc' \in PagePcs \cup {"ping", "card", "replied"}
          /\ req.fn \in {"scan", "read_page"}
          /\ \/ i' = 0 /\ data' = <<>>
             \/ UNCHANGED <<i, data>>
             \/ i \in 0 .. Chunks - 1 /\ i' = i + 1 /\ \E r : data' = Append(data, r)
          /\ OnToNext \/ (~InScan /\ ~InScan' /\ devices' = devices)
      BY <1>5, PageStepGoes
    <2>2. TableCounts'
      BY <2>1, OnToNextCounts DEF Counted, TableCounts
    <2>3. i' \in 0 .. LoopBound /\ (\E S : data' \in Seq(S)) /\ Len(data') <= i'
      <3>1. CASE i' = 0 /\ data' = <<>>
        BY <1>3, <3>1
      <3>2. CASE UNCHANGED <<i, data>>
        BY <3>2 DEF Counted, LoopsCount
      <3>3. CASE i \in 0 .. Chunks - 1 /\ i' = i + 1 /\ \E r : data' = Append(data, r)
        <4>1. PICK S, r : data \in Seq(S) /\ data' = Append(data, r)
          BY <3>3 DEF Counted, LoopsCount
        <4>2. data' \in Seq(S \cup {r}) /\ Len(data') = Len(data) + 1 /\ Len(data) \in Nat
          BY <4>1, AppendLen
        <4>3. Len(data) <= i
          BY DEF Counted, LoopsCount
        <4> QED BY <1>3, <3>3, <4>2, <4>3
      <3> QED BY <2>1, <3>1, <3>2, <3>3
    <2>4. LoopsCount'
      BY <2>1, <2>3 DEF LoopsCount, HalfPcs, ReadPcs, WritePcs, BlockPcs, Moves, PagePcs
    <2> QED BY <1>2, <2>1, <2>2, <2>4 DEF Counted
  <1>6. CASE ReadSectorStep \/ WriteSectorStep \/ MmceStep
    <2>1. BlockEffect
      BY <1>1, <1>6, ReadSectorEffect, WriteSectorEffect, MmceEffect
    <2>0. ~InScan'
      BY <2>1 DEF BlockEffect, InScan, BlockPcs, ScanPcs, PagePcs, MxPcs, ReadyPcs
    <2>2. TableCounts'
      BY <2>0, <2>1 DEF BlockEffect, tableVars, Counted, TableCounts
    <2>3. CardTyped(Card)
      BY <1>1 DEF Counted, Card, Where
    <2>4. LoopsCount'
      BY <1>6, <2>3, ReadSectorCounts, WriteSectorCounts, SectorCounted,
         OneSteps, OneCounted, TransferSteps, TransferCounted DEF Counted
    <2> QED BY <1>2, <2>1, <2>2, <2>4 DEF Counted, BlockEffect
  <1> QED BY <1>4, <1>5, <1>6 DEF ServiceStep

\* A request begins with counts of its own.
LEMMA RpcHandlerCounts ==
  ASSUME StorageInv, Counted, NEW r, r.at \in Nat, r.size \in Nat, RpcHandler(r)
  PROVE  Counted' /\ req' = r
  <1> DEFINE d == DeviceAt(r.index)
  <1>1. req' = r /\ ports' = ports /\ pc = "idle"
    BY DEF RpcHandler, mediaVars
  <1>2. LoopBound \in Nat /\ IoBlocks \in Nat
    BY StorageAssumption DEF LoopBound
  <1>e. (\E S : <<>> \in Seq(S)) /\ Len(<<>>) = 0
    OBVIOUS
  <1>3. CASE r.fn = "scan" /\ ScanBegin
    <2>1. /\ devices' = <<>> /\ port' = 2 /\ pc' = "ping" /\ UNCHANGED <<i, data>>
      BY <1>3 DEF ScanBegin, ScanClears, Go
    <2>2. TableCounts'
      BY <1>e, <2>1 DEF TableCounts
    <2>3. LoopsCount'
      BY <2>1 DEF Counted, LoopsCount, HalfPcs, ReadPcs, WritePcs, BlockPcs
    <2> QED BY <1>1, <2>2, <2>3 DEF Counted
  <1>4. CASE /\ pc' = "replied" /\ reply'.value = 0
             /\ UNCHANGED <<tableVars, localVars>>
    <2>1. TableCounts'
      BY <1>4 DEF Counted, TableCounts, tableVars, InScan, ScanPcs, PagePcs, MxPcs, ReadyPcs
    <2>2. LoopsCount'
      BY <1>1, <1>4 DEF Counted, LoopsCount, localVars, HalfPcs, ReadPcs, WritePcs, BlockPcs
    <2> QED BY <1>1, <2>1, <2>2 DEF Counted
  <1>5. CASE /\ Entry(r, d) # "refused" /\ pc' = Entry(r, d)
             /\ i' = 0 /\ data' = <<>> /\ UNCHANGED tableVars
    <2>1. /\ pc' \in {"select", "rd_wait", "wr_wait", "mmce_one", "open_header", "read_header", "write_header"}
          /\ pc' \notin {"read_header", "write_header"} => r.fn \notin Moves
          /\ pc' = "read_header" => r.fn = "mmce_read"
          /\ pc' = "write_header" => r.fn = "mmce_write"
          /\ pc' = "select" => r.fn = "read_page"
          /\ pc' \in {"read_header", "write_header"} => r.size <= IoBlocks
      BY <1>5 DEF Entry, ValueFns, Moves
    <2>2. ~InScan'
      BY <1>1, <2>1 DEF InScan, ScanPcs, PagePcs, MxPcs, ReadyPcs
    <2>3. TableCounts'
      BY <1>5, <2>2 DEF Counted, TableCounts, tableVars
    <2>4. LoopsCount'
      BY <1>1, <1>2, <1>e, <1>5, <2>1 DEF LoopsCount, HalfPcs, ReadPcs, WritePcs, BlockPcs
    <2> QED BY <1>1, <2>3, <2>4 DEF Counted
  <1> QED BY <1>1, <1>3, <1>4, <1>5 DEF RpcHandler, Answer, Fail, Go

\* The handler counts from zero in the next request.
LEMMA ReturnedCounts == ASSUME StorageInv, Counted, Returned PROVE Counted'
  <1>1. pc' = "idle" /\ req' = NoRequest /\ i' = 0 /\ data' = <<>> /\ UNCHANGED <<ports, devices>>
    BY DEF Returned, mediaVars, tableVars
  <1>2. LoopBound \in Nat
    BY StorageAssumption DEF LoopBound
  <1>e. (\E S : <<>> \in Seq(S)) /\ Len(<<>>) = 0
    OBVIOUS
  <1>0. ~InScan'
    BY <1>1 DEF InScan, ScanPcs, PagePcs, MxPcs, ReadyPcs
  <1>3. TableCounts'
    BY <1>0, <1>1 DEF Counted, TableCounts
  <1>4. LoopsCount'
    BY <1>1, <1>2, <1>e DEF LoopsCount, HalfPcs, ReadPcs, WritePcs, BlockPcs
  <1> QED BY <1>1, <1>3, <1>4 DEF Counted, NoRequest

\* A card that is plugged in has counted nothing.
LEMMA FreshTyped == ASSUME NEW c \in AllCards PROVE CardTyped(c)
  BY DEF AllCards, NoCard, CardOf, CardTyped, Streams, Nothing

\* A card that is exchanged touches no counter of the service.
LEMMA CardExchangedCounts == ASSUME StorageInv, Counted, CardExchanged PROVE Counted' /\ req' = req
  <1>1. PICK p \in Ports, c \in AllCards : ports' = [ports EXCEPT ![p] = c]
    BY DEF CardExchanged, Plugs
  <1>2. UNCHANGED <<devices, pc, req, port, i, data, reply>>
    BY DEF CardExchanged, tableVars, localVars
  <1>3. (\A q \in Ports : CardTyped(ports[q]))'
    BY <1>1, FreshTyped DEF Counted, StorageInv, CardsFit
  <1>4. TableCounts' /\ LoopsCount'
    BY <1>2 DEF Counted, TableCounts, InScan, LoopsCount
  <1> QED BY <1>2, <1>3, <1>4 DEF Counted
-----------------------------------------------------------------------------
(* How far the client gets.                                                *)

UnderWay == epc \in {"init", "init_call", "init_wait", "call", "wait"}

\* An operation of several requests is complete when it returns and not
\* before, and the request under way is the one it asked for.
ClientCounts ==
  /\ bound \in BOOLEAN /\ known \in 0..2
  /\ OpFits /\ op.at \in Nat /\ op.size \in Nat /\ done \in Nat
  /\ op.fn \in Looping => op.size <= MaxCount /\ done <= op.size /\ (UnderWay => done < op.size)
  /\ op.fn \notin Looping => done = 0
  /\ epc = "wait" => req = RequestOf

ClientInv == StorageInv /\ Counted /\ ClientCounts

\* The arguments storage_rpc sends are numbers, and a piece of a file is no longer
\* than what is left.
LEMMA RequestFits ==
  ASSUME ClientCounts, epc \in {"call", "init_call", "wait"}
  PROVE  /\ RequestOf.index \in Nat /\ RequestOf.at \in Nat /\ RequestOf.size \in Nat
         /\ epc = "wait" /\ op.fn \in Moves => RequestOf.fn = op.fn /\ RequestOf.size <= op.size - done
  <1>1. DOMAIN op = {"fn", "index", "at", "size", "w"} /\ op.index \in Nat /\ op.at \in Nat /\ op.size \in Nat
        /\ done \in Nat
    BY DEF ClientCounts, OpFits
  <1>2. IoBlocks \in Nat \ {0}
    BY StorageAssumption
  <1>3. op.fn \in Looping => op.size - done \in Nat
    BY <1>1 DEF ClientCounts
  <1>4. op.fn \in Looping => Piece \in Nat /\ Piece <= op.size - done
    BY <1>1, <1>2, <1>3 DEF Piece
  <1>5. CASE epc = "init_call"
    BY <1>5 DEF RequestOf, NoRequest
  <1>6. CASE epc # "init_call" /\ op.fn \in Moves
    <2>1. RequestOf = FileRequest
      BY <1>6 DEF RequestOf
    <2>2. /\ FileRequest.index = op.index /\ FileRequest.at = op.at /\ FileRequest.size = Piece
          /\ FileRequest.fn = op.fn
      BY <1>1 DEF FileRequest
    <2> QED BY <1>1, <1>4, <1>6, <2>1, <2>2 DEF Looping
  <1>7. CASE epc # "init_call" /\ op.fn \in Blocks
    <2>1. RequestOf = SectorRequest /\ op.fn \notin Moves
      BY <1>7 DEF RequestOf, Blocks, Moves
    <2>2. SectorRequest.index = op.index /\ SectorRequest.at = op.at + done /\ SectorRequest.size = IoBlocks
      BY <1>1 DEF SectorRequest
    <2> QED BY <1>1, <1>2, <2>1, <2>2
  <1>8. CASE epc # "init_call" /\ op.fn \notin Looping
    BY <1>1, <1>8 DEF RequestOf, OneRequest, Looping
  <1> QED BY <1>5, <1>6, <1>7, <1>8 DEF Looping

\* The service side is left alone, or its steps keep the counts.
LEMMA UntouchedCounts ==
  ASSUME ClientInv, UNCHANGED <<ports, tableVars, pc, req, localVars, reply>>
  PROVE  StorageInv' /\ Counted'
  <1>1. UNCHANGED <<ports, devices, pc, req, port, i, data, reply>>
    BY DEF tableVars, localVars
  <1>2. StorageInv'
    BY UntouchedKeeps DEF ClientInv
  <1>3. Counted'
    BY <1>1 DEF ClientInv, Counted, LoopsCount, TableCounts, InScan
  <1> QED BY <1>2, <1>3

\* An operation begins with all of its size to do.
LEMMA BeginCounts == ASSUME ClientInv, NEW o \in Operations, Begin(o) PROVE ClientInv'
  <1>1. UNCHANGED <<ports, tableVars, pc, req, localVars, reply>>
    BY DEF Begin, serviceVars, mediaVars
  <1>2. /\ DOMAIN o = {"fn", "index", "at", "size", "w"}
        /\ o.index \in Nat /\ o.at \in Nat /\ o.size \in Nat
        /\ o.fn \in Looping => o.size \in 1 .. MaxCount
    BY StorageAssumption, ClientAssumption DEF Operations, Looping, Moves, Blocks
  <1>3. op' = o /\ done' = 0 /\ UNCHANGED <<bound, known>> /\ epc' # "wait"
    BY DEF Begin, Finish
  <1>4. ClientCounts'
    BY <1>2, <1>3 DEF ClientInv, ClientCounts, OpFits
  <1> QED BY <1>1, <1>4, UntouchedCounts DEF ClientInv

\* ef2_storage_init up to its request.
LEMMA InitialiseCounts == ASSUME ClientInv, Initialise PROVE ClientInv'
  <1>1. UNCHANGED <<ports, tableVars, pc, req, localVars, reply>>
    BY DEF Initialise, serviceVars, mediaVars
  <1>2. bound' \in BOOLEAN /\ UNCHANGED <<known, op, done>> /\ epc' # "wait" /\ epc = "init"
    BY DEF Initialise, Finish
  <1>3. ClientCounts'
    BY <1>2 DEF ClientInv, ClientCounts, OpFits, UnderWay
  <1> QED BY <1>1, <1>3, UntouchedCounts DEF ClientInv

\* storage_rpc hands the request to the service.
LEMMA CallCounts == ASSUME ClientInv, Call PROVE ClientInv'
  <1>1. epc \in {"call", "init_call"} /\ RpcHandler(RequestOf) /\ UNCHANGED <<bound, known, op, done>>
        /\ epc' = (IF epc = "call" THEN "wait" ELSE "init_wait")
    BY DEF Call
  <1>2. RequestOf.index \in Nat /\ RequestOf.at \in Nat /\ RequestOf.size \in Nat
    BY <1>1, RequestFits DEF ClientInv
  <1>3. StorageInv' /\ Counted' /\ req' = RequestOf
    BY <1>1, <1>2, RpcHandlerKeeps, RpcHandlerCounts DEF ClientInv
  <1>4. epc = "call" => RequestOf' = RequestOf
    BY <1>1 DEF RequestOf, FileRequest, SectorRequest, OneRequest, Piece
  <1>5. ClientCounts'
    BY <1>1, <1>3, <1>4 DEF ClientInv, ClientCounts, OpFits, UnderWay
  <1> QED BY <1>3, <1>5 DEF ClientInv

\* A scan of two ports finds at most two devices.
LEMMA CountFits == ClientInv => count \in 0..2
  <1> SUFFICES ASSUME ClientInv PROVE count \in 0..2
    OBVIOUS
  <1>1. devices \in Seq(Devices) /\ count \in 0 .. Len(devices) /\ Len(devices) <= 2 /\ Len(devices) \in Nat
    BY DEF ClientInv, StorageInv, TableFits, Counted, TableCounts
  <1> QED BY <1>1

\* An INIT request or an error moves no progress.
LEMMA AnswerCounts == ASSUME ClientInv, InitDone \/ Refusal PROVE ClientInv'
  <1>1. Returned /\ known' = count /\ UNCHANGED <<bound, op, done>>
        /\ epc' \in {"call", "returned"} /\ epc \in {"init_wait", "wait"}
    BY DEF InitDone, Refusal, Finish
  <1>2. StorageInv' /\ Counted'
    BY <1>1, ReturnedKeeps, ReturnedCounts DEF ClientInv
  <1>3. ClientCounts'
    BY <1>1, CountFits DEF ClientInv, ClientCounts, OpFits, UnderWay
  <1> QED BY <1>2, <1>3 DEF ClientInv

\* What was moved is at most what was asked for.
LEMMA TakenCounts == ASSUME ClientInv, Taken PROVE ClientInv'
  <1>1. Returned /\ known' = count /\ UNCHANGED <<bound, op>> /\ epc = "wait" /\ epc' \in {"call", "returned"}
        /\ reply.result = "ok"
    BY DEF Taken, Finish
  <1>2. StorageInv' /\ Counted'
    BY <1>1, ReturnedKeeps, ReturnedCounts DEF ClientInv
  <1>3. op.size \in Nat /\ done \in Nat /\ (op.fn \in Looping => done < op.size)
        /\ (op.fn \notin Looping => done = 0) /\ req = RequestOf
    BY <1>1 DEF ClientInv, ClientCounts, UnderWay
  <1>4. op.fn \in Moves => reply.value \in Nat /\ reply.value <= op.size - done
    <2>1. SUFFICES ASSUME op.fn \in Moves PROVE reply.value \in Nat /\ reply.value <= op.size - done
      OBVIOUS
    <2>2. RequestOf.fn = op.fn /\ RequestOf.size <= op.size - done /\ RequestOf.size \in Nat
      BY <1>1, <2>1, RequestFits DEF ClientInv
    <2>3. reply.value \in 0 .. req.size
      BY <1>1, <1>3, <2>1, <2>2 DEF ClientInv, Counted, LoopsCount, Returned
    <2> QED BY <1>3, <2>1, <2>2, <2>3
  <1>5. done' \in Nat /\ (op.fn \in Looping => done' <= op.size) /\ (op.fn \notin Looping => done' = 0)
    <2>1. CASE op.fn \in Moves /\ FileTaken(reply.value)
      BY <1>3, <1>4, <2>1 DEF FileTaken, Looping
    <2>2. CASE op.fn \in Blocks /\ SectorsTaken
      BY <1>3, <2>2 DEF SectorsTaken, Looping
    <2>3. CASE done' = done
      BY <1>3, <2>3
    <2> QED BY <2>1, <2>2, <2>3 DEF Taken, PageTaken
  <1>6. epc' = "call" /\ op.fn \in Looping => done' < op.size
    BY DEF Taken, GoesOn, Finish
  <1>7. ClientCounts'
    BY <1>1, <1>5, <1>6, CountFits DEF ClientInv, ClientCounts, OpFits, UnderWay
  <1> QED BY <1>2, <1>7 DEF ClientInv

\* The end of an operation, and a call that never reached the service.
LEMMA LeaveCounts == ASSUME ClientInv, Leave \/ CallFails PROVE ClientInv'
  <1>1. UNCHANGED <<ports, tableVars, pc, req, localVars, reply>>
    BY DEF Leave, CallFails, serviceVars, mediaVars
  <1>2. CASE Leave
    <2>1. op' = NoOp /\ done' = 0 /\ epc' = "idle" /\ UNCHANGED <<bound, known>>
      BY <1>2 DEF Leave
    <2>2. ClientCounts'
      BY <2>1 DEF ClientInv, ClientCounts, OpFits, NoOp, NoRequest, Looping, Moves, Blocks
    <2> QED BY <1>1, <2>2, UntouchedCounts DEF ClientInv
  <1>3. CASE CallFails
    <2>1. UNCHANGED <<known, op, done>> /\ epc' = "returned" /\ bound' \in {bound, FALSE}
      BY <1>3 DEF CallFails, Finish
    <2>2. ClientCounts'
      BY <2>1 DEF ClientInv, ClientCounts, OpFits, UnderWay
    <2> QED BY <1>1, <2>2, UntouchedCounts DEF ClientInv
  <1> QED BY <1>2, <1>3

\* The service works while the client waits.
LEMMA ServiceCounts == ASSUME ClientInv, ServiceStep \/ CardExchanged, UNCHANGED clientVars PROVE ClientInv'
  <1>1. StorageInv' /\ Counted' /\ req' = req
    BY ServiceStepKeeps, CardExchangedKeeps, ServiceStepCounts, CardExchangedCounts DEF ClientInv
  <1>2. UNCHANGED <<bound, known, epc, op, done>>
    BY DEF clientVars
  <1>3. RequestOf' = RequestOf
    BY <1>2 DEF RequestOf, FileRequest, SectorRequest, OneRequest, Piece
  <1>4. ClientCounts'
    BY <1>1, <1>2, <1>3 DEF ClientInv, ClientCounts, OpFits, UnderWay
  <1> QED BY <1>1, <1>4 DEF ClientInv

\* Nothing is counted before the first operation.
LEMMA CountsInit == Init => ClientInv
  <1> SUFFICES ASSUME Init PROVE ClientInv
    OBVIOUS
  <1>1. StorageInv
    BY StorageInit
  <1>2. \A p \in Ports : CardTyped(ports[p])
    BY FreshTyped DEF Init, ServiceInit
  <1>3. LoopBound \in Nat
    BY StorageAssumption DEF LoopBound
  <1>e. (\E S : <<>> \in Seq(S)) /\ Len(<<>>) = 0
    OBVIOUS
  <1>4. LoopsCount
    BY <1>3, <1>e DEF Init, ServiceInit, LoopsCount, HalfPcs, ReadPcs, WritePcs, BlockPcs
  <1>5. TableCounts
    BY <1>e DEF Init, ServiceInit, TableCounts, InScan, ScanPcs, PagePcs, MxPcs, ReadyPcs
  <1>6. ClientCounts
    <2>1. bound = FALSE /\ known = 0 /\ op = NoRequest /\ done = 0 /\ epc = "idle"
      BY DEF Init, NoOp
    <2>2. bound \in BOOLEAN /\ known \in 0..2
      <3>1. bound \in BOOLEAN
        BY <2>1, Zenon
      <3>2. known \in 0..2
        BY <2>1
      <3> QED BY <3>1, <3>2
    <2>3. OpFits /\ op.at \in Nat /\ op.size \in Nat /\ done \in Nat /\ op.fn \notin Looping
      BY <2>1 DEF OpFits, NoRequest, Looping, Moves, Blocks
    <2> QED BY <2>1, <2>2, <2>3 DEF ClientCounts
  <1>7. req.at \in Nat
    BY DEF Init, ServiceInit, NoRequest
  <1> QED BY <1>1, <1>2, <1>4, <1>5, <1>6, <1>7 DEF ClientInv, Counted

\* Every step keeps the counts.
LEMMA CountsKept == ClientInv /\ [Next]_vars => ClientInv'
  <1> SUFFICES ASSUME ClientInv, [Next]_vars PROVE ClientInv'
    OBVIOUS
  <1>1. ASSUME NEW o \in Operations, Begin(o) PROVE ClientInv'
    BY <1>1, BeginCounts
  <1>2. CASE CallerStep
    BY <1>2, InitialiseCounts, CallCounts, AnswerCounts, TakenCounts, LeaveCounts DEF CallerStep
  <1>3. CASE CallFails
    BY <1>3, LeaveCounts
  <1>4. CASE (ServiceStep \/ CardExchanged) /\ UNCHANGED clientVars
    BY <1>4, ServiceCounts
  <1>5. CASE UNCHANGED vars
    <2>1. UNCHANGED <<ports, tableVars, pc, req, localVars, reply, bound, known, epc, op, done>>
      BY <1>5 DEF vars, serviceVars, mediaVars, clientVars
    <2>2. RequestOf' = RequestOf
      BY <2>1 DEF RequestOf, FileRequest, SectorRequest, OneRequest, Piece
    <2>3. ClientCounts'
      BY <2>1, <2>2 DEF ClientInv, ClientCounts, OpFits, UnderWay
    <2> QED BY <2>1, <2>3, UntouchedCounts DEF ClientInv
  <1> QED BY <1>1, <1>2, <1>3, <1>4, <1>5 DEF Next

\* What ef2_storage_read_sectors, _write_sectors, _mmce_read and _mmce_write report
\* never exceeds the size asked for, the device table never its two ports, and the
\* loops of the service never their buffers, whatever is lost or exchanged.
THEOREM ClientTypeCorrect == Spec => []TypeOK
  <1>1. ClientInv => TypeOK
    <2> SUFFICES ASSUME ClientInv PROVE TypeOK
      OBVIOUS
    <2>1. /\ count \in 0 .. Len(devices) /\ Len(devices) <= 2
      BY DEF ClientInv, StorageInv, TableFits, Counted, TableCounts
    <2>2. i \in 0 .. Chunks + IoBlocks + ReadyPolls + 2 /\ Len(data) <= i
      BY DEF ClientInv, Counted, LoopsCount, LoopBound
    <2>3. bound \in BOOLEAN /\ known \in 0..2
      BY DEF ClientInv, ClientCounts
    <2>4. done \in 0 .. MaxCount /\ (op.fn \in Moves \cup Blocks => done <= op.size)
      BY ClientAssumption DEF ClientInv, ClientCounts, Looping
    <2> QED BY <2>1, <2>2, <2>3, <2>4 DEF TypeOK
  <1> QED BY <1>1, CountsInit, CountsKept, PTL DEF Spec
-----------------------------------------------------------------------------
(* Files: where an operation reads and writes.                             *)

\* The port of the device of the operation, the card in it now and at the start.
Link  == DeviceAt(op.index).port
Now   == ports[Link]
Start == began.ports[Link]

Moving   == pc \in {"read_block", "write_ready", "write_block"}
Answered == pc = "replied" /\ reply.result = "ok"
Denied == pc = "replied" /\ reply.result = "error"

\* What the request under way has moved.
Progress == IF Moving THEN Now.step ELSE IF Answered THEN reply.value ELSE 0

\* The service works only for a client that waits.
Waiting == /\ epc \in {"idle", "init", "init_call", "call", "returned"} => pc = "idle"
           /\ epc = "wait" => pc # "idle"
           /\ faults \in Nat /\ (epc # "idle" => began.faults \in Nat /\ began.faults <= faults)

\* A card in the middle of a transfer is at the block the service is at, or
\* was exchanged and has no file open.
FlowFits ==
  /\ epc \in {"call", "wait", "returned"}
  /\ pc \in ReadPcs \cup WritePcs => port = Link
  /\ Moving => \/ Now.file = Nothing
               \/ /\ Now.flow = (IF pc = "read_block" THEN "read" ELSE "write")
                  /\ Now.kind = "mmce" /\ Now.step <= i
                  /\ pc = "write_ready" => Now.step = 0
                  /\ pc = "read_block" /\ Now.step < i => Now.file >= FileSize
  /\ pc = "read_block" => Len(data) = i
  /\ pc = "replied" /\ reply.result = "ok" /\ op.fn = "mmce_read" => reply.value <= Len(data)
  /\ pc \in {"idle", "replied"} \cup ReadPcs \cup WritePcs

\* The caller's buffer is a run of blocks of file c from block b on, and the
\* blocks of the request go on with it as long as the card stays.
Run(s, n, c, b) == \A k \in 1..n : s[k] = <<c, b + k - 1>>
ReadRun(c, b) ==
  /\ Run(dest, done, c, b)
  /\ Answered => Run(data, reply.value, c, b + done)
  /\ epc \in {"call", "wait"} /\ ~Denied /\ Now.file # Nothing =>
       /\ Now.id = c /\ Now.file = b + done + Progress
       /\ pc = "read_block" => Run(data, Now.step, c, b + done)
InOrder == op.fn = "mmce_read" => /\ (\E S : dest \in Seq(S)) /\ Len(dest) = done
                                  /\ \E c : \E b \in Nat : ReadRun(c, b)

\* Undisturbed, the file is where it was when the operation began, and what
\* was moved since.
InPlace ==
  faults = began.faults /\ (epc = "returned" => result = "ok") =>
    /\ Now.kind = Start.kind /\ Now.file = Start.file + done + Progress
    /\ Start.file \in Nat \cup {Nothing}
    /\ done > 0 \/ Moving \/ Answered \/ epc = "returned" => Now.kind = "mmce"

FilesFit == Waiting /\ (op.fn \in Moves => FlowFits /\ InOrder /\ InPlace)

\* The effect of a step of a file transfer, which leaves card d in the port.
LostStep(d)  == faults' = faults + 1 /\ pc' = "replied" /\ reply'.result = "error"
ErrorStep(d) == /\ pc' = "replied" /\ reply'.result = "error"
                /\ d.file = Card.file /\ d.kind = Card.kind
                /\ Moving => Card.file = Nothing \/ Card.step = 0
HeaderStep(d) ==
  /\ \/ pc = "read_header" /\ pc' = "read_block" /\ d.flow = "read"
     \/ pc = "write_header" /\ pc' = "write_ready" /\ d.flow = "write"
  /\ i' = 0 /\ data' = <<>> /\ Card.kind = "mmce"
  /\ d.kind = Card.kind /\ d.id = Card.id /\ d.file = Card.file /\ d.step = 0
PollStep(d)  == pc = "write_ready" /\ pc' \in {"write_ready", "write_block"} /\ d = Card
WriteStep(d) == /\ pc = "write_block" /\ pc' = "write_block" /\ i' = i + 1
                /\ \/ d = Card
                   \/ /\ Card.flow = "write" /\ d.flow = "write" /\ d.kind = Card.kind /\ d.id = Card.id
                      /\ d.file = Card.file + 1 /\ d.step = Card.step + 1
ReadStep(d)  == /\ pc = "read_block" /\ pc' = "read_block" /\ i' = i + 1
                /\ \/ /\ d = Card /\ data' = Append(data, <<>>)
                      /\ Card.flow # "read" \/ Card.file >= FileSize
                   \/ /\ Card.flow = "read" /\ d.flow = "read" /\ d.kind = Card.kind /\ d.id = Card.id
                      /\ Card.file < FileSize /\ data' = Append(data, <<Card.id, Card.file>>)
                      /\ d.file = Card.file + 1 /\ d.step = Card.step + 1
FooterStep(d) == /\ pc \in {"read_block", "write_block"} /\ pc' = "replied" /\ UNCHANGED data
                 /\ Card.flow \in Streams /\ i = req.size
                 /\ d.kind = Card.kind /\ d.id = Card.id /\ d.file = Card.file
                 /\ reply' = [result |-> "ok", value |-> IF Card.step > req.size THEN req.size ELSE Card.step]

FileEffect(d) ==
  \/ LostStep(d)
  \/ faults' = faults /\ (\/ ErrorStep(d) \/ HeaderStep(d) \/ PollStep(d) \/ WriteStep(d)
                          \/ ReadStep(d) \/ FooterStep(d))

Effects == \E d : ports' = [ports EXCEPT ![port] = d] /\ FileEffect(d)

\* Abandoning a transfer leaves the file open where it is.
LEMMA QuietKeepsFile ==
  ASSUME NEW c, IsCard(c)
  PROVE  Quiet(c).file = c.file /\ Quiet(c).kind = c.kind /\ Quiet(c).id = c.id
  BY DEF Quiet, IsCard, Fields

\* What a card answers to the exchanges of a transfer: the header, a block, the footer.
LEMMA HeaderAnswers ==
  ASSUME NEW c, IsCard(c), NEW flow, NEW a \in FileHeader(c, flow)
  PROVE  /\ a.card.file = c.file /\ a.card.kind = c.kind /\ a.card.id = c.id
         /\ a.reply = "ok" => c.kind = "mmce" /\ a.card.flow = flow /\ a.card.step = 0
  <1> DEFINE d == [c EXCEPT !.flow = flow, !.step = 0]
  <1>1. d.file = c.file /\ d.kind = c.kind /\ d.id = c.id /\ d.flow = flow /\ d.step = 0
    BY DEF IsCard, Fields
  <1>2. \/ a = Ans(c, "silent") \/ a = Ans(Quiet(c), "silent") \/ a = Ans(Quiet(c), "refused")
        \/ c.kind = "mmce" /\ a = Ans(d, "ok")
    BY DEF FileHeader, Emulates, Silent
  <1> HIDE DEF d
  <1> QED BY <1>1, <1>2, QuietKeepsFile DEF Ans

\* A block is the next one of the file, and moves the position by one.
LEMMA BlockAnswers ==
  ASSUME NEW c, IsCard(c)
  PROVE  /\ \A a \in SendBlock(c) :
              \/ /\ a.card = c /\ a.reply = <<>>
                 /\ c.flow # "read" \/ ~(c.file < FileSize)
              \/ /\ c.flow = "read" /\ c.file < FileSize /\ a.reply = <<c.id, c.file>>
                 /\ a.card.flow = "read" /\ a.card.kind = c.kind /\ a.card.id = c.id
                 /\ a.card.file = c.file + 1 /\ a.card.step = c.step + 1
         /\ \A a \in TakeBlock(c) :
              \/ a.card = c
              \/ /\ c.flow = "write" /\ a.card.flow = "write" /\ a.card.kind = c.kind /\ a.card.id = c.id
                 /\ a.card.file = c.file + 1 /\ a.card.step = c.step + 1
  <1> DEFINE d == [c EXCEPT !.file = @ + 1, !.step = @ + 1]
  <1>1. d.file = c.file + 1 /\ d.step = c.step + 1 /\ d.kind = c.kind /\ d.id = c.id /\ d.flow = c.flow
    BY DEF IsCard, Fields
  <1>2. \A a \in SendBlock(c) : \/ a = Ans(c, <<>>) /\ (c.flow # "read" \/ ~(c.file < FileSize))
                                \/ c.flow = "read" /\ c.file < FileSize /\ a = Ans(d, <<c.id, c.file>>)
    <2>1. CASE c.flow = "read" /\ c.file < FileSize
      <3>1. SendBlock(c) = {Ans(d, <<c.id, c.file>>)}
        BY <2>1, Zenon DEF SendBlock
      <3> HIDE DEF d
      <3> QED BY <2>1, <3>1
    <2>2. CASE ~(c.flow = "read" /\ c.file < FileSize)
      <3>1. SendBlock(c) = {Ans(c, <<>>)}
        BY <2>2, Zenon DEF SendBlock, Padding
      <3> HIDE DEF d
      <3> QED BY <2>2, <3>1, Zenon
    <2> QED BY <2>1, <2>2
  <1>3. \A a \in TakeBlock(c) : a = Ans(c, "ok") \/ (c.flow = "write" /\ a = Ans(d, "ok"))
    <2>1. CASE c.flow = "write" /\ c.file < FileSize
      <3>1. TakeBlock(c) = {Ans(d, "ok")}
        BY <2>1, Zenon DEF TakeBlock
      <3> HIDE DEF d
      <3> QED BY <2>1, <3>1
    <2>2. CASE ~(c.flow = "write" /\ c.file < FileSize)
      <3>1. TakeBlock(c) = {Ans(c, "ok")}
        BY <2>2, Zenon DEF TakeBlock
      <3> HIDE DEF d
      <3> QED BY <2>2, <3>1
    <2> QED BY <2>1, <2>2
  <1> HIDE DEF d
  <1> QED BY <1>1, <1>2, <1>3 DEF Ans

\* The footer tells what was moved since the header.
LEMMA FooterAnswers ==
  ASSUME NEW c, IsCard(c), NEW a \in Footer(c)
  PROVE  /\ a.card.file = c.file /\ a.card.kind = c.kind /\ a.card.id = c.id
         /\ \/ c.flow \in Streams /\ a.reply = c.step
            \/ c.flow \notin Streams /\ a.reply = -1
  BY QuietKeepsFile DEF Footer, Ans, Streams

\* Each step of ef2_storage_backend_mmce_read and _write has one of these effects.
LEMMA TransferEffects ==
  ASSUME ClientInv, FlowFits, MmceStep, pc \in ReadPcs \cup WritePcs PROVE Effects
  <1>1. IsCard(Card) /\ CardTyped(Card) /\ port \in Ports /\ Card = Now
    BY DEF ClientInv, StorageInv, CardsFit, Where, Counted, Card, FlowFits, Now
  <1>2. ASSUME NEW S, ExchangeLost(port, S), pc' = "replied", reply'.result = "error" PROVE Effects
    BY <1>2 DEF ExchangeLost, Effects, FileEffect, LostStep
  <1>3. ASSUME NEW a, CardAnswers(port, a),
               \/ ErrorStep(a.card) \/ HeaderStep(a.card) \/ PollStep(a.card) \/ WriteStep(a.card)
               \/ ReadStep(a.card) \/ FooterStep(a.card)
        PROVE  Effects
    BY <1>3 DEF CardAnswers, Effects, FileEffect
  <1> USE DEF BlockStep, Serving, Go
  <1>f. Fail => pc' = "replied" /\ reply'.result = "error"
    BY DEF Fail, Answer
  <1>4. ASSUME NEW flow, NEW at, NEW next, MmceHeader(at, flow, next),
               <<at, flow, next>> \in {<<"read_header", "read", "read_block">>, <<"write_header", "write", "write_ready">>}
        PROVE  Effects
    <2>1. CASE \E a \in FileHeader(Card, flow) : CardAnswers(port, a) /\ IF a.reply = "ok" THEN Go(next) ELSE Fail
      <3>1. PICK a \in FileHeader(Card, flow) : CardAnswers(port, a) /\ IF a.reply = "ok" THEN Go(next) ELSE Fail
        BY <2>1
      <3>2. pc = at /\ i' = 0 /\ data' = <<>>
        BY <1>4 DEF MmceHeader
      <3>3. ErrorStep(a.card) \/ HeaderStep(a.card)
        BY <1>1, <1>4, <1>f, <3>1, <3>2, HeaderAnswers DEF ErrorStep, HeaderStep, Moving
      <3> QED BY <1>3, <3>1, <3>3
    <2>2. CASE ExchangeLost(port, FileHeader(Card, flow)) /\ Fail
      BY <1>2, <1>f, <2>2
    <2> QED BY <1>4, <2>1, <2>2 DEF MmceHeader, Exchange
  <1>5. CASE MmceReadBlock
    <2>1. CASE \E a \in SendBlock(Card) : /\ CardAnswers(port, a) /\ data' = Append(data, a.reply)
                                          /\ i' = i + 1 /\ Go("read_block")
      <3>1. PICK a \in SendBlock(Card) : /\ CardAnswers(port, a) /\ data' = Append(data, a.reply)
                                        /\ i' = i + 1 /\ Go("read_block")
        BY <2>1
      <3>2. pc = "read_block"
        BY <1>5 DEF MmceReadBlock
      <3>3. ~(Card.file < FileSize) => Card.file >= FileSize
        BY <1>1, StorageAssumption DEF CardTyped, Nothing
      <3>4. ReadStep(a.card)
        BY <1>1, <3>1, <3>2, <3>3, BlockAnswers DEF ReadStep
      <3> QED BY <1>3, <3>1, <3>4
    <2>2. CASE ExchangeLost(port, SendBlock(Card)) /\ FailBlock
      BY <1>2, <1>f, <2>2 DEF FailBlock
    <2> QED BY <1>5, <2>1, <2>2 DEF MmceReadBlock, Exchange
  <1>6. CASE MmceWriteBlock
    <2>1. CASE \E a \in TakeBlock(Card) : CardAnswers(port, a) /\ i' = i + 1 /\ Go("write_block")
      <3>1. PICK a \in TakeBlock(Card) : CardAnswers(port, a) /\ i' = i + 1 /\ Go("write_block")
        BY <2>1
      <3>2. pc = "write_block"
        BY <1>6 DEF MmceWriteBlock
      <3>4. WriteStep(a.card)
        BY <1>1, <3>1, <3>2, BlockAnswers DEF WriteStep
      <3> QED BY <1>3, <3>1, <3>4
    <2>2. CASE ExchangeLost(port, TakeBlock(Card)) /\ FailBlock
      BY <1>2, <1>f, <2>2 DEF FailBlock
    <2> QED BY <1>6, <2>1, <2>2 DEF MmceWriteBlock, Exchange
  <1>7. CASE MmceWriteReady
    <2>0. pc = "write_ready" /\ (\A a \in FileReady(Card) : a.card = Card)
      BY <1>7 DEF MmceWriteReady, FileReady, Silent, Ans
    <2>1. CASE \E a \in FileReady(Card) : CardAnswers(port, a) /\ (Go("write_block") \/ Go("write_ready") \/ Fail)
      <3>1. PICK a \in FileReady(Card) : CardAnswers(port, a) /\ (Go("write_block") \/ Go("write_ready") \/ Fail)
        BY <2>1
      <3>2. a.card = Card
        BY <2>0
      <3>3. Moving => Card.file = Nothing \/ Card.step = 0
        BY <1>1, <2>0 DEF FlowFits, Moving
      <3>4. ErrorStep(a.card) \/ PollStep(a.card)
        BY <1>f, <2>0, <3>1, <3>2, <3>3 DEF ErrorStep, PollStep
      <3> QED BY <1>3, <3>1, <3>4
    <2>2. CASE ExchangeLost(port, FileReady(Card)) /\ FailBlock
      BY <1>2, <1>f, <2>2 DEF FailBlock
    <2> QED BY <1>7, <2>1, <2>2 DEF MmceWriteReady, Exchange, FailBlock
  <1>8. CASE MmceReadEnd \/ MmceWriteEnd
    <2>0. pc \in {"read_block", "write_block"} /\ i = req.size
          /\ Exchange(port, Footer(Card), LAMBDA r : Moved(r) /\ UNCHANGED <<i, data>>, FailBlock)
      BY <1>8 DEF MmceReadEnd, MmceWriteEnd
    <2>1. CASE \E a \in Footer(Card) : CardAnswers(port, a) /\ Moved(a.reply) /\ UNCHANGED <<i, data>>
      <3>1. PICK a \in Footer(Card) : CardAnswers(port, a) /\ Moved(a.reply) /\ UNCHANGED <<i, data>>
        BY <2>1
      <3>2. CASE Card.flow \in Streams /\ a.reply = Card.step
        <4>1. ~(Card.step < 0)
          BY <1>1 DEF CardTyped
        <4>2. FooterStep(a.card)
          BY <1>1, <2>0, <3>1, <3>2, <4>1, FooterAnswers DEF FooterStep, Moved, Answer
        <4> QED BY <1>3, <3>1, <4>2
      <3>3. CASE Card.flow \notin Streams /\ a.reply = -1
        <4>1. Fail
          BY <3>1, <3>3 DEF Moved
        <4>2. Moving => Card.file = Nothing
          BY <1>1, <2>0, <3>3 DEF FlowFits, Streams
        <4>3. ErrorStep(a.card)
          BY <1>1, <1>f, <4>1, <4>2, FooterAnswers DEF ErrorStep
        <4> QED BY <1>3, <3>1, <4>3
      <3> QED BY <1>1, <3>2, <3>3, FooterAnswers
    <2>2. CASE ExchangeLost(port, Footer(Card)) /\ FailBlock
      BY <1>2, <1>f, <2>2 DEF FailBlock
    <2> QED BY <2>0, <2>1, <2>2 DEF Exchange
  <1>9. ~(MmceValue \/ MmceSet \/ MmceClose \/ MmceLseek \/ MmceOpenHeader \/ MmceOpenPath \/ MmceOpenEnd)
    BY OneSteps DEF OneGoes
  <1> QED BY <1>4, <1>5, <1>6, <1>7, <1>8, <1>9 DEF MmceStep

\* The device of an operation is in one of the two ports.
LEMMA LinkInPorts == ASSUME ClientInv PROVE Link \in Ports
  <1>1. devices \in Seq(Devices) /\ count \in 0 .. Len(devices) /\ op.index \in Nat
    BY DEF ClientInv, StorageInv, TableFits, ClientCounts, OpFits
  <1>2. NoDevice \in Devices
    BY DEF NoDevice, Devices
  <1>3. op.index < count => devices[op.index + 1] \in Devices
    BY <1>1
  <1> QED BY <1>2, <1>3 DEF Link, DeviceAt, Devices

\* A transfer under way: its card, and what it counts.
LEMMA UnderTransfer ==
  ASSUME ClientInv, FlowFits, epc = "wait", pc \in ReadPcs \cup WritePcs
  PROVE  /\ Card = Now /\ port = Link /\ port \in Ports /\ DOMAIN ports = Ports
         /\ Now.step \in Nat /\ Now.file \in Nat \cup {Nothing}
         /\ Now.flow \in Streams => Now.kind = "mmce" /\ Now.file \in Nat
         /\ i \in Nat /\ done \in Nat /\ (\E S : data \in Seq(S)) /\ Len(data) <= i /\ Len(data) \in Nat
         /\ req.size \in Nat /\ (pc \in {"read_block", "write_block"} => i <= req.size)
         /\ ~Answered /\ ~Denied /\ Progress = (IF Moving THEN Now.step ELSE 0)
  <1>1. /\ Card = Now /\ port = Link /\ port \in Ports /\ DOMAIN ports = Ports /\ CardTyped(Now)
    BY DEF ClientInv, StorageInv, CardsFit, Where, Counted, Card, FlowFits, Now
  <1>2. LoopBound \in Nat /\ IoBlocks \in Nat
    BY StorageAssumption DEF LoopBound
  <1>3. i \in Nat /\ (\E S : data \in Seq(S)) /\ Len(data) <= i /\ req.size \in Nat
        /\ (pc \in {"read_block", "write_block"} => i <= req.size)
    BY <1>2 DEF ClientInv, Counted, LoopsCount
  <1>4. Len(data) \in Nat
    BY <1>3
  <1>5. done \in Nat
    BY DEF ClientInv, ClientCounts
  <1>6. ~Answered /\ ~Denied /\ Progress = (IF Moving THEN Now.step ELSE 0)
    BY DEF Answered, Denied, Progress, ReadPcs, WritePcs
  <1> QED BY <1>1, <1>3, <1>4, <1>5, <1>6 DEF CardTyped

\* The client waits: none of its variables, nor the table, changes.
ClientStill == UNCHANGED <<epc, op, done, dest, result, began, devices, count, req>>

\* What a step has to keep.
FileKept == /\ FlowFits' /\ InPlace'
            /\ op.fn = "mmce_read" => \A c : \A b \in Nat : ReadRun(c, b) => ReadRun(c, b)'

Transferring == /\ ClientInv /\ FilesFit /\ op.fn \in Moves /\ epc = "wait" /\ pc \in ReadPcs \cup WritePcs
                /\ ClientStill /\ port' = port

\* The card of the exchange is the card of the operation, before and after.
LEMMA StillLinked ==
  ASSUME Transferring, NEW d, ports' = [ports EXCEPT ![port] = d]
  PROVE  Now' = d /\ Start' = Start /\ Link' = Link /\ port' = Link'
  <1>1. port \in Ports /\ DOMAIN ports = Ports /\ port = Link
    BY UnderTransfer DEF Transferring, FilesFit
  <1>2. Link' = Link
    BY DEF Transferring, ClientStill, Link, DeviceAt
  <1> QED BY <1>1, <1>2 DEF Transferring, ClientStill, Now, Start

\* A failed request has moved nothing, if no fault was to blame.
LEMMA FailureKept ==
  ASSUME Transferring, NEW d, ports' = [ports EXCEPT ![port] = d],
         LostStep(d) \/ (faults' = faults /\ ErrorStep(d))
  PROVE  FileKept
  <1>1. pc' = "replied" /\ reply'.result = "error" /\ Now' = d /\ Start' = Start
    BY StillLinked DEF LostStep, ErrorStep
  <1>2. ~Moving' /\ ~Answered' /\ Denied' /\ Progress' = 0
    BY <1>1 DEF Moving, Answered, Denied, Progress
  <1>3. FlowFits'
    BY <1>1, <1>2 DEF FlowFits, Transferring, ClientStill, ReadPcs, WritePcs
  <1>4. ASSUME NEW c, NEW b \in Nat, ReadRun(c, b) PROVE ReadRun(c, b)'
    BY <1>2, <1>4 DEF ReadRun, Run, Transferring, ClientStill
  <1>5. InPlace'
    <2>1. SUFFICES ASSUME faults' = began'.faults PROVE InPlace'
      BY DEF InPlace
    <2>2. faults \in Nat /\ began.faults \in Nat /\ began.faults <= faults /\ began' = began /\ epc' = epc /\ epc = "wait"
          /\ done' = done
      BY DEF Transferring, ClientStill, FilesFit, Waiting
    <2>3. faults' = faults /\ ErrorStep(d) /\ faults = began.faults
      BY <2>1, <2>2 DEF LostStep
    <2>4. Now.kind = Start.kind /\ Now.file = Start.file + done + Progress
          /\ Start.file \in Nat \cup {Nothing} /\ (done > 0 => Now.kind = "mmce")
      BY <2>2, <2>3 DEF Transferring, FilesFit, InPlace
    <2>5. /\ Now.step \in Nat /\ done \in Nat /\ Card = Now /\ Progress = (IF Moving THEN Now.step ELSE 0)
      BY UnderTransfer DEF Transferring, FilesFit
    <2>6. d.file = Now.file /\ d.kind = Now.kind /\ (Moving => Now.file = Nothing \/ Now.step = 0)
      BY <2>3, <2>5 DEF ErrorStep
    <2>7. Progress = 0
      BY <2>4, <2>5, <2>6 DEF Nothing
    <2>8. /\ Now'.kind = Start'.kind /\ Now'.file = Start'.file + done' + Progress'
          /\ Start'.file \in Nat \cup {Nothing} /\ (done' > 0 => Now'.kind = "mmce")
      BY <1>1, <1>2, <2>2, <2>4, <2>6, <2>7
    <2> QED BY <1>2, <2>2, <2>8 DEF InPlace
  <1> QED BY <1>3, <1>4, <1>5 DEF FileKept

\* What a step keeps that goes on with the transfer and loses nothing.
LEMMA PlaceKept ==
  ASSUME Transferring, NEW d, ports' = [ports EXCEPT ![port] = d], faults' = faults,
         d.kind = Now.kind, d.kind = "mmce" \/ ~(Moving' \/ Answered'),
         d.file - Progress' = Now.file - Progress, d.file \in Int, Now.file \in Int,
         Progress \in Nat, Progress' \in Nat
  PROVE  InPlace'
  <1>1. SUFFICES ASSUME faults' = began'.faults PROVE InPlace'
    BY DEF InPlace
  <1>2. /\ UNCHANGED <<began, epc, done>> /\ epc = "wait" /\ Now' = d /\ Start' = Start /\ done \in Nat
    BY StillLinked, UnderTransfer DEF Transferring, ClientStill, FilesFit
  <1>3. /\ Now.kind = Start.kind /\ Now.file = Start.file + done + Progress
        /\ Start.file \in Nat \cup {Nothing} /\ (done > 0 => Now.kind = "mmce")
    BY <1>1, <1>2 DEF Transferring, FilesFit, InPlace
  <1>4. Start.file \in Int
    BY <1>3 DEF Nothing
  <1>5. d.file = Start.file + done + Progress'
    BY <1>2, <1>3, <1>4
  <1> QED BY <1>2, <1>3, <1>5 DEF InPlace

\* The header of a transfer moves nothing.
LEMMA HeaderKept ==
  ASSUME Transferring, NEW d, ports' = [ports EXCEPT ![port] = d], faults' = faults, HeaderStep(d)
  PROVE  FileKept
  <1>1. /\ Now' = d /\ port' = Link' /\ Card = Now /\ ~Answered /\ ~Denied /\ Progress = 0 /\ done \in Nat
        /\ Now.file \in Nat \cup {Nothing}
    BY StillLinked, UnderTransfer DEF Transferring, FilesFit, HeaderStep, Moving
  <1>2. Moving' /\ ~Answered' /\ ~Denied' /\ Progress' = 0 /\ d.step = 0
    BY <1>1 DEF HeaderStep, Moving, Answered, Denied, Progress
  <1>3. FlowFits'
    BY <1>1, <1>2 DEF FlowFits, Transferring, ClientStill, HeaderStep, ReadPcs, WritePcs
  <1>4. ASSUME NEW c, NEW b \in Nat, ReadRun(c, b) PROVE ReadRun(c, b)'
    <2>1. Now.file # Nothing => Now.id = c /\ Now.file = b + done + Progress
      BY <1>1, <1>4 DEF ReadRun, Transferring
    <2>2. \A k \in 1 .. d.step : FALSE
      BY <1>2
    <2> QED BY <1>1, <1>2, <1>4, <2>1, <2>2 DEF ReadRun, Run, Transferring, ClientStill, HeaderStep
  <1>5. InPlace'
    <2>1. d.kind = Now.kind /\ d.kind = "mmce" /\ d.file = Now.file
      BY <1>1 DEF HeaderStep
    <2>2. /\ d.file - Progress' = Now.file - Progress /\ d.file \in Int /\ Now.file \in Int
          /\ Progress \in Nat /\ Progress' \in Nat
      BY <1>1, <1>2, <2>1 DEF Nothing
    <2> QED BY <2>1, <2>2, PlaceKept
  <1> QED BY <1>3, <1>4, <1>5 DEF FileKept

\* Nor does polling for readiness.
LEMMA PollKept ==
  ASSUME Transferring, ClientInv', NEW d, ports' = [ports EXCEPT ![port] = d], faults' = faults, PollStep(d)
  PROVE  FileKept
  <1>1. /\ Now' = d /\ d = Now /\ port' = Link' /\ Card = Now /\ ~Answered /\ ~Denied /\ Progress = Now.step
        /\ done \in Nat /\ Now.step \in Nat /\ Now.file \in Nat \cup {Nothing}
    BY StillLinked, UnderTransfer DEF Transferring, FilesFit, PollStep, Moving
  <1>2. Moving /\ Moving' /\ ~Answered' /\ ~Denied' /\ Progress' = Progress /\ pc' # "read_block"
    BY <1>1 DEF PollStep, Moving, Answered, Denied, Progress
  <1>3. Now.file = Nothing \/ (Now.flow = "write" /\ Now.kind = "mmce" /\ Now.step = 0)
    BY <1>2 DEF Transferring, FilesFit, FlowFits, PollStep
  <1>4. i' \in Nat
    BY StorageAssumption DEF ClientInv, Counted, LoopsCount, LoopBound
  <1>5. FlowFits'
    BY <1>1, <1>2, <1>3, <1>4 DEF FlowFits, Transferring, ClientStill, PollStep, ReadPcs, WritePcs
  <1>6. ASSUME NEW c, NEW b \in Nat, ReadRun(c, b) PROVE ReadRun(c, b)'
    BY <1>1, <1>2, <1>6 DEF ReadRun, Run, Transferring, ClientStill
  <1>7. InPlace'
    <2>1. faults = began.faults => Now.kind = "mmce"
      BY <1>2 DEF Transferring, FilesFit, InPlace
    <2>2. CASE faults = began.faults
      <3>1. d.kind = Now.kind /\ d.kind = "mmce"
        BY <1>1, <2>1, <2>2
      <3>2. /\ d.file - Progress' = Now.file - Progress /\ d.file \in Int /\ Now.file \in Int
            /\ Progress \in Nat /\ Progress' \in Nat
        BY <1>1, <1>2 DEF Nothing
      <3> QED BY <3>1, <3>2, PlaceKept
    <2>3. CASE faults # began.faults
      BY <2>3 DEF InPlace, Transferring, ClientStill
    <2> QED BY <2>2, <2>3
  <1> QED BY <1>5, <1>6, <1>7 DEF FileKept

\* A block of a write counts on the card and in its file, or in neither.
LEMMA WriteKept ==
  ASSUME Transferring, NEW d, ports' = [ports EXCEPT ![port] = d], faults' = faults, WriteStep(d)
  PROVE  FileKept
  <1>1. /\ Now' = d /\ port' = Link' /\ Card = Now /\ ~Answered /\ ~Denied /\ Progress = Now.step
        /\ done \in Nat /\ Now.step \in Nat /\ Now.file \in Nat \cup {Nothing} /\ i \in Nat
        /\ (Now.flow \in Streams => Now.kind = "mmce" /\ Now.file \in Nat)
    BY StillLinked, UnderTransfer DEF Transferring, FilesFit, WriteStep, Moving
  <1>2. Moving /\ Moving' /\ ~Answered' /\ ~Denied' /\ Progress' = d.step /\ pc' = "write_block" /\ i' = i + 1
    BY <1>1 DEF WriteStep, Moving, Answered, Denied, Progress
  <1>3. Now.file = Nothing \/ (Now.flow = "write" /\ Now.kind = "mmce" /\ Now.step <= i)
    BY <1>2 DEF Transferring, FilesFit, FlowFits, WriteStep
  <1>4. /\ d.kind = Now.kind /\ d.id = Now.id /\ d.file \in Int /\ d.step \in Nat
        /\ d.file - d.step = Now.file - Now.step
        /\ d.file = Nothing \/ (d.flow = "write" /\ d.kind = "mmce" /\ d.step <= i')
        /\ d.file # Nothing => Now.file # Nothing
    BY <1>1, <1>2, <1>3 DEF WriteStep, Nothing, Streams
  <1>5. FlowFits'
    BY <1>1, <1>2, <1>4 DEF FlowFits, Transferring, ClientStill, ReadPcs, WritePcs
  <1>6. ASSUME NEW c, NEW b \in Nat, ReadRun(c, b) PROVE ReadRun(c, b)'
    <2>1. Now.file # Nothing => Now.id = c /\ Now.file = b + done + Now.step
      BY <1>1, <1>6 DEF ReadRun, Transferring
    <2>2. d.file # Nothing => d.id = c /\ d.file = b + done + d.step
      BY <1>1, <1>4, <2>1
    <2> QED BY <1>1, <1>2, <1>6, <2>2 DEF ReadRun, Run, Transferring, ClientStill
  <1>7. InPlace'
    <2>1. faults = began.faults => Now.kind = "mmce"
      BY <1>2 DEF Transferring, FilesFit, InPlace
    <2>2. CASE faults = began.faults
      <3>1. d.kind = Now.kind /\ d.kind = "mmce"
        BY <1>4, <2>1, <2>2
      <3>2. /\ d.file - Progress' = Now.file - Progress /\ d.file \in Int /\ Now.file \in Int
            /\ Progress \in Nat /\ Progress' \in Nat
        BY <1>1, <1>2, <1>4 DEF Nothing
      <3> QED BY <3>1, <3>2, PlaceKept
    <2>3. CASE faults # began.faults
      BY <2>3 DEF InPlace, Transferring, ClientStill
    <2> QED BY <2>2, <2>3
  <1> QED BY <1>5, <1>6, <1>7 DEF FileKept

\* A block of a read goes on where the last one ended, or is padding at the end of the file.
LEMMA ReadKept ==
  ASSUME Transferring, NEW d, ports' = [ports EXCEPT ![port] = d], faults' = faults, ReadStep(d)
  PROVE  FileKept
  <1>1. /\ Now' = d /\ port' = Link' /\ Card = Now /\ ~Answered /\ ~Denied /\ Progress = Now.step
        /\ done \in Nat /\ Now.step \in Nat /\ Now.file \in Nat \cup {Nothing} /\ i \in Nat
        /\ (Now.flow \in Streams => Now.kind = "mmce" /\ Now.file \in Nat)
    BY StillLinked, UnderTransfer DEF Transferring, FilesFit, ReadStep, Moving
  <1>2. Moving /\ Moving' /\ ~Answered' /\ ~Denied' /\ Progress' = d.step /\ pc' = "read_block" /\ i' = i + 1
        /\ pc = "read_block"
    BY <1>1 DEF ReadStep, Moving, Answered, Denied, Progress
  <1>3. \/ Now.file = Nothing
        \/ /\ Now.flow = "read" /\ Now.kind = "mmce" /\ Now.step <= i
           /\ Now.step < i => Now.file >= FileSize
    BY <1>2 DEF Transferring, FilesFit, FlowFits
  <1>4. Len(data) = i
    BY <1>2 DEF Transferring, FilesFit, FlowFits
  <1>5. PICK S : data \in Seq(S)
    BY UnderTransfer DEF Transferring, FilesFit
  <1>6. PICK e : /\ data' = Append(data, e)
                 /\ \/ d = Now /\ (Now.flow # "read" \/ Now.file >= FileSize)
                    \/ /\ Now.flow = "read" /\ d.flow = "read" /\ d.kind = Now.kind /\ d.id = Now.id
                       /\ Now.file < FileSize /\ e = <<Now.id, Now.file>>
                       /\ d.file = Now.file + 1 /\ d.step = Now.step + 1
    BY <1>1 DEF ReadStep
  <1>7. /\ Len(data') = i + 1 /\ data'[i + 1] = e
        /\ \A k \in 1..i : data'[k] = data[k]
    BY <1>4, <1>5, <1>6
  <1>8. FileSize \in Nat
    BY StorageAssumption
  <1>9. /\ d.kind = Now.kind /\ d.id = Now.id /\ d.file \in Int /\ d.step \in Nat
        /\ d.file - d.step = Now.file - Now.step /\ (d.file # Nothing => Now.file # Nothing)
    BY <1>1, <1>6 DEF Nothing, Streams
  <1>10. \/ d.file = Nothing
         \/ /\ d.flow = "read" /\ d.kind = "mmce" /\ d.step <= i'
            /\ d.step < i' => d.file >= FileSize
    <2>1. CASE d = Now /\ (Now.flow # "read" \/ Now.file >= FileSize)
      BY <1>1, <1>2, <1>3, <2>1
    <2>2. CASE /\ Now.flow = "read" /\ d.flow = "read" /\ d.kind = Now.kind
               /\ Now.file < FileSize /\ d.file = Now.file + 1 /\ d.step = Now.step + 1
      <3>1. Now.file \in Nat /\ Now.kind = "mmce"
        BY <1>1, <2>2 DEF Streams
      <3>2. Now.step = i
        BY <1>1, <1>3, <1>8, <2>2, <3>1 DEF Nothing
      <3> QED BY <1>1, <1>2, <2>2, <3>1, <3>2
    <2> QED BY <1>6, <2>1, <2>2
  <1>11. FlowFits'
    BY <1>1, <1>2, <1>7, <1>10 DEF FlowFits, Transferring, ClientStill, ReadPcs, WritePcs
  <1>12. ASSUME NEW c, NEW b \in Nat, ReadRun(c, b) PROVE ReadRun(c, b)'
    <2>1. Now.file # Nothing => Now.id = c /\ Now.file = b + done + Now.step /\ Run(data, Now.step, c, b + done)
      BY <1>1, <1>2, <1>12 DEF ReadRun, Transferring
    <2>2. d.file # Nothing => d.id = c /\ d.file = b + done + d.step
      BY <1>1, <1>9, <2>1
    <2>3. ASSUME d.file # Nothing PROVE Run(data', d.step, c, b + done)
      <3>1. CASE d = Now
        <4>1. Now.file # Nothing /\ Now.step <= i
          BY <1>3, <2>3, <3>1
        <4>2. \A k \in 1 .. Now.step : k \in 1..i /\ data[k] = <<c, b + done + k - 1>>
          BY <1>1, <2>1, <4>1 DEF Run
        <4>3. \A k \in 1 .. Now.step : data'[k] = <<c, b + done + k - 1>>
          BY <1>7, <4>2
        <4> QED BY <3>1, <4>3 DEF Run
      <3>2. CASE /\ Now.flow = "read" /\ Now.file < FileSize /\ e = <<Now.id, Now.file>>
                 /\ d.step = Now.step + 1
        <4>1. Now.file \in Nat /\ Now.file # Nothing
          BY <1>1, <3>2 DEF Streams, Nothing
        <4>2. Now.step = i
          BY <1>1, <1>3, <1>8, <3>2, <4>1
        <4>3. e = <<c, b + done + ((i + 1) - 1)>>
          BY <1>1, <2>1, <3>2, <4>1, <4>2
        <4>4. ASSUME NEW k \in 1 .. i + 1 PROVE data'[k] = <<c, b + done + k - 1>>
          <5>1. CASE k = i + 1
            BY <1>1, <1>7, <4>3, <5>1
          <5>2. CASE k \in 1 .. i
            BY <1>1, <1>7, <2>1, <4>1, <4>2, <5>2 DEF Run
          <5> QED BY <1>1, <5>1, <5>2
        <4> QED BY <3>2, <4>2, <4>4 DEF Run
      <3> QED BY <1>6, <3>1, <3>2
    <2>4. Run(dest', done', c, b) /\ UNCHANGED <<epc, done>>
      BY <1>12 DEF ReadRun, Run, Transferring, ClientStill
    <2> QED BY <1>1, <1>2, <2>2, <2>3, <2>4 DEF ReadRun, Run
  <1>13. InPlace'
    <2>1. faults = began.faults => Now.kind = "mmce"
      BY <1>2 DEF Transferring, FilesFit, InPlace
    <2>2. CASE faults = began.faults
      <3>1. d.kind = Now.kind /\ d.kind = "mmce"
        BY <1>9, <2>1, <2>2
      <3>2. /\ d.file - Progress' = Now.file - Progress /\ d.file \in Int /\ Now.file \in Int
            /\ Progress \in Nat /\ Progress' \in Nat
        BY <1>1, <1>2, <1>9 DEF Nothing
      <3> QED BY <3>1, <3>2, PlaceKept
    <2>3. CASE faults # began.faults
      BY <2>3 DEF InPlace, Transferring, ClientStill
    <2> QED BY <2>2, <2>3
  <1> QED BY <1>11, <1>12, <1>13 DEF FileKept

\* The count of the footer is what the card moved, so it is not clamped.
LEMMA FooterKept ==
  ASSUME Transferring, NEW d, ports' = [ports EXCEPT ![port] = d], faults' = faults, FooterStep(d)
  PROVE  FileKept
  <1>1. /\ Now' = d /\ port' = Link' /\ Card = Now /\ ~Answered /\ ~Denied /\ Progress = Now.step
        /\ done \in Nat /\ Now.step \in Nat /\ Now.file \in Nat /\ Now.kind = "mmce" /\ i \in Nat
        /\ Now.file # Nothing
    <2>1. Card = Now
      BY UnderTransfer DEF Transferring, FilesFit
    <2>2. Now.flow \in Streams
      BY <2>1 DEF FooterStep
    <2>3. Now' = d /\ port' = Link'
      BY StillLinked
    <2>4. /\ ~Answered /\ ~Denied /\ done \in Nat /\ Now.step \in Nat /\ i \in Nat
          /\ Now.kind = "mmce" /\ Now.file \in Nat /\ Progress = (IF Moving THEN Now.step ELSE 0)
      BY <2>2, UnderTransfer DEF Transferring, FilesFit
    <2>5. Moving
      BY DEF FooterStep, Moving
    <2> QED BY <2>1, <2>3, <2>4, <2>5 DEF Nothing
  <1>2. Moving /\ i = req.size
    BY DEF FooterStep, Moving
  <1>3. Now.step <= i
    BY <1>1, <1>2 DEF Transferring, FilesFit, FlowFits
  <1>4. reply'.result = "ok" /\ reply'.value = Now.step /\ pc' = "replied" /\ data' = data
    BY <1>1, <1>2, <1>3 DEF FooterStep
  <1>5. ~Moving' /\ Answered' /\ ~Denied' /\ Progress' = Now.step
    BY <1>4 DEF Moving, Answered, Denied, Progress
  <1>6. op.fn = "mmce_read" => pc = "read_block"
    <2>1. req.fn = op.fn
      BY RequestFits DEF Transferring, ClientInv, ClientCounts
    <2>2. pc \in {"read_block", "write_block"}
      BY DEF FooterStep
    <2> QED BY <2>1, <2>2 DEF Transferring, ClientInv, Counted, LoopsCount, WritePcs
  <1>7. FlowFits'
    <2>1. op.fn = "mmce_read" => reply'.value <= Len(data')
      BY <1>2, <1>3, <1>4, <1>6 DEF Transferring, FilesFit, FlowFits
    <2> QED BY <1>1, <1>4, <1>5, <2>1 DEF FlowFits, Transferring, ClientStill, ReadPcs, WritePcs
  <1>8. ASSUME NEW c, NEW b \in Nat, ReadRun(c, b), op.fn = "mmce_read" PROVE ReadRun(c, b)'
    <2>1. Now.id = c /\ Now.file = b + done + Now.step /\ Run(data, Now.step, c, b + done)
      BY <1>1, <1>6, <1>8 DEF ReadRun, Transferring
    <2>2. d.id = c /\ d.file = Now.file
      BY <1>1, <2>1 DEF FooterStep
    <2> QED BY <1>1, <1>4, <1>5, <1>8, <2>1, <2>2 DEF ReadRun, Run, Transferring, ClientStill
  <1>9. InPlace'
    <2>1. d.kind = Now.kind /\ d.kind = "mmce" /\ d.file = Now.file
      BY <1>1 DEF FooterStep
    <2>2. /\ d.file - Progress' = Now.file - Progress /\ d.file \in Int /\ Now.file \in Int
          /\ Progress \in Nat /\ Progress' \in Nat
      BY <1>1, <1>5, <2>1 DEF Nothing
    <2> QED BY <2>1, <2>2, PlaceKept
  <1> QED BY <1>7, <1>8, <1>9 DEF FileKept

\* The service steps only while it serves a request, and one exchange at a time.
LEMMA ServiceMoves ==
  ASSUME StorageInv, Counted, ServiceStep
  PROVE  /\ pc \notin {"idle", "replied"} /\ pc' # "idle" /\ faults' \in {faults, faults + 1}
         /\ pc \in ReadPcs \cup WritePcs => MmceStep
  <1>1. faults' \in {faults, faults + 1}
    <2>1. PICK S \in Replies(Card) : Exchanged(S)
      BY ScanExchange, MxExchange, PageExchange, ReadExchange, WriteExchange, MmceExchange
         DEF ServiceStep, ScanStep
    <2> QED BY <2>1 DEF Exchanged, CardAnswers, ExchangeLost
  <1>2. CASE ScanStep
    <2>1. InScan /\ pc' \in ScanPcs \cup MxPcs \cup {"select", "replied"}
      BY <1>2, ScanOn DEF OnToNext
    <2>2. pc \in ScanPcs \cup MxPcs \cup PagePcs
      BY <2>1 DEF InScan
    <2> QED BY <1>1, <2>1, <2>2 DEF ScanPcs, MxPcs, ReadyPcs, PagePcs, ReadPcs, WritePcs
  <1>3. CASE PageStep
    <2>1. pc' \in PagePcs \cup {"ping", "card", "replied"}
      BY <1>3, PageStepGoes
    <2>2. pc \in PagePcs
      BY <1>3 DEF PageStep, ReadSelect, ReadChunk, ReadFinish, Serving, PagePcs
    <2> QED BY <1>1, <2>1, <2>2 DEF PagePcs, ReadPcs, WritePcs
  <1>4. CASE ReadSectorStep \/ WriteSectorStep
    <2>1. SectorCounts
      BY <1>4, ReadSectorCounts, WriteSectorCounts
    <2> QED BY <1>1, <2>1 DEF SectorCounts, BlockPcs
  <1>5. CASE MmceStep
    <2>1. BlockEffect
      BY <1>5, MmceEffect DEF StorageInv
    <2> QED BY <1>1, <1>5, <2>1 DEF BlockEffect, BlockPcs
  <1> QED BY <1>2, <1>3, <1>4, <1>5 DEF ServiceStep

\* Every step of the service keeps the files in order.
LEMMA ServiceFiles ==
  ASSUME ClientInv, ClientInv', FilesFit, ServiceStep, UNCHANGED clientVars PROVE FilesFit'
  <1>1. /\ pc \notin {"idle", "replied"} /\ pc' # "idle" /\ faults' \in {faults, faults + 1}
        /\ pc \in ReadPcs \cup WritePcs => MmceStep
    BY ServiceMoves DEF ClientInv
  <1>2. UNCHANGED <<bound, known, epc, op, done, dest, result, began>>
    BY DEF clientVars
  <1>3. Waiting'
    BY <1>1, <1>2 DEF FilesFit, Waiting
  <1>4. SUFFICES ASSUME op.fn \in Moves PROVE FlowFits' /\ InOrder' /\ InPlace'
    BY <1>2, <1>3 DEF FilesFit
  <1>5. FlowFits /\ InOrder /\ epc = "wait" /\ pc \in ReadPcs \cup WritePcs
    BY <1>1, <1>4 DEF FilesFit, FlowFits, Waiting
  <1>6. BlockEffect
    BY <1>1, <1>5, MmceEffect DEF ClientInv, StorageInv
  <1>7. Transferring
    BY <1>2, <1>4, <1>5, <1>6 DEF Transferring, ClientStill, BlockEffect, tableVars
  <1>8. PICK d : ports' = [ports EXCEPT ![port] = d] /\ FileEffect(d)
    BY <1>1, <1>5, TransferEffects DEF Effects
  <1>9. FileKept
    BY <1>7, <1>8, FailureKept, HeaderKept, PollKept, WriteKept, ReadKept, FooterKept DEF FileEffect
  <1>10. InOrder'
    <2>1. SUFFICES ASSUME op.fn = "mmce_read" PROVE InOrder'
      BY <1>2 DEF InOrder
    <2>2. PICK c : \E b \in Nat : ReadRun(c, b)
      BY <1>5, <2>1 DEF InOrder
    <2>3. \E b \in Nat : ReadRun(c, b)'
      BY <1>9, <2>1, <2>2 DEF FileKept
    <2> QED BY <1>2, <1>5, <2>1, <2>3 DEF InOrder
  <1> QED BY <1>9, <1>10 DEF FileKept

\* Where a step leaves the cards, the table and the service alone.
LEMMA NotServing ==
  ASSUME pc = "idle" PROVE ~Moving /\ ~Answered /\ ~Denied /\ Progress = 0
  BY DEF Moving, Answered, Denied, Progress

\* The same after a step.
LEMMA NotServingNext ==
  ASSUME pc' = "idle" PROVE ~Moving' /\ ~Answered' /\ ~Denied' /\ Progress' = 0
  BY DEF Moving, Answered, Denied, Progress

\* A transfer begins where the file is.
LEMMA BeginFiles ==
  ASSUME ClientInv, ClientInv', FilesFit, NEW o \in Operations, Begin(o) PROVE FilesFit'
  <1>1. /\ epc = "idle" /\ pc = "idle" /\ faults \in Nat
        /\ op' = o /\ done' = 0 /\ dest' = <<>> /\ began' = [ports |-> ports, faults |-> faults]
        /\ UNCHANGED <<pc, ports, faults>>
    BY DEF Begin, FilesFit, Waiting, serviceVars, mediaVars
  <1>2. epc' \in {"returned", "call", "init"}
    BY DEF Begin, Finish
  <1>3. Waiting'
    BY <1>1, <1>2 DEF Waiting
  <1>4. SUFFICES ASSUME o.fn \in Moves PROVE FlowFits' /\ InOrder' /\ InPlace'
    BY <1>1, <1>3 DEF FilesFit
  <1>5. epc' = "call" \/ (epc' = "returned" /\ result' = "error")
    BY <1>4 DEF Begin, Finish, Refused, Moves
  <1>6. ~Moving' /\ ~Answered' /\ ~Denied' /\ Progress' = 0
    BY <1>1, NotServingNext
  <1>7. FlowFits'
    BY <1>1, <1>5, <1>6 DEF FlowFits, ReadPcs, WritePcs
  <1>8. (Link \in Ports)'
    <2>1. devices' \in Seq(Devices) /\ count' \in 0 .. Len(devices') /\ op'.index \in Nat
      BY DEF ClientInv, StorageInv, TableFits, ClientCounts, OpFits
    <2>2. NoDevice \in Devices
      BY DEF NoDevice, Devices
    <2>3. op'.index < count' => devices'[op'.index + 1] \in Devices
      BY <2>1
    <2> QED BY <2>2, <2>3 DEF Link, DeviceAt, Devices
  <1>9. Now' = Start' /\ Now'.file \in Nat \cup {Nothing}
    <2>1. Now' = ports[Link'] /\ Start' = ports[Link']
      BY <1>1 DEF Now, Start
    <2>2. CardTyped(ports[Link'])
      BY <1>8 DEF ClientInv, Counted
    <2> QED BY <2>1, <2>2 DEF CardTyped
  <1>10. InOrder'
    <2>1. (\E S : dest' \in Seq(S)) /\ Len(dest') = done'
      BY <1>1
    <2>2. \E b \in Nat : Now'.file # Nothing => Now'.file = b
      BY <1>9
    <2>3. PICK b \in Nat : Now'.file # Nothing => Now'.file = b
      BY <2>2
    <2>c. PICK c : c = Now'.id
      OBVIOUS
    <2>4. Run(dest', done', c, b)
      BY <1>1 DEF Run
    <2>5. Now'.file # Nothing => Now'.file = b + done' + Progress'
      BY <1>1, <1>6, <2>3
    <2>6. ReadRun(c, b)'
      BY <1>1, <1>6, <2>c, <2>4, <2>5 DEF ReadRun, Run
    <2> QED BY <2>1, <2>6 DEF InOrder
  <1>11. InPlace'
    <2>1. Now'.file = Start'.file + done' + Progress'
      BY <1>1, <1>6, <1>9 DEF Nothing
    <2> QED BY <1>1, <1>5, <1>6, <1>9, <2>1 DEF InPlace
  <1> QED BY <1>7, <1>10, <1>11

\* A request finds the card as the last one left it.
LEMMA CallFiles ==
  ASSUME ClientInv, FilesFit, Call PROVE FilesFit'
  <1>1. epc \in {"call", "init_call"} /\ RpcHandler(RequestOf) /\ UNCHANGED <<op, done, dest, result, began>>
        /\ epc' = (IF epc = "call" THEN "wait" ELSE "init_wait") /\ pc = "idle"
    BY DEF Call, RpcHandler
  <1>2. pc' # "idle" /\ UNCHANGED <<ports, faults>>
    BY <1>1 DEF RpcHandler, mediaVars, ScanBegin, Go, Answer, Fail, Entry
  <1>3. Waiting'
    BY <1>1, <1>2 DEF FilesFit, Waiting
  <1>4. SUFFICES ASSUME op.fn \in Moves PROVE FlowFits' /\ InOrder' /\ InPlace'
    BY <1>1, <1>3 DEF FilesFit
  <1>5. epc = "call" /\ epc' = "wait" /\ FlowFits /\ InOrder /\ InPlace
    BY <1>1, <1>4 DEF FilesFit, FlowFits
  <1>6. RequestOf.fn = op.fn /\ RequestOf.index = op.index
    BY <1>4, <1>5 DEF RequestOf, FileRequest, ClientInv, ClientCounts, OpFits
  <1>7. /\ UNCHANGED tableVars
        /\ \/ pc' = "replied" /\ reply'.result = "error"
           \/ pc' \in {"read_header", "write_header"} /\ port' = Link
    BY <1>1, <1>4, <1>6 DEF RpcHandler, ScanBegin, Go, Answer, Fail, Entry, Moves, ValueFns, Link, DeviceAt
  <1>8. Link' = Link /\ Now' = Now /\ Start' = Start
    BY <1>1, <1>2, <1>7 DEF Link, DeviceAt, Now, Start, tableVars
  <1>9. /\ ~Moving' /\ ~Answered' /\ Progress' = 0 /\ ~Moving /\ ~Answered /\ ~Denied /\ Progress = 0
    BY <1>1, <1>7 DEF Moving, Answered, Denied, Progress
  <1>10. FlowFits'
    BY <1>5, <1>7, <1>8, <1>9 DEF FlowFits, Answered, ReadPcs, WritePcs
  <1>11. InOrder'
    <2>1. ASSUME NEW c, NEW b \in Nat, ReadRun(c, b) PROVE ReadRun(c, b)'
      BY <1>1, <1>5, <1>7, <1>8, <1>9, <2>1 DEF ReadRun, Run
    <2> QED BY <1>1, <1>5, <2>1 DEF InOrder
  <1>12. InPlace'
    BY <1>1, <1>2, <1>5, <1>8, <1>9 DEF InPlace
  <1> QED BY <1>10, <1>11, <1>12

\* The answer to the last request of a transfer, and to one in the middle.
LEMMA ReturnedStill ==
  ASSUME Returned, UNCHANGED op
  PROVE  /\ pc = "replied" /\ pc' = "idle" /\ Link' = Link /\ Now' = Now /\ faults' = faults
         /\ ~Moving' /\ ~Answered' /\ ~Denied' /\ Progress' = 0
  <1>1. pc = "replied" /\ pc' = "idle" /\ UNCHANGED <<ports, faults, devices, count>>
    BY DEF Returned, mediaVars, tableVars
  <1> QED BY <1>1, NotServingNext DEF Link, DeviceAt, Now

\* The caller takes the blocks of the request and counts them.
LEMMA TakenFiles == ASSUME ClientInv, FilesFit, Taken PROVE FilesFit'
  <1>1. /\ epc = "wait" /\ reply.result = "ok" /\ Returned /\ UNCHANGED <<op, began>>
        /\ epc' = "call" \/ (epc' = "returned" /\ result' = "ok")
    BY DEF Taken, Finish
  <1>2. /\ pc = "replied" /\ pc' = "idle" /\ Link' = Link /\ Now' = Now /\ faults' = faults
        /\ ~Moving' /\ ~Answered' /\ ~Denied' /\ Progress' = 0
    BY <1>1, ReturnedStill
  <1>3. Waiting'
    BY <1>1, <1>2 DEF FilesFit, Waiting
  <1>4. SUFFICES ASSUME op.fn \in Moves PROVE FlowFits' /\ InOrder' /\ InPlace'
    BY <1>1, <1>3 DEF FilesFit
  <1>5. Answered /\ ~Denied /\ Progress = reply.value /\ FlowFits /\ InOrder /\ InPlace
    BY <1>1, <1>2, <1>4 DEF Answered, Denied, Progress, Moving, FilesFit
  <1>6. FileTaken(reply.value)
    BY <1>4 DEF Taken, Moves, Blocks, Looping
  <1>7. reply.value \in Nat /\ done \in Nat /\ done' = done + reply.value
    <2>1. req.fn = op.fn
      BY <1>1, <1>4, RequestFits DEF ClientInv, ClientCounts
    <2>2. reply.value \in 0 .. req.size /\ req.size \in Nat
      BY <1>1, <1>2, <1>4, <2>1, RequestFits DEF ClientInv, ClientCounts, Counted, LoopsCount
    <2> QED BY <1>6, <2>2 DEF FileTaken, ClientInv, ClientCounts
  <1>8. FlowFits'
    BY <1>1, <1>2 DEF FlowFits, Answered, ReadPcs, WritePcs
  <1>9. InOrder'
    <2>1. SUFFICES ASSUME op.fn = "mmce_read" PROVE InOrder'
      BY <1>1 DEF InOrder
    <2>2. PICK c : \E b \in Nat : ReadRun(c, b)
      BY <1>5, <2>1 DEF InOrder
    <2>3. PICK b \in Nat : ReadRun(c, b)
      BY <2>2
    <2>4. PICK S : dest \in Seq(S) /\ Len(dest) = done
      BY <1>5, <2>1 DEF InOrder
    <2>5. PICK T : data \in Seq(T) /\ reply.value <= Len(data)
      BY <1>1, <1>2, <1>5, <2>1 DEF FlowFits, ClientInv, Counted, LoopsCount
    <2> DEFINE s == SubSeq(data, 1, reply.value)
    <2>6. s \in Seq(T) /\ Len(s) = reply.value /\ \A k \in 1 .. reply.value : s[k] = data[k]
      BY <1>7, <2>5
    <2>7. dest' = dest \o s
      BY <1>6, <2>1 DEF FileTaken
    <2> HIDE DEF s
    <2>8. dest \in Seq(S \cup T) /\ s \in Seq(S \cup T)
      BY <2>4, <2>6
    <2>9. /\ dest' \in Seq(S \cup T) /\ Len(dest') = done + reply.value
          /\ \A k \in 1 .. done : dest'[k] = dest[k]
          /\ \A k \in done + 1 .. done + reply.value : dest'[k] = s[k - done]
      BY <1>7, <2>4, <2>6, <2>7, <2>8
    <2>10. Run(dest', done', c, b)
      <3>1. ASSUME NEW k \in 1 .. done + reply.value PROVE dest'[k] = <<c, b + k - 1>>
        <4>1. CASE k \in 1 .. done
          BY <2>3, <2>9, <4>1 DEF ReadRun, Run
        <4>2. CASE k \in done + 1 .. done + reply.value
          <5>1. k - done \in 1 .. reply.value
            BY <1>7, <4>2
          <5>2. data[k - done] = <<c, b + done + (k - done) - 1>>
            BY <1>5, <2>3, <5>1 DEF ReadRun, Run
          <5>3. b + done + (k - done) - 1 = b + k - 1
            BY <1>7, <5>1
          <5> QED BY <2>6, <2>9, <4>2, <5>1, <5>2, <5>3
        <4> QED BY <1>7, <3>1, <4>1, <4>2
      <3> QED BY <1>7, <3>1 DEF Run
    <2>11. Now.file # Nothing => Now.id = c /\ Now.file = b + done + reply.value
      BY <1>1, <1>5, <2>3 DEF ReadRun
    <2>12. Now'.file # Nothing => Now'.id = c /\ Now'.file = b + done' + Progress'
      BY <1>2, <1>7, <2>11
    <2>13. ReadRun(c, b)'
      BY <1>2, <2>10, <2>12 DEF ReadRun, Run
    <2> QED BY <1>7, <2>9, <2>13 DEF InOrder
  <1>10. InPlace'
    <2>1. SUFFICES ASSUME faults = began.faults PROVE InPlace'
      BY <1>1, <1>2 DEF InPlace
    <2>2. Now.kind = Start.kind /\ Now.file = Start.file + done + reply.value
          /\ Start.file \in Nat \cup {Nothing} /\ Now.kind = "mmce"
      BY <1>1, <1>5, <2>1 DEF InPlace
    <2>3. Start' = Start
      BY <1>1, <1>2 DEF Start
    <2>4. Now'.file = Start'.file + done' + Progress'
      BY <1>2, <1>7, <2>2, <2>3 DEF Nothing
    <2> QED BY <1>2, <2>2, <2>3, <2>4 DEF InPlace
  <1> QED BY <1>8, <1>9, <1>10

\* After an error the caller has what earlier requests moved.
LEMMA RefusalFiles == ASSUME ClientInv, FilesFit, Refusal PROVE FilesFit'
  <1>1. /\ epc = "wait" /\ reply.result = "error" /\ Returned /\ UNCHANGED <<op, began, done, dest>>
        /\ epc' = "returned" /\ result' = Partly
    BY DEF Refusal, Finish
  <1>2. /\ pc = "replied" /\ pc' = "idle" /\ Link' = Link /\ Now' = Now /\ faults' = faults
        /\ ~Moving' /\ ~Answered' /\ ~Denied' /\ Progress' = 0
    BY <1>1, ReturnedStill
  <1>3. Waiting'
    BY <1>1, <1>2 DEF FilesFit, Waiting
  <1>4. SUFFICES ASSUME op.fn \in Moves PROVE FlowFits' /\ InOrder' /\ InPlace'
    BY <1>1, <1>3 DEF FilesFit
  <1>5. FlowFits /\ InOrder /\ InPlace /\ Progress = 0
    BY <1>1, <1>2, <1>4 DEF Answered, Progress, Moving, FilesFit
  <1>6. FlowFits'
    BY <1>1, <1>2 DEF FlowFits, Answered, ReadPcs, WritePcs
  <1>7. InOrder'
    <2>1. ASSUME NEW c, NEW b \in Nat, ReadRun(c, b) PROVE ReadRun(c, b)'
      BY <1>1, <1>2, <2>1 DEF ReadRun, Run
    <2> QED BY <1>1, <1>5, <2>1 DEF InOrder
  <1>8. result' = "ok" => done > 0
    BY <1>1 DEF Partly
  <1>9. Start' = Start
    BY <1>1, <1>2 DEF Start
  <1>10. InPlace'
    BY <1>1, <1>2, <1>5, <1>8, <1>9 DEF InPlace
  <1> QED BY <1>6, <1>7, <1>10

\* A card that is plugged in has no file open.
LEMMA FreshFile == ASSUME NEW c \in AllCards PROVE c.file = Nothing
  BY DEF AllCards, NoCard, CardOf

\* A card that is exchanged counts as a fault, and gives no more blocks.
LEMMA CardExchangedFiles ==
  ASSUME ClientInv, FilesFit, CardExchanged, UNCHANGED clientVars PROVE FilesFit'
  <1>1. PICK p \in Ports, x \in AllCards : ports' = [ports EXCEPT ![p] = x]
    BY DEF CardExchanged, Plugs
  <1>2. /\ UNCHANGED <<devices, count, pc, req, port, i, data, reply>> /\ faults' = faults + 1
        /\ UNCHANGED <<bound, known, epc, op, done, dest, result, began>>
    BY DEF CardExchanged, tableVars, localVars, clientVars
  <1>3. Waiting'
    BY <1>2 DEF FilesFit, Waiting
  <1>4. SUFFICES ASSUME op.fn \in Moves PROVE FlowFits' /\ InOrder' /\ InPlace'
    BY <1>2, <1>3 DEF FilesFit
  <1>5. FlowFits /\ InOrder /\ InPlace
    BY <1>4 DEF FilesFit
  <1>6. Link' = Link /\ (Now' = Now \/ Now'.file = Nothing)
    <2>1. Link' = Link
      BY <1>2 DEF Link, DeviceAt
    <2> QED BY <1>1, <2>1, FreshFile, LinkInPorts DEF Now, ClientInv, StorageInv, CardsFit
  <1>7. FlowFits'
    <2>1. Moving' = Moving
      BY <1>2 DEF Moving
    <2> QED BY <1>2, <1>5, <1>6, <2>1 DEF FlowFits
  <1>8. InOrder'
    <2>1. ASSUME NEW c, NEW b \in Nat, ReadRun(c, b) PROVE ReadRun(c, b)'
      <3>1. (Answered' <=> Answered) /\ (Denied' <=> Denied) /\ (Now' = Now => Progress' = Progress)
        BY <1>2 DEF Answered, Denied, Progress, Moving
      <3>2. Run(dest, done, c, b)' /\ (Answered' => Run(data, reply.value, c, b + done)')
        BY <1>2, <2>1, <3>1 DEF ReadRun, Run
      <3>3. CASE Now'.file = Nothing
        BY <3>2, <3>3 DEF ReadRun
      <3>4. CASE Now' = Now
        BY <1>2, <2>1, <3>1, <3>2, <3>4 DEF ReadRun, Run
      <3> QED BY <1>6, <3>3, <3>4
    <2> QED BY <1>2, <1>5, <2>1 DEF InOrder
  <1>9. InPlace'
    <2>1. epc # "idle"
      BY <1>5 DEF FlowFits
    <2>2. faults' # began'.faults
      BY <1>2, <2>1 DEF FilesFit, Waiting
    <2> QED BY <2>2 DEF InPlace
  <1> QED BY <1>7, <1>8, <1>9

\* A call that fails before it reaches the service moves nothing.
LEMMA CallFailsFiles == ASSUME ClientInv, FilesFit, CallFails PROVE FilesFit'
  <1>1. /\ UNCHANGED <<ports, devices, count, pc, port, i, data, reply, op, done, dest, began>>
        /\ faults' = faults + 1 /\ epc' = "returned" /\ epc \in {"call", "init_call"} /\ pc = "idle"
    BY DEF CallFails, Finish, tableVars, localVars, FilesFit, Waiting
  <1>2. Waiting'
    BY <1>1 DEF FilesFit, Waiting
  <1>3. SUFFICES ASSUME op.fn \in Moves PROVE FlowFits' /\ InOrder' /\ InPlace'
    BY <1>1, <1>2 DEF FilesFit
  <1>4. ~Moving' /\ ~Answered' /\ ~Denied' /\ Progress' = 0
    BY <1>1, NotServingNext
  <1>5. FlowFits'
    BY <1>1, <1>4 DEF FlowFits, Answered, ReadPcs, WritePcs
  <1>6. InOrder'
    <2>1. ASSUME NEW c, NEW b \in Nat, ReadRun(c, b) PROVE ReadRun(c, b)'
      BY <1>1, <1>4, <2>1 DEF ReadRun, Run
    <2> QED BY <1>1, <1>3, <2>1 DEF InOrder, FilesFit
  <1>7. InPlace'
    <2>1. faults' # began'.faults
      BY <1>1 DEF FilesFit, Waiting
    <2> QED BY <2>1 DEF InPlace
  <1> QED BY <1>5, <1>6, <1>7

\* The steps of other operations.
LEMMA OtherFiles == ASSUME ClientInv, FilesFit, Initialise \/ InitDone \/ Leave PROVE FilesFit'
  <1>1. CASE Initialise
    <2>1. /\ epc = "init" /\ epc' \in {"init_call", "returned"} /\ UNCHANGED <<op, pc, faults, began>>
      BY <1>1 DEF Initialise, Finish, serviceVars, mediaVars
    <2> QED BY <2>1 DEF FilesFit, Waiting, FlowFits
  <1>2. CASE InitDone
    <2>1. /\ epc = "init_wait" /\ epc' \in {"call", "returned"} /\ UNCHANGED <<op, faults, began>> /\ pc' = "idle"
      BY <1>2, ReturnedStill DEF InitDone, Finish
    <2> QED BY <2>1 DEF FilesFit, Waiting, FlowFits
  <1>3. CASE Leave
    <2>1. epc = "returned" /\ epc' = "idle" /\ op' = NoOp /\ UNCHANGED <<pc, faults>>
      BY <1>3 DEF Leave, serviceVars, mediaVars
    <2>2. op'.fn \notin Moves
      BY <2>1 DEF NoOp, NoRequest, Moves
    <2> QED BY <2>1, <2>2 DEF FilesFit, Waiting
  <1> QED BY <1>1, <1>2, <1>3

\* At first no operation is under way.
LEMMA FilesInit == Init => FilesFit
  <1> SUFFICES ASSUME Init PROVE FilesFit
    OBVIOUS
  <1>1. epc = "idle" /\ pc = "idle" /\ faults = 0 /\ op = NoRequest
    BY DEF Init, ServiceInit, NoOp
  <1> QED BY <1>1 DEF FilesFit, Waiting, NoRequest, Moves

\* Every step keeps the files in order.
LEMMA FilesKept == ClientInv /\ FilesFit /\ [Next]_vars => FilesFit'
  <1> SUFFICES ASSUME ClientInv, FilesFit, [Next]_vars PROVE FilesFit'
    OBVIOUS
  <1>1. ClientInv'
    BY CountsKept
  <1>2. ASSUME NEW o \in Operations, Begin(o) PROVE FilesFit'
    BY <1>1, <1>2, BeginFiles
  <1>3. CASE CallerStep
    BY <1>3, OtherFiles, CallFiles, TakenFiles, RefusalFiles DEF CallerStep
  <1>4. CASE CallFails
    BY <1>4, CallFailsFiles
  <1>5. CASE (ServiceStep \/ CardExchanged) /\ UNCHANGED clientVars
    BY <1>1, <1>5, ServiceFiles, CardExchangedFiles
  <1>6. CASE UNCHANGED vars
    <2>1. UNCHANGED <<ports, faults, devices, count, pc, req, port, i, data, reply, epc, op, done, dest, result, began>>
      BY <1>6 DEF vars, serviceVars, mediaVars, tableVars, localVars, clientVars
    <2>2. Waiting' /\ FlowFits' = FlowFits /\ InPlace' = InPlace /\ InOrder' = InOrder
      BY <2>1 DEF FilesFit, Waiting, FlowFits, InPlace, InOrder, ReadRun, Run, Moving, Answered, Denied,
                  Progress, Now, Start, Link, DeviceAt
    <2> QED BY <2>1, <2>2 DEF FilesFit
  <1> QED BY <1>2, <1>3, <1>4, <1>5, <1>6 DEF Next

\* What the caller is told in the end.
LEMMA FilesFollow == ClientInv /\ FilesFit => FileInOrder
  <1> SUFFICES ASSUME ClientInv, FilesFit, epc = "returned", op.fn \in Moves, result = "ok"
               PROVE  /\ op.fn = "mmce_read" =>
                           /\ Len(dest) = done
                           /\ \A k \in 1..done : /\ dest[k] # <<>>
                                                 /\ dest[k] = <<dest[1][1], dest[1][2] + k - 1>>
                      /\ Undisturbed => \E p \in Ports :
                           /\ began.ports[p].kind = "mmce"
                           /\ ports[p].file = began.ports[p].file + done
    BY DEF FileInOrder
  <1>1. ASSUME op.fn = "mmce_read"
        PROVE  /\ Len(dest) = done
               /\ \A k \in 1..done : dest[k] # <<>> /\ dest[k] = <<dest[1][1], dest[1][2] + k - 1>>
    <2>1. PICK c : \E b \in Nat : ReadRun(c, b)
      BY <1>1 DEF FilesFit, InOrder
    <2>2. PICK b \in Nat : Run(dest, done, c, b)
      BY <2>1 DEF ReadRun
    <2>3. ASSUME NEW k \in 1..done PROVE dest[k] # <<>> /\ dest[k] = <<dest[1][1], dest[1][2] + k - 1>>
      <3>1. done \in Nat /\ 1 \in 1..done
        BY <2>3 DEF ClientInv, ClientCounts
      <3>2. dest[1] = <<c, b>> /\ dest[k] = <<c, b + k - 1>>
        BY <2>2, <3>1 DEF Run
      <3> QED BY <3>2
    <2> QED BY <1>1, <2>3 DEF FilesFit, InOrder
  <1>2. ASSUME Undisturbed
        PROVE  began.ports[Link].kind = "mmce" /\ ports[Link].file = began.ports[Link].file + done
    <2>1. pc = "idle"
      BY DEF FilesFit, Waiting
    <2>2. Progress = 0
      BY <2>1, NotServing
    <2>3. Now.kind = "mmce" /\ Now.kind = Start.kind /\ Now.file = Start.file + done + Progress
          /\ Start.file \in Nat \cup {Nothing}
      BY <1>2 DEF Undisturbed, FilesFit, InPlace
    <2>4. done \in Nat
      BY DEF ClientInv, ClientCounts
    <2>5. Now.file = Start.file + done
      BY <2>2, <2>3, <2>4 DEF Nothing
    <2> QED BY <2>3, <2>5 DEF Now, Start
  <1> QED BY <1>1, <1>2, LinkInPorts

\* Whatever exchange is lost and whatever card exchanged, what ef2_storage_mmce_read
\* reports as read is consecutive blocks of one file, and an undisturbed transfer
\* moves the file position by exactly the count it reports; answers that come
\* after their call timed out are not in the model.
THEOREM FilesAreInOrder == Spec => []FileInOrder
  BY CountsInit, CountsKept, FilesInit, FilesKept, FilesFollow, PTL DEF Spec
-----------------------------------------------------------------------------
(* Scans: what is plugged in is what is listed.                            *)

\* Nothing disturbs the operation: no fault, and no card was in the middle of
\* a transfer when it began.
Calm == faults = began.faults /\ \A p \in Ports : began.ports[p].flow = "quiet"

\* The cards are those it began with, between two commands.
AsPlugged == \A p \in Ports : /\ ports[p].flow = "quiet" /\ ports[p].kind = began.ports[p].kind
                              /\ ports[p].kind = "sd" => ports[p].id \in SdTypes

\* The devices so far, as the client is to see them.
Tabled(s) == [k \in 1..Len(s) |-> [kind |-> s[k].kind, port |-> s[k].port]]
SoFar     == Tabled(devices) = (IF port = 2 THEN <<>> ELSE Listed(2))
AllListed == Tabled(devices) = Listed(2) \o Listed(3) /\ count = Len(devices)

\* How far mx_initialize has brought the card.
OnTheWay(c) ==
  /\ c.kind = "sd" /\ (pc = "mx_version" => c.level = 1)
  /\ pc = "mx_v2" => c.level = 1 /\ c.id \in {"v2", "hc"}
  /\ pc = "mx_v1" => c.level = 1 /\ c.id \in {"v1", "mmc"}
  /\ pc = "mx_mmc" => c.level = 1 /\ c.id = "mmc"
  /\ pc \in {"mx_ocr", "mx_block", "mx_csd"} => c.level = 2

ScanFits ==
  /\ InScan => SoFar
  /\ pc \in {"terminator", "geometry", "card", "channel", "status"} \cup PagePcs =>
       info.port = port /\ info.kind = (IF Card.kind = "mmce" THEN "mmce" ELSE "mc")
  /\ pc \in {"card", "channel", "status"} => Card.kind = "mmce"
  /\ pc \in PagePcs => Native(Card)
  /\ pc \in MxPcs => ~Native(Card)
  /\ pc \in ReadyPcs => OnTheWay(Card)
  /\ pc = "replied" => AllListed

ScanGoes ==
  op.fn = "scan" /\ Calm /\ epc # "idle" =>
    /\ AsPlugged
    /\ epc = "wait" => ScanFits
    /\ epc = "returned" /\ result = "ok" => AllListed /\ known = count

\* SD cards are known by their type.
SdNamed == \A p \in Ports : ports[p].kind = "sd" => ports[p].id \in SdTypes

\* The service works for a caller that waits, and for no other.
Working == pc \notin {"idle", "replied"} => epc = "wait"

ScanInv == SdNamed /\ Working /\ ScanGoes
-----------------------------------------------------------------------------
\* Whatever the service asks of a card, it stays the card it is.
LEMMA RepliesStill ==
  ASSUME NEW c, IsCard(c), NEW S \in Replies(c)
  PROVE  \A a \in S : Still(c, a.card)
  <1>2. \A a \in Silent(c) : Still(c, a.card)
    BY SilentSame DEF Same
  <1>3. \A a \in Version(c) \cup HighCapacity(c) \cup BlockLength(c) \cup Capacity(c) : Still(c, a.card)
    BY AskedStill DEF Same
  <1>4. \A takes \in BOOLEAN : \A a \in GetsReady(c, takes) : Still(c, a.card)
    BY GetsReadyStill
  <1>5. \A a \in V2Loop(c) \cup V1Loop(c) \cup MmcLoop(c) : Still(c, a.card)
    BY <1>4 DEF V2Loop, V1Loop, MmcLoop
  <1>6. \A a \in Reset(c) : Still(c, a.card)
    BY ResetStill
  <1>7. /\ \A n : \A a \in SelectPage(c, n) : Still(c, a.card)
        /\ \A a \in Terminator(c) \cup Geometry(c) \cup NextChunk(c) \cup EndTransfer(c) : Still(c, a.card)
    BY NativeSame DEF Same
  <1>8. /\ \A a \in Ping(c) \cup OneShot(c) \cup CloseFile(c) : Still(c, a.card)
        /\ \A n : \A a \in SeekFile(c, n) : Still(c, a.card)
    BY CommandSame DEF Same
  <1>9. /\ \A a \in OpenFile(c) \cup TakePath(c) \cup OpenEnd(c) \cup SendBlock(c) \cup FileReady(c)
                  \cup TakeBlock(c) \cup Footer(c) : Still(c, a.card)
        /\ \A f : \A a \in FileHeader(c, f) : Still(c, a.card)
    BY FileSame DEF Same
  <1>10. /\ \A n, f : \A a \in Transfer(c, n, f) : Still(c, a.card)
         /\ \A w : \A a \in TakeHalf(c, w) : Still(c, a.card)
         /\ \A a \in IdleLine(c) \cup StartToken(c) \cup SendHalf(c) \cup SendCrc(c) \cup TakeToken(c)
                   \cup TakeCrc(c) \cup DataResponse(c) : Still(c, a.card)
    BY SectorSame DEF Same
  <1> QED BY <1>2, <1>3, <1>5, <1>6, <1>7, <1>8, <1>9, <1>10 DEF Replies

\* The service exchanges no cards.
LEMMA ServiceNames == ASSUME StorageInv, SdNamed, ServiceStep PROVE SdNamed'
  <1>1. PICK S \in Replies(Card) : Exchanged(S)
    BY ScanExchange, MxExchange, PageExchange, ReadExchange, WriteExchange, MmceExchange
       DEF ServiceStep, ScanStep
  <1>2. port \in Ports /\ IsCard(Card) /\ DOMAIN ports = Ports
    BY DEF StorageInv, CardsFit, Where, Card
  <1>3. \A a \in S : Still(Card, a.card)
    BY <1>1, <1>2, RepliesStill
  <1> QED BY <1>1, <1>2, <1>3 DEF Exchanged, CardAnswers, ExchangeLost, Card, SdNamed, Still

\* A card that is put in is known by its type, if it is an SD card.
LEMMA FreshNamed == ASSUME NEW c \in AllCards PROVE c.kind = "sd" => c.id \in SdTypes
  <1>1. ASSUME NEW kind, NEW id PROVE CardOf(kind, id).kind = kind /\ CardOf(kind, id).id = id
    BY DEF CardOf
  <1> QED BY <1>1 DEF AllCards, NoCard
-----------------------------------------------------------------------------
\* What a scan asks of the cards.
ScanReplies(c) ==
  {Ping(c), OneShot(c), Terminator(c), Geometry(c), NextChunk(c), EndTransfer(c), Silent(c),
   Reset(c), Version(c), HighCapacity(c), BlockLength(c), Capacity(c), SelectPage(c, PageAsked),
   V2Loop(c), V1Loop(c), MmcLoop(c)}

\* A card between two commands stays there during a scan.
LEMMA ScanLeavesQuiet ==
  ASSUME NEW c, IsCard(c), c.flow = "quiet", NEW S \in ScanReplies(c)
  PROVE  \A a \in S : Still(c, a.card) /\ a.card.flow = "quiet"
  <1>1. \A a \in S : Still(c, a.card)
    BY RepliesStill DEF ScanReplies, Replies
  <1>2. \A r : Ans(c, r).card = c /\ Ans(Quiet(c), r).card.flow = "quiet"
    BY DEF Ans, Quiet, IsCard, Fields
  <1>3. \A a \in Silent(c) \cup Padding(c) \cup Terminator(c) \cup Geometry(c) : a.card.flow = "quiet"
    BY <1>2 DEF Silent, Padding, Terminator, Geometry
  <1>4. \A a \in Ping(c) \cup OneShot(c) : a.card.flow = "quiet"
    BY <1>2, <1>3 DEF Ping, OneShot, Emulates
  <1>5. \A n, m, r : /\ Ans([c EXCEPT !.sel = n, !.step = m], r).card.flow = "quiet"
                     /\ Ans([c EXCEPT !.step = @ + 1], r).card.flow = "quiet"
    BY DEF Ans, IsCard, Fields
  <1>6. /\ \A a \in NextChunk(c) : a.card.flow = "quiet"
        /\ \A a \in EndTransfer(c) : a.card.flow = "quiet"
        /\ \A a \in SelectPage(c, PageAsked) : a.card.flow = "quiet"
    <2>1. \A a \in NextChunk(c) : a.card.flow = "quiet"
      BY <1>3, <1>5 DEF NextChunk
    <2>2. \A a \in EndTransfer(c) : a.card.flow = "quiet"
      BY <1>3, <1>5 DEF EndTransfer
    <2>3. \A a \in SelectPage(c, PageAsked) : a.card.flow = "quiet"
      <3>1. \A n, r : Ans([c EXCEPT !.sel = n, !.step = 0], r).card.flow = "quiet"
        BY DEF Ans, IsCard, Fields
      <3> QED BY <1>3, <3>1 DEF SelectPage
    <2> QED BY <2>1, <2>2, <2>3
  <1>7. \A a \in Version(c) \cup HighCapacity(c) \cup BlockLength(c) \cup Capacity(c) : a.card.flow = "quiet"
    BY AskedStill
  <1>8. \A a \in V2Loop(c) \cup V1Loop(c) \cup MmcLoop(c) : a.card.flow = "quiet"
    <2>1. \A takes \in BOOLEAN : \A a \in GetsReady(c, takes) : a.card.flow = "quiet"
      BY GetsReadyStill
    <2> QED BY <2>1 DEF V2Loop, V1Loop, MmcLoop
  <1>9. \A n, r : Ans([Quiet(c) EXCEPT !.level = n], r).card.flow = "quiet"
    BY DEF Ans, Quiet, IsCard, Fields
  <1>10. \A a \in Reset(c) : a.card.flow = "quiet"
    BY <1>3, <1>9 DEF Reset, Obeys
  <1> QED BY <1>1, <1>3, <1>4, <1>6, <1>7, <1>8, <1>10 DEF ScanReplies

\* The card in the port answers, and is what was plugged in when the scan began.
LEMMA StaysPlugged ==
  ASSUME StorageInv, AsPlugged, began' = began,
         NEW S \in ScanReplies(Card), NEW a \in S, CardAnswers(port, a)
  PROVE  /\ AsPlugged' /\ ports'[port] = a.card
         /\ a.card.kind = Card.kind /\ a.card.id = Card.id /\ Card.kind = began.ports[port].kind
  <1>1. port \in Ports /\ IsCard(Card) /\ DOMAIN ports = Ports /\ Card = ports[port]
    BY DEF StorageInv, CardsFit, Where, Card
  <1>2. Still(Card, a.card) /\ a.card.flow = "quiet"
    BY <1>1, ScanLeavesQuiet DEF AsPlugged
  <1> QED BY <1>1, <1>2 DEF AsPlugged, CardAnswers, Still
-----------------------------------------------------------------------------
(* The table.                                                              *)

\* A device that is listed is listed last.
LEMMA TabledAppend ==
  ASSUME NEW s \in Seq(Devices), NEW e
  PROVE  Tabled(Append(s, e)) = Tabled(s) \o <<[kind |-> e.kind, port |-> e.port]>>
  <1> DEFINE row(d) == [kind |-> d.kind, port |-> d.port]
  <1> DEFINE t == Append(s, e)
  <1>1. /\ Len(s) \in Nat /\ Len(t) = Len(s) + 1 /\ t[Len(s) + 1] = e
        /\ \A k \in 1 .. Len(s) : t[k] = s[k]
    OBVIOUS
  <1>2. Len(Tabled(s)) = Len(s) /\ Tabled(s) \in Seq({row(s[k]) : k \in 1 .. Len(s)})
    BY <1>1 DEF Tabled
  <1> HIDE DEF t
  <1> DEFINE u == Tabled(s) \o <<row(e)>>
  <1>3. /\ DOMAIN u = 1 .. Len(s) + 1 /\ u[Len(s) + 1] = row(e)
        /\ \A k \in 1 .. Len(s) : u[k] = row(s[k])
    BY <1>1, <1>2 DEF Tabled
  <1>4. u = [k \in 1 .. Len(s) + 1 |-> u[k]]
    BY <1>2, <1>3
  <1> HIDE DEF u
  <1>5. \A k \in 1 .. Len(s) + 1 : u[k] = row(t[k])
    <2>1. ASSUME NEW k \in 1 .. Len(s) PROVE u[k] = row(t[k])
      BY <1>1, <1>3
    <2>2. u[Len(s) + 1] = row(t[Len(s) + 1])
      BY <1>1, <1>3
    <2>3. \A k \in 1 .. Len(s) + 1 : k \in 1 .. Len(s) \/ k = Len(s) + 1
      BY <1>1
    <2> HIDE DEF row
    <2> QED BY <2>1, <2>2, <2>3
  <1>6. Tabled(t) = [k \in 1 .. Len(s) + 1 |-> row(t[k])]
    BY <1>1 DEF Tabled
  <1>7. Tabled(t) = u
    BY <1>4, <1>5, <1>6
  <1> QED BY <1>7 DEF t, u

\* The next port, with what this one holds listed or nothing.
LEMMA NextPortFits ==
  ASSUME StorageInv, SoFar, began' = began, NEW found, NextPort(found),
         \/ found = devices /\ Listed(port) = <<>>
         \/ \E e : found = Append(devices, e) /\ Listed(port) = <<[kind |-> e.kind, port |-> e.port]>>
  PROVE  ScanFits'
  <1>1. devices \in Seq(Devices) /\ port \in {2, 3}
    BY DEF StorageInv, TableFits, Where
  <1>2. /\ \A p : Listed(p)' = Listed(p)
        /\ \E D : Listed(2) \in Seq(D)
    <2>1. \A p : Listed(p)' = Listed(p)
      BY DEF Listed
    <2> DEFINE row == [kind |-> began.ports[2].kind, port |-> 2]
    <2>2. Listed(2) = <<>> \/ Listed(2) = <<row>>
      BY DEF Listed
    <2> HIDE DEF row
    <2>3. <<>> \in Seq({row}) /\ <<row>> \in Seq({row})
      OBVIOUS
    <2> QED BY <2>1, <2>2, <2>3
  <1>3. Tabled(found) = Tabled(devices) \o Listed(port)
    <2>1. CASE found = devices /\ Listed(port) = <<>>
      <3>1. \E D : Tabled(devices) \in Seq(D)
        BY <1>2 DEF SoFar
      <3> QED BY <2>1, <3>1
    <2>2. ASSUME NEW e, found = Append(devices, e), Listed(port) = <<[kind |-> e.kind, port |-> e.port]>>
          PROVE  Tabled(found) = Tabled(devices) \o Listed(port)
      BY <1>1, <2>2, TabledAppend
    <2> QED BY <2>1, <2>2
  <1>4. Tabled(devices)' = Tabled(found) /\ devices' = found
    BY DEF NextPort, Tabled
  <1>5. CASE port = 2
    <2>1. Tabled(found) = Listed(2)
      BY <1>2, <1>3, <1>5 DEF SoFar
    <2>2. port' = 3 /\ pc' = "ping"
      BY <1>5 DEF NextPort, Go
    <2>3. SoFar'
      BY <1>2, <1>4, <2>1, <2>2 DEF SoFar
    <2> QED BY <2>2, <2>3 DEF ScanFits, PagePcs, MxPcs, ReadyPcs
  <1>6. CASE port = 3
    <2>1. Tabled(found) = Listed(2) \o Listed(3)
      BY <1>3, <1>6 DEF SoFar
    <2>2. pc' = "replied" /\ count' = Len(found)
      BY <1>6 DEF NextPort, Answer
    <2>3. AllListed'
      BY <1>2, <1>4, <2>1, <2>2 DEF AllListed
    <2> QED BY <2>2, <2>3 DEF ScanFits, PagePcs, MxPcs, ReadyPcs, InScan, ScanPcs
  <1> QED BY <1>1, <1>5, <1>6
-----------------------------------------------------------------------------
(* The steps of a scan that nothing disturbs.                              *)

Calmly == /\ StorageInv /\ AsPlugged /\ ScanFits /\ req.fn = "scan"
          /\ began' = began /\ faults' = faults /\ faults \in Nat

\* Without a fault an exchange is answered.
LEMMA NothingLost == ASSUME faults' = faults, faults \in Nat, NEW p, NEW S PROVE ~ExchangeLost(p, S)
  BY DEF ExchangeLost

\* Where the card and the scan are, in each position of it.
LEMMA CalmlyBegins ==
  ASSUME Calmly, pc \in ScanPcs \cup MxPcs \cup PagePcs
  PROVE  /\ SoFar /\ port \in {2, 3} /\ Card.kind = began.ports[port].kind /\ Card.flow = "quiet"
         /\ pc \in MxPcs => port = 3 /\ MxBegins
         /\ ~Native(Card) /\ (port = 2 \/ Card.kind # "sd") => Listed(port) = <<>>
         /\ Native(Card) => Listed(port) = <<[kind |-> Card.kind, port |-> port]>>
         /\ Card.kind = "sd" /\ port = 3 => Listed(port) = <<[kind |-> "mx", port |-> 3]>>
  <1>1. port \in {2, 3} /\ (pc \in MxPcs => port = 3)
    BY DEF Calmly, StorageInv, Where
  <1>2. Card.kind = began.ports[port].kind /\ Card.flow = "quiet"
    BY <1>1 DEF Calmly, AsPlugged, Card
  <1>3. SoFar
    BY DEF Calmly, ScanFits, InScan
  <1>4. pc \in MxPcs => MxBegins
    BY MxBeginsSo DEF Calmly
  <1> QED BY <1>1, <1>2, <1>3, <1>4 DEF Listed, Native

\* The ping tells an emulator.
LEMMA PingFits == ASSUME Calmly, ScanPing PROVE AsPlugged' /\ ScanFits'
  <1>1. PICK a \in Ping(Card) : /\ CardAnswers(port, a)
                               /\ info' = Device(IF a.reply = "ok" THEN "mmce" ELSE "mc", port)
    BY NothingLost DEF ScanPing, Exchange, Calmly
  <1>2. /\ pc = "ping" /\ pc' = "terminator" /\ UNCHANGED <<devices, count, port>>
    BY DEF ScanPing, Exchange, Go, Serving, tableVars
  <1>3. AsPlugged' /\ ports'[port] = a.card /\ a.card.kind = Card.kind
    BY <1>1, StaysPlugged DEF ScanReplies, Calmly
  <1>4. SoFar /\ Card.flow = "quiet"
    BY <1>2, CalmlyBegins DEF ScanPcs
  <1>5. a.reply = "ok" <=> Card.kind = "mmce"
    BY <1>1, <1>4 DEF Ping, Emulates, Silent, Ans
  <1>6. info'.port = port /\ info'.kind = (IF Card.kind = "mmce" THEN "mmce" ELSE "mc")
    BY <1>1, <1>5 DEF Device, NoDevice
  <1>7. SoFar'
    BY <1>2, <1>4 DEF SoFar, Tabled, Listed, Calmly
  <1> QED BY <1>2, <1>3, <1>6, <1>7 DEF ScanFits, Card, PagePcs, MxPcs, ReadyPcs

\* The terminator tells nothing.
LEMMA TerminatorFits == ASSUME Calmly, ScanTerminator PROVE AsPlugged' /\ ScanFits'
  <1>1. PICK a \in Terminator(Card) : CardAnswers(port, a)
    BY NothingLost DEF ScanTerminator, Exchange, Calmly
  <1>2. /\ pc = "terminator" /\ pc' = "geometry" /\ UNCHANGED <<devices, count, port, info>>
    BY DEF ScanTerminator, Exchange, Go, Serving, tableVars, localVars
  <1>3. AsPlugged' /\ ports'[port] = a.card /\ a.card.kind = Card.kind
    BY <1>1, StaysPlugged DEF ScanReplies, Calmly
  <1>4. SoFar
    BY <1>2, CalmlyBegins DEF ScanPcs
  <1>5. SoFar'
    BY <1>2, <1>4 DEF SoFar, Tabled, Listed, Calmly
  <1>6. info'.port = port /\ info'.kind = (IF Card.kind = "mmce" THEN "mmce" ELSE "mc")
    BY <1>2 DEF Calmly, ScanFits
  <1> QED BY <1>2, <1>3, <1>5, <1>6 DEF ScanFits, Card, PagePcs, MxPcs, ReadyPcs

\* The geometry tells what takes memory card commands.
LEMMA GeometryFits == ASSUME Calmly, ScanGeometry PROVE AsPlugged' /\ ScanFits'
  <1>1. PICK a \in Geometry(Card) :
          /\ CardAnswers(port, a)
          /\ \/ /\ a.reply = "ok" /\ info' = [info EXCEPT !.pages = PagesOf(Card)]
                /\ Go("select") /\ UNCHANGED <<devices, count, port>>
             \/ a.reply # "ok" /\ NoGeometry /\ UNCHANGED info
    BY NothingLost DEF ScanGeometry, Exchange, Calmly
  <1>2. pc = "geometry"
    BY DEF ScanGeometry, Serving
  <1>3. AsPlugged' /\ ports'[port] = a.card /\ a.card.kind = Card.kind
    BY <1>1, StaysPlugged DEF ScanReplies, Calmly
  <1>4. /\ SoFar /\ port \in {2, 3} /\ (~Native(Card) /\ (port = 2 \/ Card.kind # "sd") => Listed(port) = <<>>)
    BY <1>2, CalmlyBegins DEF ScanPcs
  <1>5. a.reply = "ok" <=> Native(Card)
    BY <1>1 DEF Geometry, Silent, Ans
  <1>6. info.port = port /\ info.kind = (IF Card.kind = "mmce" THEN "mmce" ELSE "mc")
    BY <1>2 DEF Calmly, ScanFits
  <1>7. ASSUME UNCHANGED <<devices, port>> PROVE SoFar'
    BY <1>4, <1>7 DEF SoFar, Tabled, Listed, Calmly
  <1>8. CASE a.reply = "ok"
    <2>1. /\ pc' = "select" /\ UNCHANGED <<devices, port>>
          /\ info' = [info EXCEPT !.pages = PagesOf(Card)]
      BY <1>1, <1>8 DEF Go
    <2>2. info'.port = port /\ info'.kind = info.kind
      <3>1. DOMAIN info = {"kind", "port", "pages", "checked", "sectors"}
        BY DEF Calmly, StorageInv, TableFits, Devices
      <3> QED BY <1>6, <2>1, <3>1
    <2> QED BY <1>3, <1>5, <1>6, <1>7, <1>8, <2>1, <2>2 DEF ScanFits, Card, Native, MxPcs, ReadyPcs
  <1>9. CASE a.reply # "ok"
    <2>1. NoGeometry /\ UNCHANGED info /\ ~Native(Card) /\ info.kind = "mc"
      BY <1>1, <1>5, <1>6, <1>9 DEF Native
    <2>2. CASE port = MxPort /\ Go("mx_wake") /\ UNCHANGED <<devices, count, port>>
      <3>1. pc' = "mx_wake" /\ ~Native(Card)' /\ SoFar'
        BY <1>3, <1>7, <2>1, <2>2 DEF Go, Native, Card
      <3> QED BY <1>3, <3>1 DEF ScanFits, PagePcs, ReadyPcs
    <2>3. CASE port # MxPort /\ NextPort(devices)
      <3>1. Listed(port) = <<>>
        BY <1>4, <2>1, <2>3
      <3> QED BY <1>3, <1>4, <2>3, <3>1, NextPortFits DEF Calmly
    <2> QED BY <2>1, <2>2, <2>3 DEF NoGeometry
  <1> QED BY <1>8, <1>9

\* An emulator's values do not decide whether it is listed.
LEMMA ValueFits ==
  ASSUME Calmly, ScanValue("card", "channel") \/ ScanValue("channel", "status")
  PROVE  AsPlugged' /\ ScanFits'
  <1>1. PICK a \in OneShot(Card) : CardAnswers(port, a)
    BY NothingLost DEF ScanValue, Exchange, Calmly
  <1>2. /\ pc \in {"card", "channel"} /\ pc' \in {"channel", "status"}
        /\ UNCHANGED <<devices, count, port, info>>
    BY DEF ScanValue, Exchange, Go, Serving, tableVars, localVars
  <1>3. AsPlugged' /\ ports'[port] = a.card /\ a.card.kind = Card.kind
    BY <1>1, StaysPlugged DEF ScanReplies, Calmly
  <1>4. SoFar
    BY <1>2, CalmlyBegins DEF ScanPcs
  <1>5. SoFar'
    BY <1>2, <1>4 DEF SoFar, Tabled, Listed, Calmly
  <1>6. Card.kind = "mmce" /\ info.port = port /\ info.kind = "mmce"
    BY <1>2 DEF Calmly, ScanFits
  <1> QED BY <1>2, <1>3, <1>5, <1>6 DEF ScanFits, Card, PagePcs, MxPcs, ReadyPcs

\* With its status it is listed.
LEMMA StatusFits == ASSUME Calmly, ScanStatus PROVE AsPlugged' /\ ScanFits'
  <1>1. PICK a \in OneShot(Card) : CardAnswers(port, a) /\ NextPort(Append(devices, info))
    BY NothingLost DEF ScanStatus, Exchange, Calmly
  <1>2. pc = "status"
    BY DEF ScanStatus, Serving
  <1>3. AsPlugged'
    BY <1>1, StaysPlugged DEF ScanReplies, Calmly
  <1>4. Card.kind = "mmce" /\ info.kind = "mmce" /\ info.port = port
    BY <1>2 DEF Calmly, ScanFits
  <1>5. SoFar /\ Listed(port) = <<[kind |-> info.kind, port |-> info.port]>>
    BY <1>2, <1>4, CalmlyBegins DEF ScanPcs, Native
  <1> QED BY <1>1, <1>3, <1>5, NextPortFits DEF Calmly

\* What the check of the format reads decides nothing but the format.
LEMMA PageFits == ASSUME Calmly, PageStep PROVE AsPlugged' /\ ScanFits'
  <1> DEFINE Ends == ScanChecked(TRUE) \/ ScanChecked(FALSE)
  <1> DEFINE On == \E next \in PagePcs : PageGoes(next)
  <1>1. pc \in PagePcs /\ Scanning
    BY DEF PageStep, ReadSelect, ReadChunk, ReadFinish, Serving, PagePcs, Calmly, Scanning
  <1>2. \E S \in ScanReplies(Card) : \E a \in S : CardAnswers(port, a)
    <2>1. CASE ReadSelect
      BY <2>1, NothingLost DEF ReadSelect, Exchange, Calmly, ScanReplies
    <2>2. CASE ReadChunk
      BY <2>2, NothingLost DEF ReadChunk, Exchange, Calmly, ScanReplies
    <2>3. CASE ReadFinish
      BY <2>3, NothingLost DEF ReadFinish, Exchange, Calmly, ScanReplies
    <2> QED BY <2>1, <2>2, <2>3 DEF PageStep
  <1>3. Ends \/ On
    <2>1. CASE ReadSelect
      BY <1>1, <2>1 DEF ReadSelect, Exchange, PageDone, PagePcs
    <2>2. CASE ReadChunk
      BY <1>1, <2>2 DEF ReadChunk, Exchange, PageDone, PagePcs
    <2>3. CASE ReadFinish
      BY <1>1, <2>3 DEF ReadFinish, Exchange, PageDone, PagePcs
    <2> QED BY <2>1, <2>2, <2>3 DEF PageStep
  <1>4. AsPlugged' /\ ports'[port].kind = Card.kind
    BY <1>2, StaysPlugged DEF Calmly
  <1>5. /\ SoFar /\ Listed(port) = <<[kind |-> Card.kind, port |-> port]>>
        /\ info.port = port /\ info.kind = (IF Card.kind = "mmce" THEN "mmce" ELSE "mc") /\ Native(Card)
    BY <1>1, CalmlyBegins DEF Calmly, ScanFits
  <1>6. ASSUME UNCHANGED <<devices, port>> PROVE SoFar'
    BY <1>5, <1>6 DEF SoFar, Tabled, Listed, Calmly
  <1>7. CASE On
    BY <1>4, <1>5, <1>6, <1>7 DEF PageGoes, Go, ScanFits, Card, Native, PagePcs, MxPcs, ReadyPcs
  <1>8. CASE Ends
    <2>1. DOMAIN info = {"kind", "port", "pages", "checked", "sectors"}
      BY DEF Calmly, StorageInv, TableFits, Devices
    <2>2. info'.kind = info.kind /\ info'.port = port
      BY <1>5, <1>8, <2>1 DEF ScanChecked
    <2>3. CASE info.kind = "mmce" /\ Go("card") /\ UNCHANGED <<devices, count, port>>
      BY <1>4, <1>5, <1>6, <2>2, <2>3 DEF Go, ScanFits, Card, Native, PagePcs, MxPcs, ReadyPcs
    <2>4. CASE info.kind = "mc" /\ NextPort(Append(devices, info'))
      <3>1. Listed(port) = <<[kind |-> info'.kind, port |-> info'.port]>>
        BY <1>5, <2>2, <2>4 DEF Native
      <3> HIDE DEF Ends, On
      <3> QED BY <1>4, <1>5, <2>4, <3>1, NextPortFits DEF Calmly
    <2> QED BY <1>8, <2>3, <2>4 DEF ScanChecked
  <1> QED BY <1>3, <1>7, <1>8
-----------------------------------------------------------------------------
(* mx_initialize with a card in the port, and without one.                 *)

\* The card after a step of mx_initialize, which goes on.
LEMMA MxGoesFit ==
  ASSUME Calmly, pc \in MxPcs, AsPlugged', UNCHANGED <<devices, count, port, info>>,
         pc' \in {"mx_reset"} \cup ReadyPcs, ports'[3].kind = Card.kind,
         pc' \in ReadyPcs => OnTheWay(Card)'
  PROVE  ScanFits'
  <1>1. SoFar /\ port = 3 /\ ~Native(Card)
    BY CalmlyBegins DEF Calmly, ScanFits
  <1>2. SoFar' /\ ~Native(Card)'
    BY <1>1 DEF SoFar, Tabled, Listed, Calmly, Native, Card
  <1> QED BY <1>2 DEF ScanFits, PagePcs, ReadyPcs

\* Nothing is listed for a port without an SD card.
LEMMA MxFailsFit ==
  ASSUME Calmly, pc \in MxPcs, Card.kind # "sd", MxFails \/ NextPort(devices)
  PROVE  ScanFits'
  <1>1. SoFar /\ port = 3 /\ Listed(port) = <<>>
    BY CalmlyBegins DEF Calmly, ScanFits
  <1> QED BY <1>1, NextPortFits DEF MxFails, Calmly

\* Waking asks nothing.
LEMMA MxWakeFits == ASSUME Calmly, MxWake PROVE AsPlugged' /\ ScanFits'
  <1>0. pc = "mx_wake" /\ pc \in MxPcs
    BY DEF MxWake, MxStep, Serving, MxPcs
  <1>1. PICK a \in Silent(Card) : CardAnswers(port, a) /\ Go("mx_reset") /\ MxKeeps
    BY NothingLost DEF MxWake, Exchange, Calmly
  <1>2. AsPlugged' /\ ports'[port] = a.card /\ a.card.kind = Card.kind /\ port = 3
    BY <1>0, <1>1, StaysPlugged, CalmlyBegins DEF ScanReplies, Calmly
  <1> QED BY <1>0, <1>1, <1>2, MxGoesFit DEF Go, MxKeeps, ReadyPcs

\* A reset is answered by an SD card, and by nothing else.
LEMMA MxResetFits == ASSUME Calmly, MxReset PROVE AsPlugged' /\ ScanFits'
  <1>0. pc = "mx_reset" /\ pc \in MxPcs
    BY DEF MxReset, MxStep, Serving, MxPcs
  <1>1. PICK a \in Reset(Card) :
          /\ CardAnswers(port, a)
          /\ IF a.reply = "r1" THEN Go("mx_version") /\ MxKeeps ELSE NextPort(devices) /\ UNCHANGED info
    BY NothingLost DEF MxReset, Exchange, Calmly
  <1>2. /\ AsPlugged' /\ ports'[port] = a.card /\ a.card.kind = Card.kind
        /\ port = 3 /\ IsCard(Card) /\ Card.flow = "quiet"
    BY <1>0, <1>1, StaysPlugged, CalmlyBegins DEF ScanReplies, Calmly, MxBegins
  <1>3. IF Card.kind = "sd" THEN a.reply = "r1" /\ a.card.level = 1 ELSE a.reply = "silent"
    <2>1. CASE Card.kind = "sd"
      <3>1. \A r : /\ Ans([Quiet(Card) EXCEPT !.level = 1], r).card.level = 1
                   /\ Ans([Quiet(Card) EXCEPT !.level = 1], r).reply = r
        BY <1>2 DEF Ans, IsCard, Fields, Quiet
      <3>2. a = Ans([Quiet(Card) EXCEPT !.level = 1], "r1")
        BY <1>2, <2>1 DEF Reset, Obeys
      <3> QED BY <2>1, <3>1, <3>2
    <2>2. CASE Card.kind # "sd"
      BY <2>2 DEF Reset, Obeys, Silent, Ans
    <2> QED BY <2>1, <2>2
  <1>4. CASE Card.kind = "sd"
    <2>2. pc' = "mx_version" /\ UNCHANGED <<devices, count, port, info>>
      BY <1>1, <1>3, <1>4 DEF MxKeeps, Go
    <2>3. OnTheWay(Card)'
      BY <1>2, <1>3, <1>4, <2>2 DEF OnTheWay, Card
    <2> QED BY <1>0, <1>2, <2>2, <2>3, MxGoesFit DEF ReadyPcs
  <1>5. CASE Card.kind # "sd"
    BY <1>0, <1>1, <1>2, <1>3, <1>5, MxFailsFit
  <1> QED BY <1>4, <1>5

\* The card is an SD card on its way, of a type mx_initialize knows.
LEMMA ReadyBegins ==
  ASSUME Calmly, SdNamed, pc \in ReadyPcs
  PROVE  /\ port = 3 /\ IsCard(Card) /\ Card.flow = "quiet" /\ Card.kind = "sd" /\ OnTheWay(Card)
         /\ Card.id \in {"mmc", "v1", "v2", "hc"}
  <1>1. port = 3 /\ MxBegins /\ Card.flow = "quiet" /\ OnTheWay(Card)
    BY CalmlyBegins DEF MxPcs, Calmly, ScanFits
  <1> QED BY <1>1, CardsAssumption DEF MxBegins, OnTheWay, SdNamed, Card

\* A question leaves the card alone.
LEMMA AskedFits ==
  ASSUME Calmly, SdNamed, pc \in ReadyPcs, NEW S \in ScanReplies(Card), NEW a \in S, CardAnswers(port, a)
  PROVE  /\ AsPlugged' /\ ports'[port] = a.card /\ ports'[3] = a.card
         /\ a.card.kind = "sd" /\ a.card.id = Card.id
  BY StaysPlugged, ReadyBegins DEF Calmly

\* The echo of CMD8 tells cards of version 2.
LEMMA MxVersionFits == ASSUME Calmly, SdNamed, MxVersion PROVE AsPlugged' /\ ScanFits'
  <1>0. pc = "mx_version" /\ pc \in ReadyPcs /\ pc \in MxPcs
    BY DEF MxVersion, MxStep, Serving, MxPcs, ReadyPcs
  <1>1. PICK a \in Version(Card) : CardAnswers(port, a) /\ MxGoes(IF a.reply = "r1" THEN "mx_v2" ELSE "mx_v1")
    BY NothingLost DEF MxVersion, Exchange, Calmly
  <1>2. AsPlugged' /\ ports'[3] = a.card /\ a.card.kind = "sd"
    BY <1>0, <1>1, AskedFits DEF ScanReplies
  <1>3. /\ port = 3 /\ Card.kind = "sd" /\ Card.flow = "quiet" /\ Card.level = 1
        /\ Card.id \in {"mmc", "v1", "v2", "hc"}
    BY <1>0, ReadyBegins DEF OnTheWay
  <1>4. a.card.level = 1 /\ a.card.id = Card.id /\ (a.reply = "r1" <=> Card.id \in {"v2", "hc"})
    <2>1. a.card = Quiet(Card) /\ (a.reply = "r1" <=> Card.id \in {"v2", "hc"})
      BY <1>1, <1>3 DEF Version, Obeys, Ans
    <2> QED BY <1>3, <2>1, ReadyBegins, QuietSame, <1>0 DEF Same, Still
  <1>5. /\ pc' = (IF a.reply = "r1" THEN "mx_v2" ELSE "mx_v1") /\ UNCHANGED <<devices, count, port, info>>
    BY <1>1 DEF MxGoes, MxKeeps, Go
  <1>6. OnTheWay(Card)'
    BY <1>2, <1>3, <1>4, <1>5 DEF OnTheWay, Card
  <1> QED BY <1>0, <1>2, <1>3, <1>5, <1>6, MxGoesFit DEF ReadyPcs

\* An SD card of a loop's types becomes ready in it; the others are not.
LEMMA LoopAnswers ==
  ASSUME NEW c, IsCard(c), c.kind = "sd", c.flow = "quiet", c.level # 0,
         NEW takes \in BOOLEAN, NEW a \in GetsReady(c, takes)
  PROVE  IF takes THEN a.reply = "r0" /\ a.card.level = 2
         ELSE a.reply = "other" /\ a.card.level = c.level /\ a.card.id = c.id
  <1> DEFINE ready == [Quiet(c) EXCEPT !.level = 2]
  <1>1. a = IF takes THEN Ans(ready, "r0") ELSE Ans(Quiet(c), "other")
    BY DEF GetsReady, Obeys
  <1>2. \A d, r : Ans(d, r).card = d /\ Ans(d, r).reply = r
    BY DEF Ans
  <1>3. ready.level = 2 /\ Quiet(c).level = c.level /\ Quiet(c).id = c.id
    BY DEF Quiet, IsCard, Fields
  <1> HIDE DEF ready
  <1>4. CASE takes
    <2>1. a = Ans(ready, "r0")
      BY <1>1, <1>4
    <2> QED BY <1>2, <1>3, <1>4, <2>1
  <1>5. CASE ~takes
    <2>1. a = Ans(Quiet(c), "other")
      BY <1>1, <1>5
    <2> QED BY <1>2, <1>3, <1>5, <2>1
  <1> QED BY <1>4, <1>5

\* A card of version 2 becomes ready.
LEMMA MxV2Fits == ASSUME Calmly, SdNamed, MxV2Ready PROVE AsPlugged' /\ ScanFits'
  <1>0. pc = "mx_v2" /\ pc \in ReadyPcs /\ pc \in MxPcs
    BY DEF MxV2Ready, MxStep, Serving, MxPcs, ReadyPcs
  <1>1. PICK a \in V2Loop(Card) :
          CardAnswers(port, a) /\ IF a.reply = "r0" THEN MxGoes("mx_ocr") ELSE MxFails
    BY NothingLost DEF MxV2Ready, Exchange, Calmly
  <1>2. AsPlugged' /\ ports'[3] = a.card /\ a.card.kind = "sd"
    BY <1>0, <1>1, AskedFits DEF ScanReplies
  <1>3. /\ port = 3 /\ IsCard(Card) /\ Card.kind = "sd" /\ Card.flow = "quiet" /\ Card.level = 1
        /\ Card.id \in {"v2", "hc"}
    BY <1>0, ReadyBegins DEF OnTheWay
  <1>4. a.reply = "r0" /\ a.card.level = 2
    <2> DEFINE takes == Card.id \in {"v2", "hc"}
    <2>1. a \in GetsReady(Card, takes) /\ Card.level # 0 /\ takes \in BOOLEAN
      <3>1. takes = (Card.level = 1 /\ Card.id \in {"v2", "hc"})
        BY <1>3
      <3> QED BY <1>1, <1>3, <3>1 DEF V2Loop
    <2>2. takes
      BY <1>3
    <2> HIDE DEF takes
    <2>3. IF takes THEN a.reply = "r0" /\ a.card.level = 2
          ELSE a.reply = "other" /\ a.card.level = Card.level /\ a.card.id = Card.id
      BY ONLY <1>3, <2>1, LoopAnswers
    <2> QED BY <2>2, <2>3
  <1>5. pc' = "mx_ocr" /\ UNCHANGED <<devices, count, port, info>>
    BY <1>1, <1>4 DEF MxGoes, MxKeeps, Go
  <1>6. OnTheWay(Card)'
    BY <1>2, <1>3, <1>4, <1>5 DEF OnTheWay, Card
  <1> QED BY <1>0, <1>2, <1>3, <1>5, <1>6, MxGoesFit DEF ReadyPcs

\* A ready card tells its capacity bit.
LEMMA MxOcrFits == ASSUME Calmly, SdNamed, MxOcr PROVE AsPlugged' /\ ScanFits'
  <1>0. pc = "mx_ocr" /\ pc \in ReadyPcs /\ pc \in MxPcs
    BY DEF MxOcr, MxStep, Serving, MxPcs, ReadyPcs
  <1>1. PICK a \in HighCapacity(Card) :
          /\ CardAnswers(port, a)
          /\ IF a.reply \in {"hc", "r0"} THEN MxTyped(IF a.reply = "hc" THEN "hc" ELSE "sc", "mx_csd")
             ELSE MxFails
    BY NothingLost DEF MxOcr, Exchange, Calmly
  <1>2. AsPlugged' /\ ports'[3] = a.card /\ a.card.kind = "sd"
    BY <1>0, <1>1, AskedFits DEF ScanReplies
  <1>3. port = 3 /\ Card.kind = "sd" /\ Card.flow = "quiet" /\ Card.level = 2
    BY <1>0, ReadyBegins DEF OnTheWay
  <1>4. a.card.level = 2 /\ a.reply \in {"hc", "r0"}
    <2>1. a.card = Quiet(Card) /\ a.reply \in {"hc", "r0"}
      BY <1>1, <1>3 DEF HighCapacity, Obeys, Ans
    <2> QED BY <1>0, <1>3, <2>1, ReadyBegins, QuietSame DEF Same
  <1>5. pc' = "mx_csd" /\ UNCHANGED <<devices, count, port, info>>
    BY <1>1, <1>4 DEF MxTyped, MxKeeps, Go
  <1>6. OnTheWay(Card)'
    BY <1>2, <1>3, <1>4, <1>5 DEF OnTheWay, Card
  <1> QED BY <1>0, <1>2, <1>3, <1>5, <1>6, MxGoesFit DEF ReadyPcs

\* A card of version 1 becomes ready, an MMC is asked on.
LEMMA MxV1Fits == ASSUME Calmly, SdNamed, MxV1Ready PROVE AsPlugged' /\ ScanFits'
  <1>0. pc = "mx_v1" /\ pc \in ReadyPcs /\ pc \in MxPcs
    BY DEF MxV1Ready, MxStep, Serving, MxPcs, ReadyPcs
  <1>1. PICK a \in V1Loop(Card) :
          CardAnswers(port, a) /\ IF a.reply = "r0" THEN MxTyped("sc", "mx_block") ELSE MxGoes("mx_mmc")
    BY NothingLost DEF MxV1Ready, Exchange, Calmly
  <1>2. AsPlugged' /\ ports'[3] = a.card /\ a.card.kind = "sd" /\ a.card.id = Card.id
    BY <1>0, <1>1, AskedFits DEF ScanReplies
  <1>3. /\ port = 3 /\ IsCard(Card) /\ Card.kind = "sd" /\ Card.flow = "quiet" /\ Card.level = 1
        /\ Card.id \in {"v1", "mmc"}
    BY <1>0, ReadyBegins DEF OnTheWay
  <1>4. IF Card.id = "v1" THEN a.reply = "r0" /\ a.card.level = 2
        ELSE a.reply = "other" /\ a.card.level = 1 /\ a.card.id = Card.id
    <2> DEFINE takes == Card.id = "v1"
    <2>1. a \in GetsReady(Card, takes) /\ Card.level # 0 /\ takes \in BOOLEAN
      <3>1. takes = ((Card.level = 1 /\ Card.id \in {"v1", "v2"}) \/ (Card.level = 2 /\ Card.id # "mmc"))
        BY <1>3
      <3> QED BY <1>1, <1>3, <3>1 DEF V1Loop
    <2> HIDE DEF takes
    <2>2. IF takes THEN a.reply = "r0" /\ a.card.level = 2
          ELSE a.reply = "other" /\ a.card.level = Card.level /\ a.card.id = Card.id
      BY ONLY <1>3, <2>1, LoopAnswers
    <2> QED BY <1>3, <2>2 DEF takes
  <1>5. pc' = (IF Card.id = "v1" THEN "mx_block" ELSE "mx_mmc") /\ UNCHANGED <<devices, count, port, info>>
    BY <1>1, <1>4 DEF MxTyped, MxGoes, MxKeeps, Go
  <1>6. OnTheWay(Card)'
    BY <1>2, <1>3, <1>4, <1>5 DEF OnTheWay, Card
  <1> QED BY <1>0, <1>2, <1>3, <1>5, <1>6, MxGoesFit DEF ReadyPcs

\* An MMC becomes ready.
LEMMA MxMmcFits == ASSUME Calmly, SdNamed, MxMmcReady PROVE AsPlugged' /\ ScanFits'
  <1>0. pc = "mx_mmc" /\ pc \in ReadyPcs /\ pc \in MxPcs
    BY DEF MxMmcReady, MxStep, Serving, MxPcs, ReadyPcs
  <1>1. PICK a \in MmcLoop(Card) :
          CardAnswers(port, a) /\ IF a.reply = "r0" THEN MxTyped("sc", "mx_block") ELSE MxFails
    BY NothingLost DEF MxMmcReady, Exchange, Calmly
  <1>2. AsPlugged' /\ ports'[3] = a.card /\ a.card.kind = "sd"
    BY <1>0, <1>1, AskedFits DEF ScanReplies
  <1>3. /\ port = 3 /\ IsCard(Card) /\ Card.kind = "sd" /\ Card.flow = "quiet" /\ Card.level = 1
        /\ Card.id = "mmc"
    BY <1>0, ReadyBegins DEF OnTheWay
  <1>4. a.reply = "r0" /\ a.card.level = 2
    <2> DEFINE takes == Card.id = "mmc"
    <2>1. a \in GetsReady(Card, takes) /\ Card.level # 0 /\ takes \in BOOLEAN
      <3>1. takes = (Card.level = 2 \/ Card.id = "mmc")
        BY <1>3
      <3> QED BY <1>1, <1>3, <3>1 DEF MmcLoop
    <2>2. takes
      BY <1>3
    <2> HIDE DEF takes
    <2>3. IF takes THEN a.reply = "r0" /\ a.card.level = 2
          ELSE a.reply = "other" /\ a.card.level = Card.level /\ a.card.id = Card.id
      BY ONLY <1>3, <2>1, LoopAnswers
    <2> QED BY <2>2, <2>3
  <1>5. pc' = "mx_block" /\ UNCHANGED <<devices, count, port, info>>
    BY <1>1, <1>4 DEF MxTyped, MxKeeps, Go
  <1>6. OnTheWay(Card)'
    BY <1>2, <1>3, <1>4, <1>5 DEF OnTheWay, Card
  <1> QED BY <1>0, <1>2, <1>3, <1>5, <1>6, MxGoesFit DEF ReadyPcs

\* A ready card takes the block length.
LEMMA MxBlockFits == ASSUME Calmly, SdNamed, MxBlockLength PROVE AsPlugged' /\ ScanFits'
  <1>0. pc = "mx_block" /\ pc \in ReadyPcs /\ pc \in MxPcs
    BY DEF MxBlockLength, MxStep, Serving, MxPcs, ReadyPcs
  <1>1. PICK a \in BlockLength(Card) : CardAnswers(port, a) /\ IF a.reply = "r0" THEN MxGoes("mx_csd") ELSE MxFails
    BY NothingLost DEF MxBlockLength, Exchange, Calmly
  <1>2. AsPlugged' /\ ports'[3] = a.card /\ a.card.kind = "sd"
    BY <1>0, <1>1, AskedFits DEF ScanReplies
  <1>3. port = 3 /\ Card.kind = "sd" /\ Card.flow = "quiet" /\ Card.level = 2
    BY <1>0, ReadyBegins DEF OnTheWay
  <1>4. a.card.level = 2 /\ a.reply = "r0"
    <2>1. a.card = Quiet(Card) /\ a.reply = "r0"
      BY <1>1, <1>3 DEF BlockLength, Obeys, Ans
    <2> QED BY <1>0, <1>3, <2>1, ReadyBegins, QuietSame DEF Same
  <1>5. pc' = "mx_csd" /\ UNCHANGED <<devices, count, port, info>>
    BY <1>1, <1>4 DEF MxGoes, MxKeeps, Go
  <1>6. OnTheWay(Card)'
    BY <1>2, <1>3, <1>4, <1>5 DEF OnTheWay, Card
  <1> QED BY <1>0, <1>2, <1>3, <1>5, <1>6, MxGoesFit DEF ReadyPcs

\* The SD card is listed.
LEMMA MxCapacityFits == ASSUME Calmly, SdNamed, SectorCount > 0, MxCapacity PROVE AsPlugged' /\ ScanFits'
  <1>0. pc = "mx_csd" /\ pc \in ReadyPcs /\ pc \in MxPcs
    BY DEF MxCapacity, MxStep, Serving, MxPcs, ReadyPcs
  <1> DEFINE Found(n) == /\ mx' = [mx EXCEPT !.ok = TRUE, !.count = n]
                         /\ info' = [Device("mx", MxPort) EXCEPT !.sectors = n]
                         /\ NextPort(Append(devices, info'))
  <1>1. PICK a \in Capacity(Card) :
          CardAnswers(port, a) /\ IF a.reply > 0 THEN Found(a.reply) ELSE MxFails
    BY NothingLost DEF MxCapacity, Exchange, Calmly
  <1>2. AsPlugged'
    BY <1>0, <1>1, AskedFits DEF ScanReplies
  <1>3. port = 3 /\ Card.kind = "sd" /\ Card.flow = "quiet" /\ Card.level = 2
    BY <1>0, ReadyBegins DEF OnTheWay
  <1>4. a.reply = SectorCount
    BY <1>1, <1>3 DEF Capacity, Ans
  <1>5. Found(SectorCount)
    BY <1>1, <1>4
  <1>6. info'.kind = "mx" /\ info'.port = 3
    BY <1>5 DEF Device, NoDevice
  <1>7. SoFar /\ Listed(port) = <<[kind |-> info'.kind, port |-> info'.port]>>
    BY <1>0, <1>3, <1>6, CalmlyBegins
  <1>8. NextPort(Append(devices, info'))
    BY <1>5
  <1> QED BY <1>2, <1>7, <1>8, NextPortFits DEF Calmly

\* Every step of an undisturbed scan keeps the account of it.
LEMMA ScanStepsFit ==
  ASSUME Calmly, SdNamed, SectorCount > 0, ServiceStep PROVE AsPlugged' /\ ScanFits'
  <1>1. ~ReadSectorStep /\ ~WriteSectorStep /\ ~MmceStep
    <2>1. StorageInv /\ pc \notin BlockPcs
      BY DEF Calmly, StorageInv, Where
    <2> QED BY <2>1, ReadSectorEffect, WriteSectorEffect, MmceEffect DEF StorageInv, BlockEffect
  <1>2. CASE ScanStep /\ ~MxInitStep
    BY <1>2, PingFits, TerminatorFits, GeometryFits, ValueFits, StatusFits DEF ScanStep
  <1>3. CASE MxInitStep
    BY <1>3, MxWakeFits, MxResetFits, MxVersionFits, MxV2Fits, MxOcrFits, MxV1Fits, MxMmcFits,
       MxBlockFits, MxCapacityFits DEF MxInitStep
  <1> QED BY <1>1, <1>2, <1>3, PageFits DEF ServiceStep
-----------------------------------------------------------------------------
(* The client.                                                             *)

\* What ScanGoes speaks of.
LEMMA ScanUntouched ==
  ASSUME ScanGoes, UNCHANGED <<ports, devices, count, port, info, pc, req, faults, op, epc, began, result, known>>
  PROVE  ScanGoes'
  <1>1. /\ Calm' = Calm /\ AsPlugged' = AsPlugged /\ SoFar' = SoFar /\ AllListed' = AllListed
        /\ \A c : OnTheWay(c)' = OnTheWay(c)
    BY DEF Calm, AsPlugged, SoFar, AllListed, Tabled, Listed, OnTheWay
  <1>2. Card' = Card
    BY DEF Card
  <1>3. ScanFits => ScanFits'
    <2> SUFFICES ASSUME ScanFits PROVE ScanFits'
      OBVIOUS
    <2>1. /\ InScan' => SoFar'
          /\ pc' = "replied" => AllListed'
      BY <1>1 DEF ScanFits, InScan
    <2>2. pc' \in ReadyPcs => OnTheWay(Card)'
      BY <1>1, <1>2 DEF ScanFits, OnTheWay
    <2> QED BY <1>2, <2>1, <2>2 DEF ScanFits, Native
  <1> QED BY <1>1, <1>3 DEF ScanGoes

\* A fault since the operation began is the end of the claim.
LEMMA FaultEnds ==
  ASSUME Waiting, epc # "idle", faults' = faults + 1, began' = began
  PROVE  ScanGoes'
  <1>1. faults \in Nat /\ began.faults \in Nat /\ began.faults <= faults
    BY DEF Waiting
  <1>2. ~Calm'
    BY <1>1 DEF Calm
  <1> QED BY <1>2 DEF ScanGoes

\* What is plugged in when a scan is called is on record.
LEMMA BeginScans == ASSUME ScanInv, Waiting, NEW o \in Operations, Begin(o) PROVE ScanInv'
  <1>1. /\ ports' = ports /\ pc' = pc /\ op' = o /\ began' = [ports |-> ports, faults |-> faults]
        /\ epc' \in {"call", "init", "returned"}
        /\ epc' = "returned" => result' = "error" \/ o.fn = "init"
    BY DEF Begin, Finish, serviceVars, mediaVars
  <1>2. SdNamed'
    BY <1>1 DEF ScanInv, SdNamed
  <1>3. ScanGoes'
    <2>1. ASSUME Calm' PROVE AsPlugged'
      BY <1>1, <1>2, <2>1 DEF Calm, AsPlugged, SdNamed
    <2> QED BY <1>1, <2>1 DEF ScanGoes
  <1>4. pc = "idle"
    BY DEF Begin, Waiting
  <1> QED BY <1>1, <1>2, <1>3, <1>4 DEF ScanInv, Working

\* Binding the module touches no card.
LEMMA InitialiseScans == ASSUME ScanInv, Waiting, Initialise PROVE ScanInv'
  <1>1. /\ UNCHANGED <<ports, faults, pc, op, began>> /\ epc = "init"
        /\ epc' = "init_call" \/ (epc' = "returned" /\ result' = "error")
    BY DEF Initialise, Finish, serviceVars, mediaVars
  <1> QED BY <1>1 DEF ScanInv, SdNamed, Working, Waiting, ScanGoes, Calm, AsPlugged

\* A scan begins with an empty table and the first port.
LEMMA CallScans == ASSUME ClientInv, ScanInv, Call PROVE ScanInv'
  <1>1. /\ UNCHANGED <<ports, faults, op, began>> /\ epc \in {"call", "init_call"}
        /\ epc' = (IF epc = "call" THEN "wait" ELSE "init_wait")
    BY DEF Call, RpcHandler, mediaVars
  <1>2. epc' = "init_wait" => pc' = "replied"
    <2>1. ASSUME epc = "init_call" PROVE pc' = "replied"
      <3>1. RpcHandler(NoRequest)
        BY <2>1 DEF Call, RequestOf
      <3>2. NoRequest.fn = "init"
        BY DEF NoRequest
      <3> QED BY <3>1, <3>2 DEF RpcHandler, Answer, Entry, ValueFns
    <2> QED BY <1>1, <2>1
  <1>3. ASSUME op.fn = "scan", epc = "call" PROVE ScanFits'
    <2>1. RpcHandler(op)
      BY <1>3 DEF Call, RequestOf, OneRequest, Moves, Blocks
    <2>2. ScanBegin
      BY <1>3, <2>1 DEF RpcHandler, Entry, ValueFns
    <2>3. devices' = <<>> /\ port' = 2 /\ pc' = "ping"
      BY <2>2 DEF ScanBegin, ScanClears, Go
    <2>4. SoFar'
      BY <2>3 DEF SoFar, Tabled
    <2> QED BY <2>3, <2>4 DEF ScanFits, PagePcs, MxPcs, ReadyPcs
  <1>4. ScanGoes'
    BY <1>1, <1>3 DEF ScanInv, ScanGoes, Calm, AsPlugged
  <1> QED BY <1>1, <1>2, <1>4 DEF ScanInv, SdNamed, Working

\* What a scan has listed is what the caller is told.
LEMMA AnswerScans == ASSUME ScanInv, InitDone \/ Taken \/ Refusal PROVE ScanInv'
  <1>1. /\ UNCHANGED <<ports, faults, devices, count, op, began>> /\ pc = "replied" /\ pc' = "idle" /\ known' = count
    BY DEF InitDone, Taken, Refusal, Returned, mediaVars, tableVars
  <1>2. epc' \in {"call", "returned"}
    BY DEF InitDone, Taken, Refusal, Finish
  <1>3. ASSUME op.fn = "scan", Calm, epc' = "returned", result' = "ok" PROVE AllListed' /\ known' = count'
    <2>1. epc = "wait"
      BY <1>3 DEF InitDone, Taken, Refusal, Finish, Partly, Looping, Moves, Blocks
    <2>2. AllListed
      BY <1>1, <1>3, <2>1 DEF ScanInv, ScanGoes, ScanFits
    <2> QED BY <1>1, <2>2 DEF AllListed, Tabled, Listed
  <1>4. epc # "idle"
    BY DEF InitDone, Taken, Refusal
  <1>5. ScanGoes'
    BY <1>1, <1>2, <1>3, <1>4 DEF ScanInv, ScanGoes, Calm, AsPlugged
  <1> QED BY <1>1, <1>2, <1>5 DEF ScanInv, SdNamed, Working

\* Lost calls and exchanged cards end the claim.
LEMMA FaultScans ==
  ASSUME StorageInv, Waiting, ScanInv, CallFails \/ (CardExchanged /\ UNCHANGED clientVars) PROVE ScanInv'
  <1>1. CASE CallFails
    <2>1. /\ faults' = faults + 1 /\ began' = began /\ ports' = ports /\ pc' = pc
          /\ epc # "idle" /\ pc = "idle"
      BY <1>1 DEF CallFails, Waiting
    <2> QED BY <2>1, FaultEnds DEF ScanInv, SdNamed, Working
  <1>2. CASE CardExchanged /\ UNCHANGED clientVars
    <2>1. PICK p \in Ports, c \in AllCards : ports' = [ports EXCEPT ![p] = c]
      BY <1>2 DEF CardExchanged, Plugs
    <2>2. faults' = faults + 1 /\ began' = began /\ epc' = epc /\ pc' = pc /\ DOMAIN ports = Ports
      BY <1>2 DEF CardExchanged, clientVars, StorageInv, CardsFit
    <2>3. SdNamed'
      BY <2>1, <2>2, FreshNamed DEF ScanInv, SdNamed
    <2>4. ScanGoes'
      <3>1. CASE epc = "idle"
        BY <2>2, <3>1 DEF ScanGoes
      <3>2. CASE epc # "idle"
        BY <2>2, <3>2, FaultEnds
      <3> QED BY <3>1, <3>2
    <2> QED BY <2>2, <2>3, <2>4 DEF ScanInv, Working
  <1> QED BY <1>1, <1>2

\* A service step disturbs the scan, or goes on with it.
LEMMA ServiceScans ==
  ASSUME ClientInv, Waiting, ScanInv, SectorCount > 0, ServiceStep, UNCHANGED clientVars PROVE ScanInv'
  <1>1. UNCHANGED <<known, epc, op, result, began>>
    BY DEF clientVars
  <1>2. StorageInv /\ faults \in Nat
    BY DEF ClientInv, Waiting
  <1>3. SdNamed'
    BY <1>2, ServiceNames DEF ScanInv
  <1>4. pc \notin {"idle", "replied"} /\ faults' \in {faults, faults + 1}
    BY <1>2, ServiceMoves DEF ClientInv
  <1>5. epc = "wait"
    BY <1>4 DEF ScanInv, Working
  <1>6. ASSUME faults' = faults + 1 PROVE ScanGoes'
    BY <1>1, <1>5, <1>6, FaultEnds
  <1>7. ASSUME faults' = faults PROVE ScanGoes'
    <2>1. SUFFICES ASSUME op.fn = "scan", Calm PROVE AsPlugged' /\ ScanFits'
      BY <1>1, <1>5, <1>7 DEF ScanGoes, Calm
    <2>2. AsPlugged /\ ScanFits
      BY <1>5, <2>1 DEF ScanInv, ScanGoes
    <2>3. req.fn = "scan"
      BY <1>5, <2>1 DEF ClientInv, ClientCounts, RequestOf, OneRequest, Moves, Blocks
    <2>4. Calmly
      BY <1>1, <1>2, <1>7, <2>2, <2>3 DEF Calmly
    <2> QED BY <2>4, ScanStepsFit DEF ScanInv
  <1>8. Working'
    BY <1>1, <1>5 DEF Working
  <1> QED BY <1>3, <1>4, <1>6, <1>7, <1>8 DEF ScanInv

\* Nothing is claimed before the first call.
LEMMA ScansInit == Init => ScanInv
  <1> SUFFICES ASSUME Init PROVE ScanInv
    OBVIOUS
  <1>1. SdNamed
    BY FreshNamed DEF Init, ServiceInit, SdNamed
  <1> QED BY <1>1 DEF Init, ServiceInit, ScanInv, Working, ScanGoes

\* Every step keeps the account of a scan.
LEMMA ScansKept ==
  ASSUME SectorCount > 0
  PROVE  ClientInv /\ FilesFit /\ ScanInv /\ [Next]_vars => ScanInv'
  <1> SUFFICES ASSUME ClientInv, FilesFit, ScanInv, [Next]_vars PROVE ScanInv'
    OBVIOUS
  <1>1. StorageInv /\ Waiting
    BY DEF ClientInv, FilesFit
  <1>2. ASSUME NEW o \in Operations, Begin(o) PROVE ScanInv'
    BY <1>1, <1>2, BeginScans
  <1>3. CASE Initialise \/ Call \/ InitDone \/ Taken \/ Refusal
    BY <1>1, <1>3, InitialiseScans, CallScans, AnswerScans
  <1>4. CASE Leave
    <2>1. UNCHANGED <<ports, pc>> /\ epc = "returned" /\ epc' = "idle"
      BY <1>4 DEF Leave, serviceVars, mediaVars
    <2> QED BY <2>1 DEF ScanInv, SdNamed, Working, ScanGoes
  <1>5. CASE CallFails \/ ((ServiceStep \/ CardExchanged) /\ UNCHANGED clientVars)
    BY <1>1, <1>5, FaultScans, ServiceScans
  <1>6. CASE UNCHANGED vars
    <2>1. UNCHANGED <<ports, devices, count, port, info, pc, req, faults, op, epc, began, result, known>>
      BY <1>6 DEF vars, serviceVars, mediaVars, tableVars, localVars, clientVars
    <2> QED BY <2>1, ScanUntouched DEF ScanInv, SdNamed, Working
  <1> QED BY <1>2, <1>3, <1>4, <1>5, <1>6 DEF Next, CallerStep

\* What the caller is told in the end.
LEMMA ScansFollow == ScanInv => ScanFaithful
  <1> SUFFICES ASSUME ScanInv, Undisturbed, op.fn = "scan", result = "ok"
               PROVE  /\ [k \in 1..count |-> [kind |-> devices[k].kind, port |-> devices[k].port]]
                            = Listed(2) \o Listed(3)
                      /\ known = count
    BY DEF ScanFaithful
  <1>1. AllListed /\ known = count
    BY DEF ScanInv, ScanGoes, Undisturbed, Calm
  <1> QED BY <1>1 DEF AllListed, Tabled

\* An ef2_storage_scan that no loss and no exchange of cards disturbs lists
\* exactly what is plugged in, each card as what it is, if SD cards have sectors.
THEOREM ScansAreFaithful == SectorCount > 0 => (Spec => []ScanFaithful)
  <1> SUFFICES ASSUME SectorCount > 0 PROVE Spec => []ScanFaithful
    OBVIOUS
  <1>1. ClientInv /\ FilesFit /\ ScanInv /\ [Next]_vars => ScanInv'
    BY ScansKept
  <1> QED BY <1>1, CountsInit, CountsKept, FilesInit, FilesKept, ScansInit, ScansFollow, PTL DEF Spec
-----------------------------------------------------------------------------
(* Sector transfers: what is asked for is what is read and written.        *)

RdPcs == {"rd_wait", "rd_cmd", "rd_token", "rd_half", "rd_crc"}
WrPcs == {"wr_wait", "wr_cmd", "wr_token", "wr_half", "wr_crc", "wr_response", "wr_busy"}

\* SD cards are listed in the MX4SIO port, and sector requests are served there,
\* within the sectors that were counted.
SectorsPlaced ==
  /\ \A k \in 1 .. Len(devices) : devices[k].kind = "mx" => devices[k].port = MxPort
  /\ pc \in RdPcs \cup WrPcs => port = MxPort /\ mx.ok /\ req.at < mx.count
  /\ pc \in RdPcs => req.fn = "read_sector"
  /\ pc \in WrPcs => req.fn = "write_sector"

\* An SD card has all its sectors.
DisksFit == \A p \in Ports : ports[p].kind = "sd" => DOMAIN ports[p].disk = Sectors

\* The card under transfer, as it is and as it was; the sector under way.
Slot   == ports[MxPort]
Before == began.ports[MxPort]
Asked  == op.at + done

HalfOf(s, h) == <<Slot.id, s, h, Before.disk[s][h]>>
Halves(n)    == [k \in 1 .. 2 * n |-> HalfOf(op.at + ((k - 1) \div 2), 1 + ((k - 1) % 2))]
First        == HalfOf(Asked, 1)
Second       == HalfOf(Asked, 2)
Pair         == <<First, Second>>

\* What is complete: the sectors reported so far were read, or were written.
SectorsDone ==
  /\ Slot.kind = Before.kind /\ Slot.id = Before.id /\ (done > 0 => Slot.kind = "sd")
  /\ op.fn = "read_sector" => Slot.disk = Before.disk /\ dest = Halves(done)
  /\ op.fn = "write_sector" /\ Slot.kind = "sd" => \A s \in Sectors :
       IF s - op.at \in 0 .. done - 1 THEN Slot.disk[s] = <<op.w, op.w>>
       ELSE Slot.disk[s] = Before.disk[s] \/ (s - op.at = done /\ done < op.size)

Between == {"rd_wait", "rd_cmd", "wr_wait", "wr_cmd"}
Sends   == {"rd_token", "rd_half", "rd_crc"}
Takes   == {"wr_token", "wr_half", "wr_crc", "wr_response"}

\* Where the card is in a block, at each position of the service.
InBlock ==
  /\ epc = "call" \/ pc \in Between \/ Answered => Slot.flow = "quiet"
  /\ pc \in Sends => Slot.flow = "send"
  /\ pc \in Takes => Slot.flow = "recv" /\ Asked \in Sectors
  /\ pc = "wr_busy" => Slot.flow = "busy"
  /\ pc \in Sends \cup Takes => Slot.sel = Asked
  /\ pc \in Sends \cup Takes \cup {"wr_busy"} \/ Answered => Slot.kind = "sd"
  /\ pc \in HalfPcs => i \in {1, 2} /\ (pc # "rd_half" /\ pc # "wr_half" => i = 1)
  /\ pc \in {"rd_token", "wr_token"} => Slot.step = 0
  /\ pc \in {"rd_half", "wr_half"} => Slot.step = i
  /\ pc = "wr_crc" => Slot.step = 3
  /\ pc = "wr_response" => Slot.step = 4
  /\ pc \in {"rd_token", "rd_half"} => data = (IF i = 1 THEN <<>> ELSE <<First>>)
  /\ pc = "rd_crc" \/ (Answered /\ op.fn = "read_sector") => data = Pair
  /\ pc \in {"wr_token", "wr_half"} => Slot.got = (IF i = 1 THEN <<>> ELSE <<op.w>>)
  /\ pc \in {"wr_crc", "wr_response"} => Slot.got = <<op.w, op.w>>
  /\ pc = "wr_busy" \/ (Answered /\ op.fn = "write_sector") => Slot.disk[Asked] = <<op.w, op.w>>

SectorsGo == op.fn \in Blocks /\ epc # "idle" =>
               /\ epc \in {"call", "wait", "returned"}
               /\ pc \in {"idle", "replied"} \cup RdPcs \cup WrPcs
               /\ Calm /\ Addressable => SectorsDone /\ InBlock

SectorInv == SectorsPlaced /\ DisksFit /\ SectorsGo
-----------------------------------------------------------------------------
(* Where sector requests are served.                                       *)

\* Whatever the service asks of a card, it keeps its sectors.
LEMMA RepliesKeepDisk ==
  ASSUME NEW c, IsCard(c), NEW S \in Replies(c)
  PROVE  \A a \in S : DOMAIN a.card.disk = DOMAIN c.disk
  <1> DEFINE Kept(d) == DOMAIN d.disk = DOMAIN c.disk
  <1>1. \A r : Kept(Ans(c, r).card) /\ Kept(Ans(Quiet(c), r).card)
    BY DEF Ans, Quiet, IsCard, Fields
  <1>sel. \A n, m, r : Kept(Ans([c EXCEPT !.sel = n, !.step = m], r).card)
    BY DEF Ans, Quiet, IsCard, Fields
  <1>step. \A m, r : Kept(Ans([c EXCEPT !.step = m], r).card)
    BY DEF Ans, Quiet, IsCard, Fields
  <1>flow. \A f, r : Kept(Ans([c EXCEPT !.flow = f], r).card)
    BY DEF Ans, Quiet, IsCard, Fields
  <1>start. \A f, m, r : Kept(Ans([c EXCEPT !.flow = f, !.step = m], r).card)
    BY DEF Ans, Quiet, IsCard, Fields
  <1>move. \A n, m, r : Kept(Ans([c EXCEPT !.file = n, !.step = m], r).card)
    BY DEF Ans, Quiet, IsCard, Fields
  <1>take. \A g, m, r : Kept(Ans([c EXCEPT !.step = m, !.got = g], r).card)
    BY DEF Ans, Quiet, IsCard, Fields
  <1>block. \A f, n, r : Kept(Ans([Quiet(c) EXCEPT !.flow = f, !.sel = n], r).card)
    BY DEF Ans, Quiet, IsCard, Fields
  <1>reset. \A n, r : Kept(Ans([Quiet(c) EXCEPT !.level = n], r).card)
    BY DEF Ans, Quiet, IsCard, Fields
  <1>file. \A n, r : Kept(Ans([Quiet(c) EXCEPT !.file = n], r).card)
    BY DEF Ans, Quiet, IsCard, Fields
  <1> HIDE DEF Kept
  <1>4. /\ \A a \in Silent(c) \cup Padding(c) \cup Silent(Quiet(c)) : Kept(a.card)
        /\ \A R : \A a \in Garbled(c, R) : Kept(a.card)
    BY <1>1 DEF Silent, Padding, Garbled
  <1>5. ASSUME NEW T, \A a \in T : Kept(a.card)
        PROVE  /\ \A a \in Emulates(c, T) : Kept(a.card)
               /\ \A a \in Obeys(c, T) : Kept(a.card)
    BY <1>4, <1>5 DEF Emulates, Obeys
  <1>6. \A a \in Terminator(c) \cup Geometry(c) : Kept(a.card)
    BY <1>1, <1>4 DEF Terminator, Geometry
  <1>7. \A n : \A a \in SelectPage(c, n) : Kept(a.card)
    BY <1>sel, <1>4 DEF SelectPage
  <1>8. \A a \in NextChunk(c) \cup EndTransfer(c) : Kept(a.card)
    <2>1. \A a \in NextChunk(c) : Kept(a.card)
      BY <1>step, <1>4 DEF NextChunk
    <2>2. \A a \in EndTransfer(c) : Kept(a.card)
      BY <1>sel, <1>4 DEF EndTransfer
    <2> QED BY <2>1, <2>2
  <1>9. \A a \in Ping(c) \cup OneShot(c) \cup CloseFile(c) \cup OpenFile(c) : Kept(a.card)
    <2>1. \A a \in Ping(c) \cup OneShot(c) : Kept(a.card)
      BY <1>1, <1>5 DEF Ping, OneShot
    <2>2. \A a \in CloseFile(c) : Kept(a.card)
      BY <1>file, <1>5 DEF CloseFile
    <2>3. \A a \in OpenFile(c) : Kept(a.card)
      BY <1>flow, <1>5 DEF OpenFile
    <2> QED BY <2>1, <2>2, <2>3
  <1>10. \A n : \A a \in SeekFile(c, n) : Kept(a.card)
    <2>1. ASSUME NEW n PROVE \A a \in SeekFile(c, n) : Kept(a.card)
      BY <1>1, <1>file, <1>5 DEF SeekFile
    <2> QED BY <2>1
  <1>11. \A f : \A a \in FileHeader(c, f) : Kept(a.card)
    <2>1. ASSUME NEW f PROVE \A a \in FileHeader(c, f) : Kept(a.card)
      <3>1. \A a \in {IF c.file = Nothing THEN Ans(Quiet(c), "refused")
                      ELSE Ans([c EXCEPT !.flow = f, !.step = 0], "ok")} : Kept(a.card)
        BY <1>1, <1>start
      <3> QED BY <1>5, <3>1 DEF FileHeader
    <2> QED BY <2>1
  <1>12. \A a \in TakePath(c) \cup OpenEnd(c) : Kept(a.card)
    <2>1. \A a \in TakePath(c) : Kept(a.card)
      BY <1>flow, <1>4 DEF TakePath
    <2>2. \A a \in OpenEnd(c) : Kept(a.card)
      BY <1>1, <1>file, <1>4 DEF OpenEnd
    <2> QED BY <2>1, <2>2
  <1>13. \A a \in SendBlock(c) \cup TakeBlock(c) : Kept(a.card)
    <2>1. \A a \in SendBlock(c) : Kept(a.card)
      BY <1>move, <1>4 DEF SendBlock
    <2>2. \A a \in TakeBlock(c) : Kept(a.card)
      BY <1>1, <1>move DEF TakeBlock
    <2> QED BY <2>1, <2>2
  <1>14. \A a \in FileReady(c) \cup Footer(c) : Kept(a.card)
    BY <1>1, <1>4 DEF FileReady, Footer
  <1>15. \A a \in Reset(c) : Kept(a.card)
    BY <1>reset, <1>5 DEF Reset
  <1>16. \A a \in Version(c) \cup HighCapacity(c) \cup BlockLength(c) \cup Capacity(c) : Kept(a.card)
    <2>1. \A r : \A a \in Obeys(c, {Ans(Quiet(c), r)}) : Kept(a.card)
      BY <1>1, <1>4 DEF Obeys
    <2>2. \A a \in Capacity(c) : Kept(a.card)
      BY <1>1, <1>4 DEF Capacity
    <2> QED BY <2>1, <2>2 DEF Version, HighCapacity, BlockLength
  <1>17. \A a \in V2Loop(c) \cup V1Loop(c) \cup MmcLoop(c) : Kept(a.card)
    <2>1. ASSUME NEW takes PROVE \A a \in GetsReady(c, takes) : Kept(a.card)
      BY <1>1, <1>reset, <1>4 DEF GetsReady, Obeys
    <2> QED BY <2>1 DEF V2Loop, V1Loop, MmcLoop
  <1>18. \A n, f : \A a \in Transfer(c, n, f) : Kept(a.card)
    <2>1. ASSUME NEW n, NEW f PROVE \A a \in Transfer(c, n, f) : Kept(a.card)
      <3>1. \A m : Kept(Ans([Quiet(c) EXCEPT !.flow = f, !.sel = m], "r0").card)
        BY <1>block
      <3> QED BY <1>1, <1>4, <3>1 DEF Transfer, Obeys
    <2> QED BY <2>1
  <1>19. \A a \in IdleLine(c) \cup SendCrc(c) : Kept(a.card)
    BY <1>1 DEF IdleLine, SendCrc
  <1>20. \A a \in StartToken(c) \cup TakeToken(c) \cup TakeCrc(c) : Kept(a.card)
    <2>1. \A a \in StartToken(c) : Kept(a.card)
      BY <1>1, <1>step DEF StartToken
    <2>2. \A a \in TakeToken(c) \cup TakeCrc(c) : Kept(a.card)
      BY <1>1, <1>step DEF TakeToken, TakeCrc
    <2> QED BY <2>1, <2>2
  <1>21. \A a \in SendHalf(c) : Kept(a.card)
    BY <1>step, <1>4 DEF SendHalf
  <1>22. \A w : \A a \in TakeHalf(c, w) : Kept(a.card)
    <2>1. \A g, r : Kept(Ans([c EXCEPT !.step = c.step + 1, !.got = g], r).card)
      BY <1>take
    <2>2. ASSUME NEW w PROVE \A a \in TakeHalf(c, w) : Kept(a.card)
      <3>1. Kept(Ans([c EXCEPT !.step = c.step + 1, !.got = Append(c.got, w)], "ok").card)
        BY <2>1
      <3> QED BY <1>1, <3>1 DEF TakeHalf
    <2> QED BY <2>2
  <1>23. \A a \in DataResponse(c) : Kept(a.card)
    <2>1. \A r : Kept(Ans([Quiet(c) EXCEPT !.flow = "busy", !.disk[c.sel] = c.got], r).card)
      BY DEF Kept, Ans, Quiet, IsCard, Fields
    <2> QED BY <1>1, <2>1 DEF DataResponse
  <1>24. \A a \in S : Kept(a.card)
    BY <1>4, <1>6, <1>7, <1>8, <1>9, <1>10, <1>11, <1>12, <1>13, <1>14, <1>15, <1>16, <1>17, <1>18, <1>19,
       <1>20, <1>21, <1>22, <1>23 DEF Replies
  <1> QED BY <1>24 DEF Kept

\* The service leaves every SD card its sectors.
LEMMA ServiceDisks == ASSUME StorageInv, DisksFit, ServiceStep PROVE DisksFit'
  <1>1. PICK S \in Replies(Card) : Exchanged(S)
    BY ScanExchange, MxExchange, PageExchange, ReadExchange, WriteExchange, MmceExchange
       DEF ServiceStep, ScanStep
  <1>2. port \in Ports /\ IsCard(Card) /\ DOMAIN ports = Ports
    BY DEF StorageInv, CardsFit, Where, Card
  <1>3. \A a \in S : Still(Card, a.card) /\ DOMAIN a.card.disk = DOMAIN Card.disk
    BY <1>1, <1>2, RepliesStill, RepliesKeepDisk
  <1> QED BY <1>1, <1>2, <1>3 DEF Exchanged, CardAnswers, ExchangeLost, Card, DisksFit, Still

\* A card that is put in has them all.
LEMMA FreshDisk == ASSUME NEW c \in AllCards PROVE c.kind = "sd" => DOMAIN c.disk = Sectors
  <1>1. ASSUME NEW kind, NEW id
        PROVE  /\ CardOf(kind, id).kind = kind
               /\ kind = "sd" => DOMAIN CardOf(kind, id).disk = Sectors
    BY DEF CardOf
  <1> QED BY <1>1 DEF AllCards, NoCard

\* A device that is listed in its port.
Lists == devices' = devices \/ \E d : devices' = Append(devices, d) /\ (d.kind = "mx" => d.port = MxPort)

\* Steps that serve no sector and list devices in their ports.
LEMMA ListsPlaced ==
  ASSUME StorageInv, SectorsPlaced, Lists, pc' \notin RdPcs \cup WrPcs
  PROVE  SectorsPlaced'
  <1>1. devices \in Seq(Devices)
    BY DEF StorageInv, TableFits
  <1>2. \A k \in 1 .. Len(devices') : devices'[k].kind = "mx" => devices'[k].port = MxPort
    <2>1. CASE devices' = devices
      BY <2>1 DEF SectorsPlaced
    <2>2. ASSUME NEW d, devices' = Append(devices, d), d.kind = "mx" => d.port = MxPort
          PROVE  \A k \in 1 .. Len(devices') : devices'[k].kind = "mx" => devices'[k].port = MxPort
      <3>1. /\ Len(devices') = Len(devices) + 1 /\ Len(devices) \in Nat /\ devices'[Len(devices) + 1] = d
            /\ \A k \in 1 .. Len(devices) : devices'[k] = devices[k]
        BY <1>1, <2>2
      <3>2. ASSUME NEW k \in 1 .. Len(devices') PROVE devices'[k].kind = "mx" => devices'[k].port = MxPort
        <4>1. CASE k \in 1 .. Len(devices)
          BY <3>1, <4>1 DEF SectorsPlaced
        <4>2. CASE k = Len(devices) + 1
          BY <2>2, <3>1, <4>2
        <4> QED BY <3>1, <4>1, <4>2
      <3> QED BY <3>2
    <2> QED BY <2>1, <2>2 DEF Lists
  <1>3. pc' \notin RdPcs /\ pc' \notin WrPcs
    OBVIOUS
  <1> QED BY <1>2, <1>3 DEF SectorsPlaced

\* A scan lists SD cards in their port.
LEMMA ScanPlaces == ASSUME StorageInv, SectorsPlaced, ScanStep PROVE SectorsPlaced'
  <1>1. pc' \notin RdPcs \cup WrPcs
    BY ScanOn DEF ScanPcs, MxPcs, ReadyPcs, RdPcs, WrPcs
  <1>2. CASE ScanStep /\ ~MxInitStep
    <2>1. req.fn = "scan"
      BY <1>2 DEF ScanStep, ScanPing, ScanTerminator, ScanGeometry, ScanValue, ScanStatus, Serving, StorageInv,
                  Where, ScanPcs
    <2>2. ScanEffect
      BY <1>2, <2>1, ScanPingEffect, ScanTerminatorEffect, ScanGeometryEffect, ScanValueEffect, ScanStatusEffect
         DEF ScanStep, ScanCardOrChannel
    <2>3. ListsOne
      BY <2>2 DEF ScanEffect
    <2>4. Lists
      BY <2>3 DEF ListsOne, Kinds, Lists
    <2> QED BY <1>1, <2>4, ListsPlaced
  <1>3. CASE MxInitStep /\ ~MxCapacity
    <2>1. devices' = devices
      BY <1>3, MxWakeEffect, MxResetEffect, MxVersionEffect, MxV2ReadyEffect, MxOcrEffect, MxV1ReadyEffect,
         MxMmcReadyEffect, MxBlockLengthEffect DEF MxInitStep, MxOver, MxOn
    <2> QED BY <1>1, <2>1, ListsPlaced DEF Lists
  <1>4. CASE MxCapacity
    <2>1. devices' = devices \/ (devices' = Append(devices, info') /\ info'.port = MxPort)
      BY <1>4 DEF MxCapacity, Exchange, MxFails, NextPort, Device, NoDevice
    <2> QED BY <1>1, <2>1, ListsPlaced DEF Lists
  <1> QED BY <1>2, <1>3, <1>4

\* Page reads and MMCE commands serve no sector; sector transfers stay where
\* they were let in.
LEMMA ServicePlaces == ASSUME StorageInv, SectorsPlaced, ServiceStep PROVE SectorsPlaced'
  <1>1. CASE PageStep
    <2>1. ScanEffect \/ PageOver \/ PageOn
      BY <1>1, ReadSelectEffect, ReadChunkEffect, ReadFinishEffect DEF PageStep
    <2>2. Lists /\ mx' = mx
      BY <2>1 DEF ScanEffect, ListsOne, Kinds, PageOver, PageOn, PageKeeps, tableVars, Lists
    <2>3. pc' \notin RdPcs \cup WrPcs
      BY <1>1, PageStepGoes DEF PagePcs, RdPcs, WrPcs
    <2> QED BY <2>2, <2>3, ListsPlaced DEF SectorsPlaced
  <1>2. CASE ReadSectorStep
    <2>1. UNCHANGED <<devices, mx, req, port>>
      BY <1>2, ReadSectorEffect DEF StorageInv, BlockEffect, tableVars
    <2>2. pc \in RdPcs /\ pc' \in RdPcs \cup {"replied"}
      BY <1>2 DEF ReadSectorStep, SectorWait, SectorCommand, SectorToken, SectorHalf, SectorCrc, BlockStep,
                  Serving, Exchange, Continue, FailBlock, Fail, Answer, Go, RdPcs
    <2> QED BY <2>1, <2>2 DEF SectorsPlaced, RdPcs, WrPcs
  <1>3. CASE WriteSectorStep
    <2>1. UNCHANGED <<devices, mx, req, port>>
      BY <1>3, WriteSectorEffect DEF StorageInv, BlockEffect, tableVars
    <2>2. pc \in WrPcs /\ pc' \in WrPcs \cup {"replied"}
      BY <1>3 DEF WriteSectorStep, SectorWait, SectorCommand, WriteToken, WriteHalf, WriteCrc, WriteResponse,
                  WriteBusy, BlockStep, Serving, Exchange, Continue, FailBlock, Fail, Answer, Go, WrPcs
    <2> QED BY <2>1, <2>2 DEF SectorsPlaced, RdPcs, WrPcs
  <1>4. CASE MmceStep
    <2>1. UNCHANGED <<devices, mx, req, port>>
      BY <1>4, MmceEffect DEF StorageInv, BlockEffect, tableVars
    <2>2. pc' \notin RdPcs \cup WrPcs
      <3> USE DEF BlockStep, Serving, Exchange, Continue, FailBlock, Fail, Answer, Go, RdPcs, WrPcs
      <3>1. CASE MmceValue \/ MmceSet \/ MmceClose \/ MmceLseek
        BY <3>1 DEF MmceValue, MmceSet, MmceClose, MmceLseek, OneExchange
      <3>2. CASE MmceOpenHeader \/ MmceOpenPath \/ MmceOpenEnd
        BY <3>2 DEF MmceOpenHeader, MmceOpenPath, MmceOpenEnd, OpenStep
      <3>3. CASE MmceHeader("read_header", "read", "read_block") \/ MmceHeader("write_header", "write", "write_ready")
        BY <3>3 DEF MmceHeader
      <3>4. CASE MmceReadBlock \/ MmceReadEnd \/ MmceWriteReady \/ MmceWriteBlock \/ MmceWriteEnd
        BY <3>4 DEF MmceReadBlock, MmceReadEnd, MmceWriteReady, MmceWriteBlock, MmceWriteEnd, Moved
      <3> QED BY <1>4, <3>1, <3>2, <3>3, <3>4 DEF MmceStep
    <2> QED BY <2>1, <2>2 DEF SectorsPlaced
  <1> QED BY <1>1, <1>2, <1>3, <1>4, ScanPlaces DEF ServiceStep

\* A sector request is let in for a listed SD card and one of its sectors.
LEMMA RequestPlaced ==
  ASSUME StorageInv, SectorsPlaced, NEW r, r.index \in Nat, RpcHandler(r) PROVE SectorsPlaced'
  <1> DEFINE d == DeviceAt(r.index)
  <1>1. /\ mx' = mx /\ req' = r /\ devices' \in {devices, <<>>}
    BY DEF RpcHandler, ScanBegin, ScanClears, tableVars
  <1>2. \A k \in 1 .. Len(devices') : devices'[k].kind = "mx" => devices'[k].port = MxPort
    BY <1>1 DEF SectorsPlaced
  <1>3. \/ pc' \in {"ping", "replied"}
        \/ Entry(r, d) # "refused" /\ pc' = Entry(r, d) /\ port' = d.port
    BY DEF RpcHandler, ScanBegin, Answer, Fail, Go
  <1>4. CASE pc' \in {"ping", "replied"}
    BY <1>1, <1>2, <1>4 DEF SectorsPlaced, RdPcs, WrPcs
  <1>5. CASE Entry(r, d) # "refused" /\ pc' = Entry(r, d) /\ port' = d.port
    <2>1. CASE pc' \in RdPcs \cup WrPcs
      <3>1. /\ \/ pc' = "rd_wait" /\ r.fn = "read_sector"
               \/ pc' = "wr_wait" /\ r.fn = "write_sector"
            /\ SectorReachable(d, r.at)
        <4> HIDE DEF d
        <4> QED BY <1>5, <2>1 DEF Entry, RdPcs, WrPcs
      <3>2. d.kind = "mx" /\ mx.ok /\ r.at < mx.count
        BY <3>1 DEF SectorReachable
      <3>3. r.index < count /\ d = devices[r.index + 1]
        BY <3>2 DEF DeviceAt, NoDevice
      <3>4. count \in 0 .. Len(devices) /\ Len(devices) \in Nat
        BY DEF StorageInv, TableFits
      <3>5. r.index + 1 \in 1 .. Len(devices)
        BY <3>3, <3>4
      <3>6. d.port = MxPort
        BY <3>2, <3>3, <3>5 DEF SectorsPlaced
      <3> HIDE DEF d
      <3> QED BY <1>1, <1>2, <1>5, <3>1, <3>2, <3>6 DEF SectorsPlaced, RdPcs, WrPcs
    <2>2. CASE pc' \notin RdPcs \cup WrPcs
      BY <1>1, <1>2, <2>2 DEF SectorsPlaced
    <2> QED BY <2>1, <2>2
  <1> QED BY <1>3, <1>4, <1>5
-----------------------------------------------------------------------------
(* The steps of a sector transfer that nothing disturbs.                   *)

SectorCalmly == /\ ClientInv /\ SectorsPlaced /\ DisksFit /\ SectorsDone /\ InBlock
                /\ op.fn \in Blocks /\ epc = "wait" /\ UNCHANGED clientVars /\ Addressable
                /\ faults' = faults /\ faults \in Nat

\* What is under way: the next sector of the operation, in the MX4SIO port.
LEMMA SectorBegins ==
  ASSUME SectorCalmly, pc \in RdPcs \cup WrPcs
  PROVE  /\ port = MxPort /\ Card = Slot /\ IsCard(Slot) /\ DOMAIN ports = Ports
         /\ req.at = Asked /\ req.w = op.w /\ req.fn = op.fn
         /\ Asked \in Nat /\ Asked < SectorCount /\ op.at \in Nat /\ done \in Nat /\ done < op.size
         /\ op.size \in Nat
         /\ pc \in RdPcs => op.fn = "read_sector"
         /\ pc \in WrPcs => op.fn = "write_sector"
  <1>1. /\ DOMAIN op = {"fn", "index", "at", "size", "w"} /\ op.at \in Nat /\ op.size \in Nat /\ done \in Nat
        /\ done < op.size /\ req = RequestOf
    BY DEF SectorCalmly, ClientInv, ClientCounts, OpFits, Looping, UnderWay
  <1>2. RequestOf = SectorRequest
    BY DEF SectorCalmly, RequestOf, Blocks, Moves
  <1>3. req.at = Asked /\ req.w = op.w /\ req.fn = op.fn
    BY <1>1, <1>2 DEF SectorRequest, Asked
  <1>4. /\ port = MxPort /\ req.at < mx.count /\ mx.count = SectorCount
        /\ pc \in RdPcs => req.fn = "read_sector"
        /\ pc \in WrPcs => req.fn = "write_sector"
    BY DEF SectorCalmly, SectorsPlaced, Addressable, ClientInv, StorageInv, UnitFits
  <1>5. DOMAIN ports = Ports /\ IsCard(ports[MxPort])
    BY DEF SectorCalmly, ClientInv, StorageInv, CardsFit
  <1>6. Asked \in Nat /\ Asked < SectorCount
    BY <1>1, <1>3, <1>4, StorageAssumption DEF Asked
  <1> QED BY <1>1, <1>3, <1>4, <1>5, <1>6 DEF Card, Slot

\* The caller stands still, and so does what is compared with the start.
LEMMA CallerStill ==
  ASSUME SectorCalmly, pc \in RdPcs \cup WrPcs, NEW a, CardAnswers(port, a), Still(Slot, a.card)
  PROVE  /\ Slot' = a.card /\ Slot'.kind = Slot.kind /\ Slot'.id = Slot.id
         /\ UNCHANGED <<epc, op, done, dest, began>> /\ Before' = Before /\ Asked' = Asked
         /\ First' = First /\ Second' = Second /\ Pair' = Pair /\ Halves(done)' = Halves(done)
         /\ epc' = "wait"
  <1>1. port = MxPort /\ DOMAIN ports = Ports
    BY SectorBegins
  <1>2. UNCHANGED <<epc, op, done, dest, began>> /\ epc' = "wait"
    BY DEF SectorCalmly, clientVars
  <1>3. Slot' = a.card
    BY <1>1 DEF CardAnswers, Slot
  <1>4. Slot'.kind = Slot.kind /\ Slot'.id = Slot.id
    BY <1>3 DEF Still
  <1>5. Before' = Before /\ Asked' = Asked
    BY <1>2 DEF Before, Asked
  <1>6. \A s, h : HalfOf(s, h)' = HalfOf(s, h)
    BY <1>4, <1>5 DEF HalfOf
  <1>7. First' = First /\ Second' = Second /\ Pair' = Pair
    <2>1. First' = First /\ Second' = Second
      BY <1>4, <1>5 DEF First, Second, HalfOf
    <2> QED BY <2>1 DEF Pair
  <1>8. Halves(done)' = Halves(done)
    BY <1>2, <1>6 DEF Halves
  <1> QED BY <1>2, <1>3, <1>4, <1>5, <1>6, <1>7, <1>8

\* An answer that writes nothing leaves what is complete as it is.
LEMMA NothingWritten ==
  ASSUME SectorCalmly, pc \in RdPcs \cup WrPcs, NEW a, CardAnswers(port, a), Still(Slot, a.card),
         a.card.disk = Slot.disk
  PROVE  SectorsDone'
  <1>1. SectorsDone
    BY DEF SectorCalmly
  <1>2. /\ Slot'.disk = Slot.disk /\ Slot'.kind = Slot.kind /\ Slot'.id = Slot.id
        /\ UNCHANGED <<op, done, dest>> /\ Before' = Before /\ Halves(done)' = Halves(done)
    BY CallerStill
  <1> QED BY <1>1, <1>2 DEF SectorsDone

\* A transfer that fails is in no block.
LEMMA FailedBlock == ASSUME SectorCalmly, pc' = "replied", reply'.result = "error" PROVE InBlock'
  <1>1. epc' = "wait"
    BY DEF SectorCalmly, clientVars
  <1> QED BY <1>1 DEF InBlock, Answered, Between, Sends, Takes, HalfPcs

\* Between two blocks the line is idle.
LEMMA WaitSector ==
  ASSUME SectorCalmly, NEW at, NEW next, SectorWait(at, next),
         \/ at = "rd_wait" /\ next = "rd_cmd"
         \/ at = "wr_wait" /\ next = "wr_cmd"
  PROVE  SectorsDone' /\ InBlock'
  <1>1. PICK a \in IdleLine(Card) :
          CardAnswers(port, a) /\ IF a.reply = "idle" THEN Continue(next) ELSE FailBlock
    BY NothingLost DEF SectorWait, Exchange, SectorCalmly
  <1>2. pc = at /\ pc \in RdPcs \cup WrPcs
    BY DEF SectorWait, BlockStep, Serving, RdPcs, WrPcs
  <1>3. Card = Slot /\ IsCard(Slot) /\ Slot.flow = "quiet"
    BY <1>2, SectorBegins DEF SectorCalmly, InBlock, Between
  <1>4. a.card = Slot /\ a.reply = "idle"
    BY <1>1, <1>3 DEF IdleLine, Ans
  <1>5. Still(Slot, a.card)
    BY <1>3, <1>4 DEF Still
  <1>6. SectorsDone' /\ Slot'.flow = "quiet" /\ epc' = "wait"
    BY <1>1, <1>2, <1>3, <1>4, <1>5, NothingWritten, CallerStill
  <1>7. pc' = next
    BY <1>1, <1>4 DEF Continue, Go
  <1>8. InBlock'
    BY <1>6, <1>7 DEF InBlock, Answered, Between, Sends, Takes, HalfPcs
  <1> QED BY <1>6, <1>8

\* The address is that of the sector asked for: high capacity cards count
\* sectors, others bytes, of which a 32-bit number reaches every one.
LEMMA AddressFits ==
  ASSUME SectorCalmly, pc \in RdPcs \cup WrPcs, Slot.level = 2
  PROVE  SectorAt(Slot, Address) = Asked
  <1>1. req.at = Asked /\ Asked \in Nat /\ Asked < SectorCount
    BY SectorBegins
  <1>2. /\ mx.type = "hc" <=> Slot.id = "hc"
        /\ Slot.id = "hc" \/ SectorCount * 512 <= AddressSpace
    BY DEF SectorCalmly, Addressable, SectorsPlaced, ClientInv, StorageInv, UnitFits, Addressed, Slot
  <1>3. SectorCount \in Nat /\ AddressSpace \in Nat
    BY StorageAssumption
  <1>4. ASSUME NEW n \in Nat, n < SectorCount, SectorCount * 512 <= AddressSpace
        PROVE  n * 512 \in Nat /\ (n * 512) % AddressSpace = n * 512 /\ (n * 512) % 512 = 0 /\ (n * 512) \div 512 = n
    <2>1. n * 512 \in Nat /\ n * 512 < AddressSpace
      BY <1>3, <1>4
    <2>2. (n * 512) % AddressSpace = n * 512
      BY <1>3, <2>1
    <2> QED BY <2>1, <2>2
  <1>5. Slot.id # "hc" =>
          (Asked * 512) % AddressSpace = Asked * 512 /\ (Asked * 512) % 512 = 0 /\ (Asked * 512) \div 512 = Asked
    BY <1>1, <1>2, <1>4
  <1> QED BY <1>1, <1>2, <1>5 DEF SectorAt, Address

\* CMD17 and CMD24 begin the block of the sector asked for, or are refused.
LEMMA CommandSector ==
  ASSUME SectorCalmly, NEW at, NEW flow, NEW next, SectorCommand(at, flow, next),
         \/ at = "rd_cmd" /\ flow = "send" /\ next = "rd_token"
         \/ at = "wr_cmd" /\ flow = "recv" /\ next = "wr_token"
  PROVE  SectorsDone' /\ InBlock'
  <1>1. PICK a \in Transfer(Card, Address, flow) :
          CardAnswers(port, a) /\ IF a.reply = "r0" THEN Go(next) ELSE Fail
    BY NothingLost DEF SectorCommand, Exchange, SectorCalmly
  <1>2. pc = at /\ pc \in RdPcs \cup WrPcs /\ i' = 1 /\ data' = <<>>
    BY DEF SectorCommand, BlockStep, Serving, RdPcs, WrPcs
  <1>3. Card = Slot /\ IsCard(Slot) /\ Slot.flow = "quiet" /\ Asked \in Nat /\ Asked < SectorCount
    BY <1>2, SectorBegins DEF SectorCalmly, InBlock, Between
  <1>4. Still(Slot, a.card)
    BY <1>1, <1>3, SectorSame DEF Same
  <1> DEFINE s == SectorAt(Slot, Address)
             d == [Quiet(Slot) EXCEPT !.flow = flow, !.sel = s]
  <1>5. \/ Slot.kind = "sd" /\ Slot.level = 2 /\ s \in Sectors /\ a.card = d
        \/ a.card \in {Slot, Quiet(Slot)} /\ a.reply # "r0"
    BY <1>1, <1>3 DEF Transfer, Obeys, Silent, Ans
  <1>6. /\ d.disk = Slot.disk /\ d.flow = flow /\ d.sel = s /\ d.step = 0 /\ d.got = <<>>
        /\ Quiet(Slot).disk = Slot.disk
    BY <1>3 DEF Quiet, IsCard, Fields
  <1> HIDE DEF d, s
  <1>7. SectorsDone'
    BY <1>1, <1>2, <1>4, <1>5, <1>6, NothingWritten
  <1>8. CASE a.reply # "r0"
    BY <1>1, <1>7, <1>8, FailedBlock DEF Fail, Answer
  <1>9. CASE a.reply = "r0"
    <2>1. Slot.kind = "sd" /\ s = Asked /\ a.card = d /\ Asked \in Sectors
      BY <1>2, <1>3, <1>5, <1>9, AddressFits DEF s
    <2>2. Slot' = d /\ Slot'.kind = "sd" /\ Asked' = Asked /\ pc' = next /\ epc' = "wait"
      BY <1>1, <1>2, <1>4, <1>9, <2>1, CallerStill DEF Go
    <2>3. /\ Slot'.flow = flow /\ Slot'.sel = Asked' /\ Slot'.kind = "sd" /\ Slot'.step = 0 /\ Slot'.got = <<>>
          /\ Asked' \in Sectors /\ i' = 1 /\ data' = <<>>
      BY <1>2, <1>6, <2>1, <2>2
    <2>4. CASE flow = "send" /\ next = "rd_token"
      <3>1. pc' = "rd_token" /\ Slot'.flow = "send"
        BY <2>2, <2>3, <2>4
      <3> QED BY <1>7, <2>2, <2>3, <3>1 DEF InBlock, Answered, Between, Sends, Takes, HalfPcs
    <2>5. CASE flow = "recv" /\ next = "wr_token"
      <3>1. pc' = "wr_token" /\ Slot'.flow = "recv" /\ (Asked \in Sectors)'
        BY <2>2, <2>3, <2>5 DEF Sectors
      <3> QED BY <1>7, <2>2, <2>3, <3>1 DEF InBlock, Answered, Between, Sends, Takes, HalfPcs
    <2> QED BY <2>4, <2>5
  <1> QED BY <1>8, <1>9

\* The start token is found where the block begins.
LEMMA TokenSector == ASSUME SectorCalmly, SectorToken PROVE SectorsDone' /\ InBlock'
  <1>1. PICK a \in StartToken(Card) :
          CardAnswers(port, a) /\ IF a.reply = "token" THEN Continue("rd_half") ELSE FailBlock
    BY NothingLost DEF SectorToken, Exchange, SectorCalmly
  <1>2. pc = "rd_token" /\ pc \in RdPcs \cup WrPcs
    BY DEF SectorToken, BlockStep, Serving, RdPcs
  <1>3. /\ Card = Slot /\ IsCard(Slot) /\ Slot.flow = "send" /\ Slot.step = 0 /\ Slot.sel = Asked /\ Slot.kind = "sd"
        /\ i = 1 /\ data = <<>>
    BY <1>2, SectorBegins DEF SectorCalmly, InBlock, Sends, HalfPcs
  <1> DEFINE d == [Slot EXCEPT !.step = 1]
  <1>4. a.card = d /\ a.reply = "token"
    BY <1>1, <1>3 DEF StartToken, Ans
  <1>5. Still(Slot, a.card)
    BY <1>1, <1>3, SectorSame DEF Same
  <1>6. d.disk = Slot.disk /\ d.flow = "send" /\ d.sel = Slot.sel /\ d.step = 1
    BY <1>3 DEF IsCard, Fields
  <1> HIDE DEF d
  <1>7. SectorsDone'
    BY <1>1, <1>2, <1>4, <1>5, <1>6, NothingWritten
  <1>8. Slot' = d /\ Slot'.kind = "sd" /\ Asked' = Asked /\ epc' = "wait"
        /\ pc' = "rd_half" /\ i' = 1 /\ data' = <<>>
    BY <1>1, <1>2, <1>3, <1>4, <1>5, CallerStill DEF Continue, Go
  <1>9. Slot'.flow = "send" /\ Slot'.sel = Asked' /\ Slot'.step = 1
    BY <1>3, <1>6, <1>8
  <1>10. InBlock'
    BY <1>8, <1>9 DEF InBlock, Answered, Between, Sends, Takes, HalfPcs
  <1> QED BY <1>7, <1>10

\* Two halves are a block.
LEMMA AppendPair == ASSUME NEW x, NEW y PROVE Append(<<x>>, y) = <<x, y>> /\ Append(<<>>, x) = <<x>>
  <1> DEFINE s == Append(<<x>>, y)
             t == <<x, y>>
  <1>1. <<x>> \in Seq({x, y}) /\ Len(<<x>>) = 1
    OBVIOUS
  <1>2. s \in Seq({x, y}) /\ Len(s) = 2 /\ s[1] = x /\ s[2] = y
    BY <1>1
  <1>3. t \in Seq({x, y}) /\ Len(t) = 2 /\ t[1] = x /\ t[2] = y
    OBVIOUS
  <1> HIDE DEF s, t
  <1>4. \A k \in 1 .. Len(s) : s[k] = t[k]
    <2>1. \A k \in 1 .. 2 : k = 1 \/ k = 2
      OBVIOUS
    <2> QED BY <1>2, <1>3, <2>1
  <1>5. s = t
    BY <1>2, <1>3, <1>4, SeqEqual
  <1> QED BY <1>5 DEF s, t

\* A half is appended to what was read of the sector.
LEMMA HalfSector == ASSUME SectorCalmly, SectorHalf PROVE SectorsDone' /\ InBlock'
  <1>1. PICK a \in SendHalf(Card) :
          /\ CardAnswers(port, a) /\ data' = Append(data, a.reply) /\ i' = i + 1
          /\ pc' = IF i = 2 THEN "rd_crc" ELSE "rd_half"
    BY NothingLost DEF SectorHalf, Exchange, SectorCalmly, Go
  <1>2. pc = "rd_half" /\ pc \in RdPcs \cup WrPcs
    BY DEF SectorHalf, BlockStep, Serving, RdPcs
  <1>3. /\ Card = Slot /\ IsCard(Slot) /\ Slot.flow = "send" /\ Slot.step = i /\ Slot.sel = Asked /\ Slot.kind = "sd"
        /\ i \in {1, 2} /\ data = (IF i = 1 THEN <<>> ELSE <<First>>)
    BY <1>2, SectorBegins DEF SectorCalmly, InBlock, Sends, HalfPcs
  <1>4. Slot.disk = Before.disk
    BY <1>2, SectorBegins DEF SectorCalmly, SectorsDone, RdPcs
  <1> DEFINE d == [Slot EXCEPT !.step = i + 1]
  <1>5. a.card = d /\ a.reply = (IF i = 1 THEN First ELSE Second)
    <2>1. a.card = d /\ a.reply = HalfOf(Asked, i)
      BY <1>1, <1>3, <1>4 DEF SendHalf, Ans, HalfOf
    <2> QED BY <1>3, <2>1 DEF First, Second
  <1>6. Still(Slot, a.card)
    BY <1>1, <1>3, SectorSame DEF Same
  <1>7. d.disk = Slot.disk /\ d.flow = "send" /\ d.sel = Slot.sel /\ d.step = i + 1
    BY <1>3 DEF IsCard, Fields
  <1> HIDE DEF d
  <1>8. SectorsDone'
    BY <1>1, <1>2, <1>5, <1>6, <1>7, NothingWritten
  <1>9. Slot' = d /\ Slot'.kind = "sd" /\ Asked' = Asked /\ First' = First /\ Pair' = Pair
        /\ epc' = "wait"
    BY <1>1, <1>2, <1>3, <1>5, <1>6, CallerStill
  <1>12. Slot'.flow = "send" /\ Slot'.sel = Asked' /\ Slot'.step = i + 1
    BY <1>3, <1>7, <1>9
  <1>10. CASE i = 1
    <2>2. data' = <<First'>>
      BY <1>1, <1>3, <1>5, <1>9, <1>10
    <2>3. pc' = "rd_half" /\ i' = 2
      BY <1>1, <1>10
    <2>4. Slot'.step = 2
      BY <1>12, <1>10
    <2>5. (data = IF i = 1 THEN <<>> ELSE <<First>>)'
      BY <2>2, <2>3
    <2>6. InBlock'
      BY <1>9, <1>12, <2>3, <2>4, <2>5 DEF InBlock, Answered, Between, Sends, Takes, HalfPcs
    <2> QED BY <1>8, <2>6
  <1>11. CASE i = 2
    <2>1. data' = Pair'
      <3>1. data = <<First>> /\ data' = Append(data, Second)
        BY <1>1, <1>3, <1>5, <1>11
      <3>3. data' = Pair
        BY <3>1, AppendPair DEF Pair
      <3> QED BY <1>9, <3>3
    <2>2. pc' = "rd_crc"
      BY <1>1, <1>11
    <2>3. InBlock'
      BY <1>9, <1>12, <2>1, <2>2 DEF InBlock, Answered, Between, Sends, Takes, HalfPcs
    <2> QED BY <1>8, <2>3
  <1> QED BY <1>3, <1>10, <1>11

\* What Quiet leaves.
LEMMA QuietKeeps ==
  ASSUME NEW c, IsCard(c)
  PROVE  Still(c, Quiet(c)) /\ Quiet(c).disk = c.disk /\ Quiet(c).flow = "quiet"
  BY DEF Quiet, IsCard, Fields, Still

\* The checksum ends the block, which is read.
LEMMA CrcSector == ASSUME SectorCalmly, SectorCrc PROVE SectorsDone' /\ InBlock'
  <1>1. PICK a \in SendCrc(Card) : CardAnswers(port, a) /\ Answer("ok", IoBlocks) /\ UNCHANGED <<i, data>>
    BY NothingLost DEF SectorCrc, Exchange, SectorCalmly
  <1>2. pc = "rd_crc" /\ pc \in RdPcs \cup WrPcs
    BY DEF SectorCrc, BlockStep, Serving, RdPcs
  <1>3. /\ Card = Slot /\ IsCard(Slot) /\ Slot.flow = "send" /\ Slot.kind = "sd" /\ data = Pair
        /\ op.fn = "read_sector"
    BY <1>2, SectorBegins DEF SectorCalmly, InBlock, Sends, RdPcs
  <1>4. a.card = Quiet(Slot)
    BY <1>1, <1>3 DEF SendCrc, Ans
  <1>5. SectorsDone'
    BY <1>1, <1>2, <1>3, <1>4, NothingWritten, QuietKeeps
  <1>6. Slot'.flow = "quiet" /\ Slot'.kind = "sd" /\ Pair' = Pair /\ op' = op /\ epc' = "wait"
    BY <1>1, <1>2, <1>3, <1>4, CallerStill, QuietKeeps
  <1>7. pc' = "replied" /\ data' = Pair'
    BY <1>1, <1>3, <1>6 DEF Answer
  <1>8. InBlock'
    BY <1>3, <1>6, <1>7 DEF InBlock, Answered, Between, Sends, Takes, HalfPcs
  <1> QED BY <1>5, <1>8

\* The token begins the block on the card.
LEMMA WriteTokenSector == ASSUME SectorCalmly, WriteToken PROVE SectorsDone' /\ InBlock'
  <1>1. PICK a \in TakeToken(Card) : CardAnswers(port, a) /\ Continue("wr_half")
    BY NothingLost DEF WriteToken, Exchange, SectorCalmly
  <1>2. pc = "wr_token" /\ pc \in RdPcs \cup WrPcs
    BY DEF WriteToken, BlockStep, Serving, WrPcs
  <1>3. /\ Card = Slot /\ IsCard(Slot) /\ Slot.flow = "recv" /\ Slot.step = 0 /\ Slot.sel = Asked /\ Slot.kind = "sd"
        /\ Asked \in Sectors /\ i = 1 /\ Slot.got = <<>>
    BY <1>2, SectorBegins DEF SectorCalmly, InBlock, Takes, HalfPcs
  <1> DEFINE d == [Slot EXCEPT !.step = 1]
  <1>4. a.card = d
    BY <1>1, <1>3 DEF TakeToken, Ans
  <1>5. Still(Slot, a.card)
    BY <1>1, <1>3, SectorSame DEF Same
  <1>6. d.disk = Slot.disk /\ d.flow = "recv" /\ d.sel = Slot.sel /\ d.step = 1 /\ d.got = Slot.got
    BY <1>3 DEF IsCard, Fields
  <1> HIDE DEF d
  <1>7. SectorsDone'
    BY <1>1, <1>2, <1>4, <1>5, <1>6, NothingWritten
  <1>8. Slot' = d /\ Slot'.kind = "sd" /\ Asked' = Asked /\ epc' = "wait" /\ pc' = "wr_half" /\ i' = 1
    BY <1>1, <1>2, <1>3, <1>4, <1>5, CallerStill DEF Continue, Go
  <1>9. Slot'.flow = "recv" /\ Slot'.sel = Asked' /\ Slot'.step = 1 /\ Slot'.got = <<>> /\ Asked' \in Sectors
    BY <1>3, <1>6, <1>8
  <1>10. InBlock'
    BY <1>8, <1>9 DEF InBlock, Answered, Between, Sends, Takes, HalfPcs, Sectors
  <1> QED BY <1>7, <1>10

\* The card takes a half.
LEMMA WriteHalfSector == ASSUME SectorCalmly, WriteHalf PROVE SectorsDone' /\ InBlock'
  <1>1. PICK a \in TakeHalf(Card, req.w) :
          /\ CardAnswers(port, a) /\ i' = i + 1
          /\ pc' = IF i = 2 THEN "wr_crc" ELSE "wr_half"
    BY NothingLost DEF WriteHalf, Exchange, SectorCalmly, Go
  <1>2. pc = "wr_half" /\ pc \in RdPcs \cup WrPcs
    BY DEF WriteHalf, BlockStep, Serving, WrPcs
  <1>3. /\ Card = Slot /\ IsCard(Slot) /\ Slot.flow = "recv" /\ Slot.step = i /\ Slot.sel = Asked /\ Slot.kind = "sd"
        /\ Asked \in Sectors /\ i \in {1, 2} /\ Slot.got = (IF i = 1 THEN <<>> ELSE <<op.w>>) /\ req.w = op.w
    BY <1>2, SectorBegins DEF SectorCalmly, InBlock, Takes, HalfPcs
  <1> DEFINE g == Append(Slot.got, op.w)
             d == [Slot EXCEPT !.step = i + 1, !.got = g]
  <1>4. a.card = d
    BY <1>1, <1>3 DEF TakeHalf, Ans
  <1>5. Still(Slot, a.card)
    BY <1>1, <1>3, SectorSame DEF Same
  <1> HIDE DEF g
  <1>6. d.disk = Slot.disk /\ d.flow = "recv" /\ d.sel = Slot.sel /\ d.step = i + 1 /\ d.got = g
    BY <1>3 DEF IsCard, Fields
  <1>7. g = (IF i = 1 THEN <<op.w>> ELSE <<op.w, op.w>>)
    BY <1>3, AppendPair DEF g
  <1> HIDE DEF d
  <1>8. SectorsDone'
    BY <1>1, <1>2, <1>4, <1>5, <1>6, NothingWritten
  <1>9. Slot' = d /\ Slot'.kind = "sd" /\ Asked' = Asked /\ op' = op /\ epc' = "wait"
    BY <1>1, <1>2, <1>3, <1>4, <1>5, CallerStill
  <1>10. /\ Slot'.flow = "recv" /\ Slot'.sel = Asked' /\ Asked' \in Sectors /\ Slot'.step = i + 1
         /\ Slot'.got = IF i = 1 THEN <<op'.w>> ELSE <<op'.w, op'.w>>
    BY <1>3, <1>6, <1>7, <1>9
  <1>11. CASE i = 1
    <2>1. pc' = "wr_half" /\ i' = 2 /\ Slot'.step = 2 /\ Slot'.got = <<op'.w>>
      BY <1>1, <1>10, <1>11
    <2>2. InBlock'
      BY <1>9, <1>10, <2>1 DEF InBlock, Answered, Between, Sends, Takes, HalfPcs, Sectors
    <2> QED BY <1>8, <2>2
  <1>12. CASE i = 2
    <2>1. pc' = "wr_crc" /\ Slot'.step = 3 /\ Slot'.got = <<op'.w, op'.w>>
      BY <1>1, <1>10, <1>12
    <2>2. InBlock'
      BY <1>9, <1>10, <2>1 DEF InBlock, Answered, Between, Sends, Takes, HalfPcs, Sectors
    <2> QED BY <1>8, <2>2
  <1> QED BY <1>3, <1>11, <1>12

\* The checksum completes the block.
LEMMA WriteCrcSector == ASSUME SectorCalmly, WriteCrc PROVE SectorsDone' /\ InBlock'
  <1>1. PICK a \in TakeCrc(Card) : CardAnswers(port, a) /\ Continue("wr_response")
    BY NothingLost DEF WriteCrc, Exchange, SectorCalmly
  <1>2. pc = "wr_crc" /\ pc \in RdPcs \cup WrPcs
    BY DEF WriteCrc, BlockStep, Serving, WrPcs
  <1>3. /\ Card = Slot /\ IsCard(Slot) /\ Slot.flow = "recv" /\ Slot.step = 3 /\ Slot.sel = Asked /\ Slot.kind = "sd"
        /\ Asked \in Sectors /\ Slot.got = <<op.w, op.w>>
    BY <1>2, SectorBegins DEF SectorCalmly, InBlock, Takes
  <1> DEFINE d == [Slot EXCEPT !.step = 4]
  <1>4. a.card = d
    BY <1>1, <1>3 DEF TakeCrc, Ans
  <1>5. Still(Slot, a.card)
    BY <1>1, <1>3, SectorSame DEF Same
  <1>6. d.disk = Slot.disk /\ d.flow = "recv" /\ d.sel = Slot.sel /\ d.step = 4 /\ d.got = Slot.got
    BY <1>3 DEF IsCard, Fields
  <1> HIDE DEF d
  <1>7. SectorsDone'
    BY <1>1, <1>2, <1>4, <1>5, <1>6, NothingWritten
  <1>8. Slot' = d /\ Slot'.kind = "sd" /\ Asked' = Asked /\ op' = op /\ epc' = "wait" /\ pc' = "wr_response"
    BY <1>1, <1>2, <1>3, <1>4, <1>5, CallerStill DEF Continue, Go
  <1>9. /\ Slot'.flow = "recv" /\ Slot'.sel = Asked' /\ Slot'.step = 4 /\ Slot'.got = <<op'.w, op'.w>>
        /\ Asked' \in Sectors
    BY <1>3, <1>6, <1>8
  <1>10. InBlock'
    BY <1>8, <1>9 DEF InBlock, Answered, Between, Sends, Takes, HalfPcs, Sectors
  <1> QED BY <1>7, <1>10

\* A block that is accepted is the sector asked for; a rejected one is no sector.
LEMMA ResponseSector == ASSUME SectorCalmly, WriteResponse PROVE SectorsDone' /\ InBlock'
  <1>1. PICK a \in DataResponse(Card) :
          CardAnswers(port, a) /\ IF a.reply = "accepted" THEN Continue("wr_busy") ELSE FailBlock
    BY NothingLost DEF WriteResponse, Exchange, SectorCalmly
  <1>2. pc = "wr_response" /\ pc \in RdPcs \cup WrPcs /\ pc \in WrPcs
    BY DEF WriteResponse, BlockStep, Serving, WrPcs
  <1>3. /\ Card = Slot /\ IsCard(Slot) /\ Slot.flow = "recv" /\ Slot.step = 4 /\ Slot.sel = Asked /\ Slot.kind = "sd"
        /\ Asked \in Sectors /\ Slot.got = <<op.w, op.w>>
    BY <1>2, SectorBegins DEF SectorCalmly, InBlock, Takes
  <1>4. /\ op.fn = "write_sector" /\ DOMAIN Slot.disk = Sectors
        /\ done \in Nat /\ op.at \in Nat /\ done < op.size /\ op.size \in Nat
    BY <1>2, <1>3, SectorBegins DEF SectorCalmly, DisksFit, Slot
  <1>5. Still(Slot, a.card)
    BY <1>1, <1>3, SectorSame DEF Same
  <1> DEFINE d == [Quiet(Slot) EXCEPT !.flow = "busy", !.disk[Slot.sel] = Slot.got]
  <1>6. \/ a.card = d /\ a.reply = "accepted"
        \/ a.card = Quiet(Slot) /\ a.reply = "rejected"
    BY <1>1, <1>3 DEF DataResponse, Ans
  <1>7. CASE a.card = Quiet(Slot) /\ a.reply = "rejected"
    <2>1. SectorsDone'
      BY <1>1, <1>2, <1>3, <1>5, <1>7, NothingWritten, QuietKeeps
    <2>2. pc' = "replied" /\ reply'.result = "error"
      BY <1>1, <1>7 DEF FailBlock, Fail, Answer
    <2> QED BY <2>1, <2>2, FailedBlock
  <1>8. CASE a.card = d /\ a.reply = "accepted"
    <2>1. /\ d.flow = "busy" /\ d.disk[Asked] = <<op.w, op.w>>
          /\ \A s \in Sectors : s # Asked => d.disk[s] = Slot.disk[s]
      BY <1>3, <1>4 DEF Quiet, IsCard, Fields
    <2> HIDE DEF d
    <2>2. /\ Slot' = d /\ Slot'.kind = "sd" /\ Slot'.kind = Slot.kind /\ Slot'.id = Slot.id
          /\ Asked' = Asked /\ UNCHANGED <<op, done>> /\ Before' = Before
          /\ epc' = "wait" /\ pc' = "wr_busy"
      BY <1>1, <1>2, <1>3, <1>5, <1>8, CallerStill DEF Continue, Go
    <2>3. Slot'.flow = "busy" /\ Slot'.disk[Asked'] = <<op'.w, op'.w>>
      BY <2>1, <2>2
    <2>4. InBlock'
      BY <2>2, <2>3 DEF InBlock, Answered, Between, Sends, Takes, HalfPcs
    <2>5. ASSUME NEW s \in Sectors
          PROVE  IF s - op'.at \in 0 .. done' - 1 THEN Slot'.disk[s] = <<op'.w, op'.w>>
                 ELSE Slot'.disk[s] = Before'.disk[s] \/ (s - op'.at = done' /\ done' < op'.size)
      <3>1. IF s - op.at \in 0 .. done - 1 THEN Slot.disk[s] = <<op.w, op.w>>
            ELSE Slot.disk[s] = Before.disk[s] \/ (s - op.at = done /\ done < op.size)
        BY <1>3, <1>4 DEF SectorCalmly, SectorsDone
      <3>2. s \in Int /\ (s = Asked <=> s - op.at = done)
        BY <1>4, StorageAssumption DEF Sectors, Asked
      <3>3. CASE s = Asked
        BY <1>4, <2>2, <3>2, <3>3
      <3>4. CASE s # Asked
        BY <2>1, <2>2, <3>1, <3>4
      <3> QED BY <3>3, <3>4
    <2>6. SectorsDone'
      BY <1>4, <2>2, <2>5 DEF SectorCalmly, SectorsDone, Sectors
    <2> QED BY <2>4, <2>6
  <1> QED BY <1>6, <1>7, <1>8

\* The card is done with the block, or stays busy and the request fails.
LEMMA BusySector == ASSUME SectorCalmly, WriteBusy PROVE SectorsDone' /\ InBlock'
  <1>1. PICK a \in IdleLine(Card) :
          /\ CardAnswers(port, a)
          /\ IF a.reply = "idle" THEN Answer("ok", 0) /\ UNCHANGED <<i, data>> ELSE FailBlock
    BY NothingLost DEF WriteBusy, Exchange, SectorCalmly
  <1>2. pc = "wr_busy" /\ pc \in RdPcs \cup WrPcs /\ pc \in WrPcs
    BY DEF WriteBusy, BlockStep, Serving, WrPcs
  <1>3. /\ Card = Slot /\ IsCard(Slot) /\ Slot.flow = "busy" /\ Slot.kind = "sd"
        /\ Slot.disk[Asked] = <<op.w, op.w>> /\ op.fn = "write_sector"
    BY <1>2, SectorBegins DEF SectorCalmly, InBlock
  <1>4. \/ a.card = Quiet(Slot) /\ a.reply = "idle"
        \/ a.card = Slot /\ a.reply = "never"
    BY <1>1, <1>3 DEF IdleLine, Ans
  <1>5. Still(Slot, a.card) /\ a.card.disk = Slot.disk
    BY <1>3, <1>4, QuietKeeps DEF Still
  <1>6. SectorsDone'
    BY <1>1, <1>2, <1>5, NothingWritten
  <1>7. CASE a.card = Quiet(Slot) /\ a.reply = "idle"
    <2>1. Slot' = Quiet(Slot) /\ Slot'.kind = "sd" /\ Asked' = Asked /\ op' = op /\ epc' = "wait" /\ pc' = "replied"
      BY <1>1, <1>2, <1>3, <1>5, <1>7, CallerStill DEF Answer
    <2>2. Slot'.flow = "quiet" /\ Slot'.disk[Asked'] = <<op'.w, op'.w>> /\ op'.fn = "write_sector"
      BY <1>3, <2>1, QuietKeeps
    <2>3. InBlock'
      BY <2>1, <2>2 DEF InBlock, Answered, Between, Sends, Takes, HalfPcs
    <2> QED BY <1>6, <2>3
  <1>8. CASE a.card = Slot /\ a.reply = "never"
    BY <1>1, <1>6, <1>8, FailedBlock DEF FailBlock, Fail, Answer
  <1> QED BY <1>4, <1>7, <1>8

\* Every step of an undisturbed sector transfer.
LEMMA SectorStepsFit ==
  ASSUME SectorCalmly, ReadSectorStep \/ WriteSectorStep
  PROVE  SectorsDone' /\ InBlock'
  <1>1. CASE ReadSectorStep
    <2>1. CASE SectorWait("rd_wait", "rd_cmd")
      BY <2>1, WaitSector
    <2>2. CASE SectorCommand("rd_cmd", "send", "rd_token")
      BY <2>2, CommandSector
    <2> QED BY <1>1, <2>1, <2>2, TokenSector, HalfSector, CrcSector DEF ReadSectorStep
  <1>2. CASE WriteSectorStep
    <2>1. CASE SectorWait("wr_wait", "wr_cmd")
      BY <2>1, WaitSector
    <2>2. CASE SectorCommand("wr_cmd", "recv", "wr_token")
      BY <2>2, CommandSector
    <2> QED BY <1>2, <2>1, <2>2, WriteTokenSector, WriteHalfSector, WriteCrcSector, ResponseSector, BusySector
            DEF WriteSectorStep
  <1> QED BY <1>1, <1>2
-----------------------------------------------------------------------------
(* The steps of the service and of the client.                             *)

\* A sector request is served by the steps of a sector transfer.
LEMMA SectorSteps ==
  ASSUME StorageInv, Counted, ServiceStep, pc \in RdPcs \cup WrPcs
  PROVE  /\ ReadSectorStep \/ WriteSectorStep
         /\ pc' \in RdPcs \cup WrPcs \cup {"replied"}
  <1>1. ~ScanStep
    <2>1. ScanStep => InScan
      BY ScanOn DEF OnToNext
    <2>2. ~InScan
      BY DEF InScan, ScanPcs, MxPcs, ReadyPcs, PagePcs, RdPcs, WrPcs
    <2> QED BY <2>1, <2>2
  <1>2. ~PageStep
    BY DEF PageStep, ReadSelect, ReadChunk, ReadFinish, Serving, RdPcs, WrPcs
  <1>3. ~MmceStep
    <2> USE DEF BlockStep, Serving, RdPcs, WrPcs
    <2>1. ~MmceValue /\ ~MmceSet /\ ~MmceClose /\ ~MmceLseek
      BY DEF MmceValue, MmceSet, MmceClose, MmceLseek, OneExchange
    <2>2. ~MmceOpenHeader /\ ~MmceOpenPath /\ ~MmceOpenEnd
      BY DEF MmceOpenHeader, MmceOpenPath, MmceOpenEnd, OpenStep
    <2>3. /\ ~MmceHeader("read_header", "read", "read_block")
          /\ ~MmceHeader("write_header", "write", "write_ready")
      BY DEF MmceHeader
    <2>4. ~MmceReadBlock /\ ~MmceReadEnd /\ ~MmceWriteReady /\ ~MmceWriteBlock /\ ~MmceWriteEnd
      BY DEF MmceReadBlock, MmceReadEnd, MmceWriteReady, MmceWriteBlock, MmceWriteEnd
    <2> QED BY <2>1, <2>2, <2>3, <2>4 DEF MmceStep
  <1>4. ReadSectorStep \/ WriteSectorStep
    BY <1>1, <1>2, <1>3 DEF ServiceStep
  <1>5. CASE ReadSectorStep
    BY <1>5 DEF ReadSectorStep, SectorWait, SectorCommand, SectorToken, SectorHalf, SectorCrc,
                Exchange, Continue, FailBlock, Fail, Answer, Go, RdPcs
  <1>6. CASE WriteSectorStep
    BY <1>6 DEF WriteSectorStep, SectorWait, SectorCommand, WriteToken, WriteHalf, WriteCrc, WriteResponse,
                WriteBusy, Exchange, Continue, FailBlock, Fail, Answer, Go, WrPcs
  <1> QED BY <1>4, <1>5, <1>6

\* A sector transfer does not change how the card is addressed.
LEMMA AddressableStays ==
  ASSUME StorageInv, ReadSectorStep \/ WriteSectorStep PROVE Addressable' <=> Addressable
  <1>1. mx' = mx /\ PortsSame
    BY ReadSectorEffect, WriteSectorEffect DEF BlockEffect, tableVars, StorageInv
  <1>2. ports'[MxPort].id = ports[MxPort].id
    BY <1>1 DEF PortsSame, Same, Still, Ports, MxPort
  <1> QED BY <1>1, <1>2 DEF Addressable

\* A fault since the operation began is the end of the claim.
LEMMA FaultEndsSectors ==
  ASSUME Waiting, epc # "idle", faults' = faults + 1, began' = began, SectorsGo, op' = op,
         epc' \in {"call", "wait", "returned"}, pc' \in {"idle", "replied"} \cup RdPcs \cup WrPcs
  PROVE  SectorsGo'
  <1>1. faults \in Nat /\ began.faults \in Nat /\ began.faults <= faults
    BY DEF Waiting
  <1>2. ~Calm'
    BY <1>1 DEF Calm
  <1> QED BY <1>2 DEF SectorsGo

\* A service step disturbs the transfer, or goes on with it.
LEMMA ServiceSectors ==
  ASSUME ClientInv, Waiting, SectorInv, ServiceStep, UNCHANGED clientVars PROVE SectorInv'
  <1>1. UNCHANGED <<epc, op, began>>
    BY DEF clientVars
  <1>2. StorageInv /\ Counted /\ faults \in Nat
    BY DEF ClientInv, Waiting
  <1>3. SectorsPlaced' /\ DisksFit'
    BY <1>2, ServicePlaces, ServiceDisks DEF SectorInv
  <1>4. pc \notin {"idle", "replied"} /\ faults' \in {faults, faults + 1}
    BY <1>2, ServiceMoves
  <1>5. epc \notin {"idle", "call", "returned"}
    BY <1>4 DEF Waiting
  <1>6. ASSUME op.fn \in Blocks PROVE SectorsGo'
    <2>1. epc = "wait" /\ pc \in RdPcs \cup WrPcs
      BY <1>4, <1>5, <1>6 DEF SectorInv, SectorsGo
    <2>2. (ReadSectorStep \/ WriteSectorStep) /\ pc' \in RdPcs \cup WrPcs \cup {"replied"}
      BY <1>2, <2>1, SectorSteps
    <2>3. CASE faults' = faults + 1
      BY <1>1, <2>1, <2>2, <2>3, FaultEndsSectors DEF SectorInv
    <2>4. CASE faults' = faults
      <3>1. SUFFICES ASSUME Calm, Addressable PROVE SectorsDone' /\ InBlock'
        <4>1. Addressable' <=> Addressable
          BY <1>2, <2>2, AddressableStays
        <4>2. Calm' <=> Calm
          BY <1>1, <2>4 DEF Calm
        <4> QED BY <1>1, <2>1, <2>2, <4>1, <4>2 DEF SectorsGo
      <3>2. SectorCalmly
        BY <1>2, <1>6, <2>1, <2>4, <3>1 DEF SectorInv, SectorsGo, SectorCalmly
      <3> QED BY <2>2, <3>2, SectorStepsFit
    <2> QED BY <1>4, <2>3, <2>4
  <1>7. SectorsGo'
    <2>1. CASE op.fn \in Blocks
      BY <1>6, <2>1
    <2>2. CASE op.fn \notin Blocks
      BY <1>1, <2>2 DEF SectorsGo
    <2> QED BY <2>1, <2>2
  <1> QED BY <1>3, <1>7 DEF SectorInv

\* What SectorsDone compares.
LEMMA DoneUntouched ==
  ASSUME SectorsDone, UNCHANGED <<ports, op, done, dest, began>> PROVE SectorsDone'
  <1>1. Slot' = Slot /\ Before' = Before
    BY DEF Slot, Before
  <1>2. Halves(done)' = Halves(done)
    BY <1>1 DEF Halves, HalfOf
  <1> QED BY <1>1, <1>2 DEF SectorsDone

\* What is in the table and in the cards, when nothing but the caller moves.
LEMMA PlacesUntouched ==
  ASSUME SectorsPlaced, DisksFit, UNCHANGED <<ports, devices, mx>>, UNCHANGED <<pc, port, req>> \/ pc' = "idle"
  PROVE  SectorsPlaced' /\ DisksFit'
  BY DEF SectorsPlaced, DisksFit, RdPcs, WrPcs

\* The cards are those of the beginning when an operation begins.
LEMMA BeginSectors == ASSUME SectorInv, Waiting, NEW o \in Operations, Begin(o) PROVE SectorInv'
  <1>1. /\ UNCHANGED <<ports, devices, mx, pc, port, req, faults>> /\ op' = o /\ done' = 0 /\ dest' = <<>>
        /\ began' = [ports |-> ports, faults |-> faults] /\ epc = "idle"
    BY DEF Begin, serviceVars, mediaVars, tableVars, localVars
  <1>2. pc' = "idle"
    BY <1>1 DEF Waiting
  <1>3. SectorsPlaced' /\ DisksFit'
    BY <1>1, PlacesUntouched DEF SectorInv
  <1>4. ASSUME o.fn \in Blocks PROVE SectorsGo'
    <2>1. epc' \in {"call", "returned"}
      BY <1>4 DEF Begin, Refused, Finish, Blocks
    <2>2. SUFFICES ASSUME Calm' PROVE SectorsDone' /\ InBlock'
      BY <1>2, <2>1 DEF SectorsGo
    <2>3. Slot' = Before' /\ Slot'.flow = "quiet"
      BY <1>1, <2>2 DEF Calm, Slot, Before
    <2>4. Halves(done)' = <<>>
      BY <1>1 DEF Halves
    <2>5. \A s : s - op'.at \notin 0 .. done' - 1
      BY <1>1
    <2>6. SectorsDone'
      BY <1>1, <2>3, <2>4, <2>5 DEF SectorsDone
    <2>7. InBlock'
      BY <1>2, <2>3 DEF InBlock, Answered, Between, Sends, Takes, HalfPcs
    <2> QED BY <2>6, <2>7
  <1> QED BY <1>1, <1>3, <1>4 DEF SectorInv, SectorsGo

\* A request finds the card as the last one left it.
LEMMA CallSectors == ASSUME ClientInv, SectorInv, Call PROVE SectorInv'
  <1>1. /\ RpcHandler(RequestOf) /\ UNCHANGED <<ports, faults, op, done, dest, began>>
        /\ epc' = (IF epc = "call" THEN "wait" ELSE "init_wait") /\ epc \in {"call", "init_call"}
    BY DEF Call, RpcHandler, mediaVars
  <1>2. SectorsPlaced' /\ DisksFit'
    <2>1. RequestOf.index \in Nat
      BY RequestNamesDevice DEF ClientInv, ClientCounts
    <2>2. SectorsPlaced'
      BY <1>1, <2>1, RequestPlaced DEF ClientInv, SectorInv
    <2>3. DisksFit'
      BY <1>1 DEF SectorInv, DisksFit
    <2> QED BY <2>2, <2>3
  <1>3. ASSUME op.fn \in Blocks PROVE SectorsGo'
    <2>1. epc = "call" /\ epc' = "wait"
      BY <1>1, <1>3 DEF SectorInv, SectorsGo
    <2>2. RequestOf.fn = op.fn
      BY <1>3, <2>1 DEF RequestOf, SectorRequest, Blocks, Moves, ClientInv, ClientCounts, OpFits
    <2>3. pc' \in {"rd_wait", "wr_wait"} \/ (pc' = "replied" /\ reply'.result = "error")
      BY <1>1, <1>3, <2>2 DEF RpcHandler, ScanBegin, Entry, Blocks, ValueFns, Go, Fail, Answer
    <2>4. SUFFICES ASSUME Calm', Addressable' PROVE SectorsDone' /\ InBlock'
      BY <2>1, <2>3 DEF SectorsGo, RdPcs, WrPcs
    <2>a. Addressable
      <3>1. mx' = mx
        BY <1>1 DEF RpcHandler, ScanBegin, tableVars
      <3> QED BY <1>1, <2>4, <3>1 DEF Addressable
    <2>5. Calm /\ SectorsDone /\ InBlock
      BY <1>1, <1>3, <2>1, <2>4, <2>a DEF SectorInv, SectorsGo, Calm
    <2>6. SectorsDone'
      BY <1>1, <2>5, DoneUntouched
    <2>7. Slot'.flow = "quiet"
      BY <1>1, <2>1, <2>5 DEF InBlock, Slot
    <2>8. InBlock'
      BY <2>1, <2>3, <2>7 DEF InBlock, Answered, Between, Sends, Takes, HalfPcs
    <2> QED BY <2>6, <2>8
  <1> QED BY <1>1, <1>2, <1>3 DEF SectorInv, SectorsGo

\* The halves of one sector more.
LEMMA HalvesGrow == ASSUME done \in Nat PROVE Halves(done) \o Pair = Halves(done + 1)
  <1> DEFINE e(k) == HalfOf(op.at + ((k - 1) \div 2), 1 + ((k - 1) % 2))
             m == 2 * done
             S == {e(k) : k \in 1 .. m + 2}
             s == Halves(done)
             t == Halves(done + 1)
  <1>1. m \in Nat /\ 2 * (done + 1) = m + 2
    OBVIOUS
  <1>2. e(m + 1) = First /\ e(m + 2) = Second
    <2>1. /\ ((m + 1) - 1) \div 2 = done /\ ((m + 1) - 1) % 2 = 0
          /\ ((m + 2) - 1) \div 2 = done /\ ((m + 2) - 1) % 2 = 1
      OBVIOUS
    <2> QED BY <2>1 DEF First, Second, Asked
  <1>3. s = [k \in 1 .. m |-> e(k)] /\ t = [k \in 1 .. m + 2 |-> e(k)]
    BY <1>1 DEF Halves
  <1>4. \A k \in 1 .. m + 2 : e(k) \in S
    OBVIOUS
  <1> HIDE DEF e, m, S, s, t
  <1>5. s \in Seq(S) /\ Len(s) = m /\ t \in Seq(S) /\ Len(t) = m + 2
    BY <1>1, <1>3, <1>4
  <1>6. Pair \in Seq(S) /\ Len(Pair) = 2 /\ Pair[1] = e(m + 1) /\ Pair[2] = e(m + 2)
    <2>1. First \in S /\ Second \in S
      BY <1>1, <1>2, <1>4
    <2> QED BY <1>2, <2>1 DEF Pair
  <1>7. /\ s \o Pair \in Seq(S) /\ Len(s \o Pair) = m + 2
        /\ \A k \in 1 .. m + 2 : (s \o Pair)[k] = IF k <= m THEN s[k] ELSE Pair[k - m]
    <2>1. /\ s \o Pair \in Seq(S) /\ Len(s \o Pair) = Len(s) + Len(Pair)
          /\ \A k \in 1 .. Len(s) + Len(Pair) :
               (s \o Pair)[k] = IF k <= Len(s) THEN s[k] ELSE Pair[k - Len(s)]
      BY <1>5, <1>6, ConcatProperties
    <2> QED BY <1>5, <1>6, <2>1
  <1>8. \A k \in 1 .. m + 2 : (s \o Pair)[k] = t[k]
    <2>1. ASSUME NEW k \in 1 .. m + 2 PROVE (s \o Pair)[k] = t[k]
      <3>1. CASE k <= m
        BY <1>1, <1>3, <1>7, <3>1
      <3>2. CASE k = m + 1
        <4>1. (s \o Pair)[k] = Pair[1]
          BY <1>1, <1>7, <3>2
        <4> QED BY <1>1, <1>3, <1>6, <3>2, <4>1
      <3>3. CASE k = m + 2
        <4>1. (s \o Pair)[k] = Pair[2]
          BY <1>1, <1>7, <3>3
        <4> QED BY <1>1, <1>3, <1>6, <3>3, <4>1
      <3>4. k <= m \/ k = m + 1 \/ k = m + 2
        BY <1>1
      <3> QED BY <3>1, <3>2, <3>3, <3>4
    <2> QED BY <2>1
  <1>9. s \o Pair = t
    BY <1>5, <1>7, <1>8, SeqEqual
  <1> QED BY <1>9 DEF s, t

\* A sector more, read or written.
LEMMA OneMore ==
  ASSUME SectorsDone, InBlock, Answered, op.fn \in Blocks, op.at \in Nat, op.size \in Nat, done \in Nat,
         done < op.size, SectorsTaken, UNCHANGED <<ports, op, began>>
  PROVE  SectorsDone'
  <1>1. Slot' = Slot /\ Before' = Before
    BY DEF Slot, Before
  <1>2. done' = done + 1 /\ Slot.kind = "sd"
    BY DEF SectorsTaken, InBlock
  <1>3. ASSUME op.fn = "read_sector" PROVE Slot'.disk = Before'.disk /\ dest' = Halves(done)'
    <2>1. dest = Halves(done) /\ data = Pair /\ dest' = dest \o data
      BY <1>3 DEF SectorsDone, InBlock, SectorsTaken
    <2>2. Halves(done)' = Halves(done + 1)
      BY <1>1, <1>2 DEF Halves, HalfOf
    <2>3. Halves(done) \o Pair = Halves(done + 1)
      BY HalvesGrow
    <2> QED BY <1>1, <1>3, <2>1, <2>2, <2>3 DEF SectorsDone
  <1>4. ASSUME op.fn = "write_sector", NEW s \in Sectors
        PROVE  IF s - op'.at \in 0 .. done' - 1 THEN Slot'.disk[s] = <<op'.w, op'.w>>
               ELSE Slot'.disk[s] = Before'.disk[s] \/ (s - op'.at = done' /\ done' < op'.size)
    <2>1. IF s - op.at \in 0 .. done - 1 THEN Slot.disk[s] = <<op.w, op.w>>
          ELSE Slot.disk[s] = Before.disk[s] \/ (s - op.at = done /\ done < op.size)
      BY <1>2, <1>4 DEF SectorsDone
    <2>2. s \in Int /\ (s = Asked <=> s - op.at = done) /\ s - op.at \in Int
      BY StorageAssumption DEF Sectors, Asked
    <2>3. CASE s = Asked
      <3>1. Slot.disk[s] = <<op.w, op.w>>
        BY <1>4, <2>3 DEF InBlock
      <3>2. s - op'.at \in 0 .. done' - 1
        BY <1>2, <2>2, <2>3
      <3> QED BY <1>1, <3>1, <3>2
    <2>4. CASE s # Asked
      <3>1. s - op'.at \in 0 .. done' - 1 <=> s - op.at \in 0 .. done - 1
        BY <1>2, <2>2, <2>4
      <3> QED BY <1>1, <2>1, <2>2, <2>4, <3>1
    <2> QED BY <2>3, <2>4
  <1> QED BY <1>1, <1>2, <1>3, <1>4 DEF SectorsDone, Sectors

\* The caller takes an answer.
LEMMA AnswerSectors == ASSUME ClientInv, SectorInv, InitDone \/ Taken \/ Refusal PROVE SectorInv'
  <1>1. /\ UNCHANGED <<ports, faults, devices, mx, op, began>> /\ pc = "replied" /\ pc' = "idle"
        /\ epc # "idle"
    BY DEF InitDone, Taken, Refusal, Returned, mediaVars, tableVars
  <1>2. SectorsPlaced' /\ DisksFit'
    BY <1>1, PlacesUntouched DEF SectorInv
  <1>3. epc' \in {"call", "returned"}
    BY DEF InitDone, Taken, Refusal, Finish
  <1>4. ASSUME op.fn \in Blocks, Calm', Addressable' PROVE SectorsDone' /\ InBlock'
    <2>1. Calm /\ SectorsDone /\ InBlock /\ epc \in {"call", "wait", "returned"}
      BY <1>1, <1>4 DEF SectorInv, SectorsGo, Calm, Addressable
    <2>2. CASE Refusal
      <3>1. UNCHANGED <<done, dest>> /\ epc' = "returned"
        BY <2>2 DEF Refusal, Finish
      <3>2. SectorsDone'
        BY <1>1, <2>1, <3>1, DoneUntouched
      <3>3. InBlock'
        BY <1>1, <3>1 DEF InBlock, Answered, Between, Sends, Takes, HalfPcs
      <3> QED BY <3>2, <3>3
    <2>3. CASE Taken
      <3>1. Answered /\ SectorsTaken /\ epc = "wait"
        BY <1>1, <1>4, <2>3 DEF Taken, Answered, Blocks, Moves, Looping
      <3>2. op.at \in Nat /\ op.size \in Nat /\ done \in Nat /\ done < op.size
        BY <1>4, <3>1 DEF ClientInv, ClientCounts, Looping, UnderWay
      <3>3. SectorsDone'
        BY <1>1, <1>4, <2>1, <3>1, <3>2, OneMore
      <3>4. Slot'.flow = "quiet"
        BY <1>1, <2>1, <3>1 DEF InBlock, Slot
      <3>5. InBlock'
        BY <1>1, <1>3, <3>4 DEF InBlock, Answered, Between, Sends, Takes, HalfPcs
      <3> QED BY <3>3, <3>5
    <2>4. ~InitDone
      BY <2>1 DEF InitDone
    <2> QED BY <2>2, <2>3, <2>4
  <1>5. SectorsGo'
    BY <1>1, <1>3, <1>4 DEF SectorsGo
  <1> QED BY <1>2, <1>5 DEF SectorInv

\* Lost calls and exchanged cards end the claim.
LEMMA FaultSectors ==
  ASSUME StorageInv, Waiting, SectorInv, CallFails \/ (CardExchanged /\ UNCHANGED clientVars) PROVE SectorInv'
  <1>1. CASE CallFails
    <2>1. /\ faults' = faults + 1 /\ UNCHANGED <<began, op, ports, devices, mx, pc, port, req>>
          /\ epc # "idle" /\ pc = "idle" /\ epc' = "returned"
      BY <1>1 DEF CallFails, Waiting, Finish, tableVars, localVars
    <2>2. SectorsPlaced' /\ DisksFit'
      BY <2>1, PlacesUntouched DEF SectorInv
    <2>3. SectorsGo'
      BY <2>1, FaultEndsSectors DEF SectorInv
    <2> QED BY <2>2, <2>3 DEF SectorInv
  <1>2. CASE CardExchanged /\ UNCHANGED clientVars
    <2>1. PICK p \in Ports, c \in AllCards : ports' = [ports EXCEPT ![p] = c]
      BY <1>2 DEF CardExchanged, Plugs
    <2>2. /\ faults' = faults + 1 /\ UNCHANGED <<began, op, epc, devices, mx, pc, port, req>>
          /\ DOMAIN ports = Ports
      BY <1>2 DEF CardExchanged, clientVars, StorageInv, CardsFit, tableVars, localVars
    <2>3. DisksFit'
      BY <2>1, <2>2, FreshDisk DEF SectorInv, DisksFit
    <2>4. SectorsPlaced'
      BY <2>2 DEF SectorInv, SectorsPlaced
    <2>5. SectorsGo'
      <3>1. CASE epc = "idle" \/ op.fn \notin Blocks
        BY <2>2, <3>1 DEF SectorsGo
      <3>2. CASE epc # "idle" /\ op.fn \in Blocks
        <4>1. epc' \in {"call", "wait", "returned"} /\ pc' \in {"idle", "replied"} \cup RdPcs \cup WrPcs
          BY <2>2, <3>2 DEF SectorInv, SectorsGo
        <4> QED BY <2>2, <3>2, <4>1, FaultEndsSectors DEF SectorInv
      <3> QED BY <3>1, <3>2
    <2> QED BY <2>3, <2>4, <2>5 DEF SectorInv
  <1> QED BY <1>1, <1>2

\* Nothing is claimed before the first call.
LEMMA SectorsInit == Init => SectorInv
  <1> SUFFICES ASSUME Init PROVE SectorInv
    OBVIOUS
  <1>1. DisksFit
    BY FreshDisk DEF Init, ServiceInit, DisksFit
  <1>2. SectorsPlaced
    BY DEF Init, ServiceInit, SectorsPlaced, RdPcs, WrPcs
  <1> QED BY <1>1, <1>2 DEF Init, SectorInv, SectorsGo

\* Every step keeps the account of a sector transfer.
LEMMA SectorsKept == ClientInv /\ FilesFit /\ SectorInv /\ [Next]_vars => SectorInv'
  <1> SUFFICES ASSUME ClientInv, FilesFit, SectorInv, [Next]_vars PROVE SectorInv'
    OBVIOUS
  <1>1. StorageInv /\ Waiting
    BY DEF ClientInv, FilesFit
  <1>2. ASSUME NEW o \in Operations, Begin(o) PROVE SectorInv'
    BY <1>1, <1>2, BeginSectors
  <1>3. CASE Call \/ InitDone \/ Taken \/ Refusal
    BY <1>3, CallSectors, AnswerSectors
  <1>4. CASE Initialise \/ Leave
    <2>1. UNCHANGED <<ports, devices, mx, pc, port, req>>
      BY <1>4 DEF Initialise, Leave, serviceVars, mediaVars, tableVars, localVars
    <2>2. SectorsPlaced' /\ DisksFit'
      BY <2>1, PlacesUntouched DEF SectorInv
    <2>3. SectorsGo'
      <3>1. CASE Initialise
        <4>1. epc = "init" /\ op' = op
          BY <3>1 DEF Initialise
        <4> QED BY <4>1 DEF SectorInv, SectorsGo
      <3>2. CASE Leave
        BY <3>2 DEF Leave, SectorsGo
      <3> QED BY <1>4, <3>1, <3>2
    <2> QED BY <2>2, <2>3 DEF SectorInv
  <1>5. CASE CallFails \/ ((ServiceStep \/ CardExchanged) /\ UNCHANGED clientVars)
    BY <1>1, <1>5, FaultSectors, ServiceSectors
  <1>6. CASE UNCHANGED vars
    <2>1. /\ UNCHANGED <<ports, devices, mx, pc, port, req, i, data, reply, faults>>
          /\ UNCHANGED <<op, epc, done, dest, began>>
      BY <1>6 DEF vars, serviceVars, mediaVars, tableVars, localVars, clientVars
    <2>2. SectorsPlaced' /\ DisksFit'
      BY <2>1, PlacesUntouched DEF SectorInv
    <2>3. Slot' = Slot /\ Before' = Before /\ Asked' = Asked /\ Calm' = Calm /\ Addressable' = Addressable
      BY <2>1 DEF Slot, Before, Asked, Calm, Addressable
    <2>4. First' = First /\ Pair' = Pair
      BY <2>3 DEF First, Second, Pair, HalfOf
    <2>5. InBlock => InBlock'
      BY <2>1, <2>3, <2>4 DEF InBlock, Answered
    <2>6. SectorsDone => SectorsDone'
      BY <2>1, DoneUntouched
    <2>7. SectorsGo'
      BY <2>1, <2>3, <2>5, <2>6 DEF SectorInv, SectorsGo
    <2> QED BY <2>2, <2>7 DEF SectorInv
  <1> QED BY <1>2, <1>3, <1>4, <1>5, <1>6 DEF Next, CallerStep

\* What the caller is told in the end.
LEMMA SectorsFollow == SectorInv => SectorsAsAsked
  <1> SUFFICES ASSUME SectorInv, Undisturbed, Addressable, op.fn \in Blocks, done > 0
               PROVE  SectorsAsAsked
    BY DEF SectorsAsAsked
  <1>1. SectorsDone
    BY DEF SectorInv, SectorsGo, Undisturbed, Calm
  <1>2. op.fn = "write_sector" => Slot.kind = "sd"
    BY <1>1 DEF SectorsDone
  <1> QED BY <1>1, <1>2 DEF SectorsAsAsked, SectorsDone, Slot, Before, Halves, HalfOf

\* The sectors that ef2_storage_read_sectors or _write_sectors reports, undisturbed
\* by losses and exchanges of cards, are those asked for, in order, and no
\* other sector changes but the one a write failed at: for cards of any size
\* addressed by the sector, and for the others up to what 32-bit byte addresses
\* reach, if they were between two commands when they were initialised.
THEOREM SectorsAreAsked == Spec => []SectorsAsAsked
  BY SectorsKept, CountsInit, CountsKept, FilesInit, FilesKept, SectorsInit, SectorsFollow, PTL DEF Spec
-----------------------------------------------------------------------------
(* How long an operation takes.                                            *)

\* The exchanges a port of a scan takes at most, and those a request does.
PortSteps    == Chunks + 10
ServiceSteps == 2 * PortSteps + IoBlocks + ReadyPolls + 2

\* The exchanges left at position p of a request of size s, its loop counter at
\* n, not counting those for the next port of a scan.
Left(p, n, s) ==
  CASE p \in {"idle", "replied"} -> 0
    [] p = "ping"         -> PortSteps
    [] p = "terminator"   -> PortSteps - 1
    [] p = "geometry"     -> PortSteps - 2
    [] p = "select"       -> Chunks + 5
    [] p = "chunk"        -> Chunks - n + 4
    [] p = "finish"       -> 4
    [] p = "card"         -> 3
    [] p = "channel"      -> 2
    [] p = "status"       -> 1
    [] p = "mx_wake"      -> 7
    [] p = "mx_reset"     -> 6
    [] p = "mx_version"   -> 5
    [] p = "mx_v1"        -> 4
    [] p = "mx_mmc"       -> 3
    [] p = "mx_v2"        -> 3
    [] p = "mx_ocr"       -> 2
    [] p = "mx_block"     -> 2
    [] p = "mx_csd"       -> 1
    [] p = "rd_wait"      -> 6
    [] p = "rd_cmd"       -> 5
    [] p = "rd_token"     -> 4
    [] p = "rd_half"      -> 4 - n
    [] p = "rd_crc"       -> 1
    [] p = "wr_wait"      -> 8
    [] p = "wr_cmd"       -> 7
    [] p = "wr_token"     -> 6
    [] p = "wr_half"      -> 6 - n
    [] p = "wr_crc"       -> 3
    [] p = "wr_response"  -> 2
    [] p = "wr_busy"      -> 1
    [] p = "mmce_one"     -> 1
    [] p = "open_header"  -> 3
    [] p = "open_path"    -> 2
    [] p = "open_end"     -> 1
    [] p = "read_header"  -> s + 2
    [] p = "read_block"   -> s - n + 1
    [] p = "write_header" -> s + ReadyPolls + 2
    [] p = "write_ready"  -> s + ReadyPolls - n + 1
    [] p = "write_block"  -> s - n + 1

\* The exchanges the service has left in the request it serves.
ServiceLeft == Left(pc, i, req.size) + (IF InScan /\ port = 2 THEN PortSteps ELSE 0)

\* The requests an operation still waits for, the one under way included, and the
\* steps left in the request under way.
Pieces == IF op.fn \in Looping THEN op.size - done ELSE 1
RequestsLeft == IF ~UnderWay THEN 0
                ELSE IF epc \in {"call", "wait"} THEN Pieces ELSE Pieces + 1
StepsLeft == IF ~UnderWay THEN 0
             ELSE IF epc = "init" THEN ServiceSteps + 3
             ELSE IF epc \in {"call", "init_call"} THEN ServiceSteps + 2 ELSE ServiceLeft + 1

\* A step that brings an operation nearer to its end, or a fault.
Closer == \/ RequestsLeft' < RequestsLeft
          \/ RequestsLeft' = RequestsLeft /\ StepsLeft' < StepsLeft
          \/ /\ faults' = faults + 1
             /\ RequestsLeft' = RequestsLeft /\ StepsLeft' = StepsLeft

\* How much of an operation can be left.
EndInSight == /\ RequestsLeft \in 0 .. MaxCount + 2 /\ StepsLeft \in 0 .. ServiceSteps + 3
              /\ faults \in 0 .. MaxFaults /\ (RequestsLeft = 0 <=> ~UnderWay)

\* Its values in a scan, in a page read, in a sector transfer and in the MMCE commands.
LEMMA ScanLeft ==
  \A n, s : /\ Left("ping", n, s) = PortSteps /\ Left("terminator", n, s) = PortSteps - 1
            /\ Left("geometry", n, s) = PortSteps - 2 /\ Left("card", n, s) = 3
            /\ Left("channel", n, s) = 2 /\ Left("status", n, s) = 1
            /\ Left("idle", n, s) = 0 /\ Left("replied", n, s) = 0
            /\ Left("select", n, s) = Chunks + 5 /\ Left("chunk", n, s) = Chunks - n + 4
            /\ Left("finish", n, s) = 4
  <1> SUFFICES ASSUME NEW n, NEW s
               PROVE  /\ Left("ping", n, s) = PortSteps /\ Left("terminator", n, s) = PortSteps - 1
                      /\ Left("geometry", n, s) = PortSteps - 2 /\ Left("card", n, s) = 3
                      /\ Left("channel", n, s) = 2 /\ Left("status", n, s) = 1
                      /\ Left("idle", n, s) = 0 /\ Left("replied", n, s) = 0
                      /\ Left("select", n, s) = Chunks + 5 /\ Left("chunk", n, s) = Chunks - n + 4
                      /\ Left("finish", n, s) = 4
    OBVIOUS
  <1>1. /\ Left("ping", n, s) = PortSteps /\ Left("terminator", n, s) = PortSteps - 1
    BY DEF Left
  <1>2. /\ Left("geometry", n, s) = PortSteps - 2 /\ Left("card", n, s) = 3
    BY DEF Left
  <1>3. /\ Left("channel", n, s) = 2 /\ Left("status", n, s) = 1
    BY DEF Left
  <1>4. /\ Left("idle", n, s) = 0 /\ Left("replied", n, s) = 0
    BY DEF Left
  <1>5. /\ Left("select", n, s) = Chunks + 5 /\ Left("chunk", n, s) = Chunks - n + 4
        /\ Left("finish", n, s) = 4
    BY DEF Left
  <1> QED BY <1>1, <1>2, <1>3, <1>4, <1>5

\* Its values on the way to a ready SD card.
LEMMA MxLeft ==
  \A n, s : /\ Left("mx_wake", n, s) = 7 /\ Left("mx_reset", n, s) = 6 /\ Left("mx_version", n, s) = 5
            /\ Left("mx_v1", n, s) = 4 /\ Left("mx_mmc", n, s) = 3 /\ Left("mx_v2", n, s) = 3
            /\ Left("mx_ocr", n, s) = 2 /\ Left("mx_block", n, s) = 2 /\ Left("mx_csd", n, s) = 1
  <1> SUFFICES ASSUME NEW n, NEW s
               PROVE  /\ Left("mx_wake", n, s) = 7 /\ Left("mx_reset", n, s) = 6
                      /\ Left("mx_version", n, s) = 5 /\ Left("mx_v1", n, s) = 4
                      /\ Left("mx_mmc", n, s) = 3 /\ Left("mx_v2", n, s) = 3
                      /\ Left("mx_ocr", n, s) = 2 /\ Left("mx_block", n, s) = 2
                      /\ Left("mx_csd", n, s) = 1
    OBVIOUS
  <1>1. Left("mx_wake", n, s) = 7 /\ Left("mx_reset", n, s) = 6 /\ Left("mx_version", n, s) = 5
    BY DEF Left
  <1>2. Left("mx_v1", n, s) = 4 /\ Left("mx_mmc", n, s) = 3 /\ Left("mx_v2", n, s) = 3
    BY DEF Left
  <1>3. Left("mx_ocr", n, s) = 2 /\ Left("mx_block", n, s) = 2 /\ Left("mx_csd", n, s) = 1
    BY DEF Left
  <1> QED BY <1>1, <1>2, <1>3

\* Its values in a sector transfer.
LEMMA SectorLeft ==
  \A n, s : /\ Left("rd_wait", n, s) = 6 /\ Left("rd_cmd", n, s) = 5 /\ Left("rd_token", n, s) = 4
            /\ Left("rd_half", n, s) = 4 - n /\ Left("rd_crc", n, s) = 1
            /\ Left("wr_wait", n, s) = 8 /\ Left("wr_cmd", n, s) = 7 /\ Left("wr_token", n, s) = 6
            /\ Left("wr_half", n, s) = 6 - n /\ Left("wr_crc", n, s) = 3
            /\ Left("wr_response", n, s) = 2 /\ Left("wr_busy", n, s) = 1
  <1> SUFFICES ASSUME NEW n, NEW s
               PROVE  /\ Left("rd_wait", n, s) = 6 /\ Left("rd_cmd", n, s) = 5
                      /\ Left("rd_token", n, s) = 4 /\ Left("rd_half", n, s) = 4 - n
                      /\ Left("rd_crc", n, s) = 1 /\ Left("wr_wait", n, s) = 8
                      /\ Left("wr_cmd", n, s) = 7 /\ Left("wr_token", n, s) = 6
                      /\ Left("wr_half", n, s) = 6 - n /\ Left("wr_crc", n, s) = 3
                      /\ Left("wr_response", n, s) = 2 /\ Left("wr_busy", n, s) = 1
    OBVIOUS
  <1>1. Left("rd_wait", n, s) = 6 /\ Left("rd_cmd", n, s) = 5 /\ Left("rd_token", n, s) = 4
    BY DEF Left
  <1>2. Left("rd_half", n, s) = 4 - n /\ Left("rd_crc", n, s) = 1 /\ Left("wr_wait", n, s) = 8
    BY DEF Left
  <1>3. Left("wr_cmd", n, s) = 7 /\ Left("wr_token", n, s) = 6 /\ Left("wr_half", n, s) = 6 - n
    BY DEF Left
  <1>4. Left("wr_crc", n, s) = 3 /\ Left("wr_response", n, s) = 2 /\ Left("wr_busy", n, s) = 1
    BY DEF Left
  <1> QED BY <1>1, <1>2, <1>3, <1>4

\* Its values in the MMCE commands.
LEMMA MmceLeft ==
  \A n, s : /\ Left("mmce_one", n, s) = 1 /\ Left("open_header", n, s) = 3
            /\ Left("open_path", n, s) = 2 /\ Left("open_end", n, s) = 1
            /\ Left("read_header", n, s) = s + 2 /\ Left("read_block", n, s) = s - n + 1
            /\ Left("write_header", n, s) = s + ReadyPolls + 2
            /\ Left("write_ready", n, s) = s + ReadyPolls - n + 1
            /\ Left("write_block", n, s) = s - n + 1
  <1> SUFFICES ASSUME NEW n, NEW s
               PROVE  /\ Left("mmce_one", n, s) = 1 /\ Left("open_header", n, s) = 3
                      /\ Left("open_path", n, s) = 2 /\ Left("open_end", n, s) = 1
                      /\ Left("read_header", n, s) = s + 2 /\ Left("read_block", n, s) = s - n + 1
                      /\ Left("write_header", n, s) = s + ReadyPolls + 2
                      /\ Left("write_ready", n, s) = s + ReadyPolls - n + 1
                      /\ Left("write_block", n, s) = s - n + 1
    OBVIOUS
  <1>1. Left("mmce_one", n, s) = 1 /\ Left("open_header", n, s) = 3 /\ Left("open_path", n, s) = 2
    BY DEF Left
  <1>2. Left("open_end", n, s) = 1 /\ Left("read_header", n, s) = s + 2
        /\ Left("read_block", n, s) = s - n + 1
    BY DEF Left
  <1>3. /\ Left("write_header", n, s) = s + ReadyPolls + 2
        /\ Left("write_ready", n, s) = s + ReadyPolls - n + 1
        /\ Left("write_block", n, s) = s - n + 1
    BY DEF Left
  <1> QED BY <1>1, <1>2, <1>3

\* The constants the measure is made of.
LEMMA StepsAreNat ==
  /\ Chunks \in Nat \ {0} /\ IoBlocks \in Nat \ {0} /\ ReadyPolls \in Nat \ {0}
  /\ PortSteps \in Nat /\ PortSteps = Chunks + 10
  /\ ServiceSteps \in Nat /\ ServiceSteps = 2 * Chunks + IoBlocks + ReadyPolls + 22
  BY StorageAssumption DEF PortSteps, ServiceSteps

\* A request under way has an exchange left, a port no more than PortSteps, and
\* any other request no more than ServiceSteps.
LEMMA LeftBounded ==
  ASSUME StorageInv, Counted
  PROVE  /\ Left(pc, i, req.size) \in 0 .. ServiceSteps
         /\ pc \notin {"idle", "replied"} => Left(pc, i, req.size) >= 1
         /\ InScan => Left(pc, i, req.size) <= PortSteps
  <1> DEFINE left == Left(pc, i, req.size)
  <1> SUFFICES /\ left \in Int /\ left >= 0 /\ left <= ServiceSteps
               /\ pc \notin {"idle", "replied"} => left >= 1
               /\ InScan => left <= PortSteps
    BY StepsAreNat
  <1>1. Where /\ LoopsCount /\ i \in Nat
    BY StorageAssumption DEF StorageInv, Counted, LoopsCount, LoopBound
  <1>2. CASE pc \in {"idle", "replied"}
    <2>1. left = 0
      BY <1>2, ScanLeft
    <2> QED BY <1>2, <2>1, StepsAreNat
  <1>3. CASE pc \in ScanPcs
    <2>1. left \in {PortSteps, PortSteps - 1, PortSteps - 2, 1, 2, 3}
      BY <1>3, ScanLeft DEF ScanPcs
    <2> HIDE DEF left
    <2> QED BY <2>1, StepsAreNat
  <1>4. CASE pc \in PagePcs
    <2>1. CASE pc = "chunk"
      <3>1. i < Chunks
        BY <2>1 DEF StorageInv, Reading
      <3>2. left = Chunks - i + 4
        BY <2>1, ScanLeft
      <3> HIDE DEF left
      <3> QED BY <1>1, <3>1, <3>2, StepsAreNat
    <2>2. CASE pc \in {"select", "finish"}
      <3>1. left \in {Chunks + 5, 4}
        BY <2>2, ScanLeft
      <3> HIDE DEF left
      <3> QED BY <3>1, StepsAreNat
    <2> QED BY <1>4, <2>1, <2>2 DEF PagePcs
  <1>5. CASE pc \in MxPcs
    <2>1. left \in 1 .. 7
      BY <1>5, MxLeft DEF MxPcs, ReadyPcs
    <2> HIDE DEF left
    <2> QED BY <2>1, StepsAreNat
  <1>6. CASE pc \in BlockPcs
    <2>1. ~InScan /\ pc \notin {"idle", "replied"}
      BY <1>6 DEF InScan, ScanPcs, PagePcs, MxPcs, ReadyPcs, BlockPcs
    <2>2. CASE pc \in {"rd_wait", "rd_cmd", "rd_token", "rd_crc",
                       "wr_wait", "wr_cmd", "wr_token", "wr_crc", "wr_response", "wr_busy"}
      <3>1. left \in 1 .. 8
        BY <2>2, SectorLeft
      <3> HIDE DEF left
      <3> QED BY <2>1, <3>1, StepsAreNat
    <2>3. CASE pc \in {"rd_half", "wr_half"}
      <3>1. i \in {1, 2}
        BY <1>1, <2>3 DEF LoopsCount, HalfPcs
      <3>2. left \in {4 - i, 6 - i}
        BY <2>3, SectorLeft
      <3> HIDE DEF left
      <3> QED BY <2>1, <3>1, <3>2, StepsAreNat
    <2>4. CASE pc \in {"mmce_one", "open_header", "open_path", "open_end"}
      <3>1. left \in 1 .. 3
        BY <2>4, MmceLeft
      <3> HIDE DEF left
      <3> QED BY <2>1, <3>1, StepsAreNat
    <2>5. CASE pc \in ReadPcs \cup WritePcs
      <3>1. /\ req.size \in 0 .. IoBlocks
            /\ pc \in {"read_block", "write_block"} => i <= req.size
            /\ pc = "write_ready" => i < ReadyPolls
        BY <1>1, <2>5 DEF LoopsCount
      <3>2. CASE pc \in {"read_header", "write_header"}
        <4>1. left = req.size + 2 \/ left = req.size + ReadyPolls + 2
          BY <3>2, MmceLeft
        <4> HIDE DEF left
        <4> QED BY <2>1, <3>1, <4>1, StepsAreNat
      <3>3. CASE pc \in {"read_block", "write_block"}
        <4>1. left = req.size - i + 1
          BY <3>3, MmceLeft
        <4> HIDE DEF left
        <4> QED BY <1>1, <2>1, <3>1, <3>3, <4>1, StepsAreNat
      <3>4. CASE pc = "write_ready"
        <4>1. left = req.size + ReadyPolls - i + 1
          BY <3>4, MmceLeft
        <4> HIDE DEF left
        <4> QED BY <1>1, <2>1, <3>1, <3>4, <4>1, StepsAreNat
      <3> QED BY <2>5, <3>2, <3>3, <3>4 DEF ReadPcs, WritePcs
    <2> QED BY <1>6, <2>2, <2>3, <2>4, <2>5 DEF BlockPcs, ReadPcs, WritePcs
  <1> QED BY <1>1, <1>2, <1>3, <1>4, <1>5, <1>6 DEF Where

\* The exchanges left in a request are bounded.
LEMMA ServiceLeftBounded == StorageInv /\ Counted => ServiceLeft \in 0 .. ServiceSteps
  <1> SUFFICES ASSUME StorageInv, Counted PROVE ServiceLeft \in 0 .. ServiceSteps
    OBVIOUS
  <1>1. /\ Left(pc, i, req.size) \in 0 .. ServiceSteps
        /\ InScan => Left(pc, i, req.size) <= PortSteps
    BY LeftBounded
  <1>2. 2 * PortSteps <= ServiceSteps
    BY StepsAreNat
  <1> QED BY <1>1, <1>2, StepsAreNat DEF ServiceLeft

\* The same after a step.
LEMMA ServiceLeftNext == StorageInv' /\ Counted' => ServiceLeft' \in 0 .. ServiceSteps
  <1>1. (StorageInv /\ Counted => ServiceLeft \in 0 .. ServiceSteps)'
    BY ServiceLeftBounded, PTL
  <1> QED BY <1>1 DEF ServiceSteps, PortSteps

\* A step of the service that brings its request nearer to the end, or is a fault.
Shorter == ServiceLeft' < ServiceLeft \/ (faults' = faults + 1 /\ ServiceLeft' = ServiceLeft)

\* A step of a scan goes on to one of next, to the other port, or ends the scan.
Passes(next) == \/ pc' \in next /\ port' = port
                \/ port = 2 /\ port' = 3 /\ pc' = "ping"
                \/ port = 3 /\ pc' = "replied"

\* Such a step is nearer to the end if next is.
LEMMA PassesShorten ==
  ASSUME StorageInv, Counted, InScan, req' = req, NEW next, Passes(next),
         pc' \in next => /\ Left(pc', i', req.size) \in Int
                         /\ Left(pc', i', req.size) < Left(pc, i, req.size)
  PROVE  ServiceLeft' < ServiceLeft
  <1> DEFINE left == Left(pc, i, req.size)
             after == Left(pc', i', req.size)
             rest == IF InScan' /\ port' = 2 THEN PortSteps ELSE 0
  <1>1. left \in Int /\ left >= 1 /\ PortSteps \in Nat
    <2>1. pc \notin {"idle", "replied"}
      BY DEF InScan, ScanPcs, PagePcs, MxPcs, ReadyPcs
    <2> QED BY <2>1, LeftBounded, StepsAreNat
  <1>2. ServiceLeft = left + (IF port = 2 THEN PortSteps ELSE 0)
    BY DEF ServiceLeft
  <1>3. ServiceLeft' = after + rest
    BY DEF ServiceLeft
  <1>4. CASE pc' \in next /\ port' = port
    <2>1. after \in Int /\ after < left
      BY <1>4
    <2>2. rest \in {0, IF port = 2 THEN PortSteps ELSE 0}
      BY <1>4
    <2> HIDE DEF left, after, rest
    <2> QED BY <1>1, <1>2, <1>3, <2>1, <2>2
  <1>5. CASE port = 2 /\ port' = 3 /\ pc' = "ping"
    <2>1. after = PortSteps /\ rest = 0
      BY <1>5, ScanLeft
    <2> HIDE DEF left, after, rest
    <2> QED BY <1>1, <1>2, <1>3, <1>5, <2>1
  <1>6. CASE port = 3 /\ pc' = "replied"
    <2>1. ~InScan'
      BY <1>6 DEF InScan, ScanPcs, PagePcs, MxPcs, ReadyPcs
    <2>2. after = 0 /\ rest = 0
      BY <1>6, <2>1, ScanLeft
    <2> HIDE DEF left, after, rest
    <2> QED BY <1>1, <1>2, <1>3, <1>6, <2>2
  <1> QED BY <1>4, <1>5, <1>6 DEF Passes

\* The scan of a port: mmce_ping, mc_set_terminator, mc_get_spec, the values.
LEMMA ScanShortens ==
  ASSUME StorageInv, Counted, ScanStep, ~MxInitStep
  PROVE  ServiceLeft' < ServiceLeft
  <1> USE DEF Serving, Go, Answer, NextPort
  <1>1. InScan /\ req' = req
    BY DEF ScanStep, ScanPing, ScanTerminator, ScanGeometry, ScanValue, ScanStatus, InScan, ScanPcs
  <1>2. CASE ScanPing
    <2>1. pc = "ping" /\ Passes({"terminator"})
      BY <1>2 DEF ScanPing, Exchange, Passes
    <2> QED BY <1>1, <2>1, PassesShorten, ScanLeft, StepsAreNat
  <1>3. CASE ScanTerminator
    <2>1. pc = "terminator" /\ Passes({"geometry"})
      BY <1>3 DEF ScanTerminator, Exchange, Passes, localVars
    <2> QED BY <1>1, <2>1, PassesShorten, ScanLeft, StepsAreNat
  <1>4. CASE ScanGeometry
    <2>1. pc = "geometry" /\ Passes({"select", "card", "mx_wake"})
      BY <1>4 DEF ScanGeometry, Exchange, NoGeometry, Passes
    <2>2. pc' \in {"select", "card", "mx_wake"}
            => Left(pc', i', req.size) \in {Chunks + 5, 3, 7}
      BY ScanLeft, MxLeft
    <2>3. Left(pc, i, req.size) = PortSteps - 2
      BY <2>1, ScanLeft
    <2> QED BY <1>1, <2>1, <2>2, <2>3, PassesShorten, StepsAreNat
  <1>5. CASE ScanValue("card", "channel")
    <2>1. pc = "card" /\ Passes({"channel"})
      BY <1>5 DEF ScanValue, Exchange, Passes, localVars
    <2> QED BY <1>1, <2>1, PassesShorten, ScanLeft
  <1>6. CASE ScanValue("channel", "status")
    <2>1. pc = "channel" /\ Passes({"status"})
      BY <1>6 DEF ScanValue, Exchange, Passes, localVars
    <2> QED BY <1>1, <2>1, PassesShorten, ScanLeft
  <1>7. CASE ScanStatus
    <2>1. pc = "status" /\ Passes({})
      BY <1>7 DEF ScanStatus, Exchange, Passes
    <2> QED BY <1>1, <2>1, PassesShorten
  <1> QED BY <1>2, <1>3, <1>4, <1>5, <1>6, <1>7 DEF ScanStep

\* mx_initialize: a lost command that is asked again costs a fault.
LEMMA MxShortens == ASSUME StorageInv, Counted, MxInitStep PROVE Shorter
  <1> USE DEF Serving, Go, Answer, NextPort, MxStep, MxKeeps, MxGoes, MxFails
  <1>1. InScan /\ req' = req
    BY DEF MxInitStep, MxWake, MxReset, MxVersion, MxV2Ready, MxOcr, MxV1Ready, MxMmcReady,
         MxBlockLength, MxCapacity, InScan, MxPcs, ReadyPcs
  <1>2. CASE MxWake
    <2>1. pc = "mx_wake" /\ Passes({"mx_reset"})
      BY <1>2 DEF MxWake, Exchange, Passes
    <2> QED BY <1>1, <2>1, PassesShorten, MxLeft DEF Shorter
  <1>3. CASE MxReset
    <2>1. pc = "mx_reset" /\ Passes({"mx_version"})
      BY <1>3 DEF MxReset, Exchange, Passes
    <2> QED BY <1>1, <2>1, PassesShorten, MxLeft DEF Shorter
  <1>4. CASE MxVersion
    <2>1. pc = "mx_version" /\ Passes({"mx_v2", "mx_v1"})
      BY <1>4 DEF MxVersion, Exchange, Passes
    <2> QED BY <1>1, <2>1, PassesShorten, MxLeft DEF Shorter
  <1>6. CASE MxOcr
    <2>1. pc = "mx_ocr" /\ Passes({"mx_csd"})
      BY <1>6 DEF MxOcr, Exchange, MxTyped, Passes
    <2> QED BY <1>1, <2>1, PassesShorten, MxLeft DEF Shorter
  <1>8. CASE MxCapacity
    <2>1. pc = "mx_csd" /\ Passes({})
      BY <1>8 DEF MxCapacity, Exchange, Passes
    <2> QED BY <1>1, <2>1, PassesShorten DEF Shorter
  \* The same command again.
  <1>9. ASSUME faults' = faults + 1, UNCHANGED <<pc, port, i>> PROVE Shorter
    <2>1. ServiceLeft' = ServiceLeft
      BY <1>1, <1>9 DEF ServiceLeft, InScan
    <2> QED BY <1>9, <2>1 DEF Shorter
  <1>5. CASE MxV2Ready
    <2>1. pc = "mx_v2" /\ UNCHANGED i
      BY <1>5 DEF MxV2Ready
    <2>2. \/ Passes({"mx_ocr"})
          \/ faults' = faults + 1 /\ UNCHANGED <<pc, port>>
      BY <1>5 DEF MxV2Ready, Exchange, ExchangeLost, Passes
    <2>3. Passes({"mx_ocr"}) => ServiceLeft' < ServiceLeft
      BY <1>1, <2>1, PassesShorten, MxLeft
    <2> QED BY <1>9, <2>1, <2>2, <2>3 DEF Shorter
  <1>7. CASE MxBlockLength
    <2>1. pc = "mx_block" /\ UNCHANGED i
      BY <1>7 DEF MxBlockLength
    <2>2. \/ Passes({"mx_csd"})
          \/ faults' = faults + 1 /\ UNCHANGED <<pc, port>>
      BY <1>7 DEF MxBlockLength, Exchange, ExchangeLost, Passes
    <2>3. Passes({"mx_csd"}) => ServiceLeft' < ServiceLeft
      BY <1>1, <2>1, PassesShorten, MxLeft
    <2> QED BY <1>9, <2>1, <2>2, <2>3 DEF Shorter
  <1>10. CASE MxV1Ready
    <2>1. pc = "mx_v1" /\ UNCHANGED i
      BY <1>10 DEF MxV1Ready
    <2>2. \/ Passes({"mx_block", "mx_mmc"})
          \/ faults' = faults + 1 /\ UNCHANGED <<pc, port>>
      BY <1>10 DEF MxV1Ready, Exchange, ExchangeLost, MxTyped, Passes
    <2>3. Passes({"mx_block", "mx_mmc"}) => ServiceLeft' < ServiceLeft
      BY <1>1, <2>1, PassesShorten, MxLeft
    <2> QED BY <1>9, <2>1, <2>2, <2>3 DEF Shorter
  <1>11. CASE MxMmcReady
    <2>1. pc = "mx_mmc" /\ UNCHANGED i
      BY <1>11 DEF MxMmcReady
    <2>2. \/ Passes({"mx_block"})
          \/ faults' = faults + 1 /\ UNCHANGED <<pc, port>>
      BY <1>11 DEF MxMmcReady, Exchange, ExchangeLost, MxTyped, Passes
    <2>3. Passes({"mx_block"}) => ServiceLeft' < ServiceLeft
      BY <1>1, <2>1, PassesShorten, MxLeft
    <2> QED BY <1>9, <2>1, <2>2, <2>3 DEF Shorter
  <1> QED BY <1>2, <1>3, <1>4, <1>5, <1>6, <1>7, <1>8, <1>10, <1>11 DEF MxInitStep

\* A step of any other request.
LEMMA PlainShortens ==
  ASSUME StorageInv, Counted, ~InScan, ~InScan', req' = req,
         Left(pc', i', req.size) \in Int, Left(pc', i', req.size) < Left(pc, i, req.size)
  PROVE  ServiceLeft' < ServiceLeft
  <1>1. Left(pc, i, req.size) \in Int
    BY LeftBounded, StepsAreNat
  <1>2. ServiceLeft = Left(pc, i, req.size) + 0 /\ ServiceLeft' = Left(pc', i', req.size) + 0
    BY DEF ServiceLeft
  <1> QED BY <1>1, <1>2

\* mc_read_page, for the scan and for the client.
LEMMA PageShortens == ASSUME StorageInv, Counted, PageStep PROVE ServiceLeft' < ServiceLeft
  <1> USE DEF Serving, Go, Answer, Fail, NextPort, PageGoes, PageDone, Scanning, ScanChecked
  <1>1. pc \in PagePcs /\ req' = req /\ Chunks \in Nat \ {0}
    BY StepsAreNat DEF PageStep, ReadSelect, ReadChunk, ReadFinish, PagePcs
  <1>2. pc = "chunk" => i \in Nat /\ i < Chunks
    BY DEF StorageInv, Reading
  \* Where a step goes, and that it is nearer there.
  <1>3. /\ pc = "select" => i' = 0
        /\ pc = "chunk" /\ pc' = "chunk" => i' = i + 1
        /\ pc' = "finish" => pc = "chunk"
        /\ pc' = "chunk" => pc \in {"select", "chunk"}
    <2>1. CASE ReadSelect
      BY <2>1 DEF ReadSelect, Exchange
    <2>2. CASE ReadChunk
      BY <2>2 DEF ReadChunk, Exchange
    <2>3. CASE ReadFinish
      BY <2>3 DEF ReadFinish, Exchange
    <2> QED BY <2>1, <2>2, <2>3 DEF PageStep
  <1>4. ASSUME pc' \in {"chunk", "finish", "card", "replied"}
        PROVE  /\ Left(pc', i', req.size) \in Int
               /\ Left(pc', i', req.size) < Left(pc, i, req.size)
    <2>1. CASE pc = "select"
      <3>1. Left(pc, i, req.size) = Chunks + 5
        BY <2>1, ScanLeft
      <3>2. pc' = "chunk" \/ Left(pc', i', req.size) \in {0, 3}
        BY <1>3, <1>4, <2>1, ScanLeft
      <3>3. pc' = "chunk" => Left(pc', i', req.size) = Chunks - i' + 4
        BY ScanLeft
      <3> QED BY <1>1, <1>3, <2>1, <3>1, <3>2, <3>3
    <2>2. CASE pc = "chunk"
      <3>1. Left(pc, i, req.size) = Chunks - i + 4
        BY <2>2, ScanLeft
      <3>2. pc' = "chunk" \/ Left(pc', i', req.size) \in {0, 3, 4}
        BY <1>4, ScanLeft
      <3>3. pc' = "chunk" => Left(pc', i', req.size) = Chunks - i' + 4
        BY ScanLeft
      <3> QED BY <1>1, <1>2, <1>3, <2>2, <3>1, <3>2, <3>3
    <2>3. CASE pc = "finish"
      <3>1. Left(pc, i, req.size) = 4
        BY <2>3, ScanLeft
      <3>2. Left(pc', i', req.size) \in {0, 3}
        BY <1>3, <1>4, <2>3, ScanLeft
      <3> QED BY <3>1, <3>2
    <2> QED BY <1>1, <2>1, <2>2, <2>3 DEF PagePcs
  <1>5. CASE Scanning
    <2>1. InScan
      BY <1>1, <1>5 DEF InScan
    <2>2. Passes({"chunk", "finish", "card"})
      <3>1. CASE ReadSelect
        BY <1>5, <3>1 DEF ReadSelect, Exchange, Passes
      <3>2. CASE ReadChunk
        BY <1>5, <3>2 DEF ReadChunk, Exchange, Passes
      <3>3. CASE ReadFinish
        BY <1>5, <3>3 DEF ReadFinish, Exchange, Passes
      <3> QED BY <3>1, <3>2, <3>3 DEF PageStep
    <2> QED BY <1>1, <1>4, <2>1, <2>2, PassesShorten
  <1>6. CASE ~Scanning
    <2>1. pc' \in {"chunk", "finish", "replied"}
      <3>1. CASE ReadSelect
        BY <1>6, <3>1 DEF ReadSelect, Exchange
      <3>2. CASE ReadChunk
        BY <1>6, <3>2 DEF ReadChunk, Exchange
      <3>3. CASE ReadFinish
        BY <1>6, <3>3 DEF ReadFinish, Exchange
      <3> QED BY <3>1, <3>2, <3>3 DEF PageStep
    <2>2. ~InScan /\ ~InScan'
      BY <1>1, <1>6, <2>1 DEF InScan, ScanPcs, PagePcs, MxPcs, ReadyPcs
    <2> QED BY <1>1, <1>4, <2>1, <2>2, PlainShortens
  <1> QED BY <1>5, <1>6

\* A step of a sector transfer or an MMCE command is nearer to the end if its next
\* position is.
LEMMA BlockShortens ==
  ASSUME StorageInv, Counted, pc \in BlockPcs, pc' \in BlockPcs \cup {"replied"}, req' = req,
         pc' = "replied" \/ /\ Left(pc', i', req.size) \in Int
                            /\ Left(pc', i', req.size) < Left(pc, i, req.size)
  PROVE  ServiceLeft' < ServiceLeft
  <1>1. ~InScan /\ ~InScan'
    BY DEF InScan, ScanPcs, PagePcs, MxPcs, ReadyPcs, BlockPcs
  <1>2. Left(pc, i, req.size) \in Int /\ Left(pc, i, req.size) >= 1
    <2>1. pc \notin {"idle", "replied"}
      BY DEF BlockPcs
    <2> QED BY <2>1, LeftBounded, StepsAreNat
  <1>3. pc' = "replied" => Left(pc', i', req.size) = 0
    BY ScanLeft
  <1> QED BY <1>1, <1>2, <1>3, PlainShortens

\* mx_read_sector and mx_write_sector.
LEMMA SectorShortens ==
  ASSUME StorageInv, Counted, ReadSectorStep \/ WriteSectorStep PROVE ServiceLeft' < ServiceLeft
  <1> USE DEF BlockStep, Serving, Go, Answer, Fail, Continue, FailBlock
  <1>1. /\ pc \in BlockPcs /\ pc' \in BlockPcs \cup {"replied"} /\ req' = req
        /\ pc \in HalfPcs => i \in {1, 2}
    BY ReadSectorEffect, WriteSectorEffect DEF StorageInv, Counted, LoopsCount, BlockEffect
  <1>2. CASE ReadSectorStep
    <2>1. CASE SectorWait("rd_wait", "rd_cmd")
      <3>1. pc = "rd_wait" /\ pc' \in {"rd_cmd", "replied"}
        BY <2>1 DEF SectorWait, Exchange
      <3> QED BY <1>1, <3>1, SectorLeft, BlockShortens
    <2>2. CASE SectorCommand("rd_cmd", "send", "rd_token")
      <3>1. pc = "rd_cmd" /\ pc' \in {"rd_token", "replied"}
        BY <2>2 DEF SectorCommand, Exchange
      <3> QED BY <1>1, <3>1, SectorLeft, BlockShortens
    <2>3. CASE SectorToken
      <3>1. pc = "rd_token" /\ (pc' = "replied" \/ (pc' = "rd_half" /\ i' = i))
        BY <2>3 DEF SectorToken, Exchange
      <3>2. i \in {1, 2} /\ Left(pc, i, req.size) = 4
        BY <1>1, <3>1, SectorLeft DEF HalfPcs
      <3>3. pc' = "rd_half" => Left(pc', i', req.size) = 4 - i'
        BY SectorLeft
      <3> QED BY <1>1, <3>1, <3>2, <3>3, BlockShortens
    <2>4. CASE SectorHalf
      <3>1. pc = "rd_half" /\ \/ pc' = "replied"
                              \/ pc' = "rd_crc" /\ i = 2
                              \/ pc' = "rd_half" /\ i' = i + 1 /\ i # 2
        BY <2>4 DEF SectorHalf, Exchange
      <3>2. i \in {1, 2} /\ Left(pc, i, req.size) = 4 - i
        BY <1>1, <3>1, SectorLeft DEF HalfPcs
      <3>3. /\ pc' = "rd_half" => Left(pc', i', req.size) = 4 - i'
            /\ pc' = "rd_crc" => Left(pc', i', req.size) = 1
        BY SectorLeft
      <3> QED BY <1>1, <3>1, <3>2, <3>3, BlockShortens
    <2>5. CASE SectorCrc
      <3>1. pc' = "replied"
        BY <2>5 DEF SectorCrc, Exchange
      <3> QED BY <1>1, <3>1, BlockShortens
    <2> QED BY <1>2, <2>1, <2>2, <2>3, <2>4, <2>5 DEF ReadSectorStep
  <1>3. CASE WriteSectorStep
    <2>1. CASE SectorWait("wr_wait", "wr_cmd")
      <3>1. pc = "wr_wait" /\ pc' \in {"wr_cmd", "replied"}
        BY <2>1 DEF SectorWait, Exchange
      <3> QED BY <1>1, <3>1, SectorLeft, BlockShortens
    <2>2. CASE SectorCommand("wr_cmd", "recv", "wr_token")
      <3>1. pc = "wr_cmd" /\ pc' \in {"wr_token", "replied"}
        BY <2>2 DEF SectorCommand, Exchange
      <3> QED BY <1>1, <3>1, SectorLeft, BlockShortens
    <2>3. CASE WriteToken
      <3>1. pc = "wr_token" /\ (pc' = "replied" \/ (pc' = "wr_half" /\ i' = i))
        BY <2>3 DEF WriteToken, Exchange
      <3>2. i \in {1, 2} /\ Left(pc, i, req.size) = 6
        BY <1>1, <3>1, SectorLeft DEF HalfPcs
      <3>3. pc' = "wr_half" => Left(pc', i', req.size) = 6 - i'
        BY SectorLeft
      <3> QED BY <1>1, <3>1, <3>2, <3>3, BlockShortens
    <2>4. CASE WriteHalf
      <3>1. pc = "wr_half" /\ \/ pc' = "replied"
                              \/ pc' = "wr_crc" /\ i = 2
                              \/ pc' = "wr_half" /\ i' = i + 1 /\ i # 2
        BY <2>4 DEF WriteHalf, Exchange
      <3>2. i \in {1, 2} /\ Left(pc, i, req.size) = 6 - i
        BY <1>1, <3>1, SectorLeft DEF HalfPcs
      <3>3. /\ pc' = "wr_half" => Left(pc', i', req.size) = 6 - i'
            /\ pc' = "wr_crc" => Left(pc', i', req.size) = 3
        BY SectorLeft
      <3> QED BY <1>1, <3>1, <3>2, <3>3, BlockShortens
    <2>5. CASE WriteCrc
      <3>1. pc = "wr_crc" /\ pc' \in {"wr_response", "replied"}
        BY <2>5 DEF WriteCrc, Exchange
      <3> QED BY <1>1, <3>1, SectorLeft, BlockShortens
    <2>6. CASE WriteResponse
      <3>1. pc = "wr_response" /\ pc' \in {"wr_busy", "replied"}
        BY <2>6 DEF WriteResponse, Exchange
      <3> QED BY <1>1, <3>1, SectorLeft, BlockShortens
    <2>7. CASE WriteBusy
      <3>1. pc' = "replied"
        BY <2>7 DEF WriteBusy, Exchange
      <3> QED BY <1>1, <3>1, BlockShortens
    <2> QED BY <1>3, <2>1, <2>2, <2>3, <2>4, <2>5, <2>6, <2>7 DEF WriteSectorStep
  <1> QED BY <1>2, <1>3

\* The MMCE commands; mmce_write polls ReadyPolls times at most.
LEMMA MmceShortens == ASSUME StorageInv, Counted, MmceStep PROVE ServiceLeft' < ServiceLeft
  <1> USE DEF BlockStep, Serving, Go, Answer, Fail, Continue, FailBlock
  <1>1. pc \in BlockPcs /\ pc' \in BlockPcs \cup {"replied"} /\ req' = req
    BY MmceEffect DEF StorageInv, BlockEffect
  <1>2. CASE MmceValue \/ MmceSet \/ MmceClose \/ MmceLseek
    <2>1. ASSUME NEW fns, NEW S, OneExchange(fns, S) PROVE pc' = "replied"
      BY <2>1 DEF OneExchange, Exchange
    <2>2. pc' = "replied"
      BY <1>2, <2>1 DEF MmceValue, MmceSet, MmceClose, MmceLseek
    <2> QED BY <1>1, <2>2, BlockShortens
  <1>3. CASE MmceOpenHeader
    <2>1. pc = "open_header" /\ pc' \in {"open_path", "replied"}
      BY <1>3 DEF MmceOpenHeader, OpenStep, Exchange
    <2> QED BY <1>1, <2>1, MmceLeft, BlockShortens
  <1>4. CASE MmceOpenPath
    <2>1. pc = "open_path" /\ pc' \in {"open_end", "replied"}
      BY <1>4 DEF MmceOpenPath, Exchange
    <2> QED BY <1>1, <2>1, MmceLeft, BlockShortens
  <1>5. CASE MmceOpenEnd
    <2>1. pc' = "replied"
      BY <1>5 DEF MmceOpenEnd, Exchange
    <2> QED BY <1>1, <2>1, BlockShortens
  <1>6. CASE ~(MmceValue \/ MmceSet \/ MmceClose \/ MmceLseek \/ MmceOpenHeader \/ MmceOpenPath \/ MmceOpenEnd)
    <2>1. TransferGoes
      <3>1. LoopsCount /\ CardTyped(Card)
        BY DEF StorageInv, Where, Counted, Card
      <3> QED BY <1>6, <3>1, TransferSteps
    <2>2. /\ req.size \in Nat /\ ReadyPolls \in Nat /\ i \in Nat
      BY <2>1, StepsAreNat, StorageAssumption DEF TransferGoes, Counted, LoopsCount, LoopBound
    <2>3. CASE pc' = "replied"
      BY <1>1, <2>3, BlockShortens
    <2>4. CASE pc = "read_header" /\ pc' = "read_block" /\ i' = 0
      <3>1. Left(pc, i, req.size) = req.size + 2 /\ Left(pc', i', req.size) = req.size - i' + 1
        BY <2>4, MmceLeft
      <3> QED BY <1>1, <2>2, <2>4, <3>1, BlockShortens
    <2>5. CASE pc = "write_header" /\ pc' = "write_ready" /\ i' = 0
      <3>1. /\ Left(pc, i, req.size) = req.size + ReadyPolls + 2
            /\ Left(pc', i', req.size) = req.size + ReadyPolls - i' + 1
        BY <2>5, MmceLeft
      <3> QED BY <1>1, <2>2, <2>5, <3>1, BlockShortens
    <2>6. CASE pc = "write_ready" /\ pc' = "write_ready" /\ i' = i + 1
      <3>1. /\ Left(pc, i, req.size) = req.size + ReadyPolls - i + 1
            /\ Left(pc', i', req.size) = req.size + ReadyPolls - i' + 1
        BY <2>6, MmceLeft
      <3> QED BY <1>1, <2>2, <2>6, <3>1, BlockShortens
    <2>7. CASE pc = "write_ready" /\ pc' = "write_block" /\ i' = 0
      <3>1. i < ReadyPolls
        BY <2>7 DEF Counted, LoopsCount
      <3>2. /\ Left(pc, i, req.size) = req.size + ReadyPolls - i + 1
            /\ Left(pc', i', req.size) = req.size - i' + 1
        BY <2>7, MmceLeft
      <3> QED BY <1>1, <2>2, <2>7, <3>1, <3>2, BlockShortens
    <2>8. CASE Block("read_block") \/ Block("write_block")
      <3>1. pc' = pc /\ pc \in {"read_block", "write_block"} /\ i' = i + 1
        BY <2>8 DEF Block
      <3>2. Left(pc, i, req.size) = req.size - i + 1 /\ Left(pc', i', req.size) = req.size - i' + 1
        BY <3>1, MmceLeft
      <3> QED BY <1>1, <2>2, <3>1, <3>2, BlockShortens
    <2> QED BY <2>1, <2>3, <2>4, <2>5, <2>6, <2>7, <2>8 DEF TransferGoes, Clamped
  <1> QED BY <1>2, <1>3, <1>4, <1>5, <1>6

\* Every step of the service.
LEMMA ServiceShortens == ASSUME StorageInv, Counted, ServiceStep PROVE Shorter
  <1>1. CASE MxInitStep
    BY <1>1, MxShortens
  <1>2. CASE ScanStep /\ ~MxInitStep
    BY <1>2, ScanShortens DEF Shorter
  <1>3. CASE PageStep \/ ReadSectorStep \/ WriteSectorStep \/ MmceStep
    BY <1>3, PageShortens, SectorShortens, MmceShortens DEF Shorter
  <1> QED BY <1>1, <1>2, <1>3 DEF ServiceStep

\* Faults are lost exchanges, exchanged cards and failed calls, MaxFaults at most.
LEMMA FaultsCounted == faults \in 0 .. MaxFaults /\ [Next]_vars => faults' \in 0 .. MaxFaults
  <1> SUFFICES ASSUME faults \in 0 .. MaxFaults, [Next]_vars PROVE faults' \in 0 .. MaxFaults
    OBVIOUS
  <1>1. CASE faults' = faults
    BY <1>1
  <1>2. CASE faults < MaxFaults /\ faults' = faults + 1
    BY <1>2, StorageAssumption
  <1>3. CASE ServiceStep
    <2>1. \E S : Exchanged(S)
      BY <1>3, ScanExchange, MxExchange, PageExchange, ReadExchange, WriteExchange, MmceExchange
         DEF ServiceStep
    <2> QED BY <1>1, <1>2, <2>1 DEF Exchanged, CardAnswers, ExchangeLost
  <1>4. CASE CardExchanged \/ CallFails
    BY <1>2, <1>4 DEF CardExchanged, CallFails
  <1>5. ASSUME NEW o \in Operations, Begin(o) PROVE faults' = faults
    BY <1>5 DEF Begin, serviceVars, mediaVars
  <1>6. CASE CallerStep
    <2>1. CASE Initialise \/ Leave
      BY <1>1, <2>1 DEF Initialise, Leave, serviceVars, mediaVars
    <2>2. CASE Call
      BY <1>1, <2>2 DEF Call, RpcHandler, mediaVars
    <2>3. CASE InitDone \/ Taken \/ Refusal
      BY <1>1, <2>3 DEF InitDone, Taken, Refusal, Returned, mediaVars
    <2> QED BY <1>6, <2>1, <2>2, <2>3 DEF CallerStep
  <1>7. CASE UNCHANGED vars
    BY <1>1, <1>7 DEF vars, serviceVars, mediaVars
  <1> QED BY <1>1, <1>3, <1>4, <1>5, <1>6, <1>7 DEF Next

\* The service takes steps while it serves a request.
LEMMA ServicePlace == ASSUME ServiceStep PROVE pc \in ScanPcs \cup MxPcs \cup PagePcs \cup BlockPcs
  <1>1. CASE ScanStep
    BY <1>1 DEF ScanStep, ScanPing, ScanTerminator, ScanGeometry, ScanValue, ScanStatus, MxInitStep, MxStep,
         MxWake, MxReset, MxVersion, MxV2Ready, MxOcr, MxV1Ready, MxMmcReady, MxBlockLength,
         MxCapacity, Serving, ScanPcs, MxPcs, ReadyPcs
  <1>2. CASE PageStep
    BY <1>2 DEF PageStep, ReadSelect, ReadChunk, ReadFinish, Serving, PagePcs
  <1>3. CASE ReadSectorStep \/ WriteSectorStep
    BY <1>3, ReadSectorCounts, WriteSectorCounts DEF SectorCounts
  <1>4. CASE MmceStep
    BY <1>4 DEF MmceStep, MmceValue, MmceSet, MmceClose, MmceLseek, OneExchange, MmceOpenHeader,
         OpenStep, MmceOpenPath, MmceOpenEnd, MmceHeader, MmceReadBlock, MmceReadEnd,
         MmceWriteReady, MmceWriteBlock, MmceWriteEnd, BlockStep, Serving, BlockPcs
  <1> QED BY <1>1, <1>2, <1>3, <1>4 DEF ServiceStep

\* What is left of an operation, and that none is left exactly outside of one.
LEMMA PiecesAre ==
  ASSUME ClientInv, UnderWay PROVE Pieces \in Int /\ Pieces >= 1 /\ Pieces <= MaxCount + 1
  <1>1. op.size \in Nat /\ done \in Nat /\ MaxCount \in Nat
    BY ClientAssumption DEF ClientInv, ClientCounts
  <1>2. op.fn \in Looping => op.size <= MaxCount /\ done < op.size
    BY DEF ClientInv, ClientCounts
  <1> QED BY <1>1, <1>2 DEF Pieces

\* It is bounded before an operation, in it and after it.
LEMMA EndIsInSight == ClientInv /\ faults \in 0 .. MaxFaults => EndInSight
  <1> SUFFICES ASSUME ClientInv, faults \in 0 .. MaxFaults PROVE EndInSight
    OBVIOUS
  <1>0. MaxCount \in Nat /\ ServiceSteps \in Nat
    BY ClientAssumption, StepsAreNat
  <1>1. CASE ~UnderWay
    <2>1. RequestsLeft = 0 /\ StepsLeft = 0
      BY <1>1 DEF RequestsLeft, StepsLeft
    <2> QED BY <1>0, <1>1, <2>1 DEF EndInSight
  <1>2. CASE UnderWay
    <2>1. Pieces \in Int /\ Pieces >= 1 /\ Pieces <= MaxCount + 1
      BY <1>2, PiecesAre
    <2>2. RequestsLeft = Pieces \/ RequestsLeft = Pieces + 1
      BY <1>2 DEF RequestsLeft
    <2>3. ServiceLeft \in 0 .. ServiceSteps
      BY ServiceLeftBounded DEF ClientInv
    <2>4. StepsLeft \in {ServiceSteps + 3, ServiceSteps + 2, ServiceLeft + 1}
      BY <1>2 DEF StepsLeft
    <2>5. RequestsLeft \in 0 .. MaxCount + 2 /\ RequestsLeft # 0
      BY <1>0, <2>1, <2>2
    <2>6. StepsLeft \in 0 .. ServiceSteps + 3
      BY <1>0, <2>3, <2>4
    <2> QED BY <1>2, <2>5, <2>6 DEF EndInSight
  <1> QED BY <1>1, <1>2

\* An answer that is taken leaves less to do: no piece is empty.
LEMMA TakenIsCloser ==
  ASSUME ClientInv, ClientInv', Taken PROVE RequestsLeft' < RequestsLeft
  <1>1. epc = "wait" /\ op' = op /\ UnderWay
    BY DEF Taken, UnderWay
  <1>2. RequestsLeft = Pieces /\ Pieces \in Int /\ Pieces >= 1
    BY <1>1, PiecesAre DEF RequestsLeft
  <1>3. CASE epc' = "returned"
    <2>1. RequestsLeft' = 0
      BY <1>3 DEF RequestsLeft, UnderWay
    <2> QED BY <1>2, <2>1
  <1>4. CASE op.fn \in Looping /\ GoesOn(reply.value) /\ epc' = "call"
    <2>1. op.size \in Nat /\ done \in Nat /\ done < op.size /\ IoBlocks \in Nat \ {0}
      BY <1>1, <1>4, StepsAreNat DEF ClientInv, ClientCounts
    <2>2. done' \in Nat /\ done' > done
      <3>1. CASE op.fn \in Moves /\ FileTaken(reply.value)
        <4>1. op.fn \notin Blocks
          BY <3>1 DEF Moves, Blocks
        <4>2. reply.value = Piece
          BY <1>4, <4>1 DEF GoesOn
        <4>3. Piece \in Nat /\ Piece >= 1
          BY <2>1 DEF Piece
        <4>4. done' = done + Piece
          BY <3>1, <4>2 DEF FileTaken
        <4> QED BY <2>1, <4>3, <4>4
      <3>2. CASE op.fn \in Blocks /\ SectorsTaken
        BY <2>1, <3>2 DEF SectorsTaken
      <3> QED BY <1>4, <3>1, <3>2 DEF Taken, Looping, Moves, Blocks
    <2>3. RequestsLeft' = op.size - done'
      BY <1>1, <1>4 DEF RequestsLeft, Pieces, UnderWay
    <2>4. RequestsLeft = op.size - done
      BY <1>2, <1>4 DEF Pieces
    <2> QED BY <2>1, <2>2, <2>3, <2>4
  <1> QED BY <1>3, <1>4 DEF Taken, Finish

\* Every step of an operation, of the caller, of the service or of a fault.
LEMMA StepsAreCloser ==
  ASSUME ClientInv, ClientInv', FilesFit, Next, UnderWay PROVE Closer
  <1>1. Pieces \in Int /\ Pieces >= 1 /\ ServiceSteps \in Nat
    BY PiecesAre, StepsAreNat
  <1>2. RequestsLeft \in {Pieces, Pieces + 1}
    BY DEF RequestsLeft
  <1>3. ASSUME epc' = "returned" PROVE Closer
    <2>1. RequestsLeft' = 0
      BY <1>3 DEF RequestsLeft, UnderWay
    <2> QED BY <1>1, <1>2, <2>1 DEF Closer
  <1>4. ASSUME NEW o \in Operations, Begin(o) PROVE Closer
    BY <1>4 DEF Begin, UnderWay
  <1>5. CASE Initialise
    <2>1. CASE epc = "init" /\ epc' = "init_call" /\ UNCHANGED <<op, done>>
      <3>1. RequestsLeft' = RequestsLeft
        BY <2>1 DEF RequestsLeft, Pieces, UnderWay
      <3>2. StepsLeft = ServiceSteps + 3 /\ StepsLeft' = ServiceSteps + 2
        BY <2>1 DEF StepsLeft, UnderWay
      <3> QED BY <1>1, <3>1, <3>2 DEF Closer
    <2> QED BY <1>3, <1>5, <2>1 DEF Initialise, Finish
  <1>6. CASE Call
    <2>1. /\ epc \in {"call", "init_call"} /\ UNCHANGED <<op, done>>
          /\ epc' = (IF epc = "call" THEN "wait" ELSE "init_wait")
      BY <1>6 DEF Call
    <2>2. RequestsLeft' = RequestsLeft
      BY <2>1 DEF RequestsLeft, Pieces, UnderWay
    <2>3. StepsLeft = ServiceSteps + 2 /\ StepsLeft' = ServiceLeft' + 1
      BY <2>1 DEF StepsLeft, UnderWay
    <2>4. ServiceLeft' \in 0 .. ServiceSteps
      BY ServiceLeftNext DEF ClientInv
    <2>5. StepsLeft' < StepsLeft
      <3>1. \A a \in 0 .. ServiceSteps : a + 1 < ServiceSteps + 2
        BY <1>1
      <3>2. ServiceLeft' + 1 < ServiceSteps + 2
        BY ONLY <2>4, <3>1, Zenon
      <3> QED BY ONLY <2>3, <3>2, Zenon
    <2> QED BY <2>2, <2>5 DEF Closer
  <1>7. CASE InitDone
    <2>1. CASE epc = "init_wait" /\ epc' = "call" /\ UNCHANGED <<op, done>>
      <3>1. RequestsLeft = Pieces + 1 /\ RequestsLeft' = Pieces
        BY <2>1 DEF RequestsLeft, Pieces, UnderWay
      <3> QED BY <1>1, <3>1 DEF Closer
    <2> QED BY <1>3, <1>7, <2>1 DEF InitDone, Finish
  <1>8. CASE Taken
    BY <1>8, TakenIsCloser DEF Closer
  <1>9. CASE Refusal \/ CallFails
    BY <1>3, <1>9 DEF Refusal, CallFails, Finish
  <1>10. CASE Leave
    BY <1>10 DEF Leave, UnderWay
  <1>11. CASE (ServiceStep \/ CardExchanged) /\ UNCHANGED clientVars
    <2>1. UNCHANGED <<epc, op, done>>
      BY <1>11 DEF clientVars
    <2>2. RequestsLeft' = RequestsLeft
      BY <2>1 DEF RequestsLeft, Pieces, UnderWay
    <2>3. CASE CardExchanged
      <3>1. ServiceLeft' = ServiceLeft /\ faults' = faults + 1
        BY <2>3 DEF CardExchanged, localVars, ServiceLeft, InScan
      <3>2. StepsLeft' = StepsLeft
        BY <2>1, <3>1 DEF StepsLeft, UnderWay
      <3> QED BY <2>2, <3>1, <3>2 DEF Closer
    <2>4. CASE ServiceStep
      <3>1. Shorter
        BY <2>4, ServiceShortens DEF ClientInv
      <3>2. epc \in {"wait", "init_wait"}
        <4>1. pc # "idle"
          <5>1. pc \in ScanPcs \cup MxPcs \cup PagePcs \cup BlockPcs
            BY <2>4, ServicePlace
          <5> QED BY <5>1 DEF ScanPcs, PagePcs, MxPcs, ReadyPcs, BlockPcs
        <4> QED BY <4>1 DEF FilesFit, Waiting, UnderWay
      <3>3. StepsLeft = ServiceLeft + 1 /\ StepsLeft' = ServiceLeft' + 1
        BY <2>1, <3>2 DEF StepsLeft, UnderWay
      <3>4. ServiceLeft \in Int /\ ServiceLeft' \in Int
        <4>1. ServiceLeft \in 0 .. ServiceSteps
          BY ServiceLeftBounded DEF ClientInv
        <4>2. ServiceLeft' \in 0 .. ServiceSteps
          BY ServiceLeftNext DEF ClientInv
        <4> QED BY <4>1, <4>2
      <3>5. CASE ServiceLeft' < ServiceLeft
        <4>1. StepsLeft' < StepsLeft
          <5>1. \A a, b \in Int : a < b => a + 1 < b + 1
            OBVIOUS
          <5>2. ServiceLeft' + 1 < ServiceLeft + 1
            BY ONLY <3>4, <3>5, <5>1, Zenon
          <5> QED BY ONLY <3>3, <5>2, Zenon
        <4> QED BY <2>2, <4>1 DEF Closer
      <3>6. CASE faults' = faults + 1 /\ ServiceLeft' = ServiceLeft
        <4>1. StepsLeft' = StepsLeft
          BY <3>3, <3>6
        <4> QED BY <2>2, <3>6, <4>1 DEF Closer
      <3> QED BY <3>1, <3>5, <3>6 DEF Shorter
    <2> QED BY <1>11, <2>3, <2>4
  <1> QED BY <1>4, <1>5, <1>6, <1>7, <1>8, <1>9, <1>10, <1>11 DEF Next, CallerStep

\* Every operation of the API comes nearer to its end with each step: it waits for
\* MaxCount + 2 requests at most and the service takes ServiceSteps exchanges at most
\* for each, a fault aside, which gives neither back; there are MaxFaults of those.
THEOREM OperationsEnd == Spec => []EndInSight /\ [][UnderWay => Closer]_vars
  <1>1. Init => faults \in 0 .. MaxFaults
    BY StorageAssumption DEF Init, ServiceInit
  <1>2. ClientInv /\ faults \in 0 .. MaxFaults => EndInSight
    BY EndIsInSight
  <1>3. ClientInv /\ ClientInv' /\ FilesFit /\ [Next]_vars => [UnderWay => Closer]_vars
    BY StepsAreCloser
  <1>4. faults \in 0 .. MaxFaults /\ [Next]_vars => (faults \in 0 .. MaxFaults)'
    BY FaultsCounted
  <1> QED BY <1>1, <1>2, <1>3, <1>4, CountsInit, CountsKept, FilesInit, FilesKept, PTL DEF Spec
=============================================================================
