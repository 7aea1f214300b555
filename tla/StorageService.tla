--------------------------- MODULE StorageService ---------------------------
(***************************************************************************)
(* The IOP storage service (src/iop/storage): the RPC handler, the scan of *)
(* the two ports, and the memory card, MMCE and MX4SIO protocols.          *)
(*                                                                         *)
(* One thread serves one request at a time; every exchange over the SIO2   *)
(* is a step.  An exchange may time out, having reached the card or not,   *)
(* and cards are exchanged between any two steps.                          *)
(***************************************************************************)
EXTENDS StorageCards

CONSTANTS MaxFaults,  \* lost exchanges and card exchanges, together
          ReadyPolls, \* attempts of mmce_write to see the device ready
          IoBlocks,   \* EF2_STORAGE_IO_CHUNK in blocks of 256 bytes
          AddressSpace \* bytes a 32-bit sector address reaches (2^32)

ASSUME StorageAssumption == /\ {MaxFaults, ReadyPolls, IoBlocks, Chunks, AddressSpace} \subseteq Nat \ {0}
                            /\ SectorCount \in Nat /\ FileSize \in Nat

Ports  == {2, 3}
MxPort == 3

VARIABLES
  ports,             \* the card in each port
  devices, count,    \* g_devices, g_device_count
  mx,                \* g_mx_initialized, g_mx_card_type, g_mx_sector_count and, modelling state,
                     \* torn: CMD0 of the last initialisation met a card sending a block
  pc, req,           \* the RPC thread: its position, the request it serves
  port, info,        \* locals of the scan; the device a request is about
  i, data,           \* loop counter, data read so far
  reply,             \* the reply in g_reply: result, value (data_size)
  faults             \* modelling state: the faults so far

mediaVars == <<ports, faults>>
tableVars == <<devices, count, mx>>
localVars == <<port, info, i, data>>
serviceVars == <<mediaVars, tableVars, pc, req, localVars, reply>>

\* What can be plugged into p beside card b: no card is in both ports.  An SD
\* adapter in the other port is as silent as no card; an emulator beside an SD
\* card is left out to bound the states.
Plugs(p, b) == {c \in AllCards : /\ c.kind = "sd" => p = MxPort
                                 /\ c # NoCard => c.id # b.id
                                 /\ {c.kind, b.kind} # {"sd", "mmce"}}

NoDevice == [kind |-> "none", port |-> 2, pages |-> 0, checked |-> FALSE, sectors |-> 0]
Device(kind, p) == [NoDevice EXCEPT !.kind = kind, !.port = p]
NoReply == [result |-> "none", value |-> 0]

\* Function codes by the operation they lead to.
ValueFns == {"mmce_value", "mmce_set"} \* status, card, channel; set card, channel, game id
MmceFns  == ValueFns \cup {"mmce_open", "mmce_close", "mmce_lseek", "mmce_read", "mmce_write"}
Fns      == {"init", "scan", "get_device", "read_page", "read_sector", "write_sector"} \cup MmceFns
Requests == [fn : Fns, index : Nat, at : Nat, size : Nat, w : Words]
NoRequest == [fn |-> "init", index |-> 0, at |-> 0, size |-> 0, w |-> 0]
-----------------------------------------------------------------------------
\* ef2_storage_sio2_exchange: the card answers, or the poll for completion
\* times out and the card may have acted on the exchange all the same.
CardAnswers(p, a) == ports' = [ports EXCEPT ![p] = a.card] /\ UNCHANGED faults

ExchangeLost(p, answers) ==
  /\ faults < MaxFaults
  /\ faults' = faults + 1
  /\ \E c \in {ports[p]} \cup {a.card : a \in answers} : ports' = [ports EXCEPT ![p] = c]

Exchange(p, answers, Done(_), Lost) ==
  \/ \E a \in answers : CardAnswers(p, a) /\ Done(a.reply)
  \/ ExchangeLost(p, answers) /\ Lost

Go(next) == pc' = next /\ UNCHANGED reply
Answer(result, value) == /\ pc' = "replied"
                         /\ reply' = [result |-> result, value |-> value]
Fail == Answer("error", 0)

Serving(at) == pc = at /\ UNCHANGED req
Card == ports[port]
-----------------------------------------------------------------------------
(* ef2_storage_backend_scan.                                               *)

Scanning == req.fn = "scan"

MutScanKeepsTable == UNCHANGED <<devices, count>>

ScanClears == devices' = <<>> /\ count' = 0

ScanBegin == /\ ScanClears
             /\ port' = 2 /\ info' = NoDevice
             /\ Go("ping") /\ UNCHANGED <<mx, i, data>>

\* The next port, or the end of the scan; found are the devices so far.
NextPort(found) ==
  /\ devices' = found
  /\ \/ port = 2 /\ port' = 3 /\ Go("ping") /\ UNCHANGED count
     \/ port = 3 /\ count' = Len(found) /\ Answer("ok", 0) /\ UNCHANGED port

\* mmce_ping.
ScanPing ==
  /\ Serving("ping")
  /\ LET Next(kind) == info' = Device(kind, port) /\ Go("terminator")
     IN Exchange(port, Ping(Card), LAMBDA r : Next(IF r = "ok" THEN "mmce" ELSE "mc"), Next("mc"))
  /\ UNCHANGED <<tableVars, port, i, data>>

\* mc_set_terminator: its result is only reported.
ScanTerminator ==
  /\ Serving("terminator")
  /\ Exchange(port, Terminator(Card), LAMBDA r : Go("geometry"), Go("geometry"))
  /\ UNCHANGED <<tableVars, localVars>>

\* No geometry: an emulator is listed without it, the MX4SIO port is tried.
NoGeometry ==
  \/ info.kind = "mmce" /\ Go("card") /\ UNCHANGED <<devices, count, port>>
  \/ info.kind # "mmce" /\ port = MxPort /\ Go("mx_wake") /\ UNCHANGED <<devices, count, port>>
  \/ info.kind # "mmce" /\ port # MxPort /\ NextPort(devices)

\* mc_get_spec.
ScanGeometry ==
  /\ Serving("geometry")
  /\ Exchange(port, Geometry(Card),
       LAMBDA r :
         \/ /\ r = "ok" /\ info' = [info EXCEPT !.pages = PagesOf(Card)]
            /\ Go("select") /\ UNCHANGED <<devices, count, port>>
         \/ r # "ok" /\ NoGeometry /\ UNCHANGED info,
       NoGeometry /\ UNCHANGED info)
  /\ UNCHANGED <<mx, i, data>>

\* mc_check_format: the page is read, its result decides the format only.
ScanChecked(ok) ==
  /\ info' = [info EXCEPT !.checked = ok]
  /\ \/ info.kind = "mmce" /\ Go("card") /\ UNCHANGED <<devices, count, port>>
     \/ info.kind = "mc" /\ NextPort(Append(devices, info'))

\* Card, channel and status of an emulator; a value that fails counts as 0.
ScanValue(at, next) ==
  /\ Serving(at)
  /\ Exchange(port, OneShot(Card), LAMBDA r : Go(next), Go(next))
  /\ UNCHANGED <<tableVars, localVars>>

ScanStatus ==
  /\ Serving("status")
  /\ LET Add == NextPort(Append(devices, info))
     IN Exchange(port, OneShot(Card), LAMBDA r : Add, Add)
  /\ UNCHANGED <<mx, info, i, data>>
-----------------------------------------------------------------------------
(* Reading a page of a memory card: mc_read_page.                          *)

\* The end of a page read, for the scan or for the client.
PageDone(ok) ==
  \/ Scanning /\ ScanChecked(ok)
  \/ ~Scanning /\ ok /\ Answer("ok", req.size) /\ UNCHANGED <<devices, count, port, info>>
  \/ ~Scanning /\ ~ok /\ Fail /\ UNCHANGED <<devices, count, port, info>>
PageGoes(next) == Go(next) /\ UNCHANGED <<devices, count, port, info>>

PageAsked == IF Scanning THEN 0 ELSE req.at

\* mc_select_read_page.
ReadSelect ==
  /\ Serving("select")
  /\ i' = 0 /\ data' = <<>>
  /\ Exchange(port, SelectPage(Card, PageAsked),
       LAMBDA r : (r = "ok" /\ PageGoes("chunk")) \/ (r # "ok" /\ PageDone(FALSE)),
       PageDone(FALSE))
  /\ UNCHANGED mx

MutChunkResultDropped ==
  /\ Serving("chunk")
  /\ LET Got(r) == /\ data' = Append(data, r) /\ i' = i + 1
                   /\ PageGoes(IF i + 1 < Chunks THEN "chunk" ELSE "finish")
     IN Exchange(port, NextChunk(Card), LAMBDA r : Got(r), Got(<<>>))
  /\ UNCHANGED mx

\* mc_read_data_chunk: a chunk that is lost, refused or garbled ends the read.
ReadChunk ==
  /\ Serving("chunk")
  /\ LET Got(r) == /\ data' = Append(data, r) /\ i' = i + 1
                   /\ PageGoes(IF i + 1 < Chunks THEN "chunk" ELSE "finish")
         Ends == PageDone(FALSE) /\ UNCHANGED <<i, data>>
     IN Exchange(port, NextChunk(Card),
          LAMBDA r : (r # <<>> /\ Got(r)) \/ (r = <<>> /\ Ends),
          Ends)
  /\ UNCHANGED mx

\* mc_finish_read.
ReadFinish ==
  /\ Serving("finish")
  /\ Exchange(port, EndTransfer(Card), LAMBDA r : PageDone(r = "ok"), PageDone(FALSE))
  /\ UNCHANGED <<mx, i, data>>

PageStep == ReadSelect \/ ReadChunk \/ ReadFinish
-----------------------------------------------------------------------------
(* MX4SIO: mx_initialize.                                                  *)

MxStep(at) == Serving(at) /\ UNCHANGED <<i, data>>
MxKeeps    == UNCHANGED <<devices, count, port, info>>
MxGoes(next) == Go(next) /\ MxKeeps /\ UNCHANGED mx
MxFails    == NextPort(devices) /\ UNCHANGED <<mx, info>>

\* What was known of a card is forgotten, then clocks without a command wake it.
MxWake ==
  /\ MxStep("mx_wake")
  /\ mx' = [mx EXCEPT !.ok = FALSE, !.count = 0]
  /\ Exchange(port, Silent(Card), LAMBDA r : Go("mx_reset") /\ MxKeeps, NextPort(devices) /\ UNCHANGED info)

\* CMD0, which a card in the middle of a block may answer without a reset.
MxReset ==
  /\ MxStep("mx_reset")
  /\ mx' = [mx EXCEPT !.torn = Card.flow = "send"]
  /\ LET Refused == NextPort(devices) /\ UNCHANGED info
     IN Exchange(port, Reset(Card),
          LAMBDA r : IF r = "r1" THEN Go("mx_version") /\ MxKeeps ELSE Refused, Refused)

\* CMD8: only a card of version 2 that was reset echoes it.
MxVersion ==
  /\ MxStep("mx_version")
  /\ Exchange(port, Version(Card), LAMBDA r : MxGoes(IF r = "r1" THEN "mx_v2" ELSE "mx_v1"), MxGoes("mx_v1"))

\* The loop ends at a CMD55 that fails and goes on after an ACMD41 that does.
MxV2Ready ==
  /\ MxStep("mx_v2")
  /\ Exchange(port, V2Loop(Card), LAMBDA r : IF r = "r0" THEN MxGoes("mx_ocr") ELSE MxFails,
       MxGoes("mx_v2") \/ MxFails)

MxTyped(type, next) == mx' = [mx EXCEPT !.type = type] /\ Go(next) /\ MxKeeps

MutMxOcr ==
  /\ MxStep("mx_ocr")
  /\ Exchange(port, HighCapacity(Card), LAMBDA r : MxTyped(IF r = "hc" THEN "hc" ELSE "sc", "mx_csd"),
       MxTyped("sc", "mx_csd"))

\* CMD58: the capacity bit decides how sectors are addressed.
MxOcr ==
  /\ MxStep("mx_ocr")
  /\ Exchange(port, HighCapacity(Card),
       LAMBDA r : IF r \in {"hc", "r0"} THEN MxTyped(IF r = "hc" THEN "hc" ELSE "sc", "mx_csd")
                  ELSE MxFails,
       MxFails)

\* The loops for older cards go on when a command is lost, unless it is the last.
MxV1Ready ==
  /\ MxStep("mx_v1")
  /\ Exchange(port, V1Loop(Card),
       LAMBDA r : IF r = "r0" THEN MxTyped("sc", "mx_block") ELSE MxGoes("mx_mmc"),
       MxGoes("mx_v1") \/ MxGoes("mx_mmc"))

MxMmcReady ==
  /\ MxStep("mx_mmc")
  /\ Exchange(port, MmcLoop(Card),
       LAMBDA r : IF r = "r0" THEN MxTyped("sc", "mx_block") ELSE MxFails,
       MxGoes("mx_mmc") \/ MxFails)

\* CMD59 may be lost, CMD16 may not.
MxBlockLength ==
  /\ MxStep("mx_block")
  /\ Exchange(port, BlockLength(Card), LAMBDA r : IF r = "r0" THEN MxGoes("mx_csd") ELSE MxFails,
       MxGoes("mx_block") \/ MxFails)

\* CMD9 and mx_csd_sector_count, in which a card of no sectors is refused.
MxCapacity ==
  /\ MxStep("mx_csd")
  /\ LET Found(n) == /\ mx' = [mx EXCEPT !.ok = TRUE, !.count = n]
                     /\ info' = [Device("mx", MxPort) EXCEPT !.sectors = n]
                     /\ NextPort(Append(devices, info'))
     IN Exchange(port, Capacity(Card), LAMBDA n : IF n > 0 THEN Found(n) ELSE MxFails, MxFails)

MxInitStep == \/ MxWake \/ MxReset \/ MxVersion \/ MxV2Ready \/ MxOcr
              \/ MxV1Ready \/ MxMmcReady \/ MxBlockLength \/ MxCapacity

ScanStep == ScanPing \/ ScanTerminator \/ ScanGeometry
            \/ ScanValue("card", "channel") \/ ScanValue("channel", "status") \/ ScanStatus
            \/ MxInitStep
-----------------------------------------------------------------------------
(* Sectors: mx_read_sector, mx_write_sector.  They go by the globals of    *)
(* the last initialisation, not by the device of the request.              *)

BlockStep(at) == Serving(at) /\ UNCHANGED <<tableVars, port, info>>
Continue(next) == Go(next) /\ UNCHANGED <<i, data>>
FailBlock == Fail /\ UNCHANGED <<i, data>>

\* The 32-bit address: high capacity cards count sectors, the others bytes.
Address == IF mx.type = "hc" THEN req.at ELSE (req.at * 512) % AddressSpace

SectorWait(at, next) ==
  /\ BlockStep(at)
  /\ Exchange(port, IdleLine(Card), LAMBDA r : IF r = "idle" THEN Continue(next) ELSE FailBlock, FailBlock)

SectorCommand(at, flow, next) ==
  /\ BlockStep(at)
  /\ i' = 1 /\ data' = <<>>
  /\ Exchange(port, Transfer(Card, Address, flow), LAMBDA r : IF r = "r0" THEN Go(next) ELSE Fail, Fail)

SectorToken ==
  /\ BlockStep("rd_token")
  /\ Exchange(port, StartToken(Card), LAMBDA r : IF r = "token" THEN Continue("rd_half") ELSE FailBlock, FailBlock)

\* Each half is taken as it comes, and the checksum is read but not checked.
SectorHalf ==
  /\ BlockStep("rd_half")
  /\ Exchange(port, SendHalf(Card),
       LAMBDA r : /\ data' = Append(data, r) /\ i' = i + 1
                  /\ Go(IF i = 2 THEN "rd_crc" ELSE "rd_half"),
       FailBlock)

SectorCrc ==
  /\ BlockStep("rd_crc")
  /\ Exchange(port, SendCrc(Card), LAMBDA r : Answer("ok", IoBlocks) /\ UNCHANGED <<i, data>>, FailBlock)

ReadSectorStep == \/ SectorWait("rd_wait", "rd_cmd") \/ SectorCommand("rd_cmd", "send", "rd_token")
                  \/ SectorToken \/ SectorHalf \/ SectorCrc

WriteToken ==
  /\ BlockStep("wr_token")
  /\ Exchange(port, TakeToken(Card), LAMBDA r : Continue("wr_half"), FailBlock)

WriteHalf ==
  /\ BlockStep("wr_half")
  /\ Exchange(port, TakeHalf(Card, req.w),
       LAMBDA r : /\ i' = i + 1 /\ UNCHANGED data
                  /\ Go(IF i = 2 THEN "wr_crc" ELSE "wr_half"),
       FailBlock)

WriteCrc ==
  /\ BlockStep("wr_crc")
  /\ Exchange(port, TakeCrc(Card), LAMBDA r : Continue("wr_response"), FailBlock)

MutWriteResponse ==
  /\ BlockStep("wr_response")
  /\ Exchange(port, DataResponse(Card), LAMBDA r : Continue("wr_busy"), FailBlock)

WriteResponse ==
  /\ BlockStep("wr_response")
  /\ Exchange(port, DataResponse(Card),
       LAMBDA r : IF r = "accepted" THEN Continue("wr_busy") ELSE FailBlock, FailBlock)

WriteBusy ==
  /\ BlockStep("wr_busy")
  /\ Exchange(port, IdleLine(Card),
       LAMBDA r : IF r = "idle" THEN Answer("ok", 0) /\ UNCHANGED <<i, data>> ELSE FailBlock, FailBlock)

WriteSectorStep == \/ SectorWait("wr_wait", "wr_cmd") \/ SectorCommand("wr_cmd", "recv", "wr_token")
                   \/ WriteToken \/ WriteHalf \/ WriteCrc \/ WriteResponse \/ WriteBusy
-----------------------------------------------------------------------------
(* MMCE.                                                                   *)

\* mmce_get_u16, mmce_set_packet: one exchange, whose answer is the result.
OneExchange(fns, answers) ==
  /\ BlockStep("mmce_one") /\ req.fn \in fns
  /\ Exchange(port, answers,
       LAMBDA r : Answer(IF r = "ok" THEN "ok" ELSE "error", req.at) /\ UNCHANGED <<i, data>>,
       FailBlock)

\* Status, card and channel; set card, set channel and set game id; close; seek.
MmceValue == OneExchange({"mmce_value"}, OneShot(Card))
MmceSet   == OneExchange({"mmce_set"}, OneShot(Card))
MmceClose == OneExchange({"mmce_close"}, CloseFile(Card))
MmceLseek == OneExchange({"mmce_lseek"}, SeekFile(Card, req.at))

OpenStep(at, answers, next) ==
  /\ BlockStep(at)
  /\ Exchange(port, answers, LAMBDA r : IF r = "ok" THEN Continue(next) ELSE FailBlock, FailBlock)

\* ef2_storage_backend_mmce_open; nothing is read back while the path is sent.
MmceOpenHeader == OpenStep("open_header", OpenFile(Card), "open_path")

MmceOpenPath ==
  /\ BlockStep("open_path")
  /\ Exchange(port, TakePath(Card), LAMBDA r : Continue("open_end"), FailBlock)

MmceOpenEnd ==
  /\ BlockStep("open_end")
  /\ Exchange(port, OpenEnd(Card),
       LAMBDA r : IF r = "ok" THEN Answer("ok", 0) /\ UNCHANGED <<i, data>> ELSE FailBlock, FailBlock)

MmceHeader(at, flow, next) ==
  /\ BlockStep(at)
  /\ i' = 0 /\ data' = <<>>
  /\ Exchange(port, FileHeader(Card, flow), LAMBDA r : IF r = "ok" THEN Go(next) ELSE Fail, Fail)

\* ef2_storage_backend_mmce_read: all of the size is fetched, padding included.
MmceReadBlock ==
  /\ BlockStep("read_block")
  /\ i < req.size
  /\ Exchange(port, SendBlock(Card),
       LAMBDA r : data' = Append(data, r) /\ i' = i + 1 /\ Go("read_block"),
       FailBlock)

MutMoved(n) == IF n > req.size \/ n < 0 THEN Answer("ok", req.size) ELSE Answer("ok", n)

\* The count in the footer: negative is an error, more than asked is clamped.
Moved(n) == IF n < 0 THEN Fail
            ELSE IF n > req.size THEN Answer("ok", req.size) ELSE Answer("ok", n)

MmceReadEnd ==
  /\ BlockStep("read_block")
  /\ i = req.size
  /\ Exchange(port, Footer(Card), LAMBDA r : Moved(r) /\ UNCHANGED <<i, data>>, FailBlock)

\* ef2_storage_backend_mmce_write: polls until the device is ready.  A line
\* nobody drives counts as ready.
MmceWriteReady ==
  /\ BlockStep("write_ready")
  /\ Exchange(port, FileReady(Card),
       LAMBDA r : \/ r # "wait" /\ i' = 0 /\ Go("write_block") /\ UNCHANGED data
                  \/ r = "wait" /\ i + 1 < ReadyPolls /\ i' = i + 1 /\ Go("write_ready") /\ UNCHANGED data
                  \/ r = "wait" /\ i + 1 = ReadyPolls /\ FailBlock,
       FailBlock)

MmceWriteBlock ==
  /\ BlockStep("write_block")
  /\ i < req.size
  /\ Exchange(port, TakeBlock(Card),
       LAMBDA r : i' = i + 1 /\ Go("write_block") /\ UNCHANGED data,
       FailBlock)

MmceWriteEnd ==
  /\ BlockStep("write_block")
  /\ i = req.size
  /\ Exchange(port, Footer(Card), LAMBDA r : Moved(r) /\ UNCHANGED <<i, data>>, FailBlock)

MmceStep == \/ MmceValue \/ MmceSet \/ MmceClose \/ MmceLseek
            \/ MmceOpenHeader \/ MmceOpenPath \/ MmceOpenEnd
            \/ MmceHeader("read_header", "read", "read_block") \/ MmceReadBlock \/ MmceReadEnd
            \/ MmceHeader("write_header", "write", "write_ready")
            \/ MmceWriteReady \/ MmceWriteBlock \/ MmceWriteEnd
-----------------------------------------------------------------------------
(* The RPC handler and the environment.                                    *)

\* device_at.
DeviceAt(index) == IF index < count THEN devices[index + 1] ELSE NoDevice

\* ef2_storage_backend_read_page and mc_read_page before the first exchange.
PageReadable(d, page) == d.pages > 0 /\ page < d.pages

\* ef2_storage_backend_read_sector, _write_sector and the first line of theirs.
SectorReachable(d, sector) == d.kind = "mx" /\ mx.ok /\ sector < mx.count

\* mmce_validate_device.
MmceValid(d) == d.kind = "mmce"

\* Where a request for device d starts, or "refused".
Entry(r, d) ==
  IF r.fn = "read_page" /\ PageReadable(d, r.at) /\ r.size \in 1..Chunks THEN "select"
  ELSE IF r.fn = "read_sector" /\ SectorReachable(d, r.at) THEN "rd_wait"
  ELSE IF r.fn = "write_sector" /\ SectorReachable(d, r.at) /\ r.size = IoBlocks THEN "wr_wait"
  ELSE IF r.fn \in ValueFns \cup {"mmce_close", "mmce_lseek"} /\ MmceValid(d) THEN "mmce_one"
  ELSE IF r.fn = "mmce_open" /\ MmceValid(d) THEN "open_header"
  ELSE IF r.fn = "mmce_read" /\ MmceValid(d) /\ r.size <= IoBlocks THEN "read_header"
  ELSE IF r.fn = "mmce_write" /\ MmceValid(d) /\ r.size <= IoBlocks THEN "write_header"
  ELSE "refused"

\* rpc_handler: a request is taken, answered at once, refused or begun.
RpcHandler(r) ==
  /\ pc = "idle"
  /\ req' = r
  /\ UNCHANGED mediaVars
  /\ \/ r.fn = "scan" /\ ScanBegin
     \/ /\ r.fn = "init" \/ (r.fn = "get_device" /\ DeviceAt(r.index).kind # "none")
        /\ Answer("ok", 0) /\ UNCHANGED <<tableVars, localVars>>
     \/ /\ r.fn \notin {"init", "scan"}
        /\ Entry(r, DeviceAt(r.index)) = "refused" /\ ~(r.fn = "get_device" /\ DeviceAt(r.index).kind # "none")
        /\ Fail /\ UNCHANGED <<tableVars, localVars>>
     \/ /\ Entry(r, DeviceAt(r.index)) # "refused"
        /\ info' = DeviceAt(r.index) /\ port' = info'.port
        /\ i' = 0 /\ data' = <<>>
        /\ Go(Entry(r, DeviceAt(r.index))) /\ UNCHANGED tableVars

ServiceStep == ScanStep \/ PageStep \/ ReadSectorStep \/ WriteSectorStep \/ MmceStep

\* The reply reaches the client; the handler is ready for the next request.
Returned == /\ pc = "replied"
            /\ pc' = "idle" /\ reply' = NoReply /\ req' = NoRequest
            /\ port' = 2 /\ info' = NoDevice /\ i' = 0 /\ data' = <<>>
            /\ UNCHANGED <<mediaVars, tableVars>>

\* A card is taken out, put in or replaced.
CardExchanged ==
  /\ faults < MaxFaults
  /\ faults' = faults + 1
  /\ \E p \in Ports : \E c \in Plugs(p, ports[5 - p]) :
       c.id # ports[p].id /\ ports' = [ports EXCEPT ![p] = c]
  /\ UNCHANGED <<tableVars, pc, req, localVars, reply>>

ServiceInit ==
  /\ ports \in [Ports -> AllCards] /\ \A p \in Ports : ports[p] \in Plugs(p, ports[5 - p])
  /\ devices = <<>> /\ count = 0
  /\ mx = [ok |-> FALSE, type |-> "sc", count |-> 0, torn |-> FALSE]
  /\ pc = "idle" /\ req = NoRequest
  /\ port = 2 /\ info = NoDevice /\ i = 0 /\ data = <<>>
  /\ reply = NoReply
  /\ faults = 0

ServiceNext == (\E r \in Requests : RpcHandler(r)) \/ ServiceStep \/ Returned \/ CardExchanged

ServiceSpec == ServiceInit /\ [][ServiceNext]_serviceVars
-----------------------------------------------------------------------------
\* A page that was read with success is the page asked for, all its chunks in
\* order and all of one card, whatever was lost or exchanged on the way.
PageIsAsked ==
  pc = "replied" /\ req.fn = "read_page" /\ reply.result = "ok"
    => \E c \in MemoryCards \cup Emulators :
         data = [k \in 1..Chunks |-> <<c, req.at, k - 1>>]

\* Sector requests go by globals, the client by the table.  An SD card that is
\* listed is the one the globals describe, whatever was lost or exchanged.  If
\* the last initialisation began with a card between two commands, its sectors
\* are counted right and a card that is ready to take sector commands is
\* addressed in its own unit; a card still sending a block can pass CMD0
\* without a reset and be taken for one of another type and size.
ListedIsKnown == \A k \in 1..count : devices[k].kind = "mx" => mx.ok /\ mx.count = devices[k].sectors
GlobalsFit ==
  /\ ListedIsKnown
  /\ mx.ok /\ ~mx.torn => /\ mx.count = SectorCount
                          /\ ports[MxPort].level = 2 => (mx.type = "hc" <=> ports[MxPort].id = "hc")
=============================================================================
