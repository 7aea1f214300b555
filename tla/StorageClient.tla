---------------------------- MODULE StorageClient ----------------------------
(***************************************************************************)
(* The storage client of the EE (src/ee/storage/storage.c) over the IOP    *)
(* service: operations that take several requests, and what the caller     *)
(* sees of a failure in the middle.  The requests of one program are       *)
(* serialized, as docs/STORAGE.md asks.                                    *)
(***************************************************************************)
EXTENDS StorageService

CONSTANTS MaxCount \* largest count or size an operation asks for

ASSUME ClientAssumption == MaxCount \in Nat

VARIABLES
  bound,            \* g_storage_bound
  known,            \* g_storage_device_count
  epc, op,          \* the caller: position and operation
  done, dest,       \* progress of the operation, its buffer
  result,           \* what it returned
  began             \* modelling state: the cards and the faults when it began

clientVars == <<bound, known, epc, op, done, dest, result, began>>
vars == <<serviceVars, clientVars>>

NoOp == NoRequest
Operations ==
  [fn : {"init", "scan"}, index : {0}, at : {0}, size : {0}, w : {0}]
  \cup [fn : {"get_device", "mmce_value", "mmce_set", "mmce_open", "mmce_close"}, index : 0..1,
         at : {0}, size : {0}, w : {0}]
  \cup [fn : {"read_page"}, index : 0..1, at : 0..2, size : {Chunks}, w : {0}]
  \cup [fn : {"read_sector"}, index : 0..1, at : 0..SectorCount, size : 1..MaxCount, w : {0}]
  \cup [fn : {"write_sector"}, index : 0..1, at : 0..SectorCount, size : 1..MaxCount, w : {1}]
  \cup [fn : {"mmce_lseek"}, index : 0..1, at : 0..FileSize, size : {0}, w : {0}]
  \cup [fn : {"mmce_read", "mmce_write"}, index : 0..1, at : {0}, size : 1..MaxCount, w : {0}]

Moves   == {"mmce_read", "mmce_write"}
Blocks  == {"read_sector", "write_sector"}
Looping == Moves \cup Blocks
-----------------------------------------------------------------------------
\* What an operation leaves with its caller.
Finish(r) == epc' = "returned" /\ result' = r

\* The arguments each function refuses before it makes a request.
Refused(o) ==
  \/ o.fn \notin {"init", "scan"} /\ ~bound
  \/ o.fn = "get_device" /\ o.index >= known

\* A call of the API: refused, or its first request is due.  ef2_storage_init
\* does nothing when bound; ef2_storage_scan initialises when it is not.
Begin(o) ==
  /\ epc = "idle"
  /\ op' = o /\ done' = 0 /\ dest' = <<>>
  /\ began' = [ports |-> ports, faults |-> faults]
  /\ \/ Refused(o) /\ Finish("error")
     \/ o.fn = "init" /\ bound /\ Finish("ok")
     \/ /\ ~Refused(o) /\ (o.fn # "init" \/ ~bound)
        /\ epc' = (IF bound THEN "call" ELSE "init") /\ UNCHANGED result
  /\ UNCHANGED <<serviceVars, bound, known>>

\* ef2_storage_init up to the INIT request: the module is loaded and bound, or not.
Initialise ==
  /\ epc = "init"
  /\ \/ bound' = TRUE /\ epc' = "init_call" /\ UNCHANGED result
     \/ bound' = FALSE /\ Finish("error")
  /\ UNCHANGED <<serviceVars, known, op, done, dest, began>>

\* The part of a transfer that the next request asks for.
Piece == IF op.size - done > IoBlocks THEN IoBlocks ELSE op.size - done

\* The requests of a sector transfer and of a file transfer; the operations of
\* one request pass their arguments on.
SectorRequest == [op EXCEPT !.size = IoBlocks, !.at = @ + done]
FileRequest   == [op EXCEPT !.size = Piece]
OneRequest    == op

\* What storage_rpc sends.
RequestOf == IF epc = "init_call" THEN NoRequest
             ELSE IF op.fn \in Moves THEN FileRequest
             ELSE IF op.fn \in Blocks THEN SectorRequest
             ELSE OneRequest

Call ==
  /\ epc \in {"call", "init_call"}
  /\ RpcHandler(RequestOf)
  /\ epc' = (IF epc = "call" THEN "wait" ELSE "init_wait")
  /\ UNCHANGED <<bound, known, op, done, dest, result, began>>

\* Part of the operation is done: a failure now is a short success.
Partly == IF op.fn \in Looping /\ done > 0 THEN "ok" ELSE "error"

\* ef2_sif_call fails before the request is sent.  (A call that times out after
\* that also fails, and its answer still comes, see SifRpc; not modelled here.)
CallFails ==
  /\ faults < MaxFaults /\ faults' = faults + 1
  /\ \/ epc = "call" /\ Finish(Partly) /\ UNCHANGED bound
     \/ epc = "init_call" /\ bound' = FALSE /\ Finish("error")
  /\ UNCHANGED <<ports, tableVars, pc, req, localVars, reply, known, op, done, dest, began>>

\* The INIT request of ef2_storage_init was answered; a scan goes on.
InitDone ==
  /\ epc = "init_wait"
  /\ Returned
  /\ known' = count
  /\ \/ op.fn = "scan" /\ epc' = "call" /\ UNCHANGED result
     \/ op.fn # "scan" /\ Finish("ok")
  /\ UNCHANGED <<bound, op, done, dest, began>>

MutStopsShort(n) == done' < op.size

MutOneMore(n) == done' <= op.size /\ (op.fn \in Blocks \/ n = Piece)

\* ef2_storage_mmce_read and _write stop at a short piece.
GoesOn(n) == done' < op.size /\ (op.fn \in Blocks \/ n = Piece)

\* What the caller's buffer and count get from an answer.
PageTaken    == dest' = dest \o data /\ done' = done
SectorsTaken == /\ dest' = IF op.fn = "read_sector" THEN dest \o data ELSE dest
                /\ done' = done + 1
FileTaken(n) == /\ dest' = IF op.fn = "mmce_read" THEN dest \o SubSeq(data, 1, n) ELSE dest
                /\ done' = done + n

\* A request was answered with success: its data is taken, and the next one
\* follows if the operation is not complete.
Taken ==
  /\ epc = "wait" /\ reply.result = "ok"
  /\ Returned
  /\ known' = count
  /\ \/ op.fn \in Moves /\ FileTaken(reply.value)
     \/ op.fn \in Blocks /\ SectorsTaken
     \/ op.fn = "read_page" /\ PageTaken
     \/ op.fn \notin Looping \cup {"read_page"} /\ UNCHANGED <<dest, done>>
  /\ \/ op.fn \in Looping /\ GoesOn(reply.value) /\ epc' = "call" /\ UNCHANGED result
     \/ ~(op.fn \in Looping /\ GoesOn(reply.value)) /\ Finish("ok")
  /\ UNCHANGED <<bound, op, began>>

\* A request was answered with an error.
Refusal ==
  /\ epc = "wait" /\ reply.result = "error"
  /\ Returned
  /\ known' = count
  /\ Finish(Partly)
  /\ UNCHANGED <<bound, op, done, dest, began>>

\* The caller goes on with something else.
Leave ==
  /\ epc = "returned" /\ epc' = "idle"
  /\ op' = NoOp /\ done' = 0 /\ dest' = <<>> /\ result' = "none"
  /\ began' = [ports |-> <<>>, faults |-> 0]
  /\ UNCHANGED <<serviceVars, bound, known>>

Init == /\ ServiceInit
        /\ bound = FALSE /\ known = 0
        /\ epc = "idle" /\ op = NoOp /\ done = 0 /\ dest = <<>> /\ result = "none"
        /\ began = [ports |-> <<>>, faults |-> 0]

CallerStep == Initialise \/ Call \/ InitDone \/ Taken \/ Refusal \/ Leave

Next == \/ \E o \in Operations : Begin(o)
        \/ CallerStep
        \/ CallFails
        \/ (ServiceStep \/ CardExchanged) /\ UNCHANGED clientVars

\* The caller waits while the service works, so one of the two threads has
\* something to do at a time, and it does it; faults need not happen.
Spec == /\ Init /\ [][Next]_vars
        /\ WF_vars(CallerStep \/ (ServiceStep /\ UNCHANGED clientVars))
-----------------------------------------------------------------------------
\* Every variable keeps its type; a transfer never counts beyond its size.
TypeOK ==
  /\ count \in 0 .. Len(devices) /\ Len(devices) <= 2
  /\ i \in 0 .. Chunks + IoBlocks + ReadyPolls + 2 /\ Len(data) <= i
  /\ bound \in BOOLEAN /\ known \in 0..2
  /\ done \in 0 .. MaxCount /\ (op.fn \in Moves \cup Blocks => done <= op.size)

Undisturbed == /\ epc = "returned" /\ faults = began.faults
               /\ \A p \in Ports : began.ports[p].flow = "quiet"

Listed(p) == LET k == began.ports[p].kind
             IN IF k \in {"mc", "mmce"} THEN <<[kind |-> k, port |-> p]>>
                ELSE IF k = "sd" /\ p = MxPort THEN <<[kind |-> "mx", port |-> p]>>
                ELSE <<>>

\* A scan that nothing disturbs lists exactly the devices that are plugged in,
\* each as what it is, and the caller knows how many.
ScanFaithful ==
  Undisturbed /\ op.fn = "scan" /\ result = "ok"
    => /\ [k \in 1..count |-> [kind |-> devices[k].kind, port |-> devices[k].port]] = Listed(2) \o Listed(3)
       /\ known = count

\* The card was initialised between two commands, and its addresses fit 32 bits.
Addressable == ~mx.torn /\ (ports[MxPort].id = "hc" \/ SectorCount * 512 <= AddressSpace)

\* The sectors an undisturbed read or write reports are those asked for, in
\* order, and no other sector changes: only the one a write failed at may.  This
\* holds for the cards Addressable names, as long as no earlier call timed out
\* after it was sent, whose answer could come in place of this one's.
SectorsAsAsked ==
  Undisturbed /\ Addressable /\ op.fn \in Blocks /\ done > 0
    => LET old == began.ports[MxPort].disk
           new == ports[MxPort].disk
           Half(k) == LET s == op.at + ((k - 1) \div 2)
                          h == 1 + ((k - 1) % 2)
                      IN <<ports[MxPort].id, s, h, old[s][h]>>
       IN /\ op.fn = "read_sector" => dest = [k \in 1 .. 2 * done |-> Half(k)] /\ new = old
          /\ op.fn = "write_sector" =>
               \A s \in Sectors :
                 IF s - op.at \in 0 .. done - 1 THEN new[s] = <<op.w, op.w>>
                 ELSE new[s] = old[s] \/ (s - op.at = done /\ done < op.size)

\* Whatever exchange is lost and whatever card exchanged, the blocks a file read
\* reports are one after the other in one file; undisturbed, the file position
\* moves by what the caller was told.  As above, no earlier call's answer is late.
FileInOrder ==
  epc = "returned" /\ op.fn \in Moves /\ result = "ok"
    => /\ op.fn = "mmce_read" =>
            /\ Len(dest) = done
            /\ \A k \in 1..done : /\ dest[k] # <<>>
                                  /\ dest[k] = <<dest[1][1], dest[1][2] + k - 1>>
       /\ Undisturbed => \E p \in Ports :
            /\ began.ports[p].kind = "mmce"
            /\ ports[p].file = began.ports[p].file + done

\* Every operation returns: each loop of client and service ends.
EveryOperationReturns == epc \notin {"idle", "returned"} ~> epc = "returned"
=============================================================================
