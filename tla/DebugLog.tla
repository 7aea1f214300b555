------------------------------ MODULE DebugLog ------------------------------
(***************************************************************************)
(* The debug log of the EE (src/ee/runtime/debug_log.c), the stdio layer   *)
(* that writes to it (libc_stdio.c) and its serial mirror                  *)
(* (src/ee/kernel/debug_sio.c).                                            *)
(*                                                                         *)
(* One step handles one byte.  An access fault at a byte of the caller's   *)
(* data enters the crash handler, which logs and never resumes.            *)
(***************************************************************************)
EXTENDS Integers, Sequences

CONSTANTS RingBytes,  \* EF2_DEBUG_RING_BYTES
          MaxTotal,   \* 2^32 - 1 in the code: where g_total_bytes saturates
          Others,     \* bytes that are neither CR nor LF
          MaxMessage, \* bound: bytes of a message, or of a part of a printf
          Capacities  \* buffer sizes ef2_debug_copy_recent is called with

CR   == 13
LF   == 10
Byte == Others \cup {CR, LF}

ASSUME DebugAssumption ==
  /\ RingBytes \in Nat \ {0} /\ MaxTotal \in Nat
  /\ Others \subseteq Nat \ {0, CR, LF}
  /\ MaxMessage \in Nat
  /\ Capacities \subseteq Nat \ {0}

\* What callers write.
Messages == UNION {[1 .. n -> Byte] : n \in 0 .. MaxMessage}

VARIABLES
  ring, head, used, total,  \* g_debug_ring, g_ring_head, g_ring_used, g_total_bytes
  sio_active, sio_failures, \* the globals of those names
  last_output,              \* g_last_output, 0 if there was none
  stdout,                   \* where the streams lead: "none", "sink" or "sio"
  \* the write in progress: its step, its data, the next byte, what
  \* ef2_debug_printf prints after it, and what it is about to return
  pc, data, i, rest, result,
  \* modelling state: the crash handler has been entered; memory ran out in this
  \* call; the last two bytes on the serial line; the mirrored bytes, as a window
  crashed, no_memory, line, mirror

ringVars  == <<ring, head, used, total>>
sioVars   == <<sio_active, sio_failures, last_output, line, mirror>>
callVars  == <<pc, data, i, rest, result, no_memory>>
vars == <<ringVars, sioVars, callVars, stdout, crashed>>

Cleared == /\ ring' = [k \in 0 .. RingBytes - 1 |-> 0]
           /\ head' = 0 /\ used' = 0 /\ total' = 0
           /\ mirror' = <<>>

Init ==
  /\ ring = [k \in 0 .. RingBytes - 1 |-> 0]
  /\ head = 0 /\ used = 0 /\ total = 0
  /\ sio_active = FALSE /\ sio_failures = 0 /\ last_output = 0
  /\ stdout = "none"
  /\ pc = "idle" /\ data = <<>> /\ i = 1 /\ rest = <<>> /\ result = 0
  /\ crashed = FALSE /\ no_memory = FALSE /\ line = <<>> /\ mirror = <<>>

\* The newest n bytes, oldest first.
Recent(n) == [k \in 1 .. n |-> ring[(head + RingBytes - n + k - 1) % RingBytes]]

W == INSTANCE LogWindow WITH Size <- RingBytes, window <- Recent(used)
-----------------------------------------------------------------------------
(* Initialisation, by an application that is not writing.                  *)

Free == pc = "idle" /\ ~crashed

ef2_debug_reset ==
  /\ Free
  /\ Cleared
  /\ sio_active' = FALSE /\ sio_failures' = 0
  /\ UNCHANGED <<last_output, line, callVars, stdout, crashed>>

\* ef2_debug_sio_init succeeds if the baud rate has a divisor.
ef2_debug_init ==
  /\ Free
  /\ Cleared
  /\ \/ sio_active' = TRUE /\ sio_failures' = 0 /\ last_output' = 0
     \/ sio_active' = FALSE /\ sio_failures' = 1 /\ UNCHANGED last_output
  /\ stdout' = "sink"
  /\ UNCHANGED <<line, callVars, crashed>>

\* Without a divisor it changes nothing.
ef2_debug_use_sio_stdio ==
  /\ Free
  /\ stdout' = "sio" /\ last_output' = 0
  /\ UNCHANGED <<ringVars, sio_active, sio_failures, line, mirror, callVars, crashed>>
-----------------------------------------------------------------------------
(* Writing.                                                                *)

\* The parts of a printf: a prefix, and a body or the notice that it was cut.
ef2_debug_printf(prefix, body) ==
  /\ Free
  /\ pc' = "format" /\ data' = prefix /\ rest' = <<body>>
  /\ i' = 1 /\ result' = 0 /\ no_memory' = FALSE
  /\ UNCHANGED <<ringVars, sioVars, stdout, crashed>>

\* By the application or the crash handler.
ef2_debug_write_raw(message) ==
  /\ pc = "idle"
  /\ pc' = "raw" /\ data' = message /\ rest' = <<>>
  /\ i' = 1 /\ result' = 0 /\ no_memory' = FALSE
  /\ UNCHANGED <<ringVars, sioVars, stdout, crashed>>

\* A part has been written, or could not be: the next one, or the return.
PartDone(status) ==
  /\ result' = IF status < 0 THEN -1 ELSE result
  /\ IF rest = <<>> THEN pc' = "idle" /\ data' = <<>> /\ UNCHANGED rest
     ELSE pc' = "format" /\ data' = rest[1] /\ rest' = <<>>
  /\ i' = 1

\* vfprintf formats a part, in a buffer of the heap if it is long, and write_all
\* hands it to the stream.
vfprintf ==
  /\ pc = "format"
  /\ \/ no_memory' = TRUE /\ PartDone(-1)
     \/ /\ UNCHANGED no_memory
        /\ IF data = <<>> /\ stdout # "none" THEN PartDone(0)
           ELSE IF stdout = "none" THEN PartDone(-1)
           ELSE /\ pc' = IF stdout = "sink" THEN "sink" ELSE "direct"
                /\ UNCHANGED <<data, i, rest, result>>
  /\ UNCHANGED <<ringVars, sioVars, stdout, crashed>>

MutRingOneShort(b) ==
  /\ ring' = [ring EXCEPT ![head] = b]
  /\ head' = (head + 1) % RingBytes
  /\ used' = IF used + 1 < RingBytes THEN used + 1 ELSE used
  /\ total' = IF total # MaxTotal THEN total + 1 ELSE total

MutRingUsedWraps(b) ==
  /\ ring' = [ring EXCEPT ![head] = b]
  /\ head' = (head + 1) % RingBytes
  /\ used' = used + 1
  /\ total' = IF total # MaxTotal THEN total + 1 ELSE total

\* ring_write, one byte.
RingWrite(b) ==
  /\ ring' = [ring EXCEPT ![head] = b]
  /\ head' = (head + 1) % RingBytes
  /\ used' = IF used < RingBytes THEN used + 1 ELSE used
  /\ total' = IF total # MaxTotal THEN total + 1 ELSE total

RingByte ==
  /\ pc \in {"raw", "sink"} /\ i <= Len(data)
  /\ RingWrite(data[i])
  /\ i' = i + 1
  /\ UNCHANGED <<sioVars, pc, data, rest, result, no_memory, stdout, crashed>>

MutCopyOldest(capacity) ==
  LET count == IF used >= capacity THEN capacity - 1 ELSE used
      start == (head + RingBytes - used) % RingBytes
  IN  [k \in 1 .. count |-> ring[(start + k - 1) % RingBytes]]

\* ef2_debug_copy_recent, as it computes where to start.
copy_recent(capacity) ==
  LET count == IF used >= capacity THEN capacity - 1 ELSE used
      start == IF count < used THEN (head + RingBytes - count) % RingBytes
               ELSE (head + RingBytes - used) % RingBytes
  IN  [k \in 1 .. count |-> ring[(start + k - 1) % RingBytes]]

\* The caller's pointer faults: the rest is not written.
Fault ==
  /\ pc = "raw" /\ i <= Len(data) /\ ~crashed
  /\ crashed' = TRUE /\ pc' = "idle" /\ data' = <<>> /\ i' = 1
  /\ UNCHANGED <<ringVars, sioVars, stdout, rest, result, no_memory>>

\* The bytes are in the log; the serial side is next, if it works.
RingDone ==
  /\ pc \in {"raw", "sink"} /\ i > Len(data)
  /\ IF sio_active THEN pc' = "mirror" /\ i' = 1 /\ UNCHANGED <<data, rest, result>>
     ELSE PartDone(0)
  /\ UNCHANGED <<ringVars, sioVars, no_memory, stdout, crashed>>
-----------------------------------------------------------------------------
(* ef2_debug_sio_write, for the log ("mirror") or for a stream ("direct"). *)

\* A byte enters the transmitter.
Put(b) == /\ last_output' = b
          /\ line' = IF line = <<>> THEN <<b>> ELSE <<line[Len(line)], b>>

NeedsCR == data[i] = LF /\ last_output # CR

\* A line feed is preceded by a carriage return.
NextByte == IF NeedsCR THEN Put(CR) /\ UNCHANGED <<i, mirror>>
            ELSE /\ Put(data[i])
                 /\ i' = i + 1
                 /\ mirror' = IF pc = "mirror" THEN W!Shifted(mirror, data[i]) ELSE mirror

SerialByte ==
  /\ pc \in {"mirror", "direct"} /\ i <= Len(data)
  /\ NextByte
  /\ UNCHANGED <<ringVars, sio_active, sio_failures, pc, data, rest, result, no_memory, stdout, crashed>>

SerialDone ==
  /\ pc \in {"mirror", "direct"} /\ i > Len(data)
  /\ PartDone(0)
  /\ UNCHANGED <<ringVars, sioVars, no_memory, stdout, crashed>>

MutTimeoutKeepsActive ==
  /\ sio_failures' = IF pc = "mirror" THEN 1 ELSE sio_failures
  /\ PartDone(IF pc = "mirror" THEN 0 ELSE -1)
  /\ UNCHANGED sio_active

\* The mirror is given up after a timeout, and the write has succeeded all the
\* same; a write to the line alone has failed.
TimedOut ==
  /\ sio_active' = (sio_active /\ pc # "mirror")
  /\ sio_failures' = IF pc = "mirror" THEN sio_failures + 1 ELSE sio_failures
  /\ PartDone(IF pc = "mirror" THEN 0 ELSE -1)

\* The transmitter stays busy.
SerialTimeout ==
  /\ pc \in {"mirror", "direct"} /\ i <= Len(data)
  /\ TimedOut
  /\ UNCHANGED <<ringVars, last_output, line, mirror, no_memory, stdout, crashed>>
-----------------------------------------------------------------------------
Next ==
  \/ ef2_debug_reset \/ ef2_debug_init \/ ef2_debug_use_sio_stdio
  \/ \E m \in Messages : ef2_debug_write_raw(m) \/ \E n \in Messages : ef2_debug_printf(m, n)
  \/ vfprintf
  \/ RingByte \/ Fault \/ RingDone
  \/ SerialByte \/ SerialDone \/ SerialTimeout

Spec == Init /\ [][Next]_vars
-----------------------------------------------------------------------------
(* Properties.                                                             *)

RingType == /\ ring \in [0 .. RingBytes - 1 -> Byte \cup {0}]
            /\ head \in 0 .. RingBytes - 1 /\ used \in 0 .. RingBytes /\ total \in 0 .. MaxTotal
StatusType == sio_active \in BOOLEAN /\ sio_failures \in (IF sio_active THEN {0} ELSE {0, 1})
LineType == last_output \in Byte \cup {0} /\ line \in Seq(Byte) /\ mirror \in Seq(Byte)
PartType == /\ data \in Seq(Byte) /\ i \in 1 .. Len(data) + 1
            /\ rest \in Seq(Seq(Byte)) /\ Len(rest) <= 1 /\ result \in {0, -1}
CallType == /\ pc \in {"idle", "format", "raw", "sink", "mirror", "direct"}
            /\ stdout \in {"none", "sink", "sio"}
            /\ crashed \in BOOLEAN /\ no_memory \in BOOLEAN

\* Type invariant. The indices stay in the ring, and the serial side either works
\* or has failed at most once since it was set up.
TypeOK == RingType /\ StatusType /\ LineType /\ PartType /\ CallType

\* The ring is the window of the newest bytes written, whole or cut by a fault,
\* wherever it has wrapped to.
ImplementsWindow == W!WindowSpec

\* A reader gets the newest bytes in order, as many as its buffer has room for
\* besides the terminator, at any point of a write: also the crash screen, after
\* a fault in the middle of one.
CopiesNewest ==
  \A capacity \in Capacities :
    LET n == IF used < capacity THEN used ELSE capacity - 1
    IN  copy_recent(capacity) = SubSeq(Recent(used), used - n + 1, used)

\* While the mirror works, and until a fault, it shows the bytes of the log,
\* each once and in order.
MirrorInStep == sio_active /\ pc = "idle" /\ ~crashed => mirror = Recent(used)

\* A line feed on the line comes right after a carriage return, whoever wrote what
\* before and whatever timed out.
LinesReturn == line # <<>> /\ line[Len(line)] = LF => Len(line) = 2 /\ line[1] = CR

\* Logging never turns a missing or failing serial interface into an error: with
\* the sink installed, a call that fails ran out of memory.
SerialIsOptional ==
  [][pc # "idle" /\ pc' = "idle" /\ stdout = "sink" /\ result' = -1 => no_memory']_vars
=============================================================================
