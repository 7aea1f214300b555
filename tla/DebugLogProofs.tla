--------------------------- MODULE DebugLogProofs ---------------------------
(***************************************************************************)
(* Theorems about DebugLog for every size of ring, message and buffer.     *)
(***************************************************************************)
EXTENDS DebugLog, TLAPS

Cells == 0 .. RingBytes - 1

\* A mirrored write began with the serial side working, and only a timeout, which
\* ends it, changes that.
Inv == TypeOK /\ (pc = "mirror" => sio_active)

LEMMA MessageType == ASSUME NEW m \in Messages PROVE m \in Seq(Byte)
  BY DEF Messages

\* Starting and finishing a part keep the locals of a write of their types.
LEMMA PartDoneType ==
  ASSUME PartType, NEW status \in Int, PartDone(status)
  PROVE  PartType' /\ pc' \in {"idle", "format"}
  <1>1. CASE rest = <<>>
    BY <1>1 DEF PartDone, PartType
  <1>2. CASE rest # <<>>
    <2>1. rest[1] \in Seq(Byte)
      BY <1>2 DEF PartType
    <2> QED BY <1>2, <2>1 DEF PartDone, PartType
  <1> QED BY <1>1, <1>2

LEMMA BeginType ==
  ASSUME NEW d \in Seq(Byte), NEW r \in Seq(Seq(Byte)), Len(r) <= 1,
         data' = d, rest' = r, i' = 1, result' = 0
  PROVE  PartType'
  BY DEF PartType

LEMMA ClearedType == ASSUME Cleared PROVE RingType' /\ mirror' \in Seq(Byte)
  BY DebugAssumption DEF Cleared, RingType

LEMMA InitInv == Init => Inv
  <1> SUFFICES ASSUME Init PROVE Inv
    OBVIOUS
  <1>1. RingType
    BY DebugAssumption DEF Init, RingType
  <1>2. PartType
    BY DEF Init, PartType
  <1>3. StatusType
    BY DEF Init, StatusType
  <1>4. LineType
    BY DEF Init, LineType
  <1>5. CallType
    BY DEF Init, CallType
  <1> QED BY <1>1, <1>2, <1>3, <1>4, <1>5 DEF Inv, TypeOK, Init

\* Every step keeps the types (debug_log.c, debug_sio.c, libc_stdio.c).
LEMMA NextInv == Inv /\ [Next]_vars => Inv'
  <1> SUFFICES ASSUME Inv, [Next]_vars PROVE Inv'
    OBVIOUS
  <1> USE DEF Inv, TypeOK
  \* Each part survives a step that leaves its variables alone.
  <1>a. UNCHANGED ringVars => RingType'
    BY DEF ringVars, RingType
  <1>b. UNCHANGED <<sio_active, sio_failures>> => StatusType'
    BY DEF StatusType
  <1>c. UNCHANGED <<last_output, line, mirror>> => LineType'
    BY DEF LineType
  <1>d. UNCHANGED <<data, i, rest, result>> => PartType'
    BY DEF PartType
  <1>1. CASE UNCHANGED vars
    BY <1>1, <1>a, <1>b, <1>c, <1>d DEF vars, sioVars, callVars, CallType
  <1>2. CASE ef2_debug_reset
    <2>1. StatusType' /\ LineType' /\ CallType'
      BY <1>2, ClearedType DEF ef2_debug_reset, callVars, StatusType, LineType, CallType
    <2> QED BY <1>2, <1>d, <2>1, ClearedType DEF ef2_debug_reset, Free, callVars
  <1>3. CASE ef2_debug_init
    <2>1. StatusType'
      BY <1>3 DEF ef2_debug_init, StatusType
    <2>2. LineType' /\ CallType'
      BY <1>3, ClearedType DEF ef2_debug_init, callVars, LineType, CallType
    <2> QED BY <1>3, <1>d, <2>1, <2>2, ClearedType DEF ef2_debug_init, Free, callVars
  <1>4. CASE ef2_debug_use_sio_stdio
    <2>1. LineType' /\ CallType'
      BY <1>4 DEF ef2_debug_use_sio_stdio, callVars, LineType, CallType
    <2> QED BY <1>4, <1>a, <1>b, <1>d, <2>1 DEF ef2_debug_use_sio_stdio, Free, callVars
  <1>5. ASSUME NEW m \in Messages, ef2_debug_write_raw(m) PROVE Inv'
    <2>1. PartType'
      <3>1. <<>> \in Seq(Seq(Byte)) /\ Len(<<>>) <= 1
        OBVIOUS
      <3>2. m \in Seq(Byte) /\ data' = m /\ rest' = <<>> /\ i' = 1 /\ result' = 0
        BY <1>5, MessageType DEF ef2_debug_write_raw
      <3> QED BY ONLY <3>1, <3>2, BeginType
    <2>2. CallType'
      BY <1>5 DEF ef2_debug_write_raw, CallType
    <2> QED BY <1>5, <1>a, <1>b, <1>c, <2>1, <2>2 DEF ef2_debug_write_raw, sioVars
  <1>6. ASSUME NEW m \in Messages, NEW n \in Messages, ef2_debug_printf(m, n) PROVE Inv'
    <2>1. m \in Seq(Byte) /\ n \in Seq(Byte)
      BY MessageType
    <2>2. <<n>> \in Seq(Seq(Byte)) /\ Len(<<n>>) = 1
      BY <2>1
    <2>3. PartType'
      <3>1. data' = m /\ rest' = <<n>> /\ i' = 1 /\ result' = 0
        BY <1>6 DEF ef2_debug_printf
      <3>2. Len(<<n>>) <= 1
        BY <2>2
      <3> QED BY ONLY <2>1, <2>2, <3>1, <3>2, BeginType
    <2>4. CallType'
      BY <1>6 DEF ef2_debug_printf, CallType
    <2> QED BY <1>6, <1>a, <1>b, <1>c, <2>3, <2>4 DEF ef2_debug_printf, sioVars
  <1>7. CASE vfprintf
    <2>1. PartType' /\ pc' \in {"idle", "format", "sink", "direct"}
      BY <1>7, <1>d, PartDoneType DEF vfprintf
    <2>2. CallType'
      BY <1>7, <2>1 DEF vfprintf, CallType
    <2> QED BY <1>7, <1>a, <1>b, <1>c, <2>1, <2>2 DEF vfprintf, sioVars
  <1>8. CASE RingByte
    <2>1. data[i] \in Byte
      BY <1>8 DEF RingByte, PartType
    <2>2. RingType'
      BY <1>8, <2>1, DebugAssumption DEF RingByte, RingWrite, RingType
    <2>3. PartType'
      BY <1>8 DEF RingByte, PartType
    <2>4. CallType'
      BY <1>8 DEF RingByte, CallType
    <2> QED BY <1>8, <1>b, <1>c, <2>2, <2>3, <2>4 DEF RingByte, sioVars
  <1>9. CASE Fault
    <2>1. PartType'
      BY <1>9 DEF Fault, PartType
    <2>2. CallType'
      BY <1>9 DEF Fault, CallType
    <2> QED BY <1>9, <1>a, <1>b, <1>c, <2>1, <2>2 DEF Fault, sioVars
  <1>10. CASE RingDone
    <2>1. PartType' /\ pc' \in {"idle", "format", "mirror"} /\ (pc' = "mirror" => sio_active)
      BY <1>10, PartDoneType DEF RingDone, PartType
    <2>2. CallType'
      BY <1>10, <2>1 DEF RingDone, CallType
    <2> QED BY <1>10, <1>a, <1>b, <1>c, <2>1, <2>2 DEF RingDone, sioVars
  <1>11. CASE SerialByte
    <2>1. data[i] \in Byte /\ CR \in Byte
      BY <1>11 DEF SerialByte, PartType, Byte
    <2>2. ASSUME NEW b \in Byte, Put(b)
          PROVE  last_output' \in Byte \cup {0} /\ line' \in Seq(Byte)
      <3>1. line # <<>> => line[Len(line)] \in Byte
        BY DEF LineType
      <3> QED BY <2>2, <3>1 DEF Put
    <2>3. W!Shifted(mirror, data[i]) \in Seq(Byte)
      <3>1. CASE Len(mirror) < RingBytes
        BY <2>1, <3>1 DEF W!Shifted, LineType
      <3>2. CASE ~(Len(mirror) < RingBytes)
        <4>1. mirror \in Seq(Byte) /\ mirror # <<>>
          BY <3>2, DebugAssumption DEF LineType
        <4>2. Tail(mirror) \in Seq(Byte)
          BY <4>1
        <4> QED BY <2>1, <3>2, <4>2 DEF W!Shifted
      <3> QED BY <3>1, <3>2
    <2>4. LineType' /\ PartType'
      BY <1>11, <2>1, <2>2, <2>3 DEF SerialByte, NextByte, LineType, PartType
    <2>5. CallType'
      BY <1>11 DEF SerialByte, CallType
    <2> QED BY <1>11, <1>a, <1>b, <2>4, <2>5 DEF SerialByte
  <1>12. CASE SerialDone
    <2>1. CallType'
      BY <1>12, PartDoneType DEF SerialDone, CallType
    <2> QED BY <1>12, <1>a, <1>b, <1>c, <2>1, PartDoneType DEF SerialDone, sioVars
  <1>13. CASE SerialTimeout
    <2>1. PartType' /\ pc' \in {"idle", "format"}
      BY <1>13, PartDoneType DEF SerialTimeout, TimedOut
    <2>2. CASE pc = "mirror"
      <3>1. sio_active /\ sio_failures = 0
        BY <2>2 DEF StatusType
      <3>2. StatusType'
        <4>1. ~sio_active' /\ sio_active' \in BOOLEAN
          BY <1>13, <2>2 DEF SerialTimeout, TimedOut
        <4>2. sio_failures' = 1
          BY <1>13, <2>2, <3>1 DEF SerialTimeout, TimedOut
        <4> QED BY <4>1, <4>2 DEF StatusType
      <3>3. CallType'
        BY <1>13, <2>1 DEF SerialTimeout, CallType
      <3> QED BY <1>13, <2>1, <3>2, <3>3, <1>a, <1>c DEF SerialTimeout
    <2>3. CASE pc # "mirror"
      <3>1. sio_active' = sio_active /\ sio_failures' = sio_failures
        BY <1>13, <2>3 DEF SerialTimeout, TimedOut, StatusType
      <3> QED BY <1>13, <2>1, <3>1, <1>a, <1>b, <1>c DEF SerialTimeout, CallType
    <2> QED BY <2>2, <2>3
  <1> QED BY <1>1, <1>2, <1>3, <1>4, <1>5, <1>6, <1>7, <1>8, <1>9, <1>10, <1>11, <1>12, <1>13 DEF Next

\* The types hold throughout; the ring indices stay in the ring.
THEOREM LogTypeCorrect == Spec => []TypeOK
  <1>1. Inv => TypeOK
    BY DEF Inv
  <1> QED BY <1>1, InitInv, NextInv, PTL DEF Spec

-----------------------------------------------------------------------------
(* The ring is a window of the newest bytes.                               *)

\* Indices within two turns of the ring.
LEMMA Turn ==
  ASSUME NEW x \in Nat
  PROVE  /\ x < RingBytes => x % RingBytes = x
         /\ RingBytes <= x /\ x < 2 * RingBytes => x % RingBytes = x - RingBytes
  BY DebugAssumption, SMT

\* Where the k-th of the newest n bytes is.
Cell(h, n, k) == IF h + k - 1 < n THEN h + RingBytes - n + k - 1 ELSE h + k - 1 - n

LEMMA CellOf ==
  ASSUME NEW h \in Cells, NEW n \in 0 .. RingBytes, NEW k \in 1 .. n
  PROVE  (h + RingBytes - n + k - 1) % RingBytes = Cell(h, n, k) /\ Cell(h, n, k) \in Cells
  <1> DEFINE x == h + RingBytes - n + k - 1
  <1>1. x \in Nat /\ x < 2 * RingBytes
    BY DebugAssumption DEF Cells
  <1>2. CASE h + k - 1 < n
    <2>1. x < RingBytes
      BY <1>2, DebugAssumption DEF Cells
    <2>2. x % RingBytes = x
      BY <1>1, <2>1, Turn
    <2>3. x \in Cells
      BY <1>1, <2>1, DebugAssumption DEF Cells
    <2> QED BY <1>2, <2>2, <2>3 DEF Cell
  <1>3. CASE ~(h + k - 1 < n)
    <2>1. RingBytes <= x
      BY <1>3, DebugAssumption DEF Cells
    <2>2. x % RingBytes = x - RingBytes
      BY <1>1, <2>1, Turn
    <2> QED BY <1>1, <1>3, <2>1, <2>2, DebugAssumption DEF Cell, Cells
  <1> QED BY <1>2, <1>3

\* What the model calls the newest bytes, by their cells.
LEMMA RecentIs ==
  ASSUME RingType, NEW n \in 0 .. RingBytes
  PROVE  /\ Recent(n) \in Seq(Byte \cup {0}) /\ Len(Recent(n)) = n
         /\ \A k \in 1 .. n : Recent(n)[k] = ring[Cell(head, n, k)]
  <1>1. \A k \in 1 .. n : /\ (head + RingBytes - n + k - 1) % RingBytes = Cell(head, n, k)
                          /\ Cell(head, n, k) \in Cells
    BY CellOf DEF RingType, Cells
  <1>2. \A k \in 1 .. n : ring[(head + RingBytes - n + k - 1) % RingBytes] \in Byte \cup {0}
    BY <1>1 DEF RingType, Cells
  <1> QED BY <1>1, <1>2 DEF Recent

\* One more byte shifts the window.
LEMMA WriteShifts ==
  ASSUME RingType, NEW b \in Byte, RingWrite(b)
  PROVE  Recent(used)' = W!Shifted(Recent(used), b)
  <1> USE DebugAssumption
  <1> DEFINE w == Recent(used)
             v == Recent(used)'
             s == W!Shifted(w, b)
  <1>1. /\ w \in Seq(Byte \cup {0}) /\ Len(w) = used
        /\ \A k \in 1 .. used : w[k] = ring[Cell(head, used, k)]
    BY RecentIs DEF RingType
  <1>2. /\ head \in Cells /\ used \in 0 .. RingBytes
        /\ ring \in [Cells -> Byte \cup {0}]
    BY DEF RingType, Cells
  <1>3. /\ head' = IF head = RingBytes - 1 THEN 0 ELSE head + 1
        /\ used' = IF used < RingBytes THEN used + 1 ELSE used
        /\ \A c \in Cells : ring'[c] = IF c = head THEN b ELSE ring[c]
        /\ ring' \in [Cells -> Byte \cup {0}]
    <2>1. head + 1 \in Nat /\ head + 1 <= RingBytes
      BY <1>2 DEF Cells
    <2>2. head + 1 < RingBytes => (head + 1) % RingBytes = head + 1
      BY <2>1, Turn
    <2>3. head + 1 = RingBytes => (head + 1) % RingBytes = 0
      BY <2>1, Turn
    <2>4. head' = IF head = RingBytes - 1 THEN 0 ELSE head + 1
      BY <1>2, <2>1, <2>2, <2>3 DEF RingWrite, Cells
    <2> QED BY <1>2, <2>4 DEF RingWrite
  <1>4. head' \in Cells /\ used' \in 1 .. RingBytes
    BY <1>2, <1>3 DEF Cells
  <1>5. v = [k \in 1 .. used' |-> ring'[Cell(head', used', k)]]
    <2>1. \A k \in 1 .. used' : (head' + RingBytes - used' + k - 1) % RingBytes = Cell(head', used', k)
      BY <1>4, CellOf
    <2> QED BY <2>1 DEF Recent
  <1>6. \A k \in 1 .. used' : Cell(head', used', k) \in Cells
    BY <1>4, CellOf
  <1>7. \A k \in 1 .. used' : ring'[Cell(head', used', k)] =
          IF k = used' THEN b
          ELSE IF used < RingBytes THEN ring[Cell(head, used, k)]
          ELSE ring[Cell(head, used, k + 1)]
    <2> SUFFICES ASSUME NEW k \in 1 .. used'
                 PROVE  ring'[Cell(head', used', k)] =
                          IF k = used' THEN b
                          ELSE IF used < RingBytes THEN ring[Cell(head, used, k)]
                          ELSE ring[Cell(head, used, k + 1)]
      OBVIOUS
    <2>1. k = used' => Cell(head', used', k) = head
      BY <1>2, <1>3, <1>4 DEF Cell, Cells
    <2>2. k # used' => Cell(head', used', k) # head
      BY <1>2, <1>3, <1>4 DEF Cell, Cells
    <2>3. k # used' /\ used < RingBytes => Cell(head', used', k) = Cell(head, used, k)
      BY <1>2, <1>3, <1>4 DEF Cell, Cells
    <2>4. k # used' /\ ~(used < RingBytes) => Cell(head', used', k) = Cell(head, used, k + 1)
      BY <1>2, <1>3, <1>4 DEF Cell, Cells
    <2> QED BY <1>3, <1>6, <2>1, <2>2, <2>3, <2>4
  <1>8. /\ s \in Seq(Byte \cup {0}) /\ Len(s) = used'
        /\ \A k \in 1 .. used' : s[k] =
             IF k = used' THEN b ELSE IF used < RingBytes THEN w[k] ELSE w[k + 1]
    <2> HIDE DEF w
    <2>1. CASE used < RingBytes
      BY <1>1, <1>2, <1>3, <2>1 DEF W!Shifted
    <2>2. CASE ~(used < RingBytes)
      <3>1. w # <<>> /\ used >= 1 /\ used' = used
        BY <1>1, <1>2, <1>3, <2>2
      <3>2. /\ Tail(w) \in Seq(Byte \cup {0}) /\ Len(Tail(w)) = used - 1
            /\ \A k \in 1 .. used - 1 : Tail(w)[k] = w[k + 1]
        BY <1>1, <3>1
      <3> QED BY <1>1, <1>2, <2>2, <3>1, <3>2 DEF W!Shifted
    <2> QED BY <2>1, <2>2
  <1>9. \A k \in 1 .. used' : s[k] = ring'[Cell(head', used', k)]
    <2> SUFFICES ASSUME NEW k \in 1 .. used' PROVE s[k] = ring'[Cell(head', used', k)]
      OBVIOUS
    <2> HIDE DEF w, s
    <2>1. k # used' /\ used < RingBytes => k \in 1 .. used
      BY <1>2, <1>3
    <2>2. k # used' /\ ~(used < RingBytes) => k + 1 \in 1 .. used
      BY <1>2, <1>3
    <2> QED BY <1>1, <1>7, <1>8, <2>1, <2>2
  <1>10. s = [k \in 1 .. used' |-> s[k]]
    <2> HIDE DEF s
    <2> QED BY <1>8
  <1> HIDE DEF s, v
  <1>11. s = v
    BY <1>5, <1>9, <1>10
  <1> QED BY <1>11 DEF s, v, w

\* Steps that leave the ring alone leave the window alone.
LEMMA WindowKept == UNCHANGED ringVars => UNCHANGED Recent(used)
  BY DEF ringVars, Recent

LEMMA WindowCleared == Cleared => W!Forget
  <1> SUFFICES ASSUME Cleared PROVE Recent(used)' = <<>>
    BY DEF W!Forget
  <1>1. used' = 0
    BY DEF Cleared
  <1> QED BY <1>1 DEF Recent

LEMMA WindowStep == Inv /\ [Next]_vars => [W!WindowNext]_(Recent(used))
  <1> SUFFICES ASSUME Inv, [Next]_vars
               PROVE  W!WindowNext \/ UNCHANGED Recent(used)
    OBVIOUS
  <1>1. CASE RingByte
    <2>1. data[i] \in Byte /\ RingType
      BY <1>1 DEF RingByte, Inv, TypeOK, PartType
    <2>2. W!Write(data[i])
      BY <1>1, <2>1, WriteShifts DEF RingByte, W!Write
    <2> QED BY <2>1, <2>2 DEF W!WindowNext
  <1>2. CASE Cleared
    BY <1>2, WindowCleared DEF W!WindowNext
  <1>3. CASE UNCHANGED ringVars
    BY <1>3, WindowKept
  <1> QED BY <1>1, <1>2, <1>3
       DEF Next, vars, ef2_debug_reset, ef2_debug_init, ef2_debug_use_sio_stdio,
           ef2_debug_write_raw, ef2_debug_printf, vfprintf, Fault, RingDone,
           SerialByte, SerialDone, SerialTimeout

\* The RAM log retains the newest bytes written, for every ring size (debug_log.c,
\* ring_write).
THEOREM LogIsWindow == Spec => ImplementsWindow
  <1>1. Init => W!WindowInit
    BY DEF Init, W!WindowInit, Recent
  <1>2. Spec => W!WindowSpec
    BY <1>1, InitInv, NextInv, WindowStep, PTL DEF Spec, W!WindowSpec
  <1> QED BY <1>2 DEF ImplementsWindow

\* What a reader copies, from the ring alone.
LEMMA CopyIsSuffix ==
  ASSUME RingType, NEW capacity \in Nat \ {0}
  PROVE  LET n == IF used < capacity THEN used ELSE capacity - 1
         IN  copy_recent(capacity) = SubSeq(Recent(used), used - n + 1, used)
  <1> DEFINE n == IF used < capacity THEN used ELSE capacity - 1
             start == (head + RingBytes - n) % RingBytes
             w == Recent(used)
  <1>1. /\ head \in Cells /\ used \in 0 .. RingBytes /\ n \in 0 .. used /\ n \in 0 .. RingBytes
    <2>1. head \in Cells /\ used \in 0 .. RingBytes
      BY DEF RingType, Cells
    <2>2. n \in 0 .. used
      BY <2>1
    <2> QED BY <2>1, <2>2, DebugAssumption
  <1>2. copy_recent(capacity) = [k \in 1 .. n |-> ring[(start + k - 1) % RingBytes]]
    BY <1>1 DEF copy_recent
  <1>3. ASSUME NEW k \in 1 .. n
        PROVE  (start + k - 1) % RingBytes = Cell(head, used, used - n + k)
    <2>1. start = IF head < n THEN head + RingBytes - n ELSE head - n
      <3>1. head + RingBytes - n \in Nat /\ head + RingBytes - n < 2 * RingBytes
        BY <1>1, DebugAssumption DEF Cells
      <3>2. head < n => start = head + RingBytes - n
        <4>1. head < n => head + RingBytes - n < RingBytes
          BY <1>1, DebugAssumption DEF Cells
        <4> QED BY <3>1, <4>1, Turn
      <3>3. ~(head < n) => start = head - n
        BY <1>1, <3>1, Turn, DebugAssumption DEF Cells
      <3> QED BY <3>2, <3>3
    <2> HIDE DEF start
    <2>2. start + k - 1 \in Nat /\ start + k - 1 < 2 * RingBytes
      BY <1>1, <2>1, DebugAssumption DEF Cells
    <2>3. start + k - 1 < RingBytes => (start + k - 1) % RingBytes = start + k - 1
      BY <2>2, Turn
    <2>4. RingBytes <= start + k - 1 => (start + k - 1) % RingBytes = start + k - 1 - RingBytes
      <3>1. start \in Int /\ k \in Int /\ RingBytes \in Int
        BY <1>1, <2>1, DebugAssumption DEF Cells
      <3>2. PICK y \in Nat : y = start + k - 1
        BY <2>2
      <3>3. RingBytes <= y => y % RingBytes = y - RingBytes
        BY <2>2, <3>2, Turn
      <3> QED BY <3>1, <3>2, <3>3
    <2> QED BY <1>1, <2>1, <2>2, <2>3, <2>4, DebugAssumption DEF Cell, Cells
  <1>4. /\ w \in Seq(Byte \cup {0}) /\ Len(w) = used
        /\ \A k \in 1 .. used : w[k] = ring[Cell(head, used, k)]
    BY <1>1, RecentIs
  <1> HIDE DEF n, start, w
  <1>5. SubSeq(w, used - n + 1, used) = [k \in 1 .. n |-> w[used - n + k]]
    <2>1. used - (used - n + 1) + 1 = n
      BY <1>1
    <2>2. SubSeq(w, used - n + 1, used)
            = [k \in 1 .. (used - (used - n + 1) + 1) |-> w[(used - n + 1) + k - 1]]
      BY <1>1, <1>4 DEF SubSeq
    <2>3. \A k \in 1 .. n : (used - n + 1) + k - 1 = used - n + k
      BY <1>1
    <2> QED BY <2>1, <2>2, <2>3
  <1>6. \A k \in 1 .. n : w[used - n + k] = ring[(start + k - 1) % RingBytes]
    <2>1. \A k \in 1 .. n : used - n + k \in 1 .. used
      BY <1>1
    <2> QED BY <1>3, <1>4, <2>1
  <1>7. copy_recent(capacity) = SubSeq(w, used - n + 1, used)
    BY <1>2, <1>5, <1>6
  <1> QED BY <1>7 DEF n, w

\* Readers get the newest bytes at any moment, whatever the sizes of ring and
\* buffer (debug_log.c, ef2_debug_copy_recent).
THEOREM ReadersGetNewest == Spec => []CopiesNewest
  <1>1. Inv => CopiesNewest
    BY CopyIsSuffix, DebugAssumption DEF Inv, TypeOK, CopiesNewest
  <1> QED BY <1>1, InitInv, NextInv, PTL DEF Spec

-----------------------------------------------------------------------------
(* The serial line.                                                        *)

\* g_last_output is the last byte on the line, or 0 after an initialisation.
LastSent == /\ Len(line) <= 2
            /\ last_output # 0 => line # <<>> /\ line[Len(line)] = last_output

LineInv == LastSent /\ LinesReturn

\* Putting a byte that is not a line feed, or one after a carriage return.
LEMMA PutKeepsLine ==
  ASSUME LineType, LineInv, NEW b \in Byte, Put(b), b = LF => last_output = CR
  PROVE  LineInv'
  <1>1. CASE line = <<>>
    <2>1. line' = <<b>> /\ Len(<<b>>) = 1 /\ <<b>>[1] = b /\ b # LF
      BY <1>1 DEF Put, LineInv, LastSent, CR
    <2> QED BY <2>1 DEF Put, LineInv, LastSent, LinesReturn
  <1>2. CASE line # <<>>
    <2>1. line' = <<line[Len(line)], b>> /\ last_output' = b
      BY <1>2 DEF Put
    <2>2. b = LF => line[Len(line)] = CR
      BY DEF LineInv, LastSent, CR
    <2> QED BY <2>1, <2>2 DEF LineInv, LastSent, LinesReturn
  <1> QED BY <1>1, <1>2

LEMMA LineStep == Inv /\ LineInv /\ [Next]_vars => LineInv'
  <1> SUFFICES ASSUME Inv, LineInv, [Next]_vars PROVE LineInv'
    OBVIOUS
  <1>1. CASE SerialByte
    <2>1. data[i] \in Byte /\ CR \in Byte /\ LF \in Byte /\ LineType
      BY <1>1 DEF SerialByte, Inv, TypeOK, PartType, Byte
    <2>2. CASE NeedsCR
      <3>1. Put(CR) /\ CR # LF
        BY <1>1, <2>2 DEF SerialByte, NextByte, CR, LF
      <3> QED BY <2>1, <3>1, PutKeepsLine
    <2>3. CASE ~NeedsCR
      <3>1. Put(data[i]) /\ (data[i] = LF => last_output = CR)
        BY <1>1, <2>3 DEF SerialByte, NextByte, NeedsCR
      <3> QED BY <2>1, <3>1, PutKeepsLine
    <2> QED BY <2>2, <2>3
  <1>2. CASE line' = line /\ last_output' \in {last_output, 0}
    BY <1>2 DEF LineInv, LastSent, LinesReturn
  <1> QED BY <1>1, <1>2
       DEF Next, vars, sioVars, ef2_debug_reset, ef2_debug_init, ef2_debug_use_sio_stdio,
           ef2_debug_write_raw, ef2_debug_printf, vfprintf, RingByte, Fault, RingDone,
           SerialDone, SerialTimeout

\* Every line feed on the serial line comes right after a carriage return
\* (debug_sio.c, ef2_debug_sio_write).
THEOREM LineFeedsReturn == Spec => []LinesReturn
  <1>1. Init => LineInv
    BY DEF Init, LineInv, LastSent, LinesReturn
  <1>2. LineInv => LinesReturn
    BY DEF LineInv
  <1> QED BY <1>1, <1>2, InitInv, NextInv, LineStep, PTL DEF Spec

\* With the sink installed, a part has failed only for lack of memory.
NoError == /\ pc = "direct" => stdout = "sio"
           /\ pc # "idle" /\ stdout = "sink" /\ result = -1 => no_memory

LEMMA NoErrorStep ==
  Inv /\ NoError /\ [Next]_vars
    => /\ NoError'
       /\ pc # "idle" /\ pc' = "idle" /\ stdout = "sink" /\ result' = -1 => no_memory'
  <1> SUFFICES ASSUME Inv, NoError, [Next]_vars
               PROVE  /\ NoError'
                      /\ pc # "idle" /\ pc' = "idle" /\ stdout = "sink" /\ result' = -1 => no_memory'
    OBVIOUS
  <1>1. ASSUME PartDone(0), UNCHANGED <<no_memory, stdout>>, pc # "idle"
        PROVE  NoError' /\ (stdout = "sink" /\ result' = -1 => no_memory')
    BY <1>1 DEF NoError, PartDone
  <1>2. CASE vfprintf
    <2>1. CASE no_memory' = TRUE /\ PartDone(-1)
      BY <1>2, <2>1 DEF vfprintf, NoError, PartDone
    <2>2. CASE no_memory' = no_memory /\ PartDone(0)
      BY <1>1, <1>2, <2>2 DEF vfprintf
    <2>3. CASE stdout = "none" /\ PartDone(-1)
      BY <1>2, <2>3 DEF vfprintf, NoError, PartDone
    <2>4. CASE /\ stdout # "none" /\ pc' = (IF stdout = "sink" THEN "sink" ELSE "direct")
               /\ UNCHANGED <<data, i, rest, result, no_memory>>
      BY <1>2, <2>4 DEF vfprintf, NoError, Inv, TypeOK, CallType
    <2> QED BY <1>2, <2>1, <2>2, <2>3, <2>4 DEF vfprintf
  <1>3. CASE RingDone
    BY <1>1, <1>3 DEF RingDone, NoError
  <1>4. CASE SerialTimeout
    BY <1>1, <1>4 DEF SerialTimeout, TimedOut, NoError, PartDone
  <1>5. CASE SerialDone
    BY <1>1, <1>5 DEF SerialDone
  <1>6. CASE \/ RingByte \/ Fault \/ SerialByte \/ UNCHANGED vars
    BY <1>6 DEF RingByte, Fault, SerialByte, vars, callVars, NoError
  <1>7. CASE \/ ef2_debug_reset \/ ef2_debug_init \/ ef2_debug_use_sio_stdio
    BY <1>7 DEF ef2_debug_reset, ef2_debug_init, ef2_debug_use_sio_stdio, callVars, Free, NoError
  <1>8. CASE \E m \in Messages : ef2_debug_write_raw(m) \/ \E n \in Messages : ef2_debug_printf(m, n)
    BY <1>8 DEF ef2_debug_write_raw, ef2_debug_printf, Free, NoError
  <1> QED BY <1>2, <1>3, <1>4, <1>5, <1>6, <1>7, <1>8 DEF Next

\* A missing or failing serial interface is never an error of the application
\* (debug_log.c, ef2_debug_write_raw and debug_sink_write).
THEOREM SerialNeverAnError == Spec => SerialIsOptional
  <1>1. Init => NoError
    BY DEF Init, NoError
  <1>2. Inv /\ NoError /\ [Next]_vars
          => [pc # "idle" /\ pc' = "idle" /\ stdout = "sink" /\ result' = -1 => no_memory']_vars
    BY NoErrorStep
  <1>3. Inv /\ NoError /\ [Next]_vars => NoError'
    BY NoErrorStep
  <1> QED BY <1>1, <1>2, <1>3, InitInv, NextInv, PTL DEF Spec, SerialIsOptional
-----------------------------------------------------------------------------
(* The mirror.                                                             *)

\* w is the newest bytes of m followed by the r bytes of data that end at e.
Ends(w, m, e, r) ==
  /\ Len(w) = IF Len(m) + r < RingBytes THEN Len(m) + r ELSE RingBytes
  /\ \A j \in 0 .. Len(w) - 1 : w[Len(w) - j] = IF j < r THEN data[e - j] ELSE m[Len(m) + r - j]

\* The log is ahead of the mirror by what the write has put into it, or by what the
\* line has still to send; a part is formatted before any of it is written.
MirrorInv ==
  /\ pc = "format" => i = 1
  /\ sio_active /\ ~crashed =>
       /\ Len(mirror) <= RingBytes
       /\ pc \in {"raw", "sink"} => Ends(Recent(used), mirror, i - 1, i - 1)
       /\ pc = "mirror" => Ends(Recent(used), mirror, Len(data), Len(data) - i + 1)
       /\ pc \in {"idle", "format", "direct"} => mirror = Recent(used)

\* A shifted window, counted from its end.
LEMMA ShiftedFromEnd ==
  ASSUME NEW S, NEW w \in Seq(S), Len(w) <= RingBytes, NEW b \in S,
         NEW s, s = W!Shifted(w, b)
  PROVE  /\ s \in Seq(S)
         /\ Len(s) = IF Len(w) < RingBytes THEN Len(w) + 1 ELSE RingBytes
         /\ s[Len(s)] = b
         /\ \A j \in 1 .. Len(s) - 1 : s[Len(s) - j] = w[Len(w) + 1 - j]
  <1> USE DebugAssumption
  <1>0. Len(w) \in Nat
    OBVIOUS
  <1>1. CASE Len(w) < RingBytes
    <2>1. s = Append(w, b)
      BY <1>1 DEF W!Shifted
    <2>2. /\ Append(w, b) \in Seq(S) /\ Len(Append(w, b)) = Len(w) + 1
          /\ Append(w, b)[Len(w) + 1] = b
          /\ \A k \in 1 .. Len(w) : Append(w, b)[k] = w[k]
      OBVIOUS
    <2>3. \A j \in 1 .. Len(w) : Len(w) + 1 - j \in 1 .. Len(w)
      BY <1>0
    <2> QED BY <1>1, <2>1, <2>2, <2>3
  <1>2. CASE ~(Len(w) < RingBytes)
    <2>1. s = Append(Tail(w), b) /\ Len(w) = RingBytes /\ w # <<>>
      BY <1>0, <1>2 DEF W!Shifted
    <2>2. /\ Tail(w) \in Seq(S) /\ Len(Tail(w)) = RingBytes - 1
          /\ \A k \in 1 .. RingBytes - 1 : Tail(w)[k] = w[k + 1]
      BY <2>1
    <2>3. PICK t \in Seq(S) : t = Tail(w)
      BY <2>2
    <2>4. /\ Append(t, b) \in Seq(S) /\ Len(Append(t, b)) = RingBytes
          /\ Append(t, b)[RingBytes] = b
          /\ \A k \in 1 .. RingBytes - 1 : Append(t, b)[k] = t[k]
      BY <2>2, <2>3
    <2>5. \A j \in 1 .. RingBytes - 1 : RingBytes - j \in 1 .. RingBytes - 1 /\ RingBytes - j + 1 = RingBytes + 1 - j
      OBVIOUS
    <2> QED BY <1>2, <2>1, <2>2, <2>3, <2>4, <2>5
  <1> QED BY <1>1, <1>2

\* The window as a sequence.
LEMMA RecentType ==
  ASSUME RingType
  PROVE  Recent(used) \in Seq(Byte \cup {0}) /\ Len(Recent(used)) = used /\ used \in 0 .. RingBytes
  BY RecentIs DEF RingType

\* Nothing is written yet, or nothing left to send: log and mirror are equal.
LEMMA EndsEqual ==
  ASSUME NEW w \in Seq(Byte \cup {0}), NEW m \in Seq(Byte), Len(w) <= RingBytes, Len(m) <= RingBytes,
         NEW e \in Int
  PROVE  Ends(w, m, e, 0) <=> w = m
  <1> USE DebugAssumption
  <1>1. Len(w) \in Nat /\ Len(m) \in Nat
    OBVIOUS
  <1>2. ASSUME w = m PROVE Ends(w, m, e, 0)
    BY <1>1, <1>2 DEF Ends
  <1>3. ASSUME Ends(w, m, e, 0) PROVE w = m
    <2>1. Len(w) = Len(m)
      BY <1>1, <1>3 DEF Ends
    <2>2. ASSUME NEW k \in 1 .. Len(w) PROVE w[k] = m[k]
      <3>1. PICK j \in 0 .. Len(w) - 1 : j = Len(w) - k
        BY <1>1
      <3>2. Len(w) - j = k /\ Len(m) + 0 - j = k /\ ~(j < 0)
        BY <1>1, <2>1, <3>1
      <3> QED BY <1>3, <3>2 DEF Ends
    <2>3. w = [k \in 1 .. Len(w) |-> w[k]] /\ m = [k \in 1 .. Len(m) |-> m[k]]
      OBVIOUS
    <2> QED BY <2>1, <2>2, <2>3
  <1> QED BY <1>2, <1>3

\* ring_write puts the next byte into the log.
LEMMA EndsWritten ==
  ASSUME NEW w \in Seq(Byte \cup {0}), NEW m \in Seq(Byte), Len(w) <= RingBytes, NEW r \in Nat,
         Ends(w, m, r, r), NEW b \in Byte, b = data[r + 1]
  PROVE  Ends(W!Shifted(w, b), m, r + 1, r + 1)
  <1> USE DebugAssumption
  <1> DEFINE s == W!Shifted(w, b)
  <1>1. Len(w) \in Nat /\ Len(m) \in Nat
    OBVIOUS
  <1>2. /\ s \in Seq(Byte \cup {0})
        /\ Len(s) = IF Len(w) < RingBytes THEN Len(w) + 1 ELSE RingBytes
        /\ s[Len(s)] = b
        /\ \A j \in 1 .. Len(s) - 1 : s[Len(s) - j] = w[Len(w) + 1 - j]
    <2>1. b \in Byte \cup {0}
      OBVIOUS
    <2>2. PICK q : q = s
      OBVIOUS
    <2>3. q = W!Shifted(w, b)
      BY <2>2
    <2> HIDE DEF s
    <2>4. /\ q \in Seq(Byte \cup {0})
          /\ Len(q) = IF Len(w) < RingBytes THEN Len(w) + 1 ELSE RingBytes
          /\ q[Len(q)] = b
          /\ \A j \in 1 .. Len(q) - 1 : q[Len(q) - j] = w[Len(w) + 1 - j]
      <3>1. PICK T : T = Byte \cup {0}
        OBVIOUS
      <3>2. w \in Seq(T) /\ b \in T
        BY <2>1, <3>1
      <3>3. /\ q \in Seq(T)
            /\ Len(q) = IF Len(w) < RingBytes THEN Len(w) + 1 ELSE RingBytes
            /\ q[Len(q)] = b
            /\ \A j \in 1 .. Len(q) - 1 : q[Len(q) - j] = w[Len(w) + 1 - j]
        BY ONLY <2>3, <3>2, Len(w) <= RingBytes, ShiftedFromEnd
      <3> QED BY ONLY <3>1, <3>3
    <2> QED BY ONLY <2>2, <2>4
  <1> HIDE DEF s
  <1>3. /\ Len(w) = IF Len(m) + r < RingBytes THEN Len(m) + r ELSE RingBytes
        /\ \A j \in 0 .. Len(w) - 1 : w[Len(w) - j] = IF j < r THEN data[r - j] ELSE m[Len(m) + r - j]
    BY DEF Ends
  <1>4. Len(s) = IF Len(m) + (r + 1) < RingBytes THEN Len(m) + (r + 1) ELSE RingBytes
    BY <1>1, <1>2, <1>3
  <1>5. ASSUME NEW j \in 0 .. Len(s) - 1
        PROVE  s[Len(s) - j] = IF j < r + 1 THEN data[r + 1 - j] ELSE m[Len(m) + (r + 1) - j]
    <2>0. Len(s) \in Nat /\ Len(s) - 1 <= Len(w)
      BY <1>1, <1>2
    <2>1. CASE j = 0
      <3>1. Len(s) - j = Len(s) /\ r + 1 - j = r + 1 /\ j < r + 1
        BY <2>0, <2>1
      <3> QED BY <1>2, <3>1
    <2>2. CASE j # 0
      <3>1. PICK h \in 0 .. Len(w) - 1 : h = j - 1
        BY <1>1, <2>0, <2>2
      <3>2. j \in 1 .. Len(s) - 1
        BY <2>2
      <3>3. s[Len(s) - j] = w[Len(w) + 1 - j]
        BY <1>2, <3>2
      <3>4. Len(w) + 1 - j = Len(w) - h /\ r + 1 - j = r - h /\ Len(m) + (r + 1) - j = Len(m) + r - h
            /\ (j < r + 1 <=> h < r)
        BY <1>1, <3>1, <3>2
      <3>5. w[Len(w) - h] = IF h < r THEN data[r - h] ELSE m[Len(m) + r - h]
        BY <1>3
      <3> QED BY <3>3, <3>4, <3>5
    <2> QED BY <2>1, <2>2
  <1>6. Ends(s, m, r + 1, r + 1)
    BY <1>4, <1>5 DEF Ends
  <1> QED BY <1>6 DEF s

\* ef2_debug_sio_write puts the next byte on the line.
LEMMA EndsSent ==
  ASSUME NEW w \in Seq(Byte \cup {0}), NEW m \in Seq(Byte), Len(m) <= RingBytes,
         NEW e \in Nat, NEW r \in Nat, r >= 1, r <= e, Ends(w, m, e, r),
         NEW b \in Byte, b = data[e - r + 1]
  PROVE  /\ Ends(w, W!Shifted(m, b), e, r - 1)
         /\ W!Shifted(m, b) \in Seq(Byte) /\ Len(W!Shifted(m, b)) <= RingBytes
  <1> USE DebugAssumption
  <1> DEFINE s == W!Shifted(m, b)
  <1>1. Len(w) \in Nat /\ Len(m) \in Nat
    OBVIOUS
  <1>2. /\ s \in Seq(Byte)
        /\ Len(s) = IF Len(m) < RingBytes THEN Len(m) + 1 ELSE RingBytes
        /\ s[Len(s)] = b
        /\ \A j \in 1 .. Len(s) - 1 : s[Len(s) - j] = m[Len(m) + 1 - j]
    <2>1. PICK q : q = s
      OBVIOUS
    <2>2. q = W!Shifted(m, b)
      BY <2>1
    <2> HIDE DEF s
    <2>3. /\ q \in Seq(Byte)
          /\ Len(q) = IF Len(m) < RingBytes THEN Len(m) + 1 ELSE RingBytes
          /\ q[Len(q)] = b
          /\ \A j \in 1 .. Len(q) - 1 : q[Len(q) - j] = m[Len(m) + 1 - j]
      BY ONLY <2>2, b \in Byte, m \in Seq(Byte), Len(m) <= RingBytes, ShiftedFromEnd
    <2> QED BY ONLY <2>1, <2>3
  <1> HIDE DEF s
  <1>3. /\ Len(w) = IF Len(m) + r < RingBytes THEN Len(m) + r ELSE RingBytes
        /\ \A j \in 0 .. Len(w) - 1 : w[Len(w) - j] = IF j < r THEN data[e - j] ELSE m[Len(m) + r - j]
    BY DEF Ends
  <1>4. Len(w) = IF Len(s) + (r - 1) < RingBytes THEN Len(s) + (r - 1) ELSE RingBytes
    BY <1>1, <1>2, <1>3
  <1>5. ASSUME NEW j \in 0 .. Len(w) - 1
        PROVE  w[Len(w) - j] = IF j < r - 1 THEN data[e - j] ELSE s[Len(s) + (r - 1) - j]
    <2>0. Len(s) \in Nat /\ j <= Len(s) + (r - 1) - 1 /\ Len(s) <= RingBytes /\ Len(s) >= 1
      <3>1. Len(s) \in Nat /\ Len(s) <= RingBytes /\ Len(s) >= 1
        BY <1>1, <1>2
      <3>2. Len(w) <= Len(s) + (r - 1)
        BY <1>1, <1>4, <3>1
      <3> QED BY <1>1, <3>1, <3>2
    <2>1. CASE j < r - 1
      <3>1. j < r
        BY <2>1
      <3> QED BY <1>3, <2>1, <3>1
    <2>2. CASE j = r - 1
      <3>1. e - j = e - r + 1 /\ j < r /\ Len(s) + (r - 1) - j = Len(s)
        BY <2>0, <2>2
      <3>2. w[Len(w) - j] = data[e - j]
        BY <1>3, <3>1
      <3> QED BY <1>2, <2>2, <3>1, <3>2
    <2>3. CASE j > r - 1
      <3>1. PICK h \in 1 .. Len(s) - 1 : h = j - (r - 1)
        BY <2>0, <2>3
      <3>2. Len(s) + (r - 1) - j = Len(s) - h /\ Len(m) + r - j = Len(m) + 1 - h /\ ~(j < r)
        BY <1>1, <2>0, <2>3, <3>1
      <3>3. s[Len(s) - h] = m[Len(m) + 1 - h]
        BY <1>2
      <3>4. w[Len(w) - j] = m[Len(m) + r - j]
        BY <1>3, <3>2
      <3>5. w[Len(w) - j] = s[Len(s) + (r - 1) - j]
        BY <3>2, <3>3, <3>4, Zenon
      <3>6. ~(j < r - 1)
        BY <2>3
      <3> QED BY <3>5, <3>6, Zenon
    <2> QED BY <2>1, <2>2, <2>3
  <1>6. Ends(w, s, e, r - 1)
    BY <1>4, <1>5 DEF Ends
  <1>7. Len(s) <= RingBytes
    BY <1>1, <1>2
  <1> QED BY <1>2, <1>6, <1>7 DEF s
\* A part that ends with nothing left to send leaves the mirror equal to the log.
LEMMA PartDoneMirror ==
  ASSUME NEW status, PartDone(status), RingType, mirror = Recent(used) \/ ~sio_active' \/ crashed',
         UNCHANGED <<ringVars, mirror>>
  PROVE  MirrorInv'
  <1>1. Recent(used)' = Recent(used) /\ mirror' = mirror
    BY WindowKept
  <1>2. i' = 1 /\ pc' \in {"idle", "format"}
    BY DEF PartDone
  <1>3. Len(Recent(used)) <= RingBytes
    BY RecentType, DebugAssumption
  <1> QED BY <1>1, <1>2, <1>3 DEF MirrorInv

\* Every step keeps the log as far ahead of the mirror as MirrorInv says.
LEMMA MirrorStep == Inv /\ MirrorInv /\ [Next]_vars => MirrorInv'
  <1> SUFFICES ASSUME Inv, MirrorInv, [Next]_vars PROVE MirrorInv'
    OBVIOUS
  <1>0. /\ RingType /\ Recent(used) \in Seq(Byte \cup {0}) /\ Len(Recent(used)) <= RingBytes
        /\ mirror \in Seq(Byte) /\ data \in Seq(Byte) /\ i \in 1 .. Len(data) + 1
        /\ sio_active \in BOOLEAN /\ crashed \in BOOLEAN
    BY RecentType, DebugAssumption DEF Inv, TypeOK, LineType, PartType, StatusType, CallType
  <1>1. ASSUME UNCHANGED <<ringVars, mirror, sio_active, crashed, pc, data, i>> PROVE MirrorInv'
    <2>1. Recent(used)' = Recent(used)
      BY <1>1, WindowKept
    <2> QED BY <1>1, <2>1 DEF MirrorInv, Ends
  <1>2. ASSUME Cleared, pc = "idle", pc' = pc PROVE MirrorInv'
    <2>1. Recent(used)' = <<>> /\ mirror' = <<>>
      BY <1>2, WindowCleared DEF W!Forget, Cleared
    <2> QED BY <1>2, <2>1, DebugAssumption DEF MirrorInv
  <1>3. ASSUME pc = "idle", pc' = "raw" \/ pc' = "format", i' = 1, UNCHANGED <<ringVars, mirror, sio_active, crashed>>
        PROVE  MirrorInv'
    <2>1. Recent(used)' = Recent(used) /\ mirror' = mirror
      BY <1>3, WindowKept
    <2>2. ASSUME sio_active', ~crashed'
          PROVE  /\ Len(mirror) <= RingBytes /\ mirror = Recent(used)
                 /\ Ends(Recent(used), mirror, 0, 0)'
      <3>1. Len(mirror) <= RingBytes /\ mirror = Recent(used)
        BY <1>3, <2>2 DEF MirrorInv
      <3>2. PICK w : w = Recent(used)
        OBVIOUS
      <3>3. w = mirror /\ Recent(used)' = w /\ mirror' = w
        BY <2>1, <3>1, <3>2
      <3>4. Len(w) \in Nat
        BY <1>0, <3>3
      <3>5. Ends(Recent(used), mirror, 0, 0)'
        BY <3>1, <3>3, <3>4, DebugAssumption DEF Ends
      <3> QED BY <3>1, <3>5
    <2> QED BY <1>3, <2>1, <2>2 DEF MirrorInv
  <1>4. CASE vfprintf
    <2>0. pc = "format" /\ UNCHANGED <<ringVars, mirror, sio_active, crashed>>
      BY <1>4 DEF vfprintf, sioVars
    <2>1. CASE PartDone(0) \/ PartDone(-1)
      <3>1. mirror = Recent(used) \/ ~sio_active' \/ crashed'
        BY <2>0 DEF MirrorInv
      <3> QED BY <1>0, <2>0, <2>1, <3>1, PartDoneMirror
    <2>2. CASE pc' \in {"sink", "direct"} /\ UNCHANGED <<data, i, rest, result>>
      <3>1. Recent(used)' = Recent(used) /\ mirror' = mirror /\ i = 1 /\ i' = 1
        BY <2>0, <2>2, WindowKept DEF MirrorInv
      <3>2. ASSUME sio_active', ~crashed'
            PROVE  /\ Len(mirror) <= RingBytes /\ mirror = Recent(used)
                   /\ Ends(Recent(used), mirror, 0, 0)'
        <4>1. Len(mirror) <= RingBytes /\ mirror = Recent(used)
          BY <2>0, <3>2 DEF MirrorInv
        <4>2. PICK w : w = Recent(used)
          OBVIOUS
        <4>3. w = mirror /\ Recent(used)' = w /\ mirror' = w
          BY <3>1, <4>1, <4>2
        <4>4. Len(w) \in Nat
          BY <1>0, <4>3
        <4>5. Ends(Recent(used), mirror, 0, 0)'
          BY <4>1, <4>3, <4>4, DebugAssumption DEF Ends
        <4> QED BY <4>1, <4>5
      <3> QED BY <2>2, <3>1, <3>2 DEF MirrorInv
    <2> QED BY <1>4, <2>1, <2>2 DEF vfprintf
  <1>5. CASE RingByte
    <2>0. /\ pc \in {"raw", "sink"} /\ pc' = pc /\ i \in 1 .. Len(data) /\ i' = i + 1
          /\ UNCHANGED <<mirror, sio_active, crashed, data>> /\ RingWrite(data[i])
      BY <1>0, <1>5 DEF RingByte, sioVars
    <2>1. data[i] \in Byte
      BY <1>0, <2>0
    <2>2. Recent(used)' = W!Shifted(Recent(used), data[i])
      BY <1>0, <2>0, <2>1, WriteShifts
    <2>3. ASSUME sio_active, ~crashed
          PROVE  Ends(Recent(used), mirror, i - 1, i - 1)'
      <3>1. Ends(Recent(used), mirror, i - 1, i - 1) /\ Len(mirror) <= RingBytes
        BY <2>0, <2>3 DEF MirrorInv
      <3>2. PICK r \in Nat : r = i - 1
        BY <2>0
      <3>3. r + 1 = i /\ i' - 1 = r + 1
        BY <1>0, <2>0, <3>2
      <3>4. Ends(W!Shifted(Recent(used), data[i]), mirror, r + 1, r + 1)
        BY <1>0, <2>1, <3>1, <3>2, <3>3, EndsWritten
      <3> QED BY <2>0, <2>2, <3>3, <3>4 DEF Ends
    <2>4. sio_active /\ ~crashed => Len(mirror) <= RingBytes
      BY DEF MirrorInv
    <2> QED BY <2>0, <2>3, <2>4 DEF MirrorInv
  <1>6. CASE Fault
    BY <1>6 DEF Fault, MirrorInv
  <1>7. CASE RingDone
    <2>0. /\ pc \in {"raw", "sink"} /\ i = Len(data) + 1
          /\ UNCHANGED <<ringVars, mirror, sio_active, crashed>>
      BY <1>0, <1>7 DEF RingDone, sioVars
    <2>1. CASE ~sio_active
      BY <1>0, <1>7, <2>0, <2>1, PartDoneMirror DEF RingDone
    <2>2. CASE sio_active
      <3>1. pc' = "mirror" /\ i' = 1 /\ data' = data
        BY <1>7, <2>2 DEF RingDone
      <3>2. Recent(used)' = Recent(used) /\ mirror' = mirror
        BY <2>0, WindowKept
      <3>3. i - 1 = Len(data) /\ Len(data) - 1 + 1 = Len(data)
        BY <1>0, <2>0
      <3>4. ~crashed => Len(mirror) <= RingBytes /\ Ends(Recent(used), mirror, Len(data), Len(data))
        BY <2>0, <2>2, <3>3 DEF MirrorInv
      <3>5. ~crashed => Ends(Recent(used), mirror, Len(data), Len(data) - i + 1)'
        BY <3>1, <3>2, <3>3, <3>4 DEF Ends
      <3> QED BY <2>0, <3>1, <3>2, <3>4, <3>5 DEF MirrorInv
    <2> QED BY <1>0, <2>1, <2>2
  <1>8. CASE SerialByte
    <2>0. /\ pc \in {"mirror", "direct"} /\ pc' = pc /\ i \in 1 .. Len(data) /\ data' = data
          /\ UNCHANGED <<ringVars, sio_active, crashed>> /\ NextByte
      BY <1>0, <1>8 DEF SerialByte
    <2>1. CASE NeedsCR
      BY <1>1, <2>0, <2>1 DEF NextByte
    <2>2. CASE ~NeedsCR
      <3>0. /\ i' = i + 1
            /\ mirror' = IF pc = "mirror" THEN W!Shifted(mirror, data[i]) ELSE mirror
        BY <2>0, <2>2 DEF NextByte
      <3>1. Recent(used)' = Recent(used)
        BY <2>0, WindowKept
      <3>2. CASE pc = "direct"
        BY <2>0, <3>0, <3>1, <3>2 DEF MirrorInv
      <3>3. CASE pc = "mirror"
        <4>1. ASSUME sio_active, ~crashed
              PROVE  /\ Len(mirror') <= RingBytes
                     /\ Ends(Recent(used), mirror, Len(data), Len(data) - i + 1)'
          <5>1. Len(mirror) <= RingBytes /\ Ends(Recent(used), mirror, Len(data), Len(data) - i + 1)
            BY <3>3, <4>1 DEF MirrorInv
          <5>2. Len(data) \in Nat /\ data[i] \in Byte
            BY <1>0, <2>0
          <5>3. PICK r \in Nat : r = Len(data) - i + 1
            <6>1. i \in 1 .. Len(data)
              BY <2>0
            <6>2. Len(data) - i + 1 \in Nat
              BY <5>2, <6>1
            <6> QED BY <6>2
          <5>4. r >= 1 /\ r <= Len(data) /\ Len(data) - r + 1 = i /\ Len(data) - i' + 1 = r - 1
            BY <2>0, <3>0, <5>2, <5>3
          <5>5. /\ Ends(Recent(used), W!Shifted(mirror, data[i]), Len(data), r - 1)
                /\ Len(W!Shifted(mirror, data[i])) <= RingBytes
            BY <1>0, <5>1, <5>2, <5>3, <5>4, EndsSent
          <5>6. mirror' = W!Shifted(mirror, data[i])
            BY <3>0, <3>3
          <5> QED BY <2>0, <3>1, <5>4, <5>5, <5>6 DEF Ends
        <4> QED BY <2>0, <3>3, <4>1 DEF MirrorInv
      <3> QED BY <2>0, <3>2, <3>3
    <2> QED BY <2>1, <2>2
  <1>9. CASE SerialDone
    <2>0. /\ pc \in {"mirror", "direct"} /\ i = Len(data) + 1 /\ PartDone(0)
          /\ UNCHANGED <<ringVars, mirror, sio_active, crashed>>
      BY <1>0, <1>9 DEF SerialDone, sioVars
    <2>1. mirror = Recent(used) \/ ~sio_active \/ crashed
      <3>1. CASE pc = "direct"
        BY <3>1 DEF MirrorInv
      <3>2. CASE pc = "mirror" /\ sio_active /\ ~crashed
        <4>1. Len(data) - i + 1 = 0 /\ Len(data) \in Int
          BY <1>0, <2>0
        <4>2. Ends(Recent(used), mirror, Len(data), 0) /\ Len(mirror) <= RingBytes
          BY <3>2, <4>1 DEF MirrorInv
        <4> QED BY <1>0, <4>1, <4>2, EndsEqual
      <3> QED BY <2>0, <3>1, <3>2
    <2> QED BY <1>0, <2>0, <2>1, PartDoneMirror
  <1>10. CASE SerialTimeout
    <2>0. /\ pc \in {"mirror", "direct"} /\ TimedOut
          /\ UNCHANGED <<ringVars, mirror, crashed>>
      BY <1>10 DEF SerialTimeout
    <2>1. mirror = Recent(used) \/ ~sio_active' \/ crashed'
      <3>1. CASE pc = "direct"
        BY <2>0, <3>1 DEF MirrorInv, TimedOut
      <3>2. CASE pc = "mirror"
        BY <2>0, <3>2 DEF TimedOut
      <3> QED BY <2>0, <3>1, <3>2
    <2>2. PICK status : PartDone(status)
      BY <2>0 DEF TimedOut
    <2> QED BY <1>0, <2>0, <2>1, <2>2, PartDoneMirror
  <1>11. CASE ef2_debug_reset \/ ef2_debug_init
    BY <1>2, <1>11 DEF ef2_debug_reset, ef2_debug_init, Free, callVars
  <1>12. CASE ef2_debug_use_sio_stdio \/ UNCHANGED vars
    BY <1>1, <1>12 DEF ef2_debug_use_sio_stdio, vars, sioVars, callVars
  <1>13. CASE \E m \in Messages : ef2_debug_write_raw(m) \/ \E n \in Messages : ef2_debug_printf(m, n)
    BY <1>3, <1>13 DEF ef2_debug_write_raw, ef2_debug_printf, Free, sioVars
  <1> QED BY <1>4, <1>5, <1>6, <1>7, <1>8, <1>9, <1>10, <1>11, <1>12, <1>13 DEF Next

\* While the mirror works it has received the bytes of the log, each once and in
\* order, for every size of ring and message, whatever else is written to the line
\* (debug_log.c, ef2_debug_write_raw).
THEOREM MirrorShowsLog == Spec => []MirrorInStep
  <1>1. Init => MirrorInv
    BY DebugAssumption DEF Init, MirrorInv, Recent
  <1>2. MirrorInv => MirrorInStep
    BY DEF MirrorInv, MirrorInStep
  <1> QED BY <1>1, <1>2, InitInv, NextInv, MirrorStep, PTL DEF Spec
=============================================================================
