---------------------------- MODULE SifRpcProofs ----------------------------
(***************************************************************************)
(* Theorems about SifRpc for every pool size and any set of clients.       *)
(***************************************************************************)
EXTENDS SifRpc, TLAPS

\* Slots are numbers, so the null pointer is not one of them.
LEMMA NoPacketIsNone == NoPacket \notin Packets
  BY SifAssumption DEF NoPacket, Packets

\* What allocation does, whichever slot is first.
LEMMA AllocFacts ==
  ASSUME PoolType, AllocPacket
  PROVE  /\ packet' \in Packets /\ packet' \notin alloc
         /\ alloc' = alloc \cup {packet'} /\ alloc' \subseteq Packets
  BY DEF PoolType, AllocPacket

-----------------------------------------------------------------------------
(* Types.                                                                  *)

\* Every step keeps every type.
LEMMA TypeStep == ASSUME TypeOK, Next PROVE TypeOK'
  <1> USE SifAssumption DEF TypeOK, PoolType, FlagType, ThreadType, IopType, AuxType
  <1>1. ASSUME NEW c \in Clients, BindEnter(c) PROVE TypeOK'
    BY <1>1 DEF BindEnter, poolVars, iopVars
  <1>2. ASSUME BindAlloc PROVE TypeOK'
    BY <1>2, AllocFacts DEF BindAlloc, Return, iopVars
  <1>3. ASSUME BindClear PROVE TypeOK'
    BY <1>3 DEF BindClear, poolVars, threadVars, iopVars
  <1>4. ASSUME BindAddress PROVE TypeOK'
    BY <1>4 DEF BindAddress, threadVars, iopVars
  <1>5. ASSUME BindSend PROVE TypeOK'
    <2>1. CASE SendFails /\ UNCHANGED binds
      BY <1>5, <2>1 DEF BindSend, SendFails, Return, threadVars
    <2>2. CASE pc' = "bind_wait" /\ UNCHANGED poolVars
      <3>1. /\ binds' = [binds EXCEPT ![client] = @ + 1]
            /\ UNCHANGED <<poolVars, server, threadVars, registered, calls, sent, reply, timeouts>>
            /\ wait_done' = FALSE /\ pc = "bind_send"
        BY <1>5, <2>2 DEF BindSend, SendFails, Return
      <3>2. binds' \in [Clients -> Nat]
        BY <3>1
      <3>3. PoolType'
        BY <2>2 DEF poolVars
      <3>4. FlagType' /\ AuxType'
        BY <3>1
      <3>5. ThreadType'
        BY <2>2, <3>1 DEF threadVars
      <3>6. IopType'
        BY <3>1, <3>2
      <3> QED BY <3>3, <3>4, <3>5, <3>6
    <2>3. (SendFails /\ UNCHANGED binds) \/ (pc' = "bind_wait" /\ UNCHANGED poolVars)
      BY <1>5 DEF BindSend
    <2> HIDE DEF TypeOK
    <2> QED BY <2>1, <2>2, <2>3
  <1>6. ASSUME BindDone PROVE TypeOK'
    BY <1>6 DEF BindDone, Return, poolVars, iopVars
  <1>7. ASSUME NEW c \in Clients, CallEnter(c) PROVE TypeOK'
    <2>1. (sent[c] + 1) % CallNos \in Numbers
      BY DEF Numbers
    <2>2. AuxType'
      BY <1>7, <2>1 DEF CallEnter
    <2>3. PoolType' /\ FlagType' /\ ThreadType' /\ IopType'
      BY <1>7, AllocFacts DEF CallEnter, iopVars
    <2> QED BY <2>2, <2>3
  <1>8. ASSUME CallAddress PROVE TypeOK'
    BY <1>8 DEF CallAddress, threadVars, iopVars
  <1>9. ASSUME CallSend PROVE TypeOK'
    <2>1. CASE SendFails /\ UNCHANGED calls
      BY <1>9, <2>1 DEF CallSend, SendFails, Return, threadVars
    <2>2. CASE pc' = "call_wait" /\ UNCHANGED poolVars
      <3>1. /\ calls' = [calls EXCEPT ![client] = Append(@, sent[client])]
            /\ UNCHANGED <<poolVars, server, threadVars, registered, binds, sent, reply, timeouts>>
            /\ wait_done' = FALSE
        BY <1>9, <2>2 DEF CallSend, SendFails, Return
      <3>2. Append(calls[client], sent[client]) \in Seq(Numbers)
        OBVIOUS
      <3>3. calls' \in [Clients -> Seq(Numbers)]
        BY <3>1, <3>2
      <3>4. QED
        BY <2>2, <3>1, <3>3 DEF poolVars, threadVars
    <2>3. (SendFails /\ UNCHANGED calls) \/ (pc' = "call_wait" /\ UNCHANGED poolVars)
      BY <1>9 DEF CallSend
    <2> HIDE DEF TypeOK
    <2> QED BY <2>1, <2>2, <2>3
  <1>10. ASSUME CallDone PROVE TypeOK'
    BY <1>10 DEF CallDone, Return, poolVars, threadVars, iopVars
  <1>11. ASSUME WaitTimeout PROVE TypeOK'
    BY <1>11 DEF WaitTimeout, Return, poolVars, threadVars, iopVars
  <1>12. ASSUME NEW c \in Clients, EndBind(c) PROVE TypeOK'
    BY <1>12 DEF EndBind, RpcEnd, threadVars
  <1>13. ASSUME NEW c \in Clients, EndCall(c) PROVE TypeOK'
    BY <1>13 DEF EndCall, RpcEnd, threadVars
  <1>14. ASSUME NEW c \in Clients, Register(c) PROVE TypeOK'
    BY <1>14 DEF Register, poolVars, threadVars
  <1> QED
    BY <1>1, <1>2, <1>3, <1>4, <1>5, <1>6, <1>7, <1>8, <1>9, <1>10, <1>11, <1>12, <1>13,
       <1>14 DEF Next, Progress

-----------------------------------------------------------------------------
(* The packet pool.                                                        *)

\* An end packet frees the slot of its own client, if it still has one.
LEMMA EndKeepsOwned ==
  ASSUME TypeOK, PacketOwned, NEW c \in Clients, RpcEnd(c), UNCHANGED <<pc, threadVars>>
  PROVE  PacketOwned'
  <1> USE NoPacketIsNone DEF TypeOK, PoolType, ThreadType, RpcEnd, threadVars
  <1>1. ASSUME NEW d \in Clients
        PROVE  pkt_addr'[d] = IF d = c THEN NoPacket ELSE pkt_addr[d]
    OBVIOUS
  <1>2. ASSUME NEW d \in Clients, pkt_addr'[d] # NoPacket PROVE pkt_addr'[d] \in alloc'
    <2>1. d # c /\ pkt_addr[d] # NoPacket /\ pkt_addr[d] \in alloc
      BY <1>1, <1>2 DEF PacketOwned
    <2>2. pkt_addr[d] # pkt_addr[c]
      BY <2>1 DEF PacketOwned
    <2>3. QED
      BY <1>1, <2>1, <2>2
  <1>3. pc \in {"bind_clear", "bind_addr", "call_addr"} => packet # pkt_addr[c]
    BY DEF PacketOwned, Preparing
  <1>4. Preparing => packet # NoPacket
    BY DEF PacketOwned, Preparing
  <1> QED
    BY <1>1, <1>2, <1>3, <1>4 DEF PacketOwned, Preparing

\* Every step keeps packets with their owners.
LEMMA OwnedStep == ASSUME TypeOK, PacketOwned, Next PROVE PacketOwned'
  <1> USE NoPacketIsNone DEF TypeOK, PoolType, ThreadType, PacketOwned, Preparing
  <1>1. ASSUME NEW c \in Clients, BindEnter(c) PROVE PacketOwned'
    BY <1>1 DEF BindEnter, poolVars
  <1>2. ASSUME BindAlloc PROVE PacketOwned'
    BY <1>2, AllocFacts DEF BindAlloc, Return
  <1>3. ASSUME BindClear PROVE PacketOwned'
    BY <1>3 DEF BindClear, poolVars, threadVars
  <1>4. ASSUME BindAddress PROVE PacketOwned'
    BY <1>4 DEF BindAddress, threadVars
  <1>5. ASSUME BindSend PROVE PacketOwned'
    <2>1. CASE SendFails /\ UNCHANGED binds
      BY <1>5, <2>1 DEF BindSend, SendFails, Return, threadVars
    <2>2. CASE pc' = "bind_wait" /\ UNCHANGED poolVars
      BY <1>5, <2>2 DEF BindSend, SendFails, Return, poolVars, threadVars
    <2> QED BY <1>5, <2>1, <2>2 DEF BindSend
  <1>6. ASSUME BindDone PROVE PacketOwned'
    BY <1>6 DEF BindDone, Return, poolVars
  <1>7. ASSUME NEW c \in Clients, CallEnter(c) PROVE PacketOwned'
    BY <1>7, AllocFacts DEF CallEnter
  <1>8. ASSUME CallAddress PROVE PacketOwned'
    BY <1>8 DEF CallAddress, threadVars
  <1>9. ASSUME CallSend PROVE PacketOwned'
    <2>1. CASE SendFails /\ UNCHANGED calls
      BY <1>9, <2>1 DEF CallSend, SendFails, Return, threadVars
    <2>2. CASE pc' = "call_wait" /\ UNCHANGED poolVars
      BY <1>9, <2>2 DEF CallSend, SendFails, Return, poolVars, threadVars
    <2> QED BY <1>9, <2>1, <2>2 DEF CallSend
  <1>10. ASSUME CallDone PROVE PacketOwned'
    BY <1>10 DEF CallDone, Return, poolVars, threadVars
  <1>11. ASSUME WaitTimeout PROVE PacketOwned'
    BY <1>11 DEF WaitTimeout, Return, poolVars, threadVars
  <1>12. ASSUME NEW c \in Clients, EndBind(c) PROVE PacketOwned'
    BY <1>12, EndKeepsOwned DEF EndBind
  <1>13. ASSUME NEW c \in Clients, EndCall(c) PROVE PacketOwned'
    BY <1>13, EndKeepsOwned DEF EndCall
  <1>14. ASSUME NEW c \in Clients, Register(c) PROVE PacketOwned'
    BY <1>14 DEF Register, poolVars, threadVars
  <1> QED
    BY <1>1, <1>2, <1>3, <1>4, <1>5, <1>6, <1>7, <1>8, <1>9, <1>10, <1>11, <1>12, <1>13,
       <1>14 DEF Next, Progress
-----------------------------------------------------------------------------
(* Before the first timeout.                                               *)

\* No packet is registered for the client and the IOP owes it nothing.
Quiet(c) == pkt_addr[c] = NoPacket /\ binds[c] = 0 /\ calls[c] = <<>>

\* Only the client whose request is under way has a packet or an answer to
\* expect, and exactly from sending to the answer.
Orderly ==
  /\ \A c \in Clients : c # client => Quiet(c)
  /\ pc \in {"idle", "bind"} => alloc = {} /\ Quiet(client)
  /\ Waiting /\ wait_done => alloc = {} /\ Quiet(client)
  /\ pc \in {"bind_clear", "bind_addr", "call_addr"} => alloc = {packet} /\ Quiet(client)
  /\ pc \in {"bind_send", "call_send"} =>
       /\ alloc = {packet} /\ pkt_addr[client] = packet
       /\ binds[client] = 0 /\ calls[client] = <<>>
  /\ Waiting /\ ~wait_done => alloc = {packet} /\ pkt_addr[client] = packet
  /\ pc = "bind_wait" /\ ~wait_done => binds[client] = 1 /\ calls[client] = <<>>
  /\ pc = "call_wait" /\ ~wait_done => binds[client] = 0 /\ calls[client] = <<sent[client]>>
  /\ pc = "call_wait" /\ wait_done => reply[client] = sent[client]

\* Until a wait times out, requests are orderly.
Undisturbed == timeouts = 0 => Orderly

\* In an orderly state only the client that waits is owed an answer.
LEMMA OwedWaits ==
  ASSUME TypeOK, Orderly, NEW c \in Clients, binds[c] # 0 \/ calls[c] # <<>>
  PROVE  /\ c = client /\ Waiting /\ ~wait_done
         /\ alloc = {packet} /\ pkt_addr[c] = packet
         /\ pc = "bind_wait" => binds[c] = 1 /\ calls[c] = <<>>
         /\ pc = "call_wait" => binds[c] = 0 /\ calls[c] = <<sent[c]>>
  <1>1. ~Quiet(c)
    BY DEF Quiet
  <1>2. c = client
    BY <1>1 DEF Orderly
  <1>3. ~(pc \in {"bind_send", "call_send"})
    BY <1>2 DEF Orderly
  <1>4. Waiting /\ ~wait_done
    BY <1>1, <1>2, <1>3 DEF TypeOK, ThreadType, Orderly, Waiting
  <1> QED BY <1>2, <1>4 DEF Orderly

\* Outside a request and between bind attempts nothing is owed.
LEMMA AllQuiet ==
  ASSUME TypeOK, Orderly, pc \in {"idle", "bind"}
  PROVE  alloc = {} /\ \A c \in Clients : Quiet(c)
  <1>1. ASSUME NEW c \in Clients PROVE Quiet(c)
    <2>1. CASE c = client
      BY <2>1 DEF Orderly
    <2>2. CASE c # client
      BY <2>2 DEF Orderly
    <2> QED BY <2>1, <2>2
  <1> QED BY <1>1 DEF Orderly

\* An end packet answers the one request under way.
LEMMA EndIsOrderly ==
  ASSUME TypeOK, Orderly, RpcEnd(client), Waiting, ~wait_done, UNCHANGED <<pc, threadVars>>,
         \A d \in Clients : d # client => binds'[d] = binds[d] /\ calls'[d] = calls[d],
         binds'[client] = 0, calls'[client] = <<>>,
         pc = "call_wait" => reply'[client] = sent'[client]
  PROVE  Orderly'
  <1> USE DEF TypeOK, PoolType, ThreadType, Orderly, Quiet, Waiting, RpcEnd, threadVars
  <1>1. ASSUME NEW d \in Clients
        PROVE  pkt_addr'[d] = IF d = client THEN NoPacket ELSE pkt_addr[d]
    OBVIOUS
  <1>2. alloc' = {} /\ wait_done'
    OBVIOUS
  <1>3. \A d \in Clients : Quiet(d)'
    BY <1>1
  <1> QED
    BY <1>2, <1>3

\* Every step other than a timeout keeps requests orderly.
LEMMA OrderlyStep == ASSUME TypeOK, Orderly, Next, ~WaitTimeout PROVE Orderly'
  <1> USE DEF TypeOK, PoolType, FlagType, ThreadType, IopType, AuxType, Quiet, Waiting
  <1>1. ASSUME NEW c \in Clients, BindEnter(c) PROVE Orderly'
    <2>1. alloc = {} /\ \A d \in Clients : Quiet(d)
      BY <1>1, AllQuiet DEF BindEnter
    <2> QED BY <1>1, <2>1 DEF BindEnter, Orderly, poolVars, iopVars
  <1>2. ASSUME BindAlloc PROVE Orderly'
    <2>1. alloc = {} /\ \A d \in Clients : Quiet(d)
      BY <1>2, AllQuiet DEF BindAlloc
    <2>2. \A d \in Clients : Quiet(d)'
      BY <1>2, <2>1 DEF BindAlloc, iopVars
    <2>3. CASE Return /\ UNCHANGED <<alloc, packet>>
      BY <2>1, <2>2, <2>3, <1>2 DEF Orderly, Return, BindAlloc
    <2>4. CASE AllocPacket /\ pc' = "bind_clear"
      <3>1. alloc' = {packet'}
        BY <2>1, <2>4 DEF AllocPacket
      <3> QED BY <2>2, <2>4, <3>1, <1>2 DEF Orderly, BindAlloc
    <2> QED BY <1>2, <2>3, <2>4 DEF BindAlloc
  <1>3. ASSUME BindClear PROVE Orderly'
    BY <1>3 DEF BindClear, Orderly, poolVars, threadVars, iopVars
  <1>4. ASSUME BindAddress PROVE Orderly'
    <2>1. \A d \in Clients : d # client => Quiet(d)'
      BY <1>4 DEF BindAddress, Orderly, iopVars
    <2> QED BY <1>4, <2>1 DEF BindAddress, Orderly, threadVars, iopVars
  <1>5. ASSUME BindSend PROVE Orderly'
    <2> USE <1>5 DEF BindSend, threadVars
    <2>1. CASE SendFails /\ UNCHANGED binds
      <3>1. alloc' = {} /\ \A d \in Clients : Quiet(d)'
        BY <2>1 DEF SendFails, Orderly
      <3> QED BY <2>1, <3>1 DEF SendFails, Return, Orderly
    <2>2. CASE pc' = "bind_wait" /\ UNCHANGED poolVars
      <3>1. binds' = [binds EXCEPT ![client] = @ + 1] /\ calls' = calls /\ client' = client
        BY <2>2 DEF SendFails, Return
      <3>2. binds'[client'] = 1 /\ calls'[client'] = <<>>
        BY <3>1 DEF Orderly
      <3>3. \A d \in Clients : d # client' => Quiet(d)'
        BY <2>2, <3>1 DEF Orderly, poolVars
      <3> QED BY <2>2, <3>2, <3>3 DEF Orderly, poolVars
    <2> QED BY <2>1, <2>2
  <1>6. ASSUME BindDone PROVE Orderly'
    BY <1>6 DEF BindDone, Return, Orderly, poolVars, iopVars
  <1>7. ASSUME NEW c \in Clients, CallEnter(c) PROVE Orderly'
    <2>1. alloc = {} /\ \A d \in Clients : Quiet(d)
      BY <1>7, AllQuiet DEF CallEnter
    <2>2. \A d \in Clients : Quiet(d)'
      BY <1>7, <2>1 DEF CallEnter, iopVars
    <2>3. alloc' = {packet'}
      BY <1>7, <2>1 DEF CallEnter, AllocPacket
    <2> QED BY <1>7, <2>2, <2>3 DEF CallEnter, Orderly
  <1>8. ASSUME CallAddress PROVE Orderly'
    <2>1. \A d \in Clients : d # client => Quiet(d)'
      BY <1>8 DEF CallAddress, Orderly, iopVars
    <2> QED BY <1>8, <2>1 DEF CallAddress, Orderly, threadVars, iopVars
  <1>9. ASSUME CallSend PROVE Orderly'
    <2> USE <1>9 DEF CallSend, threadVars
    <2>1. CASE SendFails /\ UNCHANGED calls
      <3>1. alloc' = {} /\ \A d \in Clients : Quiet(d)'
        BY <2>1 DEF SendFails, Orderly
      <3> QED BY <2>1, <3>1 DEF SendFails, Return, Orderly
    <2>2. CASE pc' = "call_wait" /\ UNCHANGED poolVars
      <3>1. /\ calls' = [calls EXCEPT ![client] = Append(@, sent[client])]
            /\ binds' = binds /\ client' = client /\ sent' = sent
        BY <2>2 DEF SendFails, Return
      <3>2. Append(<<>>, sent[client]) = <<sent[client]>>
        OBVIOUS
      <3>3. binds'[client'] = 0 /\ calls'[client'] = <<sent'[client']>>
        BY <3>1, <3>2 DEF Orderly
      <3>4. \A d \in Clients : d # client' => Quiet(d)'
        BY <2>2, <3>1 DEF Orderly, poolVars
      <3> QED BY <2>2, <3>3, <3>4 DEF Orderly, poolVars
    <2> QED BY <2>1, <2>2
  <1>10. ASSUME CallDone PROVE Orderly'
    BY <1>10 DEF CallDone, Return, Orderly, poolVars, threadVars, iopVars
  <1>11. ASSUME NEW c \in Clients, EndBind(c) PROVE Orderly'
    <2>1. c = client /\ Waiting /\ ~wait_done /\ binds[c] = 1 /\ calls[c] = <<>> /\ pc = "bind_wait"
      BY <1>11, OwedWaits DEF EndBind
    <2>2. binds' = [binds EXCEPT ![c] = 0] /\ calls' = calls
      BY <1>11, <2>1 DEF EndBind
    <2>3. /\ RpcEnd(client) /\ UNCHANGED <<pc, threadVars>>
      BY <1>11, <2>1 DEF EndBind
    <2> QED BY <2>1, <2>2, <2>3, EndIsOrderly
  <1>12. ASSUME NEW c \in Clients, EndCall(c) PROVE Orderly'
    <2>1. c = client /\ Waiting /\ ~wait_done /\ binds[c] = 0 /\ calls[c] = <<sent[c]>>
      BY <1>12, OwedWaits DEF EndCall
    <2>2. Head(<<sent[c]>>) = sent[c] /\ Tail(<<sent[c]>>) = <<>>
      OBVIOUS
    <2>3. /\ RpcEnd(client) /\ UNCHANGED <<pc, threadVars>> /\ binds' = binds /\ sent' = sent
          /\ calls' = [calls EXCEPT ![c] = Tail(calls[c])]
          /\ reply' = [reply EXCEPT ![c] = Head(calls[c])]
      BY <1>12, <2>1 DEF EndCall
    <2>4. calls'[client] = <<>> /\ reply'[client] = sent'[client]
      BY <2>1, <2>2, <2>3
    <2> QED BY <2>1, <2>3, <2>4, EndIsOrderly
  <1>13. ASSUME NEW c \in Clients, Register(c) PROVE Orderly'
    BY <1>13 DEF Register, Orderly, poolVars, threadVars
  <1> QED
    BY <1>1, <1>2, <1>3, <1>4, <1>5, <1>6, <1>7, <1>8, <1>9, <1>10, <1>11, <1>12, <1>13
    DEF Next, Progress

\* A timeout is counted, so until the first one requests stay orderly.
LEMMA UndisturbedStep == ASSUME TypeOK, Undisturbed, Next PROVE Undisturbed'
  <1> USE SifAssumption DEF TypeOK, AuxType
  <1>1. CASE WaitTimeout
    <2>1. timeouts' # 0
      BY <1>1 DEF WaitTimeout
    <2> QED BY <2>1 DEF Undisturbed
  <1>2. CASE ~WaitTimeout
    <2>1. timeouts' = timeouts
      BY <1>2 DEF Next, Progress, BindEnter, BindAlloc, BindClear, BindAddress, BindSend,
                  BindDone, CallEnter, CallAddress, CallSend, CallDone, EndBind, EndCall,
                  Register
    <2> QED BY <1>2, <2>1, OrderlyStep DEF Undisturbed
  <1> QED BY <1>1, <1>2
-----------------------------------------------------------------------------
(* The theorems.                                                           *)

\* The inductive invariant.
SifInv == TypeOK /\ PacketOwned /\ Undisturbed

\* It holds at the start and every step keeps it.
LEMMA SifInductive == Spec => []SifInv
  <1>1. Init => SifInv
    <2>1. Init => TypeOK
      <3> USE SifAssumption DEF Init
      <3>1. Init => PoolType /\ FlagType
        BY DEF PoolType, FlagType
      <3>2. Init => ThreadType
        BY DEF ThreadType
      <3>3. Init => IopType
        <4>1. <<>> \in Seq(Numbers)
          OBVIOUS
        <4> QED BY <4>1 DEF IopType
      <3>4. 0 \in Numbers /\ 0 \in 0..TimeoutCap
        BY DEF Numbers
      <3>5. Init => AuxType
        BY <3>4 DEF AuxType
      <3> QED BY <3>1, <3>2, <3>3, <3>5 DEF TypeOK
    <2>2. Init => PacketOwned
      BY DEF Init, PacketOwned, Preparing
    <2>3. Init => Undisturbed
      BY DEF Init, Undisturbed, Orderly, Quiet, Waiting
    <2> QED BY <2>1, <2>2, <2>3 DEF SifInv
  <1>2. SifInv /\ [Next]_vars => SifInv'
    <2>1. ASSUME SifInv, Next PROVE SifInv'
      BY <2>1, TypeStep, OwnedStep, UndisturbedStep DEF SifInv
    <2>2. ASSUME SifInv, UNCHANGED vars PROVE SifInv'
      <3> USE <2>2 DEF SifInv, vars, poolVars, threadVars, iopVars
      <3>1. TypeOK'
        BY DEF TypeOK, PoolType, FlagType, ThreadType, IopType, AuxType
      <3>2. PacketOwned'
        BY DEF PacketOwned, Preparing
      <3>3. Undisturbed'
        BY DEF Undisturbed, Orderly, Quiet, Waiting
      <3> QED BY <3>1, <3>2, <3>3
    <2> QED BY <2>1, <2>2
  <1> QED BY <1>1, <1>2, PTL DEF Spec

\* Types hold for any pool size and any set of clients; the pool hands out
\* only slots it has (ef2_rpc_alloc_packet).
THEOREM SifTypeCorrect == Spec => []TypeOK
  <1>1. SifInv => TypeOK
    BY DEF SifInv
  <1> QED BY <1>1, SifInductive, PTL

\* Every slot an end packet frees belongs to the client it answers: with late
\* answers, retries and failed sends, no slot is freed twice or taken from the
\* request of another client (ef2_cmd_rpc_end, ef2_rpc_packet_free).
THEOREM PacketsOwned == Spec => []PacketOwned
  <1>1. SifInv => PacketOwned
    BY DEF SifInv
  <1> QED BY <1>1, SifInductive, PTL

\* Until the first timeout, ef2_sif_bind and ef2_sif_call leave no packet in use
\* and no answer outstanding, on every path, failed sends included.
THEOREM RequestsQuiet == Spec => []QuietBetweenRequests
  <1>1. SifInv => QuietBetweenRequests
    BY AllQuiet DEF SifInv, Undisturbed, Quiet, QuietBetweenRequests
  <1> QED BY <1>1, SifInductive, PTL

\* Until the first timeout, ef2_sif_call returns success with its own reply.
THEOREM RepliesOwn == Spec => []ReplyIsOwn
  <1>1. SifInv => ReplyIsOwn
    BY DEF SifInv, Undisturbed, Orderly, ReplyIsOwn
  <1> QED BY <1>1, SifInductive, PTL

-----------------------------------------------------------------------------
(* Bound clients.                                                          *)

\* A bound client's service is registered.
BoundRegistered == \A c \in Clients : server[c] => registered[c]

\* Only ef2_sif_bind clears a server, and no step binds to a missing service.
LEMMA BoundStep ==
  ASSUME TypeOK, BoundRegistered, Next
  PROVE  /\ BoundRegistered'
         /\ \A c \in Clients : server[c] /\ ~server'[c] => pc = "bind_clear" /\ client = c
  <1> USE DEF TypeOK, FlagType, ThreadType, IopType, BoundRegistered
  <1>1. CASE server' = server /\ registered' = registered
    BY <1>1
  <1>2. CASE BindClear
    BY <1>2 DEF BindClear, iopVars
  <1>3. ASSUME NEW c \in Clients, EndBind(c)
        PROVE  /\ BoundRegistered'
               /\ \A d \in Clients : server[d] => server'[d]
    BY <1>3 DEF EndBind
  <1>4. ASSUME NEW c \in Clients, Register(c)
        PROVE  BoundRegistered' /\ server' = server
    BY <1>4 DEF Register
  <1>5. \/ BindClear
        \/ server' = server /\ registered' = registered
        \/ \E c \in Clients : EndBind(c) \/ Register(c)
    BY DEF Next, Progress, BindEnter, BindAlloc, BindAddress, BindSend, BindDone, CallEnter,
           CallAddress, CallSend, CallDone, WaitTimeout, EndCall, iopVars
  <1> QED BY <1>1, <1>2, <1>3, <1>4, <1>5

\* A bound client stays bound until ef2_sif_bind is called for it again: the
\* late answer to an earlier attempt never unbinds it (sif.c, ef2_cmd_rpc_end).
THEOREM ClientsStayBound == Spec => BoundStays
  <1>1. Init => BoundRegistered
    BY DEF Init, BoundRegistered
  <1>2. TypeOK /\ BoundRegistered /\ [Next]_vars => BoundRegistered'
    <2>1. TypeOK /\ BoundRegistered /\ UNCHANGED vars => BoundRegistered'
      BY DEF BoundRegistered, vars, iopVars
    <2> QED BY <2>1, BoundStep
  <1>3. TypeOK /\ BoundRegistered /\ [Next]_vars
        => [\A c \in Clients : server[c] /\ ~server'[c] => pc = "bind_clear" /\ client = c]_vars
    BY BoundStep
  <1> QED BY <1>1, <1>2, <1>3, SifTypeCorrect, PTL DEF Spec, BoundStays
-----------------------------------------------------------------------------
(* How long a request takes.                                               *)

\* The steps the requesting thread has left, at most: an attempt to bind takes
\* five, and the loop is left at its head.
StepsLeft ==
  CASE pc = "idle"       -> 0
    [] pc = "bind"       -> 5 * (Attempts - attempt) + 1
    [] pc = "bind_clear" -> 5 * (Attempts - attempt)
    [] pc = "bind_addr"  -> 5 * (Attempts - attempt) - 1
    [] pc = "bind_send"  -> 5 * (Attempts - attempt) - 2
    [] pc = "bind_wait"  -> 5 * (Attempts - attempt) - 3
    [] pc = "call_addr"  -> 3
    [] pc = "call_send"  -> 2
    [] pc = "call_wait"  -> 1

\* They are a number, the same for any client and any state of the IOP.
LEMMA StepsAreBounded ==
  ASSUME TypeOK PROVE StepsLeft \in 0 .. 5 * Attempts + 1 /\ (StepsLeft = 0 <=> pc = "idle")
  <1>1. attempt \in Nat /\ Attempts \in Nat /\ attempt <= Attempts
    BY SifAssumption DEF TypeOK, ThreadType
  <1>2. pc \in {"bind_clear", "bind_addr", "bind_send", "bind_wait"} => attempt < Attempts
    BY DEF TypeOK, ThreadType
  <1>3. pc = "idle" => StepsLeft = 0
    BY DEF StepsLeft
  <1>4. /\ pc = "bind" => StepsLeft = 5 * (Attempts - attempt) + 1
        /\ pc = "bind_clear" => StepsLeft = 5 * (Attempts - attempt)
        /\ pc = "bind_addr" => StepsLeft = 5 * (Attempts - attempt) - 1
        /\ pc = "bind_send" => StepsLeft = 5 * (Attempts - attempt) - 2
        /\ pc = "bind_wait" => StepsLeft = 5 * (Attempts - attempt) - 3
    BY DEF StepsLeft
  <1>5. /\ pc = "call_addr" => StepsLeft = 3
        /\ pc = "call_send" => StepsLeft = 2
        /\ pc = "call_wait" => StepsLeft = 1
    BY DEF StepsLeft
  <1>6. /\ StepsLeft \in Int /\ 0 <= StepsLeft /\ StepsLeft <= 5 * Attempts + 1
        /\ StepsLeft = 0 <=> pc = "idle"
    BY <1>1, <1>2, <1>3, <1>4, <1>5, SifAssumption DEF TypeOK, ThreadType
  <1> QED BY <1>1, <1>6

\* Each step of the thread inside a request uses one up.
LEMMA ProgressSteps == ASSUME TypeOK, Progress PROVE StepsLeft' < StepsLeft
  <1> USE SifAssumption DEF StepsLeft
  <1>1. attempt \in Nat /\ Attempts \in Nat /\ attempt <= Attempts
    BY DEF TypeOK, ThreadType
  <1>2. pc \in {"bind_clear", "bind_addr", "bind_send", "bind_wait"} => attempt < Attempts
    BY DEF TypeOK, ThreadType
  <1>3. ASSUME BindAlloc PROVE StepsLeft' < StepsLeft
    BY <1>1, <1>3 DEF BindAlloc, Return
  <1>4. ASSUME BindClear \/ BindAddress PROVE StepsLeft' < StepsLeft
    BY <1>1, <1>4 DEF BindClear, BindAddress, threadVars
  <1>5. ASSUME BindSend PROVE StepsLeft' < StepsLeft
    BY <1>1, <1>2, <1>5 DEF BindSend, SendFails, Return, threadVars
  <1>6. ASSUME BindDone PROVE StepsLeft' < StepsLeft
    BY <1>1, <1>2, <1>6 DEF BindDone, Return
  <1>7. ASSUME CallAddress \/ CallSend \/ CallDone PROVE StepsLeft' < StepsLeft
    BY <1>7 DEF CallAddress, CallSend, CallDone, SendFails, Return
  <1>8. ASSUME WaitTimeout PROVE StepsLeft' < StepsLeft
    BY <1>1, <1>2, <1>8 DEF WaitTimeout, Return
  <1> QED BY <1>3, <1>4, <1>5, <1>6, <1>7, <1>8 DEF Progress

\* A request of ef2_sif_bind or ef2_sif_call ends after at most 5 * Attempts + 1
\* steps of its thread: each of them uses one up, and nothing the IOP sends, late
\* answers included, gives one back.
THEOREM RequestsEnd ==
  Spec => /\ [](StepsLeft \in 0 .. 5 * Attempts + 1 /\ (StepsLeft = 0 <=> pc = "idle"))
          /\ [][pc # "idle" => IF Progress THEN StepsLeft' < StepsLeft
                               ELSE StepsLeft' = StepsLeft]_vars
  <1>1. TypeOK => StepsLeft \in 0 .. 5 * Attempts + 1 /\ (StepsLeft = 0 <=> pc = "idle")
    BY StepsAreBounded
  <1>2. TypeOK /\ [Next]_vars
        => [pc # "idle" => IF Progress THEN StepsLeft' < StepsLeft
                           ELSE StepsLeft' = StepsLeft]_vars
    <2> SUFFICES ASSUME TypeOK, Next, pc # "idle", ~Progress PROVE StepsLeft' = StepsLeft
      BY ProgressSteps
    <2>1. PICK c \in Clients : EndBind(c) \/ EndCall(c) \/ Register(c)
      BY DEF Next, BindEnter, CallEnter
    <2>2. pc' = pc /\ attempt' = attempt
      BY <2>1 DEF EndBind, EndCall, Register, threadVars
    <2> QED BY <2>2 DEF StepsLeft
  <1> QED BY <1>1, <1>2, SifTypeCorrect, PTL DEF Spec
=============================================================================
