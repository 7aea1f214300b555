------------------------------- MODULE SifRpc -------------------------------
(***************************************************************************)
(* The SIF RPC client of the EE (src/ee/sif/sif.c): ef2_sif_bind,          *)
(* ef2_sif_call and the handler of the end packets.                        *)
(*                                                                         *)
(* One thread makes requests; the DMA interrupt that brings an end packet  *)
(* runs between any two of its steps.  A wait is bounded, so the answer to *)
(* an abandoned request can arrive during any later one.                   *)
(***************************************************************************)
EXTENDS Integers, Sequences, FiniteSets, Functions

CONSTANTS Clients,     \* RPC clients, each with the IOP service it talks to
          PacketCount, \* EF2_RPC_PACKET_COUNT
          Attempts,    \* attempts ef2_sif_bind makes
          CallNos,     \* the calls of a client are numbered modulo CallNos
          TimeoutCap   \* timeouts are counted up to this number

ASSUME SifAssumption == /\ IsFiniteSet(Clients)
                        /\ PacketCount \in Nat \ {0}
                        /\ Attempts \in Nat \ {0}
                        /\ CallNos \in Nat \ {0}
                        /\ TimeoutCap \in Nat \ {0}

Packets  == 0 .. PacketCount - 1
NoPacket == -1
Numbers  == 0 .. CallNos - 1

VARIABLES
  \* the packet pool: slots with EF2_RPC_ALLOC set
  alloc,
  \* per client: hdr.pkt_addr, and whether server is set
  pkt_addr, server,
  wait_done,               \* g_rpc_wait_done
  \* the requesting thread: position and locals
  pc, client, packet, attempt,
  \* the IOP: registered services, bind requests and calls not answered yet
  registered, binds, calls,
  \* modelling state: the number of a client's last call, of the call its
  \* receive buffer was last filled for, and the waits that timed out
  sent, reply, timeouts

poolVars   == <<alloc, pkt_addr>>
threadVars == <<client, packet, attempt>>
iopVars    == <<registered, binds, calls>>
vars == <<poolVars, server, wait_done, pc, threadVars, iopVars, sent, reply, timeouts>>
-----------------------------------------------------------------------------
Init ==
  /\ alloc = {}
  /\ pkt_addr = [c \in Clients |-> NoPacket]
  /\ server = [c \in Clients |-> FALSE]
  /\ wait_done = FALSE
  /\ pc = "idle" /\ client \in Clients /\ packet = NoPacket /\ attempt = 0
  /\ registered \in [Clients -> BOOLEAN]
  /\ binds = [c \in Clients |-> 0] /\ calls = [c \in Clients |-> <<>>]
  /\ sent = [c \in Clients |-> 0] /\ reply = [c \in Clients |-> 0]
  /\ timeouts = 0
-----------------------------------------------------------------------------
(* The packet pool.                                                        *)

MutPoolOffByOne ==
  \E p \in (0..PacketCount) \ alloc :
    /\ \A q \in (0..PacketCount) \ alloc : p <= q
    /\ alloc' = alloc \cup {p}
    /\ packet' = p

\* ef2_rpc_alloc_packet: the first free slot, found with interrupts off.
AllocPacket ==
  \E p \in Packets \ alloc :
    /\ \A q \in Packets \ alloc : p <= q
    /\ alloc' = alloc \cup {p}
    /\ packet' = p

Return == pc' = "idle"
-----------------------------------------------------------------------------
(* ef2_sif_bind.                                                           *)

BindEnter(c) ==
  /\ pc = "idle"
  /\ client' = c /\ attempt' = 0
  /\ pc' = "bind"
  /\ UNCHANGED <<poolVars, server, wait_done, packet, iopVars, sent, reply, timeouts>>

\* Head of the loop: the attempts are used up, or the pool is, or a packet is taken.
BindAlloc ==
  /\ pc = "bind"
  /\ \/ attempt = Attempts /\ Return /\ UNCHANGED <<alloc, packet>>
     \/ attempt < Attempts /\ alloc = Packets /\ Return /\ UNCHANGED <<alloc, packet>>
     \/ attempt < Attempts /\ AllocPacket /\ pc' = "bind_clear"
  /\ UNCHANGED <<pkt_addr, server, wait_done, client, attempt, iopVars, sent, reply, timeouts>>

BindClear ==
  /\ pc = "bind_clear"
  /\ server' = [server EXCEPT ![client] = FALSE]
  /\ pc' = "bind_addr"
  /\ UNCHANGED <<poolVars, wait_done, threadVars, iopVars, sent, reply, timeouts>>

BindAddress ==
  /\ pc = "bind_addr"
  /\ pkt_addr' = [pkt_addr EXCEPT ![client] = packet]
  /\ pc' = "bind_send"
  /\ UNCHANGED <<alloc, server, wait_done, threadVars, iopVars, sent, reply, timeouts>>

MutSendFailsKeeps == /\ pkt_addr' = [pkt_addr EXCEPT ![client] = NoPacket]
                     /\ Return
                     /\ UNCHANGED alloc

\* The request could not be queued: the packet is given back.
SendFails == /\ alloc' = alloc \ {packet}
             /\ pkt_addr' = [pkt_addr EXCEPT ![client] = NoPacket]
             /\ Return

\* Clear the flag and send; an answer that comes in between leaves the same
\* state as one that comes right after.
BindSend ==
  /\ pc = "bind_send"
  /\ wait_done' = FALSE
  /\ \/ SendFails /\ UNCHANGED binds
     \/ /\ binds' = [binds EXCEPT ![client] = @ + 1]
        /\ pc' = "bind_wait"
        /\ UNCHANGED poolVars
  /\ UNCHANGED <<server, threadVars, registered, calls, sent, reply, timeouts>>

BindDone ==
  /\ pc = "bind_wait" /\ wait_done
  /\ IF server[client] THEN Return /\ UNCHANGED attempt
     ELSE pc' = "bind" /\ attempt' = attempt + 1
  /\ UNCHANGED <<poolVars, server, wait_done, client, packet, iopVars, sent, reply, timeouts>>
-----------------------------------------------------------------------------
(* ef2_sif_call.                                                           *)

\* An unbound client or an empty pool is refused and nothing changes.
CallEnter(c) ==
  /\ pc = "idle" /\ server[c]
  /\ AllocPacket
  /\ client' = c
  /\ sent' = [sent EXCEPT ![c] = (@ + 1) % CallNos]
  /\ pc' = "call_addr"
  /\ UNCHANGED <<pkt_addr, server, wait_done, attempt, iopVars, reply, timeouts>>

CallAddress ==
  /\ pc = "call_addr"
  /\ pkt_addr' = [pkt_addr EXCEPT ![client] = packet]
  /\ pc' = "call_send"
  /\ UNCHANGED <<alloc, server, wait_done, threadVars, iopVars, sent, reply, timeouts>>

MutFlagNotCleared ==
  /\ pc = "call_send"
  /\ \/ SendFails /\ UNCHANGED calls
     \/ /\ calls' = [calls EXCEPT ![client] = Append(@, sent[client])]
        /\ pc' = "call_wait"
        /\ UNCHANGED poolVars
  /\ UNCHANGED <<server, wait_done, threadVars, registered, binds, sent, reply, timeouts>>

CallSend ==
  /\ pc = "call_send"
  /\ wait_done' = FALSE
  /\ \/ SendFails /\ UNCHANGED calls
     \/ /\ calls' = [calls EXCEPT ![client] = Append(@, sent[client])]
        /\ pc' = "call_wait"
        /\ UNCHANGED poolVars
  /\ UNCHANGED <<server, threadVars, registered, binds, sent, reply, timeouts>>

CallDone ==
  /\ pc = "call_wait" /\ wait_done
  /\ Return
  /\ UNCHANGED <<poolVars, server, wait_done, threadVars, iopVars, sent, reply, timeouts>>

MutWaitForever == pc \in {"bind_wait", "call_wait"} /\ wait_done /\ UNCHANGED vars

\* ef2_wait_flag gives up: the request is abandoned, its packet stays in use.
WaitTimeout ==
  /\ pc \in {"bind_wait", "call_wait"} /\ ~wait_done
  /\ Return
  /\ timeouts' = IF timeouts < TimeoutCap THEN timeouts + 1 ELSE timeouts
  /\ UNCHANGED <<poolVars, server, wait_done, threadVars, iopVars, sent, reply>>
-----------------------------------------------------------------------------
(* The IOP answers and the interrupt handler takes the end packet:         *)
(* ef2_sif_irq_handler, ef2_cmd_rpc_end.                                   *)

MutEndKeepsAddress(c) ==
  /\ alloc' = alloc \ {pkt_addr[c]}
  /\ wait_done' = TRUE
  /\ UNCHANGED pkt_addr

RpcEnd(c) ==
  /\ alloc' = alloc \ {pkt_addr[c]}
  /\ pkt_addr' = [pkt_addr EXCEPT ![c] = NoPacket]
  /\ wait_done' = TRUE

\* Only the end of a bind carries the server.
MutServerFromAnyEnd(c) ==
  /\ calls[c] # <<>>
  /\ calls' = [calls EXCEPT ![c] = Tail(@)]
  /\ reply' = [reply EXCEPT ![c] = Head(calls[c])]
  /\ server' = [server EXCEPT ![c] = FALSE]
  /\ RpcEnd(c)
  /\ UNCHANGED <<pc, threadVars, registered, binds, sent, timeouts>>

\* A service answers its calls in order; the reply fills the receive buffer.
EndCall(c) ==
  /\ calls[c] # <<>>
  /\ calls' = [calls EXCEPT ![c] = Tail(@)]
  /\ reply' = [reply EXCEPT ![c] = Head(calls[c])]
  /\ RpcEnd(c)
  /\ UNCHANGED <<server, pc, threadVars, registered, binds, sent, timeouts>>

\* The answer to a bind names the service, if it is registered by then.
EndBind(c) ==
  /\ binds[c] # 0
  /\ binds' = [binds EXCEPT ![c] = @ - 1]
  /\ server' = [server EXCEPT ![c] = registered[c]]
  /\ RpcEnd(c)
  /\ UNCHANGED <<pc, threadVars, registered, calls, sent, reply, timeouts>>

Register(c) ==
  /\ ~registered[c]
  /\ registered' = [registered EXCEPT ![c] = TRUE]
  /\ UNCHANGED <<poolVars, server, wait_done, pc, threadVars, binds, calls, sent, reply, timeouts>>
-----------------------------------------------------------------------------
\* The thread inside a request.
Progress == \/ BindAlloc \/ BindClear \/ BindAddress \/ BindSend \/ BindDone
            \/ CallAddress \/ CallSend \/ CallDone \/ WaitTimeout

Next == \/ Progress
        \/ \E c \in Clients : \/ BindEnter(c) \/ CallEnter(c)
                              \/ EndBind(c) \/ EndCall(c) \/ Register(c)

Spec == Init /\ [][Next]_vars

\* The thread runs; nothing is assumed of the IOP, which may never answer.
FairSpec == Spec /\ WF_vars(Progress)
-----------------------------------------------------------------------------
(* Properties.                                                             *)

PoolType   == alloc \subseteq Packets /\ pkt_addr \in [Clients -> Packets \cup {NoPacket}]
FlagType   == server \in [Clients -> BOOLEAN] /\ wait_done \in BOOLEAN
ThreadType == /\ pc \in {"idle", "bind", "bind_clear", "bind_addr", "bind_send", "bind_wait",
                         "call_addr", "call_send", "call_wait"}
              /\ client \in Clients
              /\ packet \in Packets \cup {NoPacket}
              /\ attempt \in 0..Attempts
              /\ pc \in {"bind_clear", "bind_addr", "bind_send", "bind_wait"} => attempt < Attempts
IopType    == /\ registered \in [Clients -> BOOLEAN]
              /\ binds \in [Clients -> Nat]
              /\ calls \in [Clients -> Seq(Numbers)]
AuxType    == /\ sent \in [Clients -> Numbers] /\ reply \in [Clients -> Numbers]
              /\ timeouts \in 0..TimeoutCap

\* Type invariant; in particular the pool never hands out a slot it lacks.
TypeOK == PoolType /\ FlagType /\ ThreadType /\ IopType /\ AuxType

Waiting == pc \in {"bind_wait", "call_wait"}
Preparing == pc \in {"bind_clear", "bind_addr", "bind_send", "call_addr", "call_send"}

\* As long as no wait timed out, requests leave nothing behind: whenever the
\* thread is outside one, every packet is free and the IOP owes no answer.
QuietBetweenRequests ==
  timeouts = 0 /\ pc = "idle" =>
    /\ alloc = {}
    /\ \A c \in Clients : pkt_addr[c] = NoPacket /\ binds[c] = 0 /\ calls[c] = <<>>

\* As long as no wait timed out, a call that is about to return success has
\* its own reply in the receive buffer.
ReplyIsOwn ==
  timeouts = 0 /\ pc = "call_wait" /\ wait_done => reply[client] = sent[client]

\* However late an end packet comes, the slot it frees is in use by the client
\* it belongs to: no slot is freed twice, or under the request of another client.
PacketOwned ==
  /\ \A c \in Clients : pkt_addr[c] # NoPacket => pkt_addr[c] \in alloc
  /\ \A c, d \in Clients : c # d /\ pkt_addr[c] # NoPacket => pkt_addr[c] # pkt_addr[d]
  /\ Preparing => /\ packet \in Packets
                  /\ \A c \in Clients \ {client} : pkt_addr[c] # packet
  /\ pc \in {"bind_clear", "bind_addr", "call_addr"} =>
       packet \in alloc /\ pkt_addr[client] # packet

\* A client that is bound stays bound until it is bound again, whatever late
\* answers to earlier bind attempts and calls arrive.
BoundStays ==
  [][\A c \in Clients : server[c] /\ ~server'[c] => pc = "bind_clear" /\ client = c]_vars

\* Every request returns, also when the IOP never answers.
EveryRequestReturns == pc # "idle" ~> pc = "idle"

\* The client is synchronous: a call that returns success has been answered.
CallIsSynchronous ==
  [][pc = "call_wait" /\ wait_done /\ pc' = "idle" => reply[client] = sent[client]]_vars
=============================================================================
