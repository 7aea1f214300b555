----------------------------- MODULE PadService -----------------------------
(***************************************************************************)
(* The IOP pad service (src/iop/pad/src/main.c and the Multitap commands   *)
(* of sio2_direct.c) for one controller port, and what is plugged into it. *)
(* The two ports share nothing but the thread that serves requests.        *)
(*                                                                         *)
(* One step is one SIO2 transfer; if Lossy, any transfer may be lost, and  *)
(* pads and Multitaps may be exchanged between any two.                    *)
(***************************************************************************)
EXTENDS Integers, FiniteSets

CONSTANTS SlotCount, \* EF2PAD_SLOT_COUNT
          TapSizes,  \* what may be at the port: 1 is a pad, n > 1 a Multitap of n slots
          Profiles,  \* how pads answer: "normal", "slow", "stat70"
          Kinds,     \* whether a pad is a DualShock
          Lossy,     \* whether the answer to a transfer may be lost
          MaxPads    \* bound: pads plugged in at once

ASSUME PadAssumption == /\ SlotCount \in Nat \ {0}
                        /\ TapSizes \subseteq 1 .. SlotCount /\ TapSizes # {}
                        /\ Profiles \subseteq {"normal", "slow", "stat70"}
                        /\ Kinds \subseteq BOOLEAN /\ Lossy \in BOOLEAN /\ MaxPads \in Nat

Slots == 0 .. SlotCount - 1

\* Identifiers: no pad, then 0x41, 0x73, 0x79, and 0xF3 while being configured.
None     == 0
Digital  == 65
Analog   == 115
Pressure == 121
Config   == 243

VARIABLES
  slot_count, selected, \* g_slot_count, g_selected_slot
  state,                \* g_ports: by slot
  \* the request in progress: its step, its slot, previous_id
  pc, slot, previous_id,
  \* what is at the port: slots, the slot a Multitap routes to, pads by slot
  tap, tap_slot, pad,
  \* modelling state: neither loss nor exchange during the request so far; the
  \* slots whose client asked for the motors since they were last found empty
  clean, asked

topology == <<slot_count, selected>>
plugged  == <<tap, tap_slot, pad>>
vars == <<topology, state, pc, slot, previous_id, plugged, clean, asked>>

\* Rumble motors are on or off.
Fresh == [connected |-> FALSE, id |-> None, timing |-> 0, stat70 |-> 0,
          config_attempted |-> FALSE, rumble_supported |-> FALSE, rumble |-> FALSE]

NoPad == [profile |-> "none", dualshock |-> FALSE, id |-> None, config |-> FALSE]

Pad(p, d) == [profile |-> p, dualshock |-> d, id |-> Digital, config |-> FALSE]

Init ==
  /\ slot_count = 1 /\ selected = 0
  /\ state = [s \in Slots |-> Fresh]
  /\ pc = "idle" /\ slot = 0 /\ previous_id = None
  /\ tap \in TapSizes /\ tap_slot = 0 /\ pad = [s \in Slots |-> NoPad]
  /\ clean = TRUE /\ asked = {}
-----------------------------------------------------------------------------
(* What is at the port.                                                    *)

\* The pad a transfer reaches, and whether it answers the transfer's profile.
Reached == IF tap = 1 THEN 0 ELSE tap_slot
Wire(timing, stat70) == IF stat70 = 1 THEN "stat70" ELSE IF timing = 1 THEN "slow" ELSE "normal"
Answers(timing, stat70) == pad[Reached].profile = Wire(timing, stat70)

\* The identifier in the answer, and the framing bit after it.
Reply   == IF pad[Reached].config THEN Config ELSE pad[Reached].id
Framing == IF pad[Reached].profile = "stat70" THEN 1 ELSE 0

Exchange == /\ clean' = (clean /\ pc = "idle")
            /\ UNCHANGED <<topology, state, pc, slot, previous_id, asked>>

Plug(s) == /\ s < tap
           /\ Cardinality({r \in Slots \ {s} : pad[r] # NoPad}) < MaxPads
           /\ \E p \in Profiles, d \in Kinds : pad' = [pad EXCEPT ![s] = Pad(p, d)]
           /\ Exchange /\ UNCHANGED <<tap, tap_slot>>

Unplug(s) == /\ pad' = [pad EXCEPT ![s] = NoPad]
             /\ Exchange /\ UNCHANGED <<tap, tap_slot>>

\* A Multitap is plugged in or removed, with the pads that are in it.
PlugTap(n) == /\ n # tap
              /\ tap' = n /\ tap_slot' = 0 /\ pad' = [s \in Slots |-> NoPad]
              /\ Exchange
-----------------------------------------------------------------------------
(* Requests.                                                               *)

Goto(step) == pc' = step /\ UNCHANGED <<slot, previous_id>>
Return == pc' = "idle" /\ slot' = 0 /\ previous_id' = None
Lost == Lossy /\ clean' = FALSE

\* The slots the Multitap reports; without one, or if the answer is lost, one.
Refresh == \/ slot_count' = tap /\ UNCHANGED clean
           \/ slot_count' = 1 /\ Lost
Requery == Refresh /\ selected' = 0

\* INIT and REFRESH_TOPOLOGY.
RefreshTopology ==
  /\ pc = "idle"
  /\ clean' = TRUE
  /\ slot_count' = tap \/ (Lossy /\ slot_count' = 1)
  /\ selected' = 0
  /\ UNCHANGED <<state, pc, slot, previous_id, plugged, asked>>

\* SET_RUMBLE and SET_RUMBLE_SLOT, when accepted.
SetRumble(s, on) ==
  /\ pc = "idle" /\ s < slot_count
  /\ state[s].connected /\ state[s].rumble_supported
  /\ state' = [state EXCEPT ![s].rumble = on]
  /\ asked' = IF on THEN asked \cup {s} ELSE asked \ {s}
  /\ UNCHANGED <<topology, pc, slot, previous_id, plugged, clean>>

\* POLL (of slot 0) and POLL_SLOT enter poll_slot.
Poll(s) ==
  /\ pc = "idle" /\ s < slot_count
  /\ slot' = s /\ previous_id' = state[s].id
  /\ clean' = TRUE /\ pc' = "select"
  /\ UNCHANGED <<topology, state, plugged, asked>>

FirstTry == IF state[slot].connected THEN "same" ELSE "find"

\* ef2_sio2_mtap_select_slot: up to three attempts, whose answers may be lost.
TapSelects == /\ tap > 1 /\ slot < tap
              /\ tap_slot' = slot /\ UNCHANGED clean
TapFails == \/ UNCHANGED tap_slot /\ IF tap > 1 /\ slot < tap THEN Lost ELSE UNCHANGED clean
            \/ tap > 1 /\ slot < tap /\ tap_slot' = slot /\ Lost

\* select_endpoint, until the first selection has succeeded or failed.
Select ==
  /\ pc = "select"
  /\ \/ /\ slot_count = 1 \/ selected = slot
        /\ Goto(FirstTry)
        /\ UNCHANGED <<topology, tap_slot, clean>>
     \/ /\ slot_count > 1 /\ selected # slot
        /\ \/ TapSelects /\ selected' = slot /\ Goto(FirstTry)
           \/ TapFails /\ Goto("requery") /\ UNCHANGED selected
        /\ UNCHANGED slot_count
  /\ UNCHANGED <<state, tap, pad, asked>>

\* poll_slot returns: the endpoint cannot be selected.
SelectFailed == /\ state' = [state EXCEPT ![slot].connected = FALSE]
                /\ Return

MutNoFallback ==
  /\ pc = "requery"
  /\ Goto("reselect")
  /\ UNCHANGED <<topology, clean, state, asked, plugged>>

\* The topology is read again.
SelectRequery ==
  /\ pc = "requery"
  /\ Requery
  /\ \/ slot_count' > 1 /\ Goto("reselect") /\ UNCHANGED state
     \/ slot_count' = 1 /\ slot = 0 /\ Goto(FirstTry) /\ UNCHANGED state
     \/ slot_count' = 1 /\ slot # 0 /\ SelectFailed
  /\ UNCHANGED <<plugged, asked>>

Reselect ==
  /\ pc = "reselect"
  /\ \/ TapSelects /\ selected' = slot /\ Goto(FirstTry) /\ UNCHANGED state
     \/ TapFails /\ SelectFailed /\ UNCHANGED selected
  /\ UNCHANGED <<slot_count, tap, pad, asked>>
-----------------------------------------------------------------------------
(* The transfers of poll_slot, try_profile and discover_pad.               *)

packet_size_for_id(id) ==
  LET size == (id % 16) * 2 + 3 IN IF size < 5 THEN 5 ELSE IF size > 32 THEN 32 ELSE size

\* The profile each attempt uses, and the attempt after it.
Attempt == [same   |-> [hint |-> state[slot].id, timing |-> state[slot].timing,
                        stat70 |-> state[slot].stat70, next |-> "other"],
            other  |-> [hint |-> state[slot].id, timing |-> 1 - state[slot].timing,
                        stat70 |-> 0, next |-> "find"],
            find   |-> [hint |-> None, timing |-> 0, stat70 |-> state[slot].stat70, next |-> "find_slow"],
            find_slow   |-> [hint |-> None, timing |-> 1, stat70 |-> 0, next |-> "find_stat70"],
            find_stat70 |-> [hint |-> None, timing |-> 0, stat70 |-> 1, next |-> "none"]]

\* The answer of the pad reached was not lost.
Heard(timing, stat70) == Answers(timing, stat70) /\ UNCHANGED clean
Unheard(timing, stat70) == IF Answers(timing, stat70) THEN Lost ELSE UNCHANGED clean

MutFailedStaysConnected ==
  /\ state' = [state EXCEPT ![slot] =
       [@ EXCEPT !.id = None, !.config_attempted = FALSE,
                 !.rumble_supported = FALSE, !.rumble = FALSE]]
  /\ asked' = asked \ {slot}
  /\ Return

MutFailedKeepsAttempted ==
  /\ state' = [state EXCEPT ![slot] =
       [@ EXCEPT !.connected = FALSE, !.id = None, !.rumble_supported = FALSE, !.rumble = FALSE]]
  /\ asked' = asked \ {slot}
  /\ Return

MutFailedKeepsRumble ==
  /\ state' = [state EXCEPT ![slot] =
       [@ EXCEPT !.connected = FALSE, !.id = None, !.config_attempted = FALSE]]
  /\ asked' = asked \ {slot}
  /\ Return

\* No profile got an answer: the slot is disconnected.
PollFailed ==
  /\ state' = [state EXCEPT ![slot] =
       [@ EXCEPT !.connected = FALSE, !.id = None, !.config_attempted = FALSE,
                 !.rumble_supported = FALSE, !.rumble = FALSE]]
  /\ asked' = asked \ {slot}
  /\ Return

MutOneProfile(a) ==
  /\ Unheard(a.timing, a.stat70)
  /\ IF a.next \in {"find_slow", "none"} THEN PollFailed
     ELSE Goto(a.next) /\ UNCHANGED <<state, asked>>

\* An attempt without an answer.
NextAttempt(a) ==
  /\ Unheard(a.timing, a.stat70)
  /\ IF a.next = "none" THEN PollFailed ELSE Goto(a.next) /\ UNCHANGED <<state, asked>>

\* An answer that is short, or from another pad than before, is fetched in full.
TryProfile ==
  /\ pc \in DOMAIN Attempt
  /\ LET a == Attempt[pc]
     IN  \/ NextAttempt(a)
         \/ /\ Heard(a.timing, a.stat70)
            /\ state' = [state EXCEPT ![slot] =
                 [@ EXCEPT !.stat70 = Framing, !.timing = a.timing, !.id = Reply]]
            /\ Goto(IF Reply # previous_id
                       \/ packet_size_for_id(a.hint) < packet_size_for_id(Reply)
                    THEN "fetch" ELSE "settle")
            /\ UNCHANGED asked
  /\ UNCHANGED <<topology, plugged>>

Fetch ==
  /\ pc = "fetch"
  /\ LET st == state[slot]
     IN  \/ Unheard(st.timing, st.stat70) /\ UNCHANGED state
         \/ /\ Heard(st.timing, st.stat70)
            /\ state' = [state EXCEPT ![slot] = [@ EXCEPT !.stat70 = Framing, !.id = Reply]]
  /\ Goto("settle")
  /\ UNCHANGED <<topology, plugged, asked>>

should_configure_pad(id) == id \in {Digital, Analog, Pressure}

\* The end of poll_slot, but for a configuration in between.
Settle ==
  /\ pc = "settle"
  /\ LET st == state[slot]
         attempted == st.config_attempted
                        /\ ~(previous_id # None /\ st.id = Digital /\ previous_id # Digital)
         configure == ~attempted /\ should_configure_pad(st.id)
     IN  /\ state' = [state EXCEPT ![slot] =
              [@ EXCEPT !.config_attempted = attempted \/ configure,
                        !.connected = st.connected \/ ~configure]]
         /\ IF configure THEN Goto("enter") ELSE Return
  /\ UNCHANGED <<topology, plugged, clean, asked>>
-----------------------------------------------------------------------------
(* configure_dualshock: five commands, at the normal timing.               *)

\* What each command does to a DualShock; other pads ignore all of them.
Obeyed == [enter    |-> [pad[Reached] EXCEPT !.config = TRUE],
           analog   |-> [pad[Reached] EXCEPT !.id = IF pad[Reached].config THEN Analog ELSE @],
           pressure |-> [pad[Reached] EXCEPT !.id = IF pad[Reached].config THEN Pressure ELSE @],
           align    |-> pad[Reached],
           exit     |-> [pad[Reached] EXCEPT !.config = FALSE]]

AfterCommand == [enter |-> "analog", analog |-> "pressure", pressure |-> "align",
                 align |-> "exit", exit |-> "configured"]

Execute == pad' = IF Answers(0, state[slot].stat70) /\ pad[Reached].dualshock
                  THEN [pad EXCEPT ![Reached] = Obeyed[pc]] ELSE pad

\* transfer_command; a command may be obeyed although its answer is lost.
Command ==
  /\ pc \in DOMAIN Obeyed
  /\ \/ /\ Heard(0, state[slot].stat70) /\ Execute
        /\ state' = [state EXCEPT ![slot] =
             [@ EXCEPT !.stat70 = Framing,
                       !.rumble_supported = IF pc = "align" THEN Reply = Config
                                            ELSE state[slot].rumble_supported]]
        /\ Goto(AfterCommand[pc])
     \/ /\ Unheard(0, state[slot].stat70)
        /\ Execute \/ UNCHANGED pad
        /\ state' = [state EXCEPT ![slot].rumble_supported = @ /\ pc # "align"]
        /\ Goto(IF pc = "enter" THEN "configured" ELSE AfterCommand[pc])
  /\ UNCHANGED <<topology, tap, tap_slot, asked>>

Connect ==
  /\ pc = "configured"
  /\ state' = [state EXCEPT ![slot].connected = TRUE]
  /\ Return
  /\ UNCHANGED <<topology, plugged, clean, asked>>
-----------------------------------------------------------------------------
Next ==
  \/ RefreshTopology
  \/ \E s \in Slots : \/ Poll(s) \/ Plug(s) \/ Unplug(s)
                      \/ \E on \in BOOLEAN : SetRumble(s, on)
  \/ \E n \in TapSizes : PlugTap(n)
  \/ Select \/ SelectRequery \/ Reselect
  \/ TryProfile \/ Fetch \/ Settle \/ Command \/ Connect

Spec == Init /\ [][Next]_vars
-----------------------------------------------------------------------------
(* Properties.                                                             *)

Steps == {"idle", "select", "requery", "reselect", "fetch", "settle", "configured"}
           \cup DOMAIN Attempt \cup DOMAIN Obeyed

TopologyType == /\ slot_count \in 1 .. SlotCount /\ selected \in Slots
                /\ tap \in TapSizes /\ tap_slot \in Slots /\ tap_slot < tap
StateType == state \in [Slots -> [connected : BOOLEAN, id : {None, Digital, Analog, Pressure, Config},
                                  timing : {0, 1}, stat70 : {0, 1}, config_attempted : BOOLEAN,
                                  rumble_supported : BOOLEAN, rumble : BOOLEAN]]
RequestType == /\ pc \in Steps /\ slot \in Slots
               /\ previous_id \in {None, Digital, Analog, Pressure, Config}
PadType == pad \in [Slots -> {NoPad} \cup [profile : Profiles, dualshock : BOOLEAN,
                                          id : {Digital, Analog, Pressure}, config : BOOLEAN]]

\* Type invariant. A slot that is connected has an identifier, and a pad that can
\* be configured has been asked to be; a request only polls slots that exist.
TypeOK == /\ TopologyType /\ StateType /\ RequestType /\ PadType
          /\ clean \in BOOLEAN /\ asked \subseteq Slots
          /\ \A s \in Slots : state[s].connected =>
               /\ state[s].id # None
               /\ pc = "idle" /\ should_configure_pad(state[s].id) => state[s].config_attempted

Returns == pc # "idle" /\ pc' = "idle"

\* A poll that nothing disturbs, and that could select its slot, reports the slot
\* connected exactly if there is a pad in the slot routed to: a pad that left is
\* gone from the state and a pad that came is found, unless one of them uses STAT70.
FoundIffPlugged ==
  [][Returns /\ pc \notin {"requery", "reselect"} /\ clean'
       => (state'[slot].connected <=> pad[Reached] # NoPad)]_vars

\* A poll that finds a pad where the last one found none has configured it, if the
\* pad can be configured, whatever pads came and went before.
ConfiguredWhenFound ==
  [][Returns /\ previous_id = None /\ state'[slot].connected
       /\ should_configure_pad(state'[slot].id) => pc = "configured"]_vars

\* The transfer about to be made carries the client's motor values.
Driving == /\ pc \in {"same", "other", "fetch"}
           /\ packet_size_for_id(state[slot].id) >= 9
           /\ state[slot].rumble_supported /\ state[slot].rumble

\* Motors run only if the client asked since a poll last found the slot empty: a
\* pad that is plugged in after that does not inherit the rumble of the one before.
MotorsAsAsked == Driving => slot \in asked

\* A poll that gives up on selecting its slot, undisturbed, leaves the topology
\* that is there: removing a Multitap does not leave its slots behind.
TopologyFollowsTap ==
  [][Returns /\ pc \in {"requery", "reselect"} /\ clean' => slot_count' = tap]_vars

\* A slot is selected before its pad is polled.
PollsAskedSlot == pc \in DOMAIN Attempt /\ clean /\ tap > 1 => tap_slot = slot
=============================================================================
