-------------------------- MODULE PadServiceProofs --------------------------
(***************************************************************************)
(* Theorems about PadService for every number of slots, every Multitap and *)
(* any pads, plugged in and out and with transfers lost at any point.      *)
(***************************************************************************)
EXTENDS PadService, TLAPS

Ids      == {Digital, Analog, Pressure, Config}
Tries    == {"same", "other", "find", "find_slow", "find_stat70"}
Commands == {"enter", "analog", "pressure", "align", "exit"}
Searches == {"select", "requery", "reselect", "fetch", "settle"} \cup Tries

\* A slot the service knows a pad in: one that is connected has been asked to be
\* configured, unless its poll is still under way.
Known(s) == /\ state[s].connected => state[s].id # None
            /\ state[s].id = None => ~state[s].config_attempted
            /\ state[s].rumble => s \in asked
            /\ (s # slot \/ pc = "idle") /\ state[s].connected /\ should_configure_pad(state[s].id)
                 => state[s].config_attempted

\* The slot being polled: found before it is configured, and a pad that was not
\* there before has not been asked yet.
Polled == /\ pc \in {"fetch", "settle", "configured"} \cup Commands => state[slot].id # None
          /\ pc \in {"configured"} \cup Commands => state[slot].config_attempted
          /\ pc \in Searches /\ previous_id = None => ~state[slot].config_attempted

PadTypes == TopologyType /\ StateType /\ RequestType /\ PadType /\ clean \in BOOLEAN /\ asked \subseteq Slots
PadInv   == PadTypes /\ (\A s \in Slots : Known(s)) /\ Polled
Entries == [connected : BOOLEAN, id : {None, Digital, Analog, Pressure, Config},
            timing : {0, 1}, stat70 : {0, 1}, config_attempted : BOOLEAN,
            rumble_supported : BOOLEAN, rumble : BOOLEAN]
Pads    == [profile : Profiles, dualshock : BOOLEAN, id : {Digital, Analog, Pressure}, config : BOOLEAN]
-----------------------------------------------------------------------------
(* What the operators return.                                              *)

\* The identifiers are distinct, and those of pads are not None.
LEMMA IdsDiffer == /\ None = 0 /\ Digital = 65 /\ Analog = 115 /\ Pressure = 121 /\ Config = 243
                   /\ None \notin Ids
  BY DEF None, Digital, Analog, Pressure, Config, Ids

\* The commands of Attempt and of Obeyed.
LEMMA Domains == DOMAIN Attempt = Tries /\ DOMAIN Obeyed = Commands
  BY DEF Attempt, Obeyed, Tries, Commands

\* The steps of a request do not depend on the state.
LEMMA StepsConstant == /\ Steps = {"idle", "configured"} \cup Commands \cup Searches
                       /\ Steps' = {"idle", "configured"} \cup Commands \cup Searches
<1>1. Steps = {"idle", "configured"} \cup Commands \cup Searches
  BY Domains DEF Steps, Searches
<1>2. DOMAIN Attempt' = Tries /\ DOMAIN Obeyed' = Commands
  BY DEF Attempt, Obeyed, Tries, Commands
<1>3. Steps' = {"idle", "configured"} \cup Commands \cup Searches
  BY <1>2 DEF Steps, Searches
<1> QED BY <1>1, <1>3

\* A transfer reaches a slot that exists.
LEMMA ReachedInSlots == ASSUME TopologyType PROVE Reached \in Slots
<1>1. tap \in 1 .. SlotCount /\ SlotCount \in Nat \ {0}
  BY PadAssumption DEF TopologyType
<1> QED BY <1>1 DEF Reached, Slots, TopologyType

\* A pad that answers try_profile is one that is there: its identifier is not None.
LEMMA AnswerIsAPad ==
  ASSUME TopologyType, PadType, NEW timing, NEW stat70, Answers(timing, stat70)
  PROVE  pad[Reached] \in Pads /\ Reply \in Ids /\ Framing \in {0, 1}
<1>1. pad[Reached] \in {NoPad} \cup Pads BY ReachedInSlots DEF PadType, Pads
<1>2. pad[Reached].profile # "none" BY DEF Answers, Wire
<1>3. pad[Reached] \in Pads BY <1>1, <1>2 DEF NoPad
<1>4. Reply \in Ids BY <1>3 DEF Pads, Reply, Ids
<1> QED BY <1>3, <1>4 DEF Framing

\* The profiles poll_slot and discover_pad try, and what follows each.
LEMMA AttemptTyped ==
  ASSUME StateType, slot \in Slots, NEW p \in Tries
  PROVE  /\ Attempt[p].timing \in {0, 1} /\ Attempt[p].stat70 \in {0, 1}
         /\ Attempt[p].next \in Tries \cup {"none"}
<1>1. state[slot].timing \in {0, 1} /\ state[slot].stat70 \in {0, 1} BY DEF StateType
<1>2. CASE p = "same" BY <1>1, <1>2 DEF Attempt, Tries
<1>3. CASE p = "other" BY <1>1, <1>3 DEF Attempt, Tries
<1>4. CASE p = "find" BY <1>1, <1>4 DEF Attempt, Tries
<1>5. CASE p = "find_slow" BY <1>1, <1>5 DEF Attempt, Tries
<1>6. CASE p = "find_stat70" BY <1>1, <1>6 DEF Attempt, Tries
<1> QED BY <1>2, <1>3, <1>4, <1>5, <1>6 DEF Tries
-----------------------------------------------------------------------------
(* What a step does to the entry of the slot that is polled.               *)

\* What has to be known of the entry of a slot, when no poll of it is under way.
Settled(r) == r.connected /\ should_configure_pad(r.id) => r.config_attempted

\* A step of a poll that writes the entry of its slot and no other.
LEMMA EntryWritten ==
  ASSUME PadInv, pc # "idle", slot' = slot \/ pc' = "idle",
         NEW r \in Entries, state' = [state EXCEPT ![slot] = r],
         asked' \subseteq Slots, asked \ {slot} \subseteq asked',
         r.connected => r.id # None,
         r.id = None => ~r.config_attempted,
         r.rumble => slot \in asked',
         pc' = "idle" => Settled(r)
  PROVE  StateType' /\ state'[slot] = r /\ \A s \in Slots : Known(s)'
<1>1. state \in [Slots -> Entries] /\ slot \in Slots
  BY DEF PadInv, PadTypes, StateType, RequestType, Entries
<1>2. state' \in [Slots -> Entries] /\ state'[slot] = r BY <1>1
<1>3. ASSUME NEW s \in Slots PROVE Known(s)'
  <2>0. Known(s) BY DEF PadInv
  <2>1. CASE s = slot
    <3>1. state'[s] = r BY <1>2, <2>1
    <3>2. s # slot' \/ pc' = "idle" => pc' = "idle" BY <2>1
    <3> QED BY <3>1, <3>2, <2>1 DEF Known, Settled
  <2>2. CASE s # slot
    <3>1. state'[s] = state[s] BY <1>1, <2>2
    <3>2. s \in asked => s \in asked' BY <2>2
    <3> QED BY <3>1, <3>2, <2>0, <2>2 DEF Known
  <2> QED BY <2>1, <2>2
<1> QED BY <1>2, <1>3 DEF StateType, Entries

\* A step that goes on with a poll and writes no entry.
LEMMA EntryKept ==
  ASSUME PadInv, pc # "idle", pc' # "idle", slot' = slot, state' = state, asked' = asked
  PROVE  StateType' /\ (\A s \in Slots : Known(s)') /\ asked' \subseteq Slots
<1>1. ASSUME NEW s \in Slots PROVE Known(s)'
  BY DEF PadInv, Known
<1> QED BY <1>1 DEF PadInv, PadTypes, StateType

\* The entry of the slot that is polled.
LEMMA PolledEntry ==
  ASSUME PadInv
  PROVE  /\ slot \in Slots /\ state[slot] \in Entries /\ state \in [Slots -> Entries]
         /\ state[slot].connected => state[slot].id # None
         /\ state[slot].id = None => ~state[slot].config_attempted
         /\ state[slot].rumble => slot \in asked
<1>1. slot \in Slots /\ state \in [Slots -> Entries]
  BY DEF PadInv, PadTypes, StateType, RequestType, Entries
<1>2. Known(slot) BY <1>1 DEF PadInv
<1> QED BY <1>1, <1>2 DEF Known
-----------------------------------------------------------------------------
(* Every step preserves PadInv.                                            *)

\* Nothing is known of a slot that nobody polled.
LEMMA Initially == Init => PadInv
<1> SUFFICES ASSUME Init PROVE PadInv OBVIOUS
<1>1. SlotCount \in Nat \ {0} /\ TapSizes \subseteq 1 .. SlotCount BY PadAssumption
<1>2. TopologyType BY <1>1 DEF Init, TopologyType, Slots
<1>3. Fresh \in Entries BY DEF Fresh, Entries, None
<1>4. StateType BY <1>3 DEF Init, StateType, Entries
<1>5. RequestType BY <1>1, StepsConstant DEF Init, RequestType, Slots
<1>6. PadType BY DEF Init, PadType
<1>7. clean \in BOOLEAN /\ asked \subseteq Slots BY DEF Init
<1>8. \A s \in Slots : Known(s) BY DEF Init, Known, Fresh
<1>9. Polled BY DEF Init, Polled, Searches, Tries, Commands
<1> QED BY <1>2, <1>4, <1>5, <1>6, <1>7, <1>8, <1>9 DEF PadInv, PadTypes

\* Pads and Multitaps that come and go change nothing the service knows.
LEMMA ExchangeKeeps == ASSUME PadInv, Exchange, PadType',
                              tap' \in TapSizes, tap_slot' \in Slots, tap_slot' < tap'
                       PROVE  PadInv'
<1>1. TopologyType' BY DEF PadInv, PadTypes, TopologyType, Exchange, topology
<1>2. StateType' /\ RequestType'
  BY StepsConstant DEF PadInv, PadTypes, StateType, RequestType, Exchange
<1>3. clean' \in BOOLEAN /\ asked' \subseteq Slots
  <2>1. clean \in BOOLEAN /\ asked \subseteq Slots BY DEF PadInv, PadTypes
  <2>2. clean' = (clean /\ pc = "idle") /\ asked' = asked BY DEF Exchange
  <2> QED BY <2>1, <2>2
<1>4. ASSUME NEW s \in Slots PROVE Known(s)'
  BY DEF PadInv, Known, Exchange
<1>5. Polled' BY DEF PadInv, Polled, Exchange
<1> QED BY <1>1, <1>2, <1>3, <1>4, <1>5 DEF PadInv, PadTypes

\* A pad is plugged in or out.
LEMMA PadsComeAndGo ==
  ASSUME PadInv, NEW s \in Slots, Plug(s) \/ Unplug(s)
  PROVE  PadInv'
<1>1. pad \in [Slots -> {NoPad} \cup Pads] BY DEF PadInv, PadTypes, PadType, Pads
<1>2. ASSUME NEW p \in Profiles, NEW d \in Kinds PROVE Pad(p, d) \in Pads
  BY PadAssumption DEF Pad, Pads
<1>3. pad' \in [Slots -> {NoPad} \cup Pads]
  <2>1. CASE Plug(s)
    <3>1. PICK p \in Profiles, d \in Kinds : pad' = [pad EXCEPT ![s] = Pad(p, d)] BY <2>1 DEF Plug
    <3>2. Pad(p, d) \in {NoPad} \cup Pads BY <1>2
    <3> QED BY <1>1, <3>1, <3>2
  <2>2. CASE Unplug(s) BY <1>1, <2>2 DEF Unplug
  <2> QED BY <2>1, <2>2
<1>4. Exchange /\ tap' = tap /\ tap_slot' = tap_slot BY DEF Plug, Unplug
<1>5. tap \in TapSizes /\ tap_slot \in Slots /\ tap_slot < tap BY DEF PadInv, PadTypes, TopologyType
<1>6. PadType' BY <1>3 DEF PadType, Pads
<1> QED BY <1>4, <1>5, <1>6, ExchangeKeeps

\* A Multitap is plugged in or out.
LEMMA TapsComeAndGo == ASSUME PadInv, NEW n \in TapSizes, PlugTap(n) PROVE PadInv'
<1>1. n \in 1 .. SlotCount /\ SlotCount \in Nat \ {0} BY PadAssumption
<1>2. tap' = n /\ tap_slot' = 0 /\ pad' = [s \in Slots |-> NoPad] /\ Exchange BY DEF PlugTap
<1>3. PadType' BY <1>2 DEF PadType
<1>4. 0 \in Slots /\ 0 < n BY <1>1 DEF Slots
<1> QED BY <1>2, <1>3, <1>4, ExchangeKeeps

\* INIT and REFRESH_TOPOLOGY.
LEMMA RefreshKeeps == ASSUME PadInv, RefreshTopology PROVE PadInv'
<1>1. SlotCount \in Nat \ {0} /\ TapSizes \subseteq 1 .. SlotCount BY PadAssumption
<1>2. TopologyType'
  <2>1. tap \in TapSizes /\ tap_slot \in Slots /\ tap_slot < tap BY DEF PadInv, PadTypes, TopologyType
  <2>2. /\ slot_count' \in {tap, 1} /\ selected' = 0 /\ tap' = tap /\ tap_slot' = tap_slot
    BY DEF RefreshTopology, plugged
  <2>3. tap \in 1 .. SlotCount /\ 1 \in 1 .. SlotCount /\ 0 \in Slots BY <1>1, <2>1 DEF Slots
  <2> QED BY <2>1, <2>2, <2>3 DEF TopologyType
<1>3. StateType' /\ RequestType' /\ PadType' /\ asked' \subseteq Slots
  BY StepsConstant DEF PadInv, PadTypes, StateType, RequestType, PadType, RefreshTopology, plugged
<1>4. clean' \in BOOLEAN BY DEF RefreshTopology
<1>5. ASSUME NEW s \in Slots PROVE Known(s)' BY DEF PadInv, Known, RefreshTopology
<1>6. Polled' BY DEF PadInv, Polled, RefreshTopology
<1> QED BY <1>2, <1>3, <1>4, <1>5, <1>6 DEF PadInv, PadTypes

\* A rumble request that is accepted is remembered in asked.
LEMMA SetRumbleKeeps ==
  ASSUME PadInv, NEW s \in Slots, NEW on \in BOOLEAN, SetRumble(s, on)
  PROVE  PadInv'
<1> DEFINE r == [state[s] EXCEPT !.rumble = on]
<1>1. state \in [Slots -> Entries] BY DEF PadInv, PadTypes, StateType, Entries
<1>2. state' = [state EXCEPT ![s] = r] BY DEF SetRumble
<1>3. state[s] \in Entries BY <1>1
<1>4. /\ r \in Entries /\ r.connected = state[s].connected /\ r.id = state[s].id
      /\ r.config_attempted = state[s].config_attempted /\ r.rumble = on
  BY <1>3 DEF Entries
<1> HIDE DEF r
<1>5. state' \in [Slots -> Entries] /\ state'[s] = r BY <1>1, <1>2, <1>4
<1>6. pc = "idle" /\ pc' = "idle" /\ slot' = slot /\ previous_id' = previous_id
  BY DEF SetRumble
<1>7. asked' = IF on THEN asked \cup {s} ELSE asked \ {s} BY DEF SetRumble
<1>8. ASSUME NEW t \in Slots PROVE Known(t)'
  <2>0. Known(t) BY DEF PadInv
  <2>1. CASE t = s BY <2>0, <2>1, <1>4, <1>5, <1>6, <1>7 DEF Known
  <2>2. CASE t # s
    <3>1. state'[t] = state[t] BY <1>1, <1>2, <2>2
    <3>2. t \in asked => t \in asked' BY <1>7, <2>2
    <3> QED BY <3>1, <3>2, <2>0, <1>6 DEF Known
  <2> QED BY <2>1, <2>2
<1>9. TopologyType' /\ RequestType' /\ PadType'
  BY <1>6, StepsConstant
  DEF PadInv, PadTypes, TopologyType, RequestType, PadType, SetRumble, topology, plugged
<1>10. StateType' BY <1>5 DEF StateType, Entries
<1>11. clean' \in BOOLEAN BY DEF PadInv, PadTypes, SetRumble
<1>12. asked' \subseteq Slots BY <1>7 DEF PadInv, PadTypes
<1>13. Polled' BY <1>6 DEF Polled, Commands, Searches, Tries
<1> QED BY <1>8, <1>9, <1>10, <1>11, <1>12, <1>13 DEF PadInv, PadTypes

\* A poll begins: a slot without a pad has not been asked to be configured.
LEMMA PollKeeps == ASSUME PadInv, NEW s \in Slots, Poll(s) PROVE PadInv'
<1>1. state \in [Slots -> Entries] BY DEF PadInv, PadTypes, StateType, Entries
<1>2. /\ pc = "idle" /\ pc' = "select" /\ slot' = s /\ previous_id' = state[s].id
      /\ state' = state /\ asked' = asked /\ clean' = TRUE
  BY DEF Poll
<1>3. state[s].id \in {None, Digital, Analog, Pressure, Config} BY <1>1 DEF Entries
<1>4. TopologyType' /\ StateType' /\ PadType'
  BY <1>2 DEF PadInv, PadTypes, TopologyType, StateType, PadType, Poll, topology, plugged
<1>5. RequestType' BY <1>2, <1>3, StepsConstant DEF RequestType, Searches
<1>6. ASSUME NEW t \in Slots PROVE Known(t)' BY <1>2 DEF PadInv, Known
<1>7. Known(s) BY DEF PadInv
<1>8. Polled' BY <1>2, <1>7 DEF Known, Polled, Searches, Tries, Commands
<1> QED BY <1>2, <1>4, <1>5, <1>6, <1>8 DEF PadInv, PadTypes
\* A request goes on with a known step, or returns.
LEMMA RequestGoesOn ==
  ASSUME PadInv, (\E step \in {"configured"} \cup Commands \cup Searches : Goto(step)) \/ Return
  PROVE  /\ RequestType' /\ (slot' = slot \/ pc' = "idle")
         /\ Return => Polled'
<1>1. 0 \in Slots BY PadAssumption DEF Slots
<1>2. slot \in Slots /\ previous_id \in {None, Digital, Analog, Pressure, Config}
  BY DEF PadInv, PadTypes, RequestType
<1>3. CASE Return
  <2>1. pc' = "idle" /\ slot' = 0 /\ previous_id' = None BY <1>3 DEF Return
  <2>2. RequestType' BY <2>1, <1>1, StepsConstant DEF RequestType
  <2>3. Polled' BY <2>1 DEF Polled, Commands, Searches, Tries
  <2> QED BY <2>1, <2>2, <2>3
<1>4. CASE \E step \in {"configured"} \cup Commands \cup Searches : Goto(step)
  <2>1. PICK step \in {"configured"} \cup Commands \cup Searches : Goto(step) BY <1>4
  <2>2. pc' = step /\ slot' = slot /\ previous_id' = previous_id BY <2>1 DEF Goto
  <2>3. RequestType' BY <2>2, <1>2, StepsConstant DEF RequestType
  <2>4. Return => Polled'
    <3>1. step # "idle" BY DEF Commands, Searches, Tries
    <3> QED BY <3>1, <2>2 DEF Return
  <2> QED BY <2>2, <2>3, <2>4
<1> QED BY <1>3, <1>4

\* A slot whose selection failed is disconnected, and otherwise as it was.
LEMMA SelectFailedKeeps ==
  ASSUME PadInv, pc # "idle", SelectFailed, asked' = asked
  PROVE  /\ StateType' /\ RequestType' /\ Polled' /\ asked' \subseteq Slots
         /\ \A s \in Slots : Known(s)'
         /\ ~state'[slot].connected
<1> DEFINE r == [state[slot] EXCEPT !.connected = FALSE]
<1>1. state' = [state EXCEPT ![slot] = r] /\ Return BY DEF SelectFailed
<1>2. /\ r \in Entries /\ r.connected = FALSE /\ r.id = state[slot].id
      /\ r.config_attempted = state[slot].config_attempted /\ r.rumble = state[slot].rumble
  BY PolledEntry DEF Entries
<1> HIDE DEF r
<1>3. asked' \subseteq Slots /\ asked \ {slot} \subseteq asked' BY DEF PadInv, PadTypes
<1>4. RequestType' /\ (slot' = slot \/ pc' = "idle") /\ Polled' BY <1>1, RequestGoesOn
<1>5. r.rumble => slot \in asked' BY <1>2, PolledEntry
<1>6. r.id = None => ~r.config_attempted BY <1>2, PolledEntry
<1>7. Settled(r) BY <1>2 DEF Settled
<1>8. StateType' /\ state'[slot] = r /\ \A s \in Slots : Known(s)'
  BY <1>1, <1>2, <1>3, <1>4, <1>5, <1>6, <1>7, EntryWritten
<1> QED BY <1>2, <1>3, <1>4, <1>8

\* A slot in which no profile got an answer is empty, its motors are off, and it
\* has to be configured and asked for anew.
LEMMA PollFailedKeeps ==
  ASSUME PadInv, pc # "idle", PollFailed
  PROVE  /\ StateType' /\ RequestType' /\ Polled' /\ asked' \subseteq Slots
         /\ \A s \in Slots : Known(s)'
         /\ ~state'[slot].connected
<1> DEFINE r == [state[slot] EXCEPT !.connected = FALSE, !.id = None, !.config_attempted = FALSE,
                                    !.rumble_supported = FALSE, !.rumble = FALSE]
<1>1. state' = [state EXCEPT ![slot] = r] /\ asked' = asked \ {slot} /\ Return BY DEF PollFailed
<1>2. /\ r \in Entries /\ r.connected = FALSE /\ r.config_attempted = FALSE /\ r.rumble = FALSE
  BY PolledEntry DEF Entries
<1> HIDE DEF r
<1>3. asked' \subseteq Slots /\ asked \ {slot} \subseteq asked' BY <1>1 DEF PadInv, PadTypes
<1>4. RequestType' /\ (slot' = slot \/ pc' = "idle") /\ Polled' BY <1>1, RequestGoesOn
<1>5. Settled(r) BY <1>2 DEF Settled
<1>6. StateType' /\ state'[slot] = r /\ \A s \in Slots : Known(s)'
  BY <1>1, <1>2, <1>3, <1>4, <1>5, EntryWritten
<1> QED BY <1>2, <1>3, <1>4, <1>6

\* What a step leaves alone, or changes only in a way any poll may.
LEMMA TopologyKept ==
  ASSUME PadInv, tap' = tap, tap_slot' = tap_slot \/ (tap_slot' = slot /\ slot < tap),
         slot_count' \in {slot_count, tap, 1}, selected' \in {selected, slot, 0}
  PROVE  TopologyType'
<1>1. SlotCount \in Nat \ {0} /\ tap \in 1 .. SlotCount
  BY PadAssumption DEF PadInv, PadTypes, TopologyType
<1>2. 0 \in Slots /\ slot \in Slots BY <1>1 DEF PadInv, PadTypes, RequestType, Slots
<1>3. slot_count' \in 1 .. SlotCount BY <1>1 DEF PadInv, PadTypes, TopologyType
<1>4. selected' \in Slots BY <1>2 DEF PadInv, PadTypes, TopologyType
<1>5. tap_slot' \in Slots /\ tap_slot' < tap' BY <1>2 DEF PadInv, PadTypes, TopologyType
<1> QED BY <1>3, <1>4, <1>5 DEF PadInv, PadTypes, TopologyType

\* A step that leaves the pads alone.
LEMMA PadKept == ASSUME PadInv, pad' = pad PROVE PadType'
  BY DEF PadInv, PadTypes, PadType

\* A step in which a transfer may be lost.
LEMMA CleanKept == ASSUME PadInv, UNCHANGED clean \/ Lost PROVE clean' \in BOOLEAN
  BY DEF PadInv, PadTypes, Lost

\* A step of the search for a pad that leaves its entry as it is.
LEMMA SearchGoesOn ==
  ASSUME PadInv, pc \in Searches \ {"fetch", "settle"}, NEW step \in Searches \ {"fetch", "settle"},
         Goto(step), state' = state, asked' = asked
  PROVE  /\ StateType' /\ RequestType' /\ Polled' /\ asked' \subseteq Slots
         /\ \A s \in Slots : Known(s)'
<1>1. pc' = step /\ slot' = slot /\ previous_id' = previous_id BY DEF Goto
<1>2. pc # "idle" /\ step # "idle" BY DEF Searches, Tries
<1>3. StateType' /\ (\A s \in Slots : Known(s)') /\ asked' \subseteq Slots
  BY <1>1, <1>2, EntryKept
<1>4. RequestType' BY RequestGoesOn
<1>5. step \notin {"fetch", "settle", "configured"} \cup Commands BY DEF Searches, Tries, Commands
<1>6. Polled' BY <1>1, <1>5 DEF PadInv, Polled
<1> QED BY <1>3, <1>4, <1>6

\* The search begins with one of the profiles.
LEMMA FirstTrySearches == FirstTry \in Searches \ {"fetch", "settle"}
  BY DEF FirstTry, Searches, Tries

\* The first selection of an endpoint.
LEMMA SelectKeeps == ASSUME PadInv, Select PROVE PadInv'
<1>1. /\ pc = "select" /\ state' = state /\ tap' = tap /\ pad' = pad /\ asked' = asked
      /\ slot_count' = slot_count
  BY DEF Select, topology
<1>2. (tap_slot' = tap_slot \/ (tap_slot' = slot /\ slot < tap)) /\ selected' \in {selected, slot}
  BY DEF Select, topology, TapSelects, TapFails
<1>3. Goto(FirstTry) \/ Goto("requery") BY DEF Select
<1>4. UNCHANGED clean \/ Lost BY DEF Select, TapSelects, TapFails
<1>5. "requery" \in Searches \ {"fetch", "settle"} /\ "select" \in Searches \ {"fetch", "settle"}
  BY DEF Searches
<1>6. /\ StateType' /\ RequestType' /\ Polled' /\ asked' \subseteq Slots
      /\ \A s \in Slots : Known(s)'
  BY <1>1, <1>3, <1>5, FirstTrySearches, SearchGoesOn
<1>7. TopologyType' BY <1>1, <1>2, TopologyKept
<1> QED BY <1>1, <1>4, <1>6, <1>7, PadKept, CleanKept DEF PadInv, PadTypes

\* The topology is read again when a selection failed.
LEMMA RequeryKeeps == ASSUME PadInv, SelectRequery PROVE PadInv'
<1>1. /\ pc = "requery" /\ asked' = asked /\ tap' = tap /\ tap_slot' = tap_slot /\ pad' = pad
      /\ selected' = 0 /\ slot_count' \in {tap, 1} /\ (UNCHANGED clean \/ Lost)
  BY DEF SelectRequery, Requery, Refresh, plugged
<1>2. "reselect" \in Searches \ {"fetch", "settle"} /\ pc \in Searches \ {"fetch", "settle"}
  BY <1>1 DEF Searches
<1>3. /\ StateType' /\ RequestType' /\ Polled' /\ asked' \subseteq Slots
      /\ \A s \in Slots : Known(s)'
  <2>1. CASE SelectFailed BY <1>1, <2>1, SelectFailedKeeps
  <2>2. CASE (Goto("reselect") \/ Goto(FirstTry)) /\ UNCHANGED state
    BY <1>1, <1>2, <2>2, FirstTrySearches, SearchGoesOn
  <2> QED BY <2>1, <2>2 DEF SelectRequery
<1>4. TopologyType' BY <1>1, TopologyKept
<1> QED BY <1>1, <1>3, <1>4, PadKept, CleanKept DEF PadInv, PadTypes

\* The second selection of an endpoint.
LEMMA ReselectKeeps == ASSUME PadInv, Reselect PROVE PadInv'
<1>1. /\ pc = "reselect" /\ asked' = asked /\ tap' = tap /\ pad' = pad /\ slot_count' = slot_count
      /\ selected' \in {selected, slot} /\ (UNCHANGED clean \/ Lost)
      /\ (tap_slot' = tap_slot \/ (tap_slot' = slot /\ slot < tap))
  BY DEF Reselect, TapSelects, TapFails
<1>2. pc \in Searches \ {"fetch", "settle"} BY <1>1 DEF Searches
<1>3. /\ StateType' /\ RequestType' /\ Polled' /\ asked' \subseteq Slots
      /\ \A s \in Slots : Known(s)'
  <2>1. CASE SelectFailed BY <1>1, <2>1, SelectFailedKeeps
  <2>2. CASE Goto(FirstTry) /\ UNCHANGED state
    BY <1>1, <1>2, <2>2, FirstTrySearches, SearchGoesOn
  <2> QED BY <2>1, <2>2 DEF Reselect
<1>4. TopologyType' BY <1>1, TopologyKept
<1> QED BY <1>1, <1>3, <1>4, PadKept, CleanKept DEF PadInv, PadTypes
\* The answer to a profile is recorded: the slot has a pad, which is fetched in
\* full or settled.
LEMMA AnswerKeeps ==
  ASSUME PadInv, NEW a, pc \in Tries, a.timing \in {0, 1},
         Answers(a.timing, a.stat70),
         state' = [state EXCEPT ![slot] =
                     [@ EXCEPT !.stat70 = Framing, !.timing = a.timing, !.id = Reply]],
         Goto("fetch") \/ Goto("settle"), asked' = asked
  PROVE  /\ StateType' /\ RequestType' /\ Polled' /\ asked' \subseteq Slots
         /\ \A s \in Slots : Known(s)'
<1>0. pc # "idle" /\ pc \in Searches BY DEF Tries, Searches
<1>1. Reply \in Ids /\ Framing \in {0, 1} BY AnswerIsAPad DEF PadInv, PadTypes
<1> DEFINE r == [state[slot] EXCEPT !.stat70 = Framing, !.timing = a.timing, !.id = Reply]
<1>2. state' = [state EXCEPT ![slot] = r] OBVIOUS
<1>3. /\ r \in Entries /\ r.id = Reply /\ r.connected = state[slot].connected
      /\ r.config_attempted = state[slot].config_attempted /\ r.rumble = state[slot].rumble
  BY <1>1, PolledEntry DEF Entries, Ids
<1> HIDE DEF r
<1>4. r.id # None BY <1>1, <1>3, IdsDiffer
<1>5. asked' \subseteq Slots /\ asked \ {slot} \subseteq asked' BY DEF PadInv, PadTypes
<1>6. /\ slot' = slot /\ previous_id' = previous_id /\ pc' # "idle"
      /\ pc' \in {"fetch", "settle"}
  BY DEF Goto
<1>7. r.rumble => slot \in asked' BY <1>3, PolledEntry
<1>8. StateType' /\ state'[slot] = r /\ \A s \in Slots : Known(s)'
  BY <1>0, <1>2, <1>3, <1>4, <1>5, <1>6, <1>7, EntryWritten
<1>9. RequestType' BY RequestGoesOn DEF Searches
<1>10. Polled'
  <2>1. previous_id = None => ~state[slot].config_attempted BY <1>0 DEF PadInv, Polled
  <2>2. state'[slot'] = r BY <1>6, <1>8
  <2>3. pc' \notin {"configured"} \cup Commands BY <1>6 DEF Commands
  <2> QED BY <2>1, <2>2, <2>3, <1>3, <1>4, <1>6 DEF Polled
<1> QED BY <1>5, <1>8, <1>9, <1>10

\* One profile is tried; a poll that ends here has found nothing.
LEMMA TryProfileKeeps ==
  ASSUME PadInv, TryProfile
  PROVE  PadInv' /\ (pc' = "idle" => ~state'[slot].connected)
<1>1. pc \in Tries /\ UNCHANGED <<slot_count, selected, tap, tap_slot, pad>>
  BY Domains DEF TryProfile, topology, plugged
<1> DEFINE a == Attempt[pc]
<1>2. a.timing \in {0, 1} /\ a.stat70 \in {0, 1} /\ a.next \in Tries \cup {"none"}
  BY <1>1, AttemptTyped DEF PadInv, PadTypes, RequestType
<1>3. \/ NextAttempt(a)
      \/ /\ Heard(a.timing, a.stat70)
         /\ state' = [state EXCEPT ![slot] =
                         [@ EXCEPT !.stat70 = Framing, !.timing = a.timing, !.id = Reply]]
         /\ Goto("fetch") \/ Goto("settle")
         /\ UNCHANGED asked
  BY DEF TryProfile
<1> HIDE DEF a
<1>4. pc # "idle" /\ pc \in Searches \ {"fetch", "settle"} BY <1>1 DEF Tries, Searches
<1>5. Tries \subseteq Searches \ {"fetch", "settle"} BY DEF Tries, Searches
<1>6. /\ StateType' /\ RequestType' /\ Polled' /\ asked' \subseteq Slots
      /\ (\A s \in Slots : Known(s)') /\ (UNCHANGED clean \/ Lost)
      /\ (pc' = "idle" => ~state'[slot].connected)
  <2>1. CASE NextAttempt(a)
    <3>0. UNCHANGED clean \/ Lost BY <2>1 DEF NextAttempt, Unheard
    <3>1. CASE PollFailed BY <1>4, <3>0, <3>1, PollFailedKeeps
    <3>2. CASE a.next # "none" /\ Goto(a.next) /\ UNCHANGED <<state, asked>>
      <4>1. a.next \in Searches \ {"fetch", "settle"} BY <1>2, <1>5, <3>2
      <4>2. /\ StateType' /\ RequestType' /\ Polled' /\ asked' \subseteq Slots
            /\ \A s \in Slots : Known(s)'
        BY <1>4, <3>2, <4>1, SearchGoesOn
      <4>3. pc' # "idle" BY <3>2, <4>1 DEF Goto, Searches, Tries
      <4> QED BY <3>0, <4>2, <4>3
    <3> QED BY <2>1, <3>1, <3>2 DEF NextAttempt
  <2>2. CASE /\ Heard(a.timing, a.stat70)
             /\ state' = [state EXCEPT ![slot] =
                             [@ EXCEPT !.stat70 = Framing, !.timing = a.timing, !.id = Reply]]
             /\ Goto("fetch") \/ Goto("settle")
             /\ UNCHANGED asked
    <3>1. Answers(a.timing, a.stat70) /\ UNCHANGED clean BY <2>2 DEF Heard
    <3>2. /\ StateType' /\ RequestType' /\ Polled' /\ asked' \subseteq Slots
          /\ \A s \in Slots : Known(s)'
      BY <1>1, <1>2, <2>2, <3>1, AnswerKeeps
    <3>3. pc' # "idle" BY <2>2 DEF Goto
    <3> QED BY <3>1, <3>2, <3>3
  <2> QED BY <1>3, <2>1, <2>2
<1>7. TopologyType' BY <1>1, TopologyKept
<1> QED BY <1>1, <1>6, <1>7, PadKept, CleanKept DEF PadInv, PadTypes

\* The answer is fetched in full, or stays as it is.
LEMMA FetchKeeps == ASSUME PadInv, Fetch PROVE PadInv'
<1>1. /\ pc = "fetch" /\ Goto("settle") /\ asked' = asked
      /\ UNCHANGED <<slot_count, selected, tap, tap_slot, pad>>
  BY DEF Fetch, topology, plugged
<1>2. UNCHANGED clean \/ Lost BY DEF Fetch, Heard, Unheard
<1>3. state[slot].id # None /\ (previous_id = None => ~state[slot].config_attempted)
  BY <1>1 DEF PadInv, Polled, Searches
<1>4. PICK r \in Entries :
        /\ state' = [state EXCEPT ![slot] = r]
        /\ r.id # None /\ r.connected = state[slot].connected
        /\ r.config_attempted = state[slot].config_attempted /\ r.rumble = state[slot].rumble
  <2>1. CASE UNCHANGED state
    <3>1. state' = [state EXCEPT ![slot] = state[slot]] BY <2>1, PolledEntry
    <3> QED BY <3>1, <1>3, PolledEntry
  <2>2. CASE /\ Heard(state[slot].timing, state[slot].stat70)
             /\ state' = [state EXCEPT ![slot] = [@ EXCEPT !.stat70 = Framing, !.id = Reply]]
    <3> DEFINE q == [state[slot] EXCEPT !.stat70 = Framing, !.id = Reply]
    <3>1. Answers(state[slot].timing, state[slot].stat70) BY <2>2 DEF Heard
    <3>2. Reply \in Ids /\ Framing \in {0, 1} BY <3>1, AnswerIsAPad DEF PadInv, PadTypes
    <3>3. /\ q \in Entries /\ q.id = Reply /\ q.connected = state[slot].connected
          /\ q.config_attempted = state[slot].config_attempted /\ q.rumble = state[slot].rumble
      BY <3>2, PolledEntry DEF Entries, Ids
    <3>4. state' = [state EXCEPT ![slot] = q] BY <2>2
    <3> HIDE DEF q
    <3>5. q.id # None BY <3>2, <3>3, IdsDiffer
    <3> QED BY <3>3, <3>4, <3>5
  <2> QED BY <2>1, <2>2 DEF Fetch
<1>5. asked' \subseteq Slots /\ asked \ {slot} \subseteq asked' BY <1>1 DEF PadInv, PadTypes
<1>6. slot' = slot /\ previous_id' = previous_id /\ pc' = "settle" /\ pc # "idle" /\ pc' # "idle"
  BY <1>1 DEF Goto
<1>7. r.rumble => slot \in asked' BY <1>1, <1>4, PolledEntry
<1>8. StateType' /\ state'[slot] = r /\ \A s \in Slots : Known(s)'
  BY <1>4, <1>5, <1>6, <1>7, EntryWritten
<1>9. RequestType' BY <1>1, RequestGoesOn DEF Searches
<1>10. Polled' BY <1>3, <1>4, <1>6, <1>8 DEF Polled, Commands
<1>11. TopologyType' BY <1>1, TopologyKept
<1> QED BY <1>1, <1>2, <1>5, <1>8, <1>9, <1>10, <1>11, PadKept, CleanKept DEF PadInv, PadTypes
\* The end of a poll: a pad that was not there before has not been asked to be
\* configured, so if it can be, it is asked now.
LEMMA SettleKeeps ==
  ASSUME PadInv, Settle
  PROVE  /\ PadInv'
         /\ Returns /\ previous_id = None => ~should_configure_pad(state'[slot].id)
<1> DEFINE st == state[slot]
           attempted == st.config_attempted
                          /\ ~(previous_id # None /\ st.id = Digital /\ previous_id # Digital)
           configure == ~attempted /\ should_configure_pad(st.id)
           r == [st EXCEPT !.config_attempted = attempted \/ configure,
                           !.connected = st.connected \/ ~configure]
<1>1. /\ pc = "settle" /\ asked' = asked /\ clean' = clean
      /\ UNCHANGED <<slot_count, selected, tap, tap_slot, pad>>
  BY DEF Settle, topology, plugged
<1>2. state' = [state EXCEPT ![slot] = r] BY DEF Settle
<1>3. IF configure THEN Goto("enter") ELSE Return BY DEF Settle
<1>4. st \in Entries /\ st.id # None /\ (previous_id = None => ~st.config_attempted)
  BY <1>1, PolledEntry DEF PadInv, Polled, Searches
<1>5. attempted \in BOOLEAN /\ configure \in BOOLEAN OBVIOUS
<1>6. st.config_attempted \in BOOLEAN /\ st.connected \in BOOLEAN BY <1>4 DEF Entries
<1>7. (previous_id = None => ~attempted) BY <1>4
<1>8. ~configure /\ should_configure_pad(st.id) => attempted OBVIOUS
<1> HIDE DEF attempted, configure
<1>9. (attempted \/ configure) \in BOOLEAN /\ (st.connected \/ ~configure) \in BOOLEAN
  BY <1>5, <1>6
<1>10. /\ r \in Entries /\ r.id = st.id /\ r.rumble = st.rumble
       /\ r.config_attempted = (attempted \/ configure)
  BY <1>4, <1>9 DEF Entries
<1> HIDE DEF r
<1>11. asked' \subseteq Slots /\ asked \ {slot} \subseteq asked' BY <1>1 DEF PadInv, PadTypes
<1>12. Goto("enter") \/ Return BY <1>3
<1>13. "enter" \in Commands /\ pc # "idle" BY <1>1 DEF Commands
<1>14. RequestType' /\ (slot' = slot \/ pc' = "idle") /\ (Return => Polled')
  BY <1>12, <1>13, RequestGoesOn
<1>15. pc' = "idle" => ~configure
  <2>1. Goto("enter") => pc' # "idle" BY DEF Goto
  <2> QED BY <1>3, <2>1
<1>16. pc' = "idle" => Settled(r)
  <2>1. SUFFICES ASSUME pc' = "idle", r.connected, should_configure_pad(r.id)
                 PROVE  r.config_attempted
    BY DEF Settled
  <2>2. should_configure_pad(st.id) BY <2>1, <1>10
  <2> QED BY <2>1, <2>2, <1>8, <1>10, <1>15
<1>17. r.rumble => slot \in asked' BY <1>1, <1>10, PolledEntry
<1>18. r.id # None BY <1>4, <1>10
<1>19. StateType' /\ state'[slot] = r /\ \A s \in Slots : Known(s)'
  BY <1>2, <1>10, <1>11, <1>13, <1>14, <1>16, <1>17, <1>18, EntryWritten
<1>20. Polled'
  <2>1. CASE Return BY <2>1, <1>14
  <2>2. CASE configure /\ Goto("enter")
    <3>1. pc' = "enter" /\ slot' = slot BY <2>2 DEF Goto
    <3>2. state'[slot'] = r BY <3>1, <1>19
    <3>3. r.config_attempted BY <1>10, <2>2
    <3>4. pc' \notin Searches BY <3>1 DEF Searches, Tries
    <3> QED BY <3>2, <3>3, <3>4, <1>18 DEF Polled
  <2> QED BY <1>3, <2>1, <2>2
<1>21. TopologyType' BY <1>1, TopologyKept
<1>22. Returns /\ previous_id = None => ~should_configure_pad(state'[slot].id)
  BY <1>7, <1>8, <1>10, <1>15, <1>19 DEF Returns
<1> QED BY <1>1, <1>11, <1>14, <1>19, <1>20, <1>21, <1>22, PadKept, CleanKept DEF PadInv, PadTypes

\* What a command does to the pad it reaches leaves it a pad.
LEMMA ObeyedTyped ==
  ASSUME pad[Reached] \in Pads, NEW p \in Commands PROVE Obeyed[p] \in Pads
<1>1. CASE p = "enter" BY <1>1 DEF Obeyed, Pads
<1>2. CASE p = "analog"
  <2>1. Obeyed[p] = [pad[Reached] EXCEPT !.id = IF pad[Reached].config THEN Analog ELSE pad[Reached].id]
    BY <1>2 DEF Obeyed
  <2>2. CASE pad[Reached].config BY <2>1, <2>2 DEF Pads
  <2>3. CASE ~pad[Reached].config BY <2>1, <2>3 DEF Pads
  <2> QED BY <2>2, <2>3
<1>3. CASE p = "pressure"
  <2>1. Obeyed[p] = [pad[Reached] EXCEPT !.id = IF pad[Reached].config THEN Pressure ELSE pad[Reached].id]
    BY <1>3 DEF Obeyed
  <2>2. CASE pad[Reached].config BY <2>1, <2>2 DEF Pads
  <2>3. CASE ~pad[Reached].config BY <2>1, <2>3 DEF Pads
  <2> QED BY <2>2, <2>3
<1>4. CASE p = "align" BY <1>4 DEF Obeyed
<1>5. CASE p = "exit" BY <1>5 DEF Obeyed, Pads
<1> QED BY <1>1, <1>2, <1>3, <1>4, <1>5 DEF Commands

\* A command reaches a pad that is there, and what it changes is a pad.
LEMMA ExecuteTyped ==
  ASSUME PadInv, pc \in Commands, Execute \/ pad' = pad
  PROVE  PadType'
<1>1. pad \in [Slots -> {NoPad} \cup Pads] BY DEF PadInv, PadTypes, PadType, Pads
<1>2. CASE pad' = pad BY <1>2, PadKept
<1>3. CASE pad' = [pad EXCEPT ![Reached] = Obeyed[pc]] /\ Answers(0, state[slot].stat70)
  <2>1. pad[Reached] \in Pads BY <1>3, AnswerIsAPad DEF PadInv, PadTypes
  <2>2. Obeyed[pc] \in Pads BY <2>1, ObeyedTyped
  <2>3. pad' \in [Slots -> {NoPad} \cup Pads] BY <1>1, <1>3, <2>2
  <2> QED BY <2>3 DEF PadType, Pads
<1> QED BY <1>2, <1>3 DEF Execute

\* What follows a command of configure_dualshock.
LEMMA AfterCommands ==
  ASSUME NEW p \in Commands PROVE AfterCommand[p] \in {"configured"} \cup Commands
  BY DEF AfterCommand, Commands

\* One command of configure_dualshock; no poll ends with it.
LEMMA CommandKeeps == ASSUME PadInv, Command PROVE PadInv' /\ pc' # "idle"
<1>1. /\ pc \in Commands /\ asked' = asked
      /\ UNCHANGED <<slot_count, selected, tap, tap_slot>>
  BY Domains DEF Command, topology
<1>2. UNCHANGED clean \/ Lost BY DEF Command, Heard, Unheard
<1>3. Execute \/ pad' = pad BY DEF Command
<1>4. PICK step \in {"configured"} \cup Commands : Goto(step)
  <2>1. AfterCommand[pc] \in {"configured"} \cup Commands BY <1>1, AfterCommands
  <2>2. Goto(AfterCommand[pc]) \/ Goto("configured") BY DEF Command
  <2> QED BY <2>1, <2>2
<1>5. state[slot].id # None /\ state[slot].config_attempted BY <1>1 DEF PadInv, Polled
<1>6. PICK r \in Entries :
        /\ state' = [state EXCEPT ![slot] = r]
        /\ r.id = state[slot].id /\ r.connected = state[slot].connected
        /\ r.config_attempted = state[slot].config_attempted /\ r.rumble = state[slot].rumble
  <2>1. CASE /\ Heard(0, state[slot].stat70)
             /\ state' = [state EXCEPT ![slot] =
                  [@ EXCEPT !.stat70 = Framing,
                            !.rumble_supported = IF pc = "align" THEN Reply = Config
                                                ELSE state[slot].rumble_supported]]
    <3> DEFINE b == IF pc = "align" THEN Reply = Config ELSE state[slot].rumble_supported
               q == [state[slot] EXCEPT !.stat70 = Framing, !.rumble_supported = b]
    <3>1. Answers(0, state[slot].stat70) BY <2>1 DEF Heard
    <3>2. Framing \in {0, 1} BY DEF Framing
    <3>3. state[slot].rumble_supported \in BOOLEAN BY PolledEntry DEF Entries
    <3>4. b \in BOOLEAN
      <4>1. CASE pc = "align" BY <4>1
      <4>2. CASE pc # "align" BY <3>3, <4>2
      <4> QED BY <4>1, <4>2
    <3>5. state' = [state EXCEPT ![slot] = q] BY <2>1
    <3> HIDE DEF b
    <3>6. /\ q \in Entries /\ q.id = state[slot].id /\ q.connected = state[slot].connected
          /\ q.config_attempted = state[slot].config_attempted /\ q.rumble = state[slot].rumble
      BY <3>2, <3>4, PolledEntry DEF Entries
    <3> QED BY <3>5, <3>6
  <2>2. CASE state' = [state EXCEPT ![slot].rumble_supported = @ /\ pc # "align"]
    <3> DEFINE b == state[slot].rumble_supported /\ pc # "align"
               q == [state[slot] EXCEPT !.rumble_supported = b]
    <3>1. state[slot].rumble_supported \in BOOLEAN BY PolledEntry DEF Entries
    <3>2. b \in BOOLEAN BY <3>1
    <3>3. state' = [state EXCEPT ![slot] = q] BY <2>2
    <3> HIDE DEF b
    <3>4. /\ q \in Entries /\ q.id = state[slot].id /\ q.connected = state[slot].connected
          /\ q.config_attempted = state[slot].config_attempted /\ q.rumble = state[slot].rumble
      BY <3>2, PolledEntry DEF Entries
    <3> QED BY <3>3, <3>4
  <2> QED BY <2>1, <2>2 DEF Command
<1>7. asked' \subseteq Slots /\ asked \ {slot} \subseteq asked' BY <1>1 DEF PadInv, PadTypes
<1>8. pc' = step /\ slot' = slot BY <1>4 DEF Goto
<1>9. pc # "idle" /\ pc' # "idle" /\ pc' \notin Searches BY <1>1, <1>4, <1>8 DEF Commands, Searches, Tries
<1>10. r.rumble => slot \in asked' BY <1>1, <1>6, PolledEntry
<1>11. StateType' /\ state'[slot] = r /\ \A s \in Slots : Known(s)'
  BY <1>5, <1>6, <1>7, <1>8, <1>9, <1>10, EntryWritten
<1>12. RequestType' BY <1>4, RequestGoesOn
<1>13. Polled' BY <1>5, <1>6, <1>8, <1>9, <1>11 DEF Polled
<1>14. TopologyType' BY <1>1, TopologyKept
<1> QED BY <1>1, <1>2, <1>3, <1>7, <1>9, <1>11, <1>12, <1>13, <1>14, ExecuteTyped, CleanKept DEF PadInv, PadTypes

\* The end of a poll that configured its pad.
LEMMA ConnectKeeps == ASSUME PadInv, Connect PROVE PadInv'
<1>1. /\ pc = "configured" /\ Return /\ asked' = asked /\ clean' = clean
      /\ UNCHANGED <<slot_count, selected, tap, tap_slot, pad>>
  BY DEF Connect, topology, plugged
<1> DEFINE r == [state[slot] EXCEPT !.connected = TRUE]
<1>2. state' = [state EXCEPT ![slot] = r] BY DEF Connect
<1>3. state[slot].id # None /\ state[slot].config_attempted BY <1>1 DEF PadInv, Polled
<1>4. /\ r \in Entries /\ r.id = state[slot].id /\ r.rumble = state[slot].rumble
      /\ r.config_attempted = state[slot].config_attempted
  BY PolledEntry DEF Entries
<1> HIDE DEF r
<1>5. asked' \subseteq Slots /\ asked \ {slot} \subseteq asked' BY <1>1 DEF PadInv, PadTypes
<1>6. RequestType' /\ (slot' = slot \/ pc' = "idle") /\ Polled' BY <1>1, RequestGoesOn
<1>7. r.rumble => slot \in asked' BY <1>1, <1>4, PolledEntry
<1>8. Settled(r) BY <1>3, <1>4 DEF Settled
<1>9. StateType' /\ state'[slot] = r /\ \A s \in Slots : Known(s)'
  BY <1>1, <1>2, <1>3, <1>4, <1>5, <1>6, <1>7, <1>8, EntryWritten
<1>10. TopologyType' BY <1>1, TopologyKept
<1> QED BY <1>1, <1>5, <1>6, <1>9, <1>10, PadKept, CleanKept DEF PadInv, PadTypes

\* A step of the rest of the system.
LEMMA StutterKeeps == ASSUME PadInv, UNCHANGED vars PROVE PadInv'
<1>1. /\ UNCHANGED <<slot_count, selected, state, pc, slot, previous_id>>
      /\ UNCHANGED <<tap, tap_slot, pad, clean, asked>>
  BY DEF vars, topology, plugged
<1>2. ASSUME NEW s \in Slots PROVE Known(s)' BY <1>1 DEF PadInv, Known
<1>3. Polled' BY <1>1 DEF PadInv, Polled
<1>4. TopologyType' /\ StateType' /\ PadType' /\ clean' \in BOOLEAN /\ asked' \subseteq Slots
  BY <1>1 DEF PadInv, PadTypes, TopologyType, StateType, PadType
<1>5. RequestType' BY <1>1, StepsConstant DEF PadInv, PadTypes, RequestType
<1> QED BY <1>2, <1>3, <1>4, <1>5 DEF PadInv, PadTypes

\* PadInv is inductive.
LEMMA StepKeeps == PadInv /\ [Next]_vars => PadInv'
<1> SUFFICES ASSUME PadInv, [Next]_vars PROVE PadInv' OBVIOUS
<1>1. CASE RefreshTopology BY <1>1, RefreshKeeps
<1>2. ASSUME NEW s \in Slots,
             Poll(s) \/ Plug(s) \/ Unplug(s) \/ \E on \in BOOLEAN : SetRumble(s, on)
      PROVE  PadInv'
  BY <1>2, PollKeeps, PadsComeAndGo, SetRumbleKeeps
<1>3. ASSUME NEW n \in TapSizes, PlugTap(n) PROVE PadInv' BY <1>3, TapsComeAndGo
<1>4. CASE Select BY <1>4, SelectKeeps
<1>5. CASE SelectRequery BY <1>5, RequeryKeeps
<1>6. CASE Reselect BY <1>6, ReselectKeeps
<1>7. CASE TryProfile BY <1>7, TryProfileKeeps
<1>8. CASE Fetch BY <1>8, FetchKeeps
<1>9. CASE Settle BY <1>9, SettleKeeps
<1>10. CASE Command BY <1>10, CommandKeeps
<1>11. CASE Connect BY <1>11, ConnectKeeps
<1>12. CASE UNCHANGED vars BY <1>12, StutterKeeps
<1> QED
  BY <1>1, <1>2, <1>3, <1>4, <1>5, <1>6, <1>7, <1>8, <1>9, <1>10, <1>11, <1>12 DEF Next
-----------------------------------------------------------------------------
(* Theorems.                                                               *)

\* PadInv holds in every state that can be reached.
LEMMA Invariant == Spec => []PadInv
  BY Initially, StepKeeps, PTL DEF Spec

\* Whatever is plugged in, a slot poll_slot reports connected has an identifier,
\* and between requests its pad, if it can be configured, has been asked to be.
THEOREM PadTyped == Spec => []TypeOK
<1>1. PadInv => TypeOK
  <2> SUFFICES ASSUME PadInv PROVE TypeOK OBVIOUS
  <2>1. ASSUME NEW s \in Slots, state[s].connected
        PROVE  /\ state[s].id # None
               /\ pc = "idle" /\ should_configure_pad(state[s].id) => state[s].config_attempted
    BY <2>1 DEF PadInv, Known
  <2> QED BY <2>1 DEF PadInv, PadTypes, TypeOK
<1> QED BY <1>1, Invariant, PTL

\* poll_slot drives motors only if the client asked for them since the slot was
\* last found empty, for any pads exchanged and transfers lost in between.
THEOREM MotorsAreAsked == Spec => []MotorsAsAsked
<1>1. PadInv => MotorsAsAsked BY PolledEntry DEF MotorsAsAsked, Driving
<1> QED BY <1>1, Invariant, PTL

\* A poll that returns with a pad it can configure, where the last poll found
\* none, has run configure_dualshock.
THEOREM NewPadsConfigured == Spec => ConfiguredWhenFound
<1>1. PadInv /\ [Next]_vars =>
        [Returns /\ previous_id = None /\ state'[slot].connected
           /\ should_configure_pad(state'[slot].id) => pc = "configured"]_vars
  <2> SUFFICES ASSUME PadInv, Next, Returns, previous_id = None, state'[slot].connected,
                      should_configure_pad(state'[slot].id)
               PROVE  pc = "configured"
    OBVIOUS
  <2>1. pc # "idle" /\ pc' = "idle" BY DEF Returns
  <2>2. CASE RefreshTopology BY <2>1, <2>2 DEF RefreshTopology
  <2>3. ASSUME NEW s \in Slots,
               Poll(s) \/ Plug(s) \/ Unplug(s) \/ \E on \in BOOLEAN : SetRumble(s, on)
        PROVE  FALSE
    BY <2>1, <2>3 DEF Poll, Plug, Unplug, SetRumble, Exchange
  <2>4. ASSUME NEW n \in TapSizes, PlugTap(n) PROVE FALSE
    BY <2>1, <2>4 DEF PlugTap, Exchange
  <2>5. ~SelectFailed
    <3>1. ASSUME SelectFailed PROVE ~state'[slot].connected
      BY <3>1, PolledEntry DEF SelectFailed
    <3> QED BY <3>1
  <2>6. FirstTry # "idle" BY DEF FirstTry
  <2>7. ~Select BY <2>1, <2>6 DEF Select, Goto
  <2>8. ~SelectRequery BY <2>1, <2>5, <2>6 DEF SelectRequery, Goto
  <2>9. ~Reselect BY <2>1, <2>5, <2>6 DEF Reselect, Goto
  <2>10. ~TryProfile BY <2>1, TryProfileKeeps
  <2>11. ~Fetch BY <2>1 DEF Fetch, Goto
  <2>12. ~Settle BY SettleKeeps
  <2>13. ~Command BY <2>1, CommandKeeps
  <2>14. CASE Connect BY <2>14 DEF Connect
  <2> QED
    BY <2>2, <2>3, <2>4, <2>7, <2>8, <2>9, <2>10, <2>11, <2>12, <2>13, <2>14 DEF Next
<1> QED BY <1>1, Invariant, PTL DEF Spec, ConfiguredWhenFound
-----------------------------------------------------------------------------
(* What an undisturbed poll finds out.                                     *)

Found == {"fetch", "settle", "configured"} \cup Commands

\* In a request that nothing has disturbed so far, the topology that was read again
\* is the one at the port, an answer came from a pad, and no answer, from no pad
\* that answers the profiles already tried.
Truth == clean =>
  /\ pc = "reselect" => slot_count = tap
  /\ pc \in Found => pad[Reached] # NoPad
  /\ pc \in {"find_slow", "find_stat70"} => ~Answers(0, state[slot].stat70)
  /\ pc = "find_stat70" => ~Answers(1, 0)

\* The pads at the port do not change in an undisturbed request.
LEMMA SamePads == ASSUME UNCHANGED plugged
                  PROVE  /\ tap' = tap /\ Reached' = Reached /\ pad'[Reached'] = pad[Reached]
                         /\ \A timing, stat70 : Answers(timing, stat70)' <=> Answers(timing, stat70)
<1>1. tap' = tap /\ tap_slot' = tap_slot /\ pad' = pad BY DEF plugged
<1>2. Reached' = Reached BY <1>1 DEF Reached
<1> QED BY <1>1, <1>2 DEF Answers, Wire

\* What a poll has found out stays true until something disturbs it.
LEMMA TruthStep == PadInv /\ Truth /\ [Next]_vars => Truth'
<1> SUFFICES ASSUME PadInv, Truth, [Next]_vars PROVE Truth' OBVIOUS
<1>1. ASSUME ~clean' \/ pc' \notin {"reselect", "find_slow", "find_stat70"} \cup Found PROVE Truth'
  BY <1>1 DEF Truth
<1>2. CASE RefreshTopology
  <2>1. pc' \notin {"reselect", "find_slow", "find_stat70"} \cup Found
    BY <1>2 DEF RefreshTopology, Found, Commands
  <2> QED BY <1>1, <2>1
<1>3. ASSUME Exchange PROVE Truth'
  <2>1. clean' => pc' = "idle"
    <3>1. clean' = (clean /\ pc = "idle") /\ pc' = pc BY <1>3 DEF Exchange
    <3> QED BY <3>1
  <2> QED BY <1>1, <2>1 DEF Found, Commands
<1>4. ASSUME NEW s \in Slots,
             Poll(s) \/ Plug(s) \/ Unplug(s) \/ \E on \in BOOLEAN : SetRumble(s, on)
      PROVE  Truth'
  <2>1. CASE Plug(s) \/ Unplug(s) BY <1>3, <2>1 DEF Plug, Unplug
  <2>2. CASE Poll(s)
    <3>1. pc' \notin {"reselect", "find_slow", "find_stat70"} \cup Found
      BY <2>2 DEF Poll, Found, Commands
    <3> QED BY <1>1, <3>1
  <2>3. CASE \E on \in BOOLEAN : SetRumble(s, on)
    <3>1. pc' \notin {"reselect", "find_slow", "find_stat70"} \cup Found
      BY <2>3 DEF SetRumble, Found, Commands
    <3> QED BY <1>1, <3>1
  <2> QED BY <1>4, <2>1, <2>2, <2>3
<1>5. ASSUME NEW n \in TapSizes, PlugTap(n) PROVE Truth' BY <1>3, <1>5 DEF PlugTap
<1>6. FirstTry \notin {"reselect", "find_slow", "find_stat70"} \cup Found
  BY DEF FirstTry, Found, Commands
<1>7. CASE Select
  <2>1. pc' \notin {"reselect", "find_slow", "find_stat70"} \cup Found
    BY <1>6, <1>7 DEF Select, Goto, Found, Commands
  <2> QED BY <1>1, <2>1
<1>8. CASE SelectRequery
  <2>1. (slot_count' = tap \/ ~clean') /\ tap' = tap
    BY <1>8 DEF SelectRequery, Requery, Refresh, Lost, plugged
  <2>2. pc' \notin {"find_slow", "find_stat70"} \cup Found
    BY <1>6, <1>8 DEF SelectRequery, SelectFailed, Return, Goto, Found, Commands
  <2> QED BY <2>1, <2>2 DEF Truth
<1>9. CASE Reselect
  <2>1. pc' \notin {"reselect", "find_slow", "find_stat70"} \cup Found
    BY <1>6, <1>9 DEF Reselect, SelectFailed, Return, Goto, Found, Commands
  <2> QED BY <1>1, <2>1
<1>10. CASE TryProfile
  <2>0. pc \in Tries /\ UNCHANGED plugged BY <1>10, Domains DEF TryProfile
  <2> DEFINE a == Attempt[pc]
  <2>1. \/ NextAttempt(a)
        \/ Heard(a.timing, a.stat70) /\ (Goto("fetch") \/ Goto("settle"))
    BY <1>10 DEF TryProfile
  <2>2. CASE NextAttempt(a)
    <3>1. Unheard(a.timing, a.stat70) BY <2>2 DEF NextAttempt
    <3>2. CASE PollFailed
      <4>1. pc' = "idle" BY <3>2 DEF PollFailed, Return
      <4> QED BY <1>1, <4>1 DEF Found, Commands
    <3>3. CASE Goto(a.next) /\ UNCHANGED <<state, asked>>
      <4>1. pc' = a.next /\ slot' = slot /\ state' = state BY <3>3 DEF Goto
      <4>2. CASE pc = "same" \/ pc = "other"
        <5>1. a.next \in {"other", "find"} BY <4>2 DEF Attempt
        <5> QED BY <1>1, <4>1, <5>1 DEF Found, Commands
      <4>3. CASE pc = "find"
        <5>1. a.next = "find_slow" /\ a.timing = 0 /\ a.stat70 = state[slot].stat70
          BY <4>3 DEF Attempt
        <5>2. clean' => ~Answers(0, state[slot].stat70) BY <3>1, <5>1 DEF Unheard, Lost
        <5> QED BY <2>0, <4>1, <5>1, <5>2, SamePads DEF Truth, Found, Commands
      <4>4. CASE pc = "find_slow"
        <5>1. a.next = "find_stat70" /\ a.timing = 1 /\ a.stat70 = 0 BY <4>4 DEF Attempt
        <5>2. clean' => clean /\ ~Answers(1, 0) BY <3>1, <5>1 DEF Unheard, Lost
        <5>3. clean => ~Answers(0, state[slot].stat70) BY <4>4 DEF Truth
        <5> QED BY <2>0, <4>1, <5>1, <5>2, <5>3, SamePads DEF Truth, Found, Commands
      <4>5. CASE pc = "find_stat70"
        <5>1. a.next = "none" BY <4>5 DEF Attempt
        <5> QED BY <1>1, <4>1, <5>1 DEF Found, Commands
      <4> QED BY <2>0, <4>2, <4>3, <4>4, <4>5 DEF Tries
    <3> QED BY <2>2, <3>2, <3>3 DEF NextAttempt
  <2>3. CASE Heard(a.timing, a.stat70) /\ (Goto("fetch") \/ Goto("settle"))
    <3>1. pad[Reached] \in Pads BY <2>3, AnswerIsAPad DEF Heard, PadInv, PadTypes
    <3>2. pad[Reached] # NoPad BY <3>1, PadAssumption DEF Pads, NoPad
    <3>3. pc' \in {"fetch", "settle"} BY <2>3 DEF Goto
    <3> QED BY <2>0, <3>2, <3>3, SamePads DEF Truth
  <2> QED BY <2>1, <2>2, <2>3
<1>11. CASE Fetch
  <2>1. pc = "fetch" /\ pc' = "settle" /\ UNCHANGED plugged BY <1>11 DEF Fetch, Goto
  <2>2. clean' => clean
    <3>1. UNCHANGED clean \/ Lost BY <1>11 DEF Fetch, Heard, Unheard
    <3> QED BY <3>1 DEF Lost
  <2> QED BY <2>1, <2>2, SamePads DEF Truth, Found
<1>12. CASE Settle
  <2>1. pc = "settle" /\ (pc' = "enter" \/ pc' = "idle") /\ UNCHANGED plugged /\ clean' = clean
    BY <1>12 DEF Settle, Goto, Return
  <2> QED BY <2>1, SamePads DEF Truth, Found
<1>13. CASE Command
  <2>1. pc \in Commands /\ UNCHANGED <<tap, tap_slot>> /\ (Execute \/ pad' = pad)
    BY <1>13, Domains DEF Command
  <2>2. clean' => clean
    <3>1. UNCHANGED clean \/ Lost BY <1>13 DEF Command, Heard, Unheard
    <3> QED BY <3>1 DEF Lost
  <2>3. Reached' = Reached BY <2>1 DEF Reached
  <2>4. pc' \in {"configured"} \cup Commands
    <3>1. AfterCommand[pc] \in {"configured"} \cup Commands BY <2>1, AfterCommands
    <3>2. Goto(AfterCommand[pc]) \/ Goto("configured") BY <1>13 DEF Command
    <3> QED BY <3>1, <3>2 DEF Goto
  <2>5. clean => pad[Reached] # NoPad BY <2>1 DEF Truth, Found
  <2>6. clean => pad'[Reached'] # NoPad
    <3>1. CASE pad' = pad BY <2>3, <2>5, <3>1
    <3>2. CASE pad' = [pad EXCEPT ![Reached] = Obeyed[pc]] /\ Answers(0, state[slot].stat70)
      <4>1. pad[Reached] \in Pads /\ Reached \in Slots
        BY <3>2, AnswerIsAPad, ReachedInSlots DEF PadInv, PadTypes
      <4>2. Obeyed[pc] \in Pads BY <2>1, <4>1, ObeyedTyped
      <4>3. Obeyed[pc] # NoPad BY <4>2, PadAssumption DEF Pads, NoPad
      <4>4. pad \in [Slots -> {NoPad} \cup Pads] BY DEF PadInv, PadTypes, PadType, Pads
      <4>5. pad'[Reached] = Obeyed[pc] BY <3>2, <4>1, <4>4
      <4> QED BY <2>3, <4>3, <4>5
    <3> QED BY <2>1, <3>1, <3>2 DEF Execute
  <2>7. pc' \notin {"reselect", "find_slow", "find_stat70"} BY <2>4 DEF Commands
  <2> QED BY <2>2, <2>6, <2>7 DEF Truth
<1>14. CASE Connect
  <2>1. pc' = "idle" BY <1>14 DEF Connect, Return
  <2> QED BY <1>1, <2>1 DEF Found, Commands
<1>15. CASE UNCHANGED vars
  <2>1. UNCHANGED plugged /\ UNCHANGED <<clean, pc, slot_count, state, slot>>
    BY <1>15 DEF vars, topology
  <2> QED BY <2>1, SamePads DEF Truth
<1> QED
  BY <1>2, <1>4, <1>5, <1>7, <1>8, <1>9, <1>10, <1>11, <1>12, <1>13, <1>14, <1>15 DEF Next

\* Truth holds in every state that can be reached.
LEMMA TruthInvariant == Spec => [](PadInv /\ Truth)
<1>1. Init => Truth BY DEF Init, Truth, Found, Commands
<1> QED BY <1>1, TruthStep, Invariant, PTL DEF Spec

\* A poll that gives up on selecting its slot, and that nothing disturbs, leaves the
\* topology that is there (select_endpoint and refresh_topology_port).
THEOREM TopologyIsTap == Spec => TopologyFollowsTap
<1>1. PadInv /\ Truth /\ [Next]_vars =>
        [Returns /\ pc \in {"requery", "reselect"} /\ clean' => slot_count' = tap]_vars
  <2> SUFFICES ASSUME PadInv, Truth, Next, Returns, pc \in {"requery", "reselect"}, clean'
               PROVE  slot_count' = tap
    OBVIOUS
  <2>1. pc # "idle" /\ pc' = "idle" BY DEF Returns
  <2>2. CASE SelectRequery BY <2>2 DEF SelectRequery, Requery, Refresh, Lost
  <2>3. CASE Reselect
    <3>1. pc = "reselect" /\ slot_count' = slot_count BY <2>3 DEF Reselect
    <3>2. UNCHANGED clean \/ Lost BY <2>3 DEF Reselect, TapSelects, TapFails
    <3>3. clean BY <3>2 DEF Lost
    <3> QED BY <3>1, <3>3 DEF Truth
  <2>4. ASSUME NEW s \in Slots,
               Poll(s) \/ Plug(s) \/ Unplug(s) \/ \E on \in BOOLEAN : SetRumble(s, on)
        PROVE  FALSE
    BY <2>1, <2>4 DEF Poll, Plug, Unplug, SetRumble, Exchange
  <2>5. ASSUME NEW n \in TapSizes, PlugTap(n) PROVE FALSE
    BY <2>1, <2>5 DEF PlugTap, Exchange
  <2>6. pc \notin Tries \cup Commands BY DEF Tries, Commands
  <2>7. ~RefreshTopology /\ ~Select /\ ~Fetch /\ ~Settle /\ ~Connect
    BY <2>1 DEF RefreshTopology, Select, Fetch, Settle, Connect
  <2>8. ~TryProfile /\ ~Command BY <2>6, Domains DEF TryProfile, Command
  <2> QED BY <2>2, <2>3, <2>4, <2>5, <2>7, <2>8 DEF Next
<1> QED BY <1>1, TruthInvariant, PTL DEF Spec, TopologyFollowsTap

\* Without pads of STAT70 framing no slot learns that framing.
NoStat70 == \A s \in Slots : state[s].stat70 = 0

\* The bit is copied from answers (transfer_poll).
LEMMA NoStat70Step == ASSUME "stat70" \notin Profiles
                      PROVE  PadInv /\ NoStat70 /\ [Next]_vars => NoStat70'
<1> SUFFICES ASSUME PadInv, NoStat70, [Next]_vars PROVE NoStat70' OBVIOUS
<1>1. slot \in Slots /\ state \in [Slots -> Entries] /\ state[slot] \in Entries BY PolledEntry
<1>2. Framing = 0
  <2>1. pad[Reached] \in {NoPad} \cup Pads
    BY ReachedInSlots DEF PadInv, PadTypes, PadType, Pads
  <2>2. pad[Reached].profile # "stat70" BY <2>1 DEF Pads, NoPad
  <2> QED BY <2>2 DEF Framing
<1>3. ASSUME NEW s \in Slots, NEW r \in Entries, state' = [state EXCEPT ![s] = r], r.stat70 = 0
      PROVE  NoStat70'
  BY <1>1, <1>3 DEF NoStat70
<1>4. CASE UNCHANGED state BY <1>4 DEF NoStat70
<1>5. ASSUME NEW s \in Slots,
             Poll(s) \/ Plug(s) \/ Unplug(s) \/ \E on \in BOOLEAN : SetRumble(s, on)
      PROVE  NoStat70'
  <2>1. ASSUME NEW on \in BOOLEAN, SetRumble(s, on) PROVE NoStat70'
    <3>1. PICK r \in Entries : r = [state[s] EXCEPT !.rumble = on] BY <1>1, <2>1 DEF Entries
    <3>2. r.stat70 = 0 BY <1>1, <3>1 DEF NoStat70, Entries
    <3>3. state' = [state EXCEPT ![s] = r] BY <2>1, <3>1 DEF SetRumble
    <3> QED BY <1>3, <3>2, <3>3
  <2>2. CASE Poll(s) \/ Plug(s) \/ Unplug(s) BY <1>4, <2>2 DEF Poll, Plug, Unplug, Exchange
  <2> QED BY <1>5, <2>1, <2>2
<1>6. ASSUME SelectFailed PROVE NoStat70'
  <2>1. PICK r \in Entries : r = [state[slot] EXCEPT !.connected = FALSE] BY <1>1 DEF Entries
  <2>2. r.stat70 = 0 BY <1>1, <2>1 DEF NoStat70, Entries
  <2>3. state' = [state EXCEPT ![slot] = r] BY <1>6, <2>1 DEF SelectFailed
  <2> QED BY <1>1, <1>3, <2>2, <2>3
<1>7. CASE Select \/ SelectRequery \/ Reselect
  BY <1>4, <1>6, <1>7 DEF Select, SelectRequery, Reselect
<1>8. CASE TryProfile
  <2> DEFINE a == Attempt[pc]
             q == [state[slot] EXCEPT !.stat70 = Framing, !.timing = a.timing, !.id = Reply]
  <2>0. pc \in Tries /\ a.timing \in {0, 1}
    BY <1>8, Domains, AttemptTyped DEF TryProfile, PadInv, PadTypes, RequestType
  <2>1. CASE NextAttempt(a)
    <3>1. CASE PollFailed
      <4>1. PICK r \in Entries :
              r = [state[slot] EXCEPT !.connected = FALSE, !.id = None, !.config_attempted = FALSE,
                                      !.rumble_supported = FALSE, !.rumble = FALSE]
        BY <1>1 DEF Entries
      <4>2. r.stat70 = 0 BY <1>1, <4>1 DEF NoStat70, Entries
      <4>3. state' = [state EXCEPT ![slot] = r] BY <3>1, <4>1 DEF PollFailed
      <4> QED BY <1>1, <1>3, <4>2, <4>3
    <3> QED BY <1>4, <2>1, <3>1 DEF NextAttempt
  <2>2. CASE Heard(a.timing, a.stat70) /\ state' = [state EXCEPT ![slot] = q]
    <3>1. Reply \in Ids BY <2>2, AnswerIsAPad DEF Heard, PadInv, PadTypes
    <3>2. q \in Entries /\ q.stat70 = 0 BY <1>1, <1>2, <2>0, <3>1 DEF Entries, Ids
    <3> QED BY <1>1, <1>3, <2>2, <3>2
  <2> QED BY <1>8, <2>1, <2>2 DEF TryProfile
<1>9. CASE Fetch
  <2> DEFINE q == [state[slot] EXCEPT !.stat70 = Framing, !.id = Reply]
  <2>1. CASE Heard(state[slot].timing, state[slot].stat70) /\ state' = [state EXCEPT ![slot] = q]
    <3>1. Reply \in Ids BY <2>1, AnswerIsAPad DEF Heard, PadInv, PadTypes
    <3>2. q \in Entries /\ q.stat70 = 0 BY <1>1, <1>2, <3>1 DEF Entries, Ids
    <3> QED BY <1>1, <1>3, <2>1, <3>2
  <2> QED BY <1>4, <1>9, <2>1 DEF Fetch
<1>10. CASE Settle
  <2>1. PICK b \in BOOLEAN, c \in BOOLEAN :
          state' = [state EXCEPT ![slot] = [state[slot] EXCEPT !.config_attempted = b, !.connected = c]]
    <3> DEFINE st == state[slot]
               attempted == st.config_attempted
                              /\ ~(previous_id # None /\ st.id = Digital /\ previous_id # Digital)
               configure == ~attempted /\ should_configure_pad(st.id)
    <3>1. st.connected \in BOOLEAN /\ attempted \in BOOLEAN /\ configure \in BOOLEAN
      BY <1>1 DEF Entries
    <3>2. state' = [state EXCEPT ![slot] =
             [st EXCEPT !.config_attempted = attempted \/ configure,
                        !.connected = st.connected \/ ~configure]]
      BY <1>10 DEF Settle
    <3> HIDE DEF attempted, configure
    <3>3. (attempted \/ configure) \in BOOLEAN /\ (st.connected \/ ~configure) \in BOOLEAN
      BY <3>1
    <3> QED BY <3>2, <3>3
  <2>2. PICK r \in Entries : r = [state[slot] EXCEPT !.config_attempted = b, !.connected = c]
    BY <1>1 DEF Entries
  <2>3. r.stat70 = 0 BY <1>1, <2>2 DEF NoStat70, Entries
  <2> QED BY <1>1, <1>3, <2>1, <2>2, <2>3
<1>11. CASE Command
  <2>1. PICK b \in BOOLEAN, f \in {0, state[slot].stat70} :
          state' = [state EXCEPT ![slot] = [state[slot] EXCEPT !.stat70 = f, !.rumble_supported = b]]
    <3>0. state[slot].rumble_supported \in BOOLEAN BY <1>1 DEF Entries
    <3>1. CASE state' = [state EXCEPT ![slot] =
             [@ EXCEPT !.stat70 = Framing,
                       !.rumble_supported = IF pc = "align" THEN Reply = Config
                                            ELSE state[slot].rumble_supported]]
      <4> DEFINE b == IF pc = "align" THEN Reply = Config ELSE state[slot].rumble_supported
      <4>1. b \in BOOLEAN
        <5>1. CASE pc = "align" BY <5>1
        <5>2. CASE pc # "align" BY <3>0, <5>2
        <5> QED BY <5>1, <5>2
      <4>2. state' = [state EXCEPT ![slot] = [state[slot] EXCEPT !.stat70 = 0, !.rumble_supported = b]]
        BY <1>2, <3>1
      <4> HIDE DEF b
      <4> QED BY <4>1, <4>2
    <3>2. CASE state' = [state EXCEPT ![slot].rumble_supported = @ /\ pc # "align"]
      <4> DEFINE b == state[slot].rumble_supported /\ pc # "align"
      <4>1. b \in BOOLEAN BY <3>0
      <4>2. state' = [state EXCEPT ![slot] = [state[slot] EXCEPT !.rumble_supported = b]] BY <3>2
      <4> HIDE DEF b
      <4>3. [state[slot] EXCEPT !.rumble_supported = b]
              = [state[slot] EXCEPT !.stat70 = state[slot].stat70, !.rumble_supported = b]
        BY <1>1 DEF Entries
      <4> QED BY <4>1, <4>2, <4>3
    <3> QED BY <1>11, <3>1, <3>2 DEF Command
  <2>2. f = 0 BY <1>1 DEF NoStat70
  <2>3. PICK r \in Entries : r = [state[slot] EXCEPT !.stat70 = f, !.rumble_supported = b]
    BY <1>1, <2>2 DEF Entries
  <2>4. r.stat70 = 0 BY <1>1, <2>2, <2>3 DEF Entries
  <2> QED BY <1>1, <1>3, <2>1, <2>3, <2>4
<1>12. CASE Connect
  <2>1. PICK r \in Entries : r = [state[slot] EXCEPT !.connected = TRUE] BY <1>1 DEF Entries
  <2>2. r.stat70 = 0 BY <1>1, <2>1 DEF NoStat70, Entries
  <2>3. state' = [state EXCEPT ![slot] = r] BY <1>12, <2>1 DEF Connect
  <2> QED BY <1>1, <1>3, <2>2, <2>3
<1>13. CASE RefreshTopology \/ (\E n \in TapSizes : PlugTap(n)) \/ UNCHANGED vars
  BY <1>4, <1>13 DEF RefreshTopology, PlugTap, Exchange, vars
<1> QED BY <1>5, <1>7, <1>8, <1>9, <1>10, <1>11, <1>12, <1>13 DEF Next

\* A poll that nothing disturbs, and that could select its slot, reports the slot
\* connected exactly if the slot routed to has a pad, provided that no pad uses STAT70
\* framing: poll_slot and discover_pad try all other profiles before they give up.
THEOREM PollsTellTheTruth == ASSUME "stat70" \notin Profiles PROVE Spec => FoundIffPlugged
<1> DEFINE Told == Returns /\ pc \notin {"requery", "reselect"} /\ clean'
                     => (state'[slot].connected <=> pad[Reached] # NoPad)
<1>1. ASSUME PadInv, Truth, NoStat70, Next, Returns, pc \notin {"requery", "reselect"}, clean'
      PROVE  state'[slot].connected <=> pad[Reached] # NoPad
  <2>1. pc # "idle" /\ pc' = "idle" BY <1>1 DEF Returns
  <2>2. slot \in Slots /\ state \in [Slots -> Entries] /\ state[slot] \in Entries
    BY <1>1, PolledEntry
  <2>3. CASE TryProfile
    <3>0. pc \in Tries BY <2>3, Domains DEF TryProfile
    <3> DEFINE a == Attempt[pc]
    <3>1. NextAttempt(a)
      BY <2>1, <2>3 DEF TryProfile, Goto
    <3>2. Unheard(a.timing, a.stat70) BY <3>1 DEF NextAttempt
    <3>3. a.next = "none"
      <4>1. a.next \in Tries \cup {"none"} BY <1>1, <3>0, AttemptTyped DEF PadInv, PadTypes, RequestType
      <4>2. a.next # "none" => pc' \in Tries BY <3>1, <4>1 DEF NextAttempt, Goto
      <4> QED BY <2>1, <4>2 DEF Tries
    <3>4. pc = "find_stat70" /\ a.timing = 0 /\ a.stat70 = 1 BY <3>0, <3>3 DEF Attempt, Tries
    <3>5. clean BY <1>1, <3>2 DEF Unheard, Lost
    <3>6. ~Answers(0, 0) /\ ~Answers(1, 0) BY <1>1, <2>2, <3>4, <3>5 DEF Truth, NoStat70
    <3>7. pad[Reached].profile \notin {"normal", "slow"} BY <3>6 DEF Answers, Wire
    <3>8. pad[Reached] \in {NoPad} \cup Pads
      BY <1>1, ReachedInSlots DEF PadInv, PadTypes, PadType, Pads
    <3>9. pad[Reached] = NoPad BY <3>7, <3>8, PadAssumption DEF Pads
    <3>10. ~state'[slot].connected BY <1>1, <2>1, <2>3, TryProfileKeeps
    <3> QED BY <3>9, <3>10
  <2>4. CASE Settle
    <3>1. pc = "settle" /\ clean BY <1>1, <2>4 DEF Settle
    <3>2. pad[Reached] # NoPad BY <1>1, <3>1 DEF Truth, Found
    <3>3. state'[slot].connected
      <4> DEFINE st == state[slot]
                 attempted == st.config_attempted
                                /\ ~(previous_id # None /\ st.id = Digital /\ previous_id # Digital)
                 configure == ~attempted /\ should_configure_pad(st.id)
                 r == [st EXCEPT !.config_attempted = attempted \/ configure,
                                 !.connected = st.connected \/ ~configure]
      <4>1. state' = [state EXCEPT ![slot] = r] /\ (IF configure THEN Goto("enter") ELSE Return)
        BY <2>4 DEF Settle
      <4>2. ~configure BY <2>1, <4>1 DEF Goto
      <4> HIDE DEF attempted, configure
      <4>3. r.connected BY <2>2, <4>2 DEF Entries
      <4> HIDE DEF r
      <4>4. state'[slot] = r BY <2>2, <4>1
      <4> QED BY <4>3, <4>4
    <3> QED BY <3>2, <3>3
  <2>5. CASE Connect
    <3>1. pc = "configured" /\ clean BY <1>1, <2>5 DEF Connect
    <3>2. pad[Reached] # NoPad BY <1>1, <3>1 DEF Truth, Found
    <3>3. state'[slot].connected BY <2>2, <2>5 DEF Connect, Entries
    <3> QED BY <3>2, <3>3
  <2>6. ASSUME NEW s \in Slots,
               Poll(s) \/ Plug(s) \/ Unplug(s) \/ \E on \in BOOLEAN : SetRumble(s, on)
        PROVE  FALSE
    BY <2>1, <2>6 DEF Poll, Plug, Unplug, SetRumble, Exchange
  <2>7. ASSUME NEW n \in TapSizes, PlugTap(n) PROVE FALSE
    BY <2>1, <2>7 DEF PlugTap, Exchange
  <2>8. FirstTry # "idle" BY DEF FirstTry
  <2>9. ~RefreshTopology /\ ~Select /\ ~Fetch
    BY <2>1, <2>8 DEF RefreshTopology, Select, Fetch, Goto
  <2>10. ~SelectRequery /\ ~Reselect BY <1>1 DEF SelectRequery, Reselect
  <2>11. ~Command BY <1>1, <2>1, CommandKeeps
  <2> QED BY <1>1, <2>3, <2>4, <2>5, <2>6, <2>7, <2>9, <2>10, <2>11 DEF Next
<1>2. PadInv /\ Truth /\ NoStat70 /\ [Next]_vars => [Told]_vars BY <1>1
<1>3. Init => NoStat70 BY DEF Init, NoStat70, Fresh
<1> QED BY <1>2, <1>3, NoStat70Step, TruthInvariant, PTL DEF Spec, FoundIffPlugged
-----------------------------------------------------------------------------
(* How long a poll takes.                                                  *)

\* The steps left at each point of a poll, at most: two selections and the query
\* between them, five attempts, the fetch, the end of the search and the commands.
PollOrder == [idle |-> 0, select |-> 16, requery |-> 15, reselect |-> 14,
              same |-> 13, other |-> 12, find |-> 11, find_slow |-> 10, find_stat70 |-> 9,
              fetch |-> 8, settle |-> 7,
              enter |-> 6, analog |-> 5, pressure |-> 4, align |-> 3, exit |-> 2, configured |-> 1]
StepsLeft == PollOrder[pc]

\* A step of the poll.
PollStep == Select \/ SelectRequery \/ Reselect \/ TryProfile \/ Fetch \/ Settle \/ Command \/ Connect

\* Its values while a slot is selected, while its pad is looked for, and after that.
LEMMA OrderIs ==
  /\ PollOrder["idle"] = 0 /\ PollOrder["select"] = 16
  /\ PollOrder["requery"] = 15 /\ PollOrder["reselect"] = 14
  /\ PollOrder["same"] = 13 /\ PollOrder["other"] = 12 /\ PollOrder["find"] = 11
  /\ PollOrder["find_slow"] = 10 /\ PollOrder["find_stat70"] = 9
  /\ PollOrder["fetch"] = 8 /\ PollOrder["settle"] = 7
  /\ PollOrder["enter"] = 6 /\ PollOrder["analog"] = 5 /\ PollOrder["pressure"] = 4
  /\ PollOrder["align"] = 3 /\ PollOrder["exit"] = 2 /\ PollOrder["configured"] = 1
  BY DEF PollOrder

\* They are a number, and none are left exactly between two polls.
LEMMA StepsAreBounded ==
  ASSUME pc \in Steps PROVE StepsLeft \in 0 .. 16 /\ (StepsLeft = 0 <=> pc = "idle")
  <1>1. \/ pc \in {"idle", "select", "requery", "reselect"}
        \/ pc \in {"same", "other", "find", "find_slow", "find_stat70"}
        \/ pc \in {"fetch", "settle", "enter", "analog", "pressure", "align", "exit", "configured"}
    BY DEF Steps, Attempt, Obeyed
  <1> QED BY <1>1, OrderIs DEF StepsLeft

\* Each step of a poll uses one up.
LEMMA PollShortens == ASSUME PollStep PROVE StepsLeft' < StepsLeft
  <1> USE DEF StepsLeft
  <1>1. ASSUME Select \/ SelectRequery \/ Reselect PROVE StepsLeft' < StepsLeft
    <2>1. \/ pc = "select" /\ pc' \in {"requery", "same", "find"}
          \/ pc = "requery" /\ pc' \in {"reselect", "same", "find", "idle"}
          \/ pc = "reselect" /\ pc' \in {"same", "find", "idle"}
      BY <1>1 DEF Select, SelectRequery, Reselect, Goto, FirstTry, SelectFailed, Return
    <2> QED BY <2>1, OrderIs
  <1>2. ASSUME TryProfile PROVE StepsLeft' < StepsLeft
    <2>1. \/ pc = "same" /\ pc' \in {"other", "fetch", "settle"}
          \/ pc = "other" /\ pc' \in {"find", "fetch", "settle"}
          \/ pc = "find" /\ pc' \in {"find_slow", "fetch", "settle"}
          \/ pc = "find_slow" /\ pc' \in {"find_stat70", "fetch", "settle"}
          \/ pc = "find_stat70" /\ pc' \in {"idle", "fetch", "settle"}
      <3>1. /\ pc \in {"same", "other", "find", "find_slow", "find_stat70"}
            /\ \/ Attempt[pc].next = "none" /\ pc' = "idle"
               \/ Attempt[pc].next # "none" /\ pc' = Attempt[pc].next
               \/ pc' \in {"fetch", "settle"}
        BY <1>2 DEF TryProfile, Attempt, NextAttempt, PollFailed, Goto, Return
      <3>2. /\ Attempt["same"].next = "other" /\ Attempt["other"].next = "find"
            /\ Attempt["find"].next = "find_slow" /\ Attempt["find_slow"].next = "find_stat70"
            /\ Attempt["find_stat70"].next = "none"
        BY DEF Attempt
      <3> QED BY <3>1, <3>2
    <2> QED BY <2>1, OrderIs
  <1>3. ASSUME Fetch \/ Settle \/ Connect PROVE StepsLeft' < StepsLeft
    <2>1. \/ pc = "fetch" /\ pc' = "settle"
          \/ pc = "settle" /\ pc' \in {"enter", "idle"}
          \/ pc = "configured" /\ pc' = "idle"
      BY <1>3 DEF Fetch, Settle, Connect, Goto, Return
    <2> QED BY <2>1, OrderIs
  <1>4. ASSUME Command PROVE StepsLeft' < StepsLeft
    <2>1. /\ pc \in {"enter", "analog", "pressure", "align", "exit"}
          /\ pc' \in {AfterCommand[pc], "configured"}
      BY <1>4 DEF Command, Obeyed, Goto
    <2>2. /\ AfterCommand["enter"] = "analog" /\ AfterCommand["analog"] = "pressure"
          /\ AfterCommand["pressure"] = "align" /\ AfterCommand["align"] = "exit"
          /\ AfterCommand["exit"] = "configured"
      BY DEF AfterCommand
    <2> QED BY <2>1, <2>2, OrderIs
  <1> QED BY <1>1, <1>2, <1>3, <1>4 DEF PollStep

\* A poll ends after at most 16 steps, five of them attempts to find the pad: each
\* uses one up, and neither a lost answer nor a pad or Multitap exchanged in the
\* middle of it gives one back.
THEOREM PollsEnd ==
  Spec => /\ [](StepsLeft \in 0 .. 16 /\ (StepsLeft = 0 <=> pc = "idle"))
          /\ [][pc # "idle" => IF PollStep THEN StepsLeft' < StepsLeft
                               ELSE StepsLeft' = StepsLeft]_vars
  <1>1. TypeOK => StepsLeft \in 0 .. 16 /\ (StepsLeft = 0 <=> pc = "idle")
    BY StepsAreBounded DEF TypeOK, RequestType
  <1>2. [Next]_vars => [pc # "idle" => IF PollStep THEN StepsLeft' < StepsLeft
                                       ELSE StepsLeft' = StepsLeft]_vars
    <2> SUFFICES ASSUME Next, pc # "idle", ~PollStep PROVE StepsLeft' = StepsLeft
      BY PollShortens
    <2>1. pc' = pc
      BY DEF Next, PollStep, RefreshTopology, Poll, SetRumble, Plug, Unplug, PlugTap, Exchange
    <2> QED BY <2>1 DEF StepsLeft
  <1> QED BY <1>1, <1>2, PadTyped, PTL DEF Spec
=============================================================================
