---------------------------- MODULE AudioStream ----------------------------
(***************************************************************************)
(* What the IOP audio service promises its client, without threads,        *)
(* semaphores or ring indices: the frames of a submission enter a bounded  *)
(* FIFO in order, and each block rendered for the SPU2 is made of the      *)
(* oldest queued frames followed by silence.                               *)
(***************************************************************************)
EXTENDS Naturals, Sequences

CONSTANTS Frames,      \* identities of PCM frames
          Silence,     \* the zero frame rendered when nothing is queued
          Capacity,    \* frames the ring can hold
          BlockFrames  \* frames of one SPU2 block

VARIABLES pending, \* frames of the submission in progress not accepted yet
          queue,   \* accepted and not yet rendered, oldest first
          block    \* the block rendered last

streamVars == <<pending, queue, block>>

\* The first k queued frames padded with silence to a whole block.
Padded(k) == [i \in 1..BlockFrames |-> IF i <= k THEN queue[i] ELSE Silence]

StreamInit == /\ pending = <<>>
              /\ queue = <<>>
              /\ block = [i \in 1..BlockFrames |-> Silence]

\* A client hands over a submission once the previous one is accepted.
Submit == /\ pending = <<>>
          /\ pending' \in Seq(Frames)
          /\ UNCHANGED <<queue, block>>

\* The next n frames of the submission move to the tail of the queue.
Accept(n) == /\ Len(queue) + n <= Capacity
             /\ queue' = queue \o SubSeq(pending, 1, n)
             /\ pending' = SubSeq(pending, n + 1, Len(pending))
             /\ UNCHANGED block

\* A block is rendered: as many frames as it can hold leave the queue.
Render == LET k == IF Len(queue) < BlockFrames THEN Len(queue) ELSE BlockFrames
          IN  /\ block' = Padded(k)
              /\ queue' = SubSeq(queue, k + 1, Len(queue))
              /\ UNCHANGED pending

\* A block of silence is rendered while playback is paused.
RenderSilence == block' = Padded(0) /\ UNCHANGED <<pending, queue>>

\* FLUSH drops everything queued.
Discard == queue' = <<>> /\ UNCHANGED <<pending, block>>

StreamNext == \/ Submit
              \/ \E n \in 1..Len(pending) : Accept(n)
              \/ Render
              \/ RenderSilence
              \/ Discard

StreamSpec == StreamInit /\ [][StreamNext]_streamVars
=============================================================================
