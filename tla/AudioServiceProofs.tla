------------------------- MODULE AudioServiceProofs -------------------------
(***************************************************************************)
(* Theorems about AudioService for every ring and block size.              *)
(***************************************************************************)
EXTENDS AudioService, SequenceTheorems, TLAPS

\* The remainder the ring indices are reduced with is a slot.
LEMMA SlotType == ASSUME NEW x \in Int PROVE x % RingFrames \in Slots
  BY AudioAssumption, SMT DEF Slots

\* A type holds of variables that do not change.
LEMMA RingKept == ASSUME RingType, UNCHANGED ringVars PROVE RingType'
  BY DEF RingType, ringVars
\* The same for the counters.
LEMMA CountKept == ASSUME CountType, UNCHANGED counters PROVE CountType'
  BY DEF CountType, counters
\* The same for the semaphores.
LEMMA SemaKept == ASSUME SemaType, UNCHANGED semas PROVE SemaType'
  BY DEF SemaType, semas
\* The same for the flags.
LEMMA FlagKept == ASSUME FlagType, UNCHANGED flagVars PROVE FlagType'
  BY DEF FlagType, flagVars
\* The same for the levels.
LEMMA LevelKept == ASSUME LevelType, UNCHANGED levelVars PROVE LevelType'
  BY DEF LevelType, levelVars
\* The same for the PCM buffers.
LEMMA PcmKept == ASSUME PcmType, UNCHANGED pcmVars PROVE PcmType'
  BY DEF PcmType, pcmVars
\* The same for the SPU2 backend.
LEMMA SpuKept == ASSUME SpuType, UNCHANGED spuVars PROVE SpuType'
  BY DEF SpuType, spuVars, dmaVars
\* The same for the play thread.
LEMMA PlayKept == ASSUME PlayType, UNCHANGED playVars PROVE PlayType'
  BY DEF PlayType, playVars
\* The same for the RPC thread.
LEMMA RpcKept == ASSUME RpcType, UNCHANGED rpcVars PROVE RpcType'
  BY DEF RpcType, rpcVars, submitVars
\* The same for the modelling state.
LEMMA AuxKept == ASSUME AuxType, UNCHANGED auxVars PROVE AuxType'
  BY DEF AuxType, auxVars

\* Moving an index along the ring gives an index of the ring.
LEMMA SlotsType == ASSUME NEW first \in Slots, NEW i \in Nat PROVE Slot(first, i) \in Slots
  <1>1. first + i \in Int
    BY DEF Slots
  <1>2. QED
    BY <1>1, SlotType DEF Slot

\* The numbers given to frames are frames.
LEMMA FrameType == ASSUME NEW x \in Int PROVE x % FrameIds \in Frames
  BY AudioAssumption, SMT DEF Frames

\* A counter that wraps is a number.
LEMMA BumpType == ASSUME NEW c \in Nat PROVE Bump(c) \in Nat
  BY AudioAssumption, SMT DEF Bump

\* The volume register gets a volume.
LEMMA VolumeType == ASSUME NEW a, NEW b, NEW v \in Nat PROVE VolumeOf(a, b, v) \in Nat
  BY DEF VolumeOf

\* Silence is PCM.
LEMMA SilentBlockType == SilentBlock \in [1..BlockFrames -> Pcm]
  BY DEF SilentBlock, Pcm

\* A refill takes no more than is queued and no more than a block.
LEMMA TakeType == ASSUME RingType PROVE /\ Take \in Nat
                                        /\ Take <= queued_frames
                                        /\ Take <= BlockFrames
  BY AudioAssumption DEF Take, RingType

\* The queue limit is at least a block and at most the ring.
LEMMA LimitType == ASSUME NEW ms \in Nat PROVE LimitOf(ms) \in BlockFrames..RingFrames
  <1> DEFINE frames == ((ms * FramesPerMs + BlockFrames - 1) \div BlockFrames) * BlockFrames
  <1>1. frames \in Int
    BY AudioAssumption
  <1>2. QED
    BY <1>1, AudioAssumption DEF LimitOf

\* Every step keeps every type.
LEMMA TypeStep == ASSUME TypeOK, RingConsistent, Next PROVE TypeOK'
  <1> USE AudioAssumption DEF TypeOK
  <1>1. ASSUME DmaComplete PROVE TypeOK'
    <2>1. UNCHANGED <<ringVars, counters, semas, flagVars, levelVars, pcmVars, playVars,
                      rpcVars, auxVars>>
      BY <1>1 DEF DmaComplete, ringVars, counters, semas, playState, flagVars, levelVars,
         pcmVars, playVars, submitVars, rpcVars, auxVars
    <2>2. SpuType'
      BY <1>1 DEF DmaComplete, SpuType, Halves
    <2> QED BY <2>1, <2>2, RingKept, CountKept, SemaKept, FlagKept, LevelKept, PcmKept,
               PlayKept, RpcKept, AuxKept
  <1>2. ASSUME DmaInterrupt PROVE TypeOK'
    <2>1. UNCHANGED <<ringVars, counters, flagVars, levelVars, pcmVars, playVars, rpcVars>>
      BY <1>2 DEF DmaInterrupt, AfterSignal, ringVars, counters, playState, flagVars,
         levelVars, pcmVars, playVars, submitVars, rpcVars
    <2>2. SemaType'
      BY <1>2 DEF DmaInterrupt, SemaType, AfterSignal
    <2>3. SpuType'
      <3>1. CASE running
        <4>1. 1 - active_block \in Halves
          BY DEF SpuType, Halves
        <4>2. QED
          BY <1>2, <3>1, <4>1 DEF DmaInterrupt, SpuType
      <3>2. CASE ~running
        BY <1>2, <3>2 DEF DmaInterrupt, SpuType
      <3>3. QED
        BY <3>1, <3>2
    <2>4. AuxType'
      BY <1>2 DEF DmaInterrupt, AuxType, AfterSignal, Halves
    <2> QED BY <2>1, <2>2, <2>3, <2>4, RingKept, CountKept, FlagKept, LevelKept, PcmKept,
               PlayKept, RpcKept
  <1>3. ASSUME PlayWaitTransfer PROVE TypeOK'
    <2>1. UNCHANGED <<ringVars, counters, flagVars, levelVars, pcmVars, spuVars, rpcVars,
                      auxVars>>
      BY <1>3 DEF PlayWaitTransfer, AfterWait, ringVars, counters, playState, flagVars,
         levelVars, pcmVars, spuVars, dmaVars, submitVars, rpcVars, auxVars
    <2>2. SemaType'
      BY <1>3 DEF PlayWaitTransfer, SemaType, AfterWait
    <2>3. PlayType'
      BY <1>3 DEF PlayWaitTransfer, PlayType, AfterWait, Halves
    <2> QED BY <2>1, <2>2, <2>3, RingKept, CountKept, FlagKept, LevelKept, PcmKept, SpuKept,
               RpcKept, AuxKept
  <1>4. ASSUME PlayFill PROVE TypeOK'
    <2>1. UNCHANGED <<flagVars, levelVars, spuVars, rpcVars, auxVars>>
      BY <1>4 DEF PlayFill, Bump, Slot, playState, flagVars, levelVars, spuVars, dmaVars,
         submitVars, rpcVars, auxVars
    <2>2. RingType'
      <3>1. Slot(read_frame, Take) \in Slots
        BY SlotsType, TakeType DEF RingType
      <3>2. queued_frames - Take \in Nat
        BY TakeType DEF RingType
      <3>3. QED
        BY <1>4, <3>1, <3>2 DEF PlayFill, RingType
    <2>3. CountType'
      BY <1>4, SlotType, BumpType DEF PlayFill, CountType, Slot
    <2>4. SemaType'
      BY <1>4, SlotType DEF PlayFill, SemaType, AfterSignal, Bump, Slot, SpaceAfterFill
    <2>5. PcmType'
      <3>1. ASSUME NEW i \in 1..BlockFrames, i <= Take
            PROVE  ring[Slot(read_frame, i - 1)] \in Pcm
        <4>1. i - 1 \in Nat
          OBVIOUS
        <4>2. Slot(read_frame, i - 1) \in Slots
          BY <4>1, SlotsType DEF RingType
        <4>3. QED
          BY <4>2 DEF RingType
      <3>2. render' \in [1..BlockFrames -> Pcm]
        BY <1>4, <3>1 DEF PlayFill, Pcm
      <3>3. QED
        BY <1>4, <3>2 DEF PlayFill, PcmType
    <2>6. PlayType'
      BY <1>4, SlotType DEF PlayFill, PlayType, Bump, Slot, Halves
    <2> QED BY <2>1, <2>2, <2>3, <2>4, <2>5, <2>6, FlagKept, LevelKept, SpuKept, RpcKept,
               AuxKept
  <1>5. ASSUME PlayPickIdle PROVE TypeOK'
    <2>1. UNCHANGED <<ringVars, counters, semas, flagVars, levelVars, pcmVars, rpcVars,
                      auxVars>>
      BY <1>5 DEF PlayPickIdle, ringVars, counters, semas, playState, flagVars, levelVars,
         pcmVars, dmaVars, submitVars, rpcVars, auxVars
    <2>2. SpuType'
      BY <1>5 DEF PlayPickIdle, SpuType, dmaVars, Halves
    <2>3. PlayType'
      BY <1>5 DEF PlayPickIdle, PlayType, SpuType, Halves, IdleHalf
    <2> QED BY <2>1, <2>2, <2>3, RingKept, CountKept, SemaKept, FlagKept, LevelKept, PcmKept,
               RpcKept, AuxKept
  <1>6. ASSUME PlayCopy PROVE TypeOK'
    <2>1. UNCHANGED <<ringVars, counters, semas, flagVars, levelVars, rpcVars>>
      BY <1>6 DEF PlayCopy, ringVars, counters, semas, playState, flagVars, levelVars,
         dmaVars, submitVars, rpcVars
    <2>2. PcmType'
      BY <1>6 DEF PlayCopy, PcmType, Halves
    <2>3. SpuType'
      BY <1>6 DEF PlayCopy, SpuType, dmaVars, Halves
    <2>4. PlayType'
      BY <1>6 DEF PlayCopy, PlayType, Halves
    <2>5. AuxType'
      BY <1>6 DEF PlayCopy, AuxType, PlayType, auxVars, Halves
    <2> QED BY <2>1, <2>2, <2>3, <2>4, <2>5, RingKept, CountKept, SemaKept, FlagKept,
               LevelKept, RpcKept
  <1>7. ASSUME InitSemasFail PROVE TypeOK'
    <2>1. UNCHANGED <<ringVars, counters, flagVars, levelVars, pcmVars, spuVars, playVars,
                      auxVars>>
      BY <1>7 DEF InitSemasFail, Request, Reply, ringVars, counters, playState, flagVars,
         levelVars, pcmVars, spuVars, dmaVars, playVars, submitVars, auxVars
    <2>2. SemaType'
      BY <1>7 DEF InitSemasFail, SemaType, Request, Reply
    <2>3. RpcType'
      BY <1>7 DEF InitSemasFail, RpcType, Request, Reply, submitVars, RpcStates
    <2> QED BY <2>1, <2>2, <2>3, RingKept, CountKept, FlagKept, LevelKept, PcmKept, SpuKept,
               PlayKept, AuxKept
  <1>8. ASSUME InitSpuFails PROVE TypeOK'
    <2>1. UNCHANGED <<ringVars, counters, flagVars, pcmVars, spuVars, playVars, auxVars>>
      BY <1>8 DEF InitSpuFails, Request, Reply, ringVars, counters, flagVars, pcmVars,
         spuVars, dmaVars, playVars, submitVars, auxVars
    <2>2. SemaType'
      BY <1>8 DEF InitSpuFails, SemaType, Request, Reply
    <2>3. LevelType'
      BY <1>8 DEF InitSpuFails, LevelType, Request, Reply
    <2>4. RpcType'
      BY <1>8 DEF InitSpuFails, RpcType, Request, Reply, submitVars, RpcStates
    <2> QED BY <2>1, <2>2, <2>3, <2>4, RingKept, CountKept, FlagKept, PcmKept, SpuKept,
               PlayKept, AuxKept
  <1>9. ASSUME InitReachesThread PROVE TypeOK'
    <2>1. UNCHANGED <<auxVars>>
      BY <1>9 DEF InitReachesThread, Request, Reply, submitVars, auxVars
    <2>2. RingType'
      BY <1>9 DEF InitReachesThread, RingType, Request, Reply, Halves, Slots, Pcm
    <2>3. CountType'
      BY <1>9 DEF InitReachesThread, CountType, Request, Reply, Halves
    <2>4. SemaType'
      BY <1>9 DEF InitReachesThread, SemaType, Request, Reply, Halves
    <2>5. FlagType'
      BY <1>9 DEF InitReachesThread, FlagType, Request, Reply, Halves
    <2>6. LevelType'
      BY <1>9, VolumeType DEF InitReachesThread, LevelType, Request, Reply, Halves
    <2>7. PcmType'
      BY <1>9, SilentBlockType DEF InitReachesThread, PcmType, Request, Reply, Halves
    <2>8. SpuType'
      BY <1>9 DEF InitReachesThread, SpuType, Request, Reply, Halves
    <2>9. PlayType'
      BY <1>9 DEF InitReachesThread, PlayType, Request, Reply, Halves
    <2>10. RpcType'
      BY <1>9 DEF InitReachesThread, RpcType, Request, Reply, submitVars, RpcStates, Halves
    <2> QED BY <2>1, <2>2, <2>3, <2>4, <2>5, <2>6, <2>7, <2>8, <2>9, <2>10, AuxKept
  <1>10. ASSUME InitAgain PROVE TypeOK'
    <2>1. UNCHANGED <<ringVars, counters, semas, flagVars, levelVars, pcmVars, spuVars,
                      playVars, auxVars>>
      BY <1>10 DEF InitAgain, Request, Reply, Refuse, ringVars, counters, semas, playState,
         flagVars, levelVars, pcmVars, spuVars, dmaVars, playVars, submitVars, auxVars
    <2>2. RpcType'
      BY <1>10 DEF InitAgain, RpcType, Request, Reply, Refuse, submitVars, RpcStates
    <2> QED BY <2>1, <2>2, RingKept, CountKept, SemaKept, FlagKept, LevelKept, PcmKept,
               SpuKept, PlayKept, AuxKept
  <1>11. ASSUME NEW n \in 0..MaxFrames + 1, RpcSubmit(n) PROVE TypeOK'
    <2>1. UNCHANGED <<ringVars, counters, semas, flagVars, levelVars, pcmVars, spuVars,
                      playVars>>
      BY <1>11 DEF RpcSubmit, Request, Reply, Refuse, ringVars, counters, semas, playState,
         flagVars, levelVars, pcmVars, spuVars, dmaVars, playVars, submitVars, auxVars
    <2>2. RpcType'
      <3>1. CASE UNCHANGED submitVars /\ rpc_pc' = "idle"
        BY <3>1 DEF RpcType, submitVars, RpcStates
      <3>2. CASE /\ samples' = [i \in 1..n |-> (next_frame + i - 1) % FrameIds]
                 /\ source_frame' = 0 /\ rpc_pc' = "submit" /\ UNCHANGED count
        <4>1. \A i \in 1..n : (next_frame + i - 1) % FrameIds \in Frames
          <5>1. TAKE i \in 1..n
          <5>2. next_frame + i - 1 \in Int
            BY AudioAssumption DEF AuxType, Frames
          <5>3. QED
            BY <5>2, FrameType
        <4>2. n \in Nat
          BY <1>11, AudioAssumption
        <4>3. samples' \in [1..n -> Frames]
          BY <3>2, <4>1
        <4>4. samples' \in Seq(Frames)
          BY <4>2, <4>3, SeqDef
        <4>5. QED
          BY <3>2, <4>4 DEF RpcType, RpcStates
      <3>3. QED
        BY <1>11, <3>1, <3>2 DEF RpcSubmit, Refuse, Reply
    <2>3. AuxType'
      <3>1. (next_frame + n) % FrameIds \in Frames
        <4>1. next_frame + n \in Int
          BY <1>11, AudioAssumption DEF AuxType, Frames
        <4>2. QED
          BY <4>1, FrameType
      <3>2. QED
        BY <1>11, <3>1 DEF RpcSubmit, AuxType, Refuse, auxVars
    <2> QED BY <2>1, <2>2, <2>3, RingKept, CountKept, SemaKept, FlagKept, LevelKept, PcmKept,
               SpuKept, PlayKept
  <1>12. ASSUME SubmitLock PROVE TypeOK'
    <2>1. UNCHANGED <<ringVars, flagVars, levelVars, pcmVars, spuVars, playVars, auxVars>>
      BY <1>12 DEF SubmitLock, At, AfterWait, Bump, ringVars, playState, flagVars, levelVars,
         pcmVars, spuVars, dmaVars, playVars, auxVars
    <2>2. CountType'
      BY <1>12, BumpType DEF SubmitLock, CountType, At, AfterWait
    <2>3. SemaType'
      BY <1>12 DEF SubmitLock, SemaType, At, AfterWait, Bump
    <2>4. RpcType'
      <3>1. Space \in Nat
        BY AudioAssumption DEF Space, RingType, LevelType
      <3>2. Len(samples) \in Nat
        BY DEF RpcType
      <3>3. count' \in Nat
        BY <1>12, <3>1, <3>2 DEF SubmitLock, RpcType, rpcVars, submitVars
      <3>4. QED
        BY <1>12, <3>3 DEF SubmitLock, RpcType, RpcStates
    <2> QED BY <2>1, <2>2, <2>3, <2>4, RingKept, FlagKept, LevelKept, PcmKept, SpuKept,
               PlayKept, AuxKept
  <1>13. ASSUME SubmitUnlockFull PROVE TypeOK'
    <2>1. UNCHANGED <<ringVars, counters, flagVars, levelVars, pcmVars, spuVars, playVars,
                      auxVars>>
      BY <1>13 DEF SubmitUnlockFull, At, AfterSignal, ringVars, counters, playState, flagVars,
         levelVars, pcmVars, spuVars, dmaVars, playVars, submitVars, auxVars
    <2>2. SemaType'
      BY <1>13 DEF SubmitUnlockFull, SemaType, At, AfterSignal
    <2>3. RpcType'
      BY <1>13 DEF SubmitUnlockFull, RpcType, At, AfterSignal, submitVars, RpcStates
    <2> QED BY <2>1, <2>2, <2>3, RingKept, CountKept, FlagKept, LevelKept, PcmKept, SpuKept,
               PlayKept, AuxKept
  <1>14. ASSUME SubmitWaitSpace PROVE TypeOK'
    <2>1. UNCHANGED <<ringVars, counters, flagVars, levelVars, pcmVars, spuVars, playVars,
                      auxVars>>
      BY <1>14 DEF SubmitWaitSpace, At, AfterWait, ringVars, counters, playState, flagVars,
         levelVars, pcmVars, spuVars, dmaVars, playVars, submitVars, auxVars
    <2>2. SemaType'
      BY <1>14 DEF SubmitWaitSpace, SemaType, At, AfterWait
    <2>3. RpcType'
      BY <1>14 DEF SubmitWaitSpace, RpcType, At, AfterWait, submitVars, RpcStates
    <2> QED BY <2>1, <2>2, <2>3, RingKept, CountKept, FlagKept, LevelKept, PcmKept, SpuKept,
               PlayKept, AuxKept
  <1>15. ASSUME SubmitCopy PROVE TypeOK'
    <2>1. UNCHANGED <<counters, semas, flagVars, levelVars, pcmVars, spuVars, playVars,
                      auxVars>>
      BY <1>15 DEF SubmitCopy, At, counters, semas, playState, flagVars, levelVars, pcmVars,
         spuVars, dmaVars, playVars, submitVars, auxVars
    <2>2. RingType'
      <3>1. ASSUME NEW s \in Slots, Offset(s) < count
            PROVE  Sample(Offset(s)) \in Pcm
        <4>1. Offset(s) \in Nat
          <5>1. s - write_frame \in Int
            BY DEF Slots, RingType
          <5>2. QED
            BY <5>1, SlotType, AudioAssumption DEF Offset, Slots
        <4>2. source_frame + 1 + Offset(s) \in 1..Len(samples)
          BY <1>15, <3>1, <4>1 DEF SubmitCopy, At, RingConsistent, RpcType
        <4>3. samples[source_frame + 1 + Offset(s)] \in Frames
          BY <4>2, ElementOfSeq DEF RpcType
        <4>4. QED
          BY <4>3 DEF Sample, Pcm
      <3>2. ring' \in [Slots -> Pcm]
        BY <1>15, <3>1 DEF SubmitCopy, RingType
      <3>3. QED
        BY <1>15, <3>2 DEF SubmitCopy, RingType
    <2>3. RpcType'
      BY <1>15 DEF SubmitCopy, RpcType, At, submitVars, RpcStates
    <2> QED BY <2>1, <2>2, <2>3, CountKept, SemaKept, FlagKept, LevelKept, PcmKept, SpuKept,
               PlayKept, AuxKept
  <1>16. ASSUME SubmitPublish PROVE TypeOK'
    <2>1. UNCHANGED <<counters, flagVars, levelVars, pcmVars, spuVars, playVars, auxVars>>
      BY <1>16 DEF SubmitPublish, At, AfterSignal, Slot, counters, playState, flagVars,
         levelVars, pcmVars, spuVars, dmaVars, playVars, auxVars
    <2>2. RingType'
      <3>1. Slot(write_frame, count) \in Slots
        BY SlotsType DEF RingType, RpcType
      <3>2. queued_frames + count \in Nat
        BY DEF RingType, RpcType
      <3>3. QED
        BY <1>16, <3>1, <3>2 DEF SubmitPublish, RingType
    <2>3. SemaType'
      BY <1>16, SlotType DEF SubmitPublish, SemaType, At, AfterSignal, Slot
    <2>4. RpcType'
      BY <1>16, SlotType DEF SubmitPublish, RpcType, At, AfterSignal, Slot, RpcStates
    <2> QED BY <2>1, <2>2, <2>3, <2>4, CountKept, FlagKept, LevelKept, PcmKept, SpuKept,
               PlayKept, AuxKept
  <1>17. ASSUME SubmitDone PROVE TypeOK'
    <2>1. UNCHANGED <<ringVars, counters, semas, flagVars, levelVars, pcmVars, spuVars,
                      playVars, auxVars>>
      BY <1>17 DEF SubmitDone, At, Reply, ringVars, counters, semas, playState, flagVars,
         levelVars, pcmVars, spuVars, dmaVars, playVars, auxVars
    <2>2. RpcType'
      BY <1>17 DEF SubmitDone, RpcType, At, Reply, RpcStates
    <2> QED BY <2>1, <2>2, RingKept, CountKept, SemaKept, FlagKept, LevelKept, PcmKept,
               SpuKept, PlayKept, AuxKept
  <1>18. ASSUME RpcStart PROVE TypeOK'
    <2>1. UNCHANGED <<ringVars, counters, semas, flagVars, spuVars, playVars>>
      BY <1>18 DEF RpcStart, Request, Reply, Refuse, ringVars, counters, semas, playState,
         flagVars, levelVars, pcmVars, spuVars, dmaVars, playVars, submitVars, auxVars
    <2>2. PcmType'
      BY <1>18, SilentBlockType DEF RpcStart, PcmType, Request, Reply, Refuse, pcmVars, Halves
    <2>3. LevelType'
      BY <1>18, VolumeType DEF RpcStart, LevelType, Request, Reply, Refuse, playState,
         levelVars, Halves
    <2>4. RpcType'
      BY <1>18 DEF RpcStart, RpcType, Request, Reply, Refuse, submitVars, RpcStates, Halves
    <2>5. AuxType'
      BY <1>18 DEF RpcStart, AuxType, Request, Reply, Refuse, auxVars, Halves
    <2> QED BY <2>1, <2>2, <2>3, <2>4, <2>5, RingKept, CountKept, SemaKept, FlagKept, SpuKept,
               PlayKept
  <1>19. ASSUME StartLoop PROVE TypeOK'
    <2>1. UNCHANGED <<ringVars, counters, semas, flagVars, levelVars, pcmVars, playVars>>
      BY <1>19 DEF StartLoop, At, ringVars, counters, semas, playState, flagVars, levelVars,
         pcmVars, playVars, submitVars
    <2>2. SpuType'
      BY <1>19 DEF StartLoop, SpuType, At, Halves
    <2>3. RpcType'
      BY <1>19 DEF StartLoop, RpcType, At, submitVars, RpcStates
    <2>4. AuxType'
      BY <1>19 DEF StartLoop, AuxType, At, Halves
    <2> QED BY <2>1, <2>2, <2>3, <2>4, RingKept, CountKept, SemaKept, FlagKept, LevelKept,
               PcmKept, PlayKept
  <1>20. ASSUME StartDone PROVE TypeOK'
    <2>1. UNCHANGED <<ringVars, counters, semas, pcmVars, spuVars, playVars, auxVars>>
      BY <1>20 DEF StartDone, At, Reply, ringVars, counters, semas, pcmVars, spuVars, dmaVars,
         playVars, submitVars, auxVars
    <2>2. FlagType'
      BY <1>20 DEF StartDone, FlagType, At, Reply
    <2>3. LevelType'
      BY <1>20, VolumeType DEF StartDone, LevelType, At, Reply
    <2>4. RpcType'
      BY <1>20 DEF StartDone, RpcType, At, Reply, submitVars, RpcStates
    <2> QED BY <2>1, <2>2, <2>3, <2>4, RingKept, CountKept, SemaKept, PcmKept, SpuKept,
               PlayKept, AuxKept
  <1>21. ASSUME NEW p \in BOOLEAN, SetPaused(p) PROVE TypeOK'
    <2>1. UNCHANGED <<ringVars, counters, semas, pcmVars, spuVars, playVars, auxVars>>
      BY <1>21 DEF SetPaused, Request, Reply, Refuse, ringVars, counters, semas, playState,
         flagVars, levelVars, pcmVars, spuVars, dmaVars, playVars, submitVars, auxVars
    <2>2. FlagType'
      BY <1>21 DEF SetPaused, FlagType, Request, Reply, Refuse, playState, flagVars
    <2>3. LevelType'
      BY <1>21, VolumeType DEF SetPaused, LevelType, Request, Reply, Refuse, playState,
         levelVars
    <2>4. RpcType'
      BY <1>21 DEF SetPaused, RpcType, Request, Reply, Refuse, submitVars, RpcStates
    <2> QED BY <2>1, <2>2, <2>3, <2>4, RingKept, CountKept, SemaKept, PcmKept, SpuKept,
               PlayKept, AuxKept
  <1>22. ASSUME RpcStop PROVE TypeOK'
    <2>1. UNCHANGED <<ringVars, counters, semas, pcmVars, playVars, auxVars>>
      BY <1>22 DEF RpcStop, Request, Reply, Refuse, ringVars, counters, semas, playState,
         flagVars, levelVars, pcmVars, spuVars, dmaVars, playVars, submitVars, auxVars
    <2>2. FlagType'
      BY <1>22 DEF RpcStop, FlagType, Request, Reply, Refuse, playState, flagVars
    <2>3. LevelType'
      <3>1. CASE UNCHANGED levelVars
        BY <3>1 DEF LevelType, levelVars
      <3>2. CASE bvol' = VolumeOf(started, FALSE, volume) /\ UNCHANGED <<volume, queue_limit>>
        BY <3>2, VolumeType DEF LevelType
      <3> QED BY <1>22, <3>1, <3>2 DEF RpcStop, Refuse, playState, levelVars
    <2>4. SpuType'
      BY <1>22 DEF RpcStop, SpuType, Request, Reply, Refuse, spuVars, dmaVars, Halves
    <2>5. RpcType'
      BY <1>22 DEF RpcStop, RpcType, Request, Reply, Refuse, submitVars, RpcStates
    <2> QED BY <2>1, <2>2, <2>3, <2>4, <2>5, RingKept, CountKept, SemaKept, PcmKept, PlayKept,
               AuxKept
  <1>23. ASSUME StopDma PROVE TypeOK'
    <2>1. UNCHANGED <<ringVars, counters, semas, pcmVars, playVars, auxVars>>
      BY <1>23 DEF StopDma, At, Reply, ringVars, counters, semas, pcmVars, playVars,
         submitVars, auxVars
    <2>2. FlagType'
      BY <1>23 DEF StopDma, FlagType, At, Reply
    <2>3. LevelType'
      BY <1>23, VolumeType DEF StopDma, LevelType, At, Reply
    <2>4. SpuType'
      BY <1>23 DEF StopDma, SpuType, At, Reply, Halves
    <2>5. RpcType'
      BY <1>23 DEF StopDma, RpcType, At, Reply, submitVars, RpcStates
    <2> QED BY <2>1, <2>2, <2>3, <2>4, <2>5, RingKept, CountKept, SemaKept, PcmKept, PlayKept,
               AuxKept
  <1>24. ASSUME RpcFlush PROVE TypeOK'
    <2>1. UNCHANGED <<counters, flagVars, levelVars, pcmVars, spuVars, playVars, auxVars>>
      BY <1>24 DEF RpcFlush, Request, AfterWait, counters, playState, flagVars, levelVars,
         pcmVars, spuVars, dmaVars, playVars, submitVars, auxVars
    <2>2. RingType'
      BY <1>24, SlotType, AudioAssumption DEF RpcFlush, RingType, Slots
    <2>3. SemaType'
      BY <1>24 DEF RpcFlush, SemaType, Request, AfterWait
    <2>4. RpcType'
      BY <1>24 DEF RpcFlush, RpcType, Request, AfterWait, submitVars, RpcStates
    <2> QED BY <2>1, <2>2, <2>3, <2>4, CountKept, FlagKept, LevelKept, PcmKept, SpuKept,
               PlayKept, AuxKept
  <1>25. ASSUME FlushUnlock PROVE TypeOK'
    <2>1. UNCHANGED <<ringVars, counters, flagVars, levelVars, pcmVars, spuVars, playVars,
                      auxVars>>
      BY <1>25 DEF FlushUnlock, At, Reply, AfterSignal, ringVars, counters, playState,
         flagVars, levelVars, pcmVars, spuVars, dmaVars, playVars, submitVars, auxVars
    <2>2. SemaType'
      BY <1>25 DEF FlushUnlock, SemaType, At, Reply, AfterSignal
    <2>3. RpcType'
      BY <1>25 DEF FlushUnlock, RpcType, At, Reply, AfterSignal, submitVars, RpcStates
    <2> QED BY <2>1, <2>2, <2>3, RingKept, CountKept, FlagKept, LevelKept, PcmKept, SpuKept,
               PlayKept, AuxKept
  <1>26. ASSUME NEW v \in Volumes, RpcSetVolume(v) PROVE TypeOK'
    <2>1. UNCHANGED <<ringVars, counters, semas, flagVars, pcmVars, spuVars, playVars, auxVars>>
      BY <1>26 DEF RpcSetVolume, Request, Reply, Refuse, ringVars, counters, semas, playState,
         flagVars, levelVars, pcmVars, spuVars, dmaVars, playVars, submitVars, auxVars
    <2>2. LevelType'
      BY <1>26, VolumeType DEF RpcSetVolume, LevelType, Request, Reply, Refuse, playState,
         levelVars
    <2>3. RpcType'
      BY <1>26 DEF RpcSetVolume, RpcType, Request, Reply, Refuse, submitVars, RpcStates
    <2> QED BY <2>1, <2>2, <2>3, RingKept, CountKept, SemaKept, FlagKept, PcmKept, SpuKept,
               PlayKept, AuxKept
  <1>27. ASSUME NEW ms \in Latencies, RpcSetLatency(ms) PROVE TypeOK'
    <2>1. UNCHANGED <<ringVars, counters, flagVars, pcmVars, spuVars, playVars, auxVars>>
      BY <1>27 DEF RpcSetLatency, Request, Reply, Refuse, AfterSignal, ringVars, counters,
         semas, playState, flagVars, levelVars, pcmVars, spuVars, dmaVars, playVars,
         submitVars, auxVars
    <2>2. LevelType'
      BY <1>27, LimitType DEF RpcSetLatency, LevelType, Request, Reply, Refuse, AfterSignal,
         playState, levelVars
    <2>3. SemaType'
      BY <1>27 DEF RpcSetLatency, SemaType, Request, Reply, Refuse, AfterSignal, semas
    <2>4. RpcType'
      BY <1>27 DEF RpcSetLatency, RpcType, Request, Reply, Refuse, AfterSignal, submitVars,
         RpcStates
    <2> QED BY <2>1, <2>2, <2>3, <2>4, RingKept, CountKept, FlagKept, PcmKept, SpuKept,
               PlayKept, AuxKept
  <1>28. ASSUME RpcStats PROVE TypeOK'
    <2>1. UNCHANGED <<ringVars, counters, semas, flagVars, levelVars, pcmVars, spuVars,
                      playVars, auxVars>>
      BY <1>28 DEF RpcStats, Request, Reply, Refuse, ringVars, counters, semas, playState,
         flagVars, levelVars, pcmVars, spuVars, dmaVars, playVars, submitVars, auxVars
    <2>2. RpcType'
      BY <1>28 DEF RpcStats, RpcType, Request, Reply, Refuse, submitVars, RpcStates
    <2> QED BY <2>1, <2>2, RingKept, CountKept, SemaKept, FlagKept, LevelKept, PcmKept,
               SpuKept, PlayKept, AuxKept
  <1> QED
    BY <1>1, <1>2, <1>3, <1>4, <1>5, <1>6, <1>7, <1>8, <1>9, <1>10, <1>11, <1>12, <1>13,
       <1>14, <1>15, <1>16, <1>17, <1>18, <1>19, <1>20, <1>21, <1>22, <1>23, <1>24, <1>25,
       <1>26, <1>27, <1>28 DEF Next, PlayStep, RpcRequest, RpcStep, RpcInit

-----------------------------------------------------------------------------
(* The ring.                                                               *)

\* Moving an index twice is moving it once by the sum, within one turn.
LEMMA SlotSum == ASSUME NEW first \in Slots, NEW a \in Nat, NEW b \in Nat,
                        a + b <= RingFrames
                 PROVE  Slot(Slot(first, a), b) = Slot(first, a + b)
  <1> USE AudioAssumption DEF Slots
  <1>1. ASSUME NEW x \in Nat, x < RingFrames PROVE x % RingFrames = x
    BY <1>1, SMT
  <1>2. ASSUME NEW x \in Nat, RingFrames <= x, x < 2 * RingFrames
        PROVE  x % RingFrames = x - RingFrames
    BY <1>2, SMT
  <1>3. CASE first + a < RingFrames
    <2>1. Slot(first, a) = first + a
      BY <1>1, <1>3 DEF Slot
    <2>2. QED
      BY <2>1 DEF Slot
  <1>4. CASE first + a >= RingFrames
    <2>1. Slot(first, a) = first + a - RingFrames
      BY <1>2, <1>4 DEF Slot
    <2>2. Slot(Slot(first, a), b) = first + a + b - RingFrames
      BY <1>1, <1>4, <2>1 DEF Slot
    <2>3. Slot(first, a + b) = first + a + b - RingFrames
      BY <1>2, <1>4 DEF Slot
    <2>4. QED
      BY <2>2, <2>3
  <1>5. QED
    BY <1>3, <1>4

\* Moving an index by nothing leaves it where it is.
LEMMA SlotZero == ASSUME NEW first \in Slots PROVE Slot(first, 0) = first
  BY AudioAssumption, SMT DEF Slots, Slot

\* Outside a copy, the ring is consistent as long as its indices stay.
LEMMA RingConsistentKept ==
  ASSUME RingConsistent, UNCHANGED ringVars, UNCHANGED <<samples, source_frame>>,
         \/ rpc_pc' \notin {"copy", "publish"}
         \/ UNCHANGED <<rpc_pc, count, queue_limit>>
  PROVE  RingConsistent'
  BY DEF RingConsistent, ringVars, Slot

\* Every step keeps the ring consistent.
LEMMA RingStep == ASSUME TypeOK, RingConsistent, Next PROVE RingConsistent'
  <1> USE DEF TypeOK
  <1>1. ASSUME DmaComplete PROVE RingConsistent'
    BY <1>1, RingConsistentKept DEF DmaComplete, submitVars, rpcVars, playState, levelVars
  <1>2. ASSUME DmaInterrupt PROVE RingConsistent'
    BY <1>2, RingConsistentKept DEF DmaInterrupt, submitVars, rpcVars, playState, levelVars
  <1>3. ASSUME PlayWaitTransfer PROVE RingConsistent'
    BY <1>3, RingConsistentKept DEF PlayWaitTransfer, submitVars, rpcVars, playState, levelVars
  <1>4. ASSUME PlayFill PROVE RingConsistent'
    <2>1. /\ Take \in Nat /\ Take <= queued_frames
      BY TakeType
    <2>2. /\ read_frame' = Slot(read_frame, Take) /\ queued_frames' = queued_frames - Take
          /\ UNCHANGED <<write_frame, rpc_pc, samples, source_frame, count, queue_limit>>
      BY <1>4 DEF PlayFill, rpcVars, submitVars, playState, levelVars
    <2>3. queued_frames - Take \in Nat /\ Take + (queued_frames - Take) = queued_frames
      BY <2>1 DEF RingType
    <2>4. Slot(read_frame', queued_frames') = Slot(read_frame, queued_frames)
      BY <2>1, <2>2, <2>3, SlotSum DEF RingType, RingConsistent
    <2>5. queued_frames' <= RingFrames /\ write_frame' = Slot(read_frame', queued_frames')
      BY <2>1, <2>2, <2>3, <2>4, AudioAssumption DEF RingConsistent, RingType
    <2>6. rpc_pc \in {"copy", "publish"} => queued_frames' + count <= queue_limit
      BY <2>1, <2>2, <2>3 DEF RingConsistent, RingType, LevelType, RpcType
    <2>7. QED
      BY <2>2, <2>5, <2>6 DEF RingConsistent
  <1>5. ASSUME PlayPickIdle PROVE RingConsistent'
    BY <1>5, RingConsistentKept DEF PlayPickIdle, submitVars, rpcVars, playState, levelVars
  <1>6. ASSUME PlayCopy PROVE RingConsistent'
    BY <1>6, RingConsistentKept DEF PlayCopy, submitVars, rpcVars, playState, levelVars
  <1>7. ASSUME InitSemasFail PROVE RingConsistent'
    BY <1>7, RingConsistentKept DEF InitSemasFail, Request, Reply, submitVars, playState,
       levelVars
  <1>8. ASSUME InitSpuFails PROVE RingConsistent'
    BY <1>8, RingConsistentKept DEF InitSpuFails, Request, Reply, submitVars
  <1>9. ASSUME InitReachesThread PROVE RingConsistent'
    <2>1. /\ read_frame' = 0 /\ write_frame' = 0 /\ queued_frames' = 0
          /\ rpc_pc' \notin {"copy", "publish"} /\ UNCHANGED <<samples, source_frame>>
      BY <1>9 DEF InitReachesThread, Reply, submitVars
    <2>2. 0 \in Slots
      BY AudioAssumption DEF Slots
    <2>3. Slot(0, 0) = 0
      BY <2>2, SlotZero
    <2>4. QED
      BY <2>1, <2>3, AudioAssumption DEF RingConsistent, Slot
  <1>10. ASSUME InitAgain PROVE RingConsistent'
    BY <1>10, RingConsistentKept DEF InitAgain, Request, Reply, Refuse, submitVars, playState,
       levelVars
  <1>11. ASSUME NEW n \in 0..MaxFrames + 1, RpcSubmit(n) PROVE RingConsistent'
    <2>1. CASE UNCHANGED submitVars /\ UNCHANGED ringVars /\ rpc_pc' = "idle"
      BY <2>1, RingConsistentKept DEF submitVars
    <2>2. CASE /\ samples' = [i \in 1..n |-> (next_frame + i - 1) % FrameIds]
               /\ source_frame' = 0 /\ rpc_pc' = "submit" /\ UNCHANGED ringVars
      <3>1. n \in Nat
        BY <1>11, AudioAssumption
      <3>2. Len(samples') = n
        BY <2>2, <3>1
      <3>3. QED
        BY <2>2, <3>1, <3>2 DEF RingConsistent, ringVars, Slot
    <2>3. QED
      BY <1>11, <2>1, <2>2 DEF RpcSubmit, Refuse, Reply
  <1>12. ASSUME SubmitLock PROVE RingConsistent'
    <2>1. UNCHANGED ringVars /\ UNCHANGED <<samples, source_frame, queue_limit>>
      BY <1>12 DEF SubmitLock, playState, levelVars
    <2>2. CASE rpc_pc' = "full"
      BY <2>1, <2>2, RingConsistentKept
    <2>3. CASE rpc_pc' = "copy"
      <3>1. Space \in Nat /\ (Space # 0 => queued_frames + Space = queue_limit)
        BY AudioAssumption DEF Space, RingType, LevelType
      <3>2. /\ Space # 0 /\ source_frame < Len(samples)
            /\ count' = IF Len(samples) - source_frame > Space THEN Space
                        ELSE Len(samples) - source_frame
        BY <1>12, <2>3 DEF SubmitLock
      <3>3. Len(samples) \in Nat /\ source_frame \in Nat /\ queued_frames \in Nat
        BY DEF RpcType, RingType
      <3>4. queued_frames + count' <= queue_limit /\ source_frame + count' <= Len(samples)
        BY <3>1, <3>2, <3>3 DEF LevelType
      <3>5. QED
        BY <2>1, <3>4 DEF RingConsistent, ringVars, Slot
    <2>4. QED
      BY <1>12, <2>2, <2>3 DEF SubmitLock
  <1>13. ASSUME SubmitUnlockFull PROVE RingConsistent'
    BY <1>13, RingConsistentKept DEF SubmitUnlockFull, At, submitVars, playState, levelVars
  <1>14. ASSUME SubmitWaitSpace PROVE RingConsistent'
    BY <1>14, RingConsistentKept DEF SubmitWaitSpace, At, submitVars, playState, levelVars
  <1>15. ASSUME SubmitCopy PROVE RingConsistent'
    <2>1. /\ UNCHANGED <<read_frame, write_frame, queued_frames, submitVars, queue_limit>>
          /\ rpc_pc = "copy" /\ rpc_pc' = "publish"
      BY <1>15 DEF SubmitCopy, At, playState, levelVars
    <2>2. QED
      BY <2>1 DEF RingConsistent, submitVars, Slot
  <1>16. ASSUME SubmitPublish PROVE RingConsistent'
    <2>1. /\ write_frame' = Slot(write_frame, count)
          /\ queued_frames' = queued_frames + count
          /\ source_frame' = source_frame + count
          /\ rpc_pc = "publish" /\ rpc_pc' = "submit"
          /\ UNCHANGED <<samples, read_frame>>
      BY <1>16 DEF SubmitPublish, At
    <2>2. queued_frames + count <= RingFrames /\ source_frame + count <= Len(samples)
      BY <2>1, AudioAssumption DEF RingConsistent, LevelType, RingType, RpcType
    <2>3. Slot(write_frame, count) = Slot(read_frame, queued_frames + count)
      BY <2>2, SlotSum DEF RingConsistent, RingType, RpcType
    <2>4. QED
      BY <2>1, <2>2, <2>3 DEF RingConsistent, Slot
  <1>17. ASSUME SubmitDone PROVE RingConsistent'
    <2>1. UNCHANGED ringVars /\ samples' = <<>> /\ source_frame' = 0 /\ rpc_pc' = "idle"
      BY <1>17 DEF SubmitDone, Reply
    <2>2. QED
      BY <2>1 DEF RingConsistent, ringVars, Slot
  <1>18. ASSUME RpcStart PROVE RingConsistent'
    BY <1>18, RingConsistentKept DEF RpcStart, Request, Reply, Refuse, submitVars, playState,
       levelVars
  <1>19. ASSUME StartLoop PROVE RingConsistent'
    BY <1>19, RingConsistentKept DEF StartLoop, At, submitVars, playState, levelVars
  <1>20. ASSUME StartDone PROVE RingConsistent'
    BY <1>20, RingConsistentKept DEF StartDone, At, Reply, submitVars
  <1>21. ASSUME NEW p \in BOOLEAN, SetPaused(p) PROVE RingConsistent'
    BY <1>21, RingConsistentKept DEF SetPaused, Request, Reply, Refuse, submitVars, playState,
       levelVars
  <1>22. ASSUME RpcStop PROVE RingConsistent'
    BY <1>22, RingConsistentKept DEF RpcStop, Request, Reply, Refuse, submitVars, playState,
       levelVars
  <1>23. ASSUME StopDma PROVE RingConsistent'
    BY <1>23, RingConsistentKept DEF StopDma, At, Reply, submitVars
  <1>24. ASSUME RpcFlush PROVE RingConsistent'
    <2>1. /\ read_frame' = 0 /\ write_frame' = 0 /\ queued_frames' = 0
          /\ rpc_pc' \notin {"copy", "publish"} /\ UNCHANGED <<samples, source_frame>>
      BY <1>24 DEF RpcFlush, Reply, submitVars
    <2>2. 0 \in Slots
      BY AudioAssumption DEF Slots
    <2>3. Slot(0, 0) = 0
      BY <2>2, SlotZero
    <2>4. QED
      BY <2>1, <2>3, AudioAssumption DEF RingConsistent, Slot
  <1>25. ASSUME FlushUnlock PROVE RingConsistent'
    BY <1>25, RingConsistentKept DEF FlushUnlock, At, Reply, submitVars, playState, levelVars
  <1>26. ASSUME NEW v \in Volumes, RpcSetVolume(v) PROVE RingConsistent'
    BY <1>26, RingConsistentKept DEF RpcSetVolume, Request, Reply, Refuse, submitVars,
       playState, levelVars
  <1>27. ASSUME NEW ms \in Latencies, RpcSetLatency(ms) PROVE RingConsistent'
    BY <1>27, RingConsistentKept DEF RpcSetLatency, Request, Reply, Refuse, submitVars,
       playState, levelVars
  <1>28. ASSUME RpcStats PROVE RingConsistent'
    BY <1>28, RingConsistentKept DEF RpcStats, Request, Reply, Refuse, submitVars, playState,
       levelVars
  <1> QED
    BY <1>1, <1>2, <1>3, <1>4, <1>5, <1>6, <1>7, <1>8, <1>9, <1>10, <1>11, <1>12, <1>13,
       <1>14, <1>15, <1>16, <1>17, <1>18, <1>19, <1>20, <1>21, <1>22, <1>23, <1>24, <1>25,
       <1>26, <1>27, <1>28 DEF Next, PlayStep, RpcRequest, RpcStep, RpcInit

-----------------------------------------------------------------------------
(* Theorems.                                                               *)

\* Both parts of the inductive invariant hold initially.
LEMMA InitInv == Init => TypeOK /\ RingConsistent
  <1> SUFFICES ASSUME Init PROVE TypeOK /\ RingConsistent
    OBVIOUS
  <1> USE AudioAssumption DEF Init
  <1>1. 0 \in Slots /\ 0 \in Frames
    BY DEF Slots, Frames
  <1>2. RingType /\ CountType /\ SemaType
    BY <1>1 DEF RingType, CountType, SemaType, Pcm
  <1>3. FlagType /\ PlayType /\ SpuType
    BY DEF FlagType, PlayType, SpuType, Halves
  <1>4. LevelType
    BY DEF LevelType, MaxVolume
  <1>5. PcmType
    BY SilentBlockType DEF PcmType
  <1>6. RpcType /\ AuxType
    BY <1>1 DEF RpcType, RpcStates, AuxType
  <1>7. RingConsistent
    BY <1>1, SlotZero DEF RingConsistent
  <1>8. QED
    BY <1>2, <1>3, <1>4, <1>5, <1>6, <1>7 DEF TypeOK

\* Types and ring together are inductive: a slot computed from the indices is
\* a slot only while they are numbers, and the copy of a submission keeps to
\* its samples only while the ring is consistent.
LEMMA Inductive == Spec => [](TypeOK /\ RingConsistent)
  <1>1. TypeOK /\ RingConsistent /\ UNCHANGED vars => TypeOK' /\ RingConsistent'
    <2> SUFFICES ASSUME TypeOK, RingConsistent, UNCHANGED vars
                 PROVE  TypeOK' /\ RingConsistent'
      OBVIOUS
    <2>1. UNCHANGED <<ringVars, counters, semas, flagVars, levelVars, pcmVars, spuVars,
                      playVars, rpcVars, auxVars>>
      BY DEF vars, playState
    <2>2. TypeOK'
      BY <2>1, RingKept, CountKept, SemaKept, FlagKept, LevelKept, PcmKept, SpuKept,
         PlayKept, RpcKept, AuxKept DEF TypeOK
    <2>3. RingConsistent'
      BY <2>1, RingConsistentKept DEF rpcVars, submitVars, levelVars
    <2>4. QED
      BY <2>2, <2>3
  <1>2. TypeOK /\ RingConsistent /\ [Next]_vars => TypeOK' /\ RingConsistent'
    BY <1>1, TypeStep, RingStep
  <1>3. QED
    BY <1>2, InitInv, PTL DEF Spec
\* For every ring and block size, the variables of the service keep their types;
\* in particular queue_limit stays between one block and the ring, whatever
\* latency audio_set_latency_ms is asked for.
THEOREM TypeCorrect == Spec => []TypeOK
  BY Inductive, PTL

\* For every ring and block size, and wherever the play thread preempts
\* audio_submit, the queued frames fit the ring and lie between its indices.
THEOREM RingSafe == Spec => []RingConsistent
  BY Inductive, PTL

-----------------------------------------------------------------------------
(* Playback control.                                                       *)

\* Interrupts are off exactly while the play thread copies, and then it copies
\* into the half that is not active; the DMA streams the active half.
Halving == /\ intr_enabled <=> play_pc # "copy"
           /\ play_pc = "copy" => idle_block = 1 - active_block
           /\ dma_busy => dma_block = active_block

\* The flags against the hardware, at every step of START and STOP.
Phase == /\ running => dma_busy \/ irq_pending
         /\ dma_busy \/ irq_pending => running \/ rpc_pc = "stop"
         /\ rpc_pc \in {"start", "started"} => initialized /\ ~started
         /\ rpc_pc = "start" => ~running
         /\ rpc_pc = "started" => running
         /\ rpc_pc = "stop" => initialized /\ started /\ ~running
         /\ rpc_pc \notin {"start", "started", "stop"} => (started <=> running)

\* The pause flag and the volume register belong to a started stream.
Audible == /\ paused => started
           /\ bvol # 0 => started /\ ~paused

\* Before INIT succeeds nothing plays.
Dormant == ~initialized => ~started /\ ~running /\ play_pc = "absent"

\* The control invariant of playback.
Control == Halving /\ Phase /\ Audible /\ Dormant

\* Every step keeps the control invariant.
LEMMA ControlStep == ASSUME TypeOK, Control, Next PROVE Control'
  <1> USE DEF TypeOK, FlagType, SpuType, PlayType, Halves, Control, Halving, Phase, Audible, Dormant
  <1>1. ASSUME DmaComplete PROVE Control'
    BY <1>1 DEF DmaComplete, flagVars, levelVars, playState, playVars, rpcVars
  <1>2. ASSUME DmaInterrupt PROVE Control'
    BY <1>2 DEF DmaInterrupt, InterruptDue, flagVars, levelVars, playState, playVars, rpcVars
  <1>3. ASSUME PlayWaitTransfer PROVE Control'
    BY <1>3 DEF PlayWaitTransfer, PlayMayRun, InterruptDue, flagVars, levelVars, playState,
       dmaVars, spuVars, rpcVars
  <1>4. ASSUME PlayFill PROVE Control'
    BY <1>4 DEF PlayFill, PlayMayRun, InterruptDue, flagVars, levelVars, playState, dmaVars,
       spuVars, rpcVars
  <1>5. ASSUME PlayPickIdle PROVE Control'
    BY <1>5 DEF PlayPickIdle, PlayMayRun, InterruptDue, IdleHalf, flagVars, levelVars,
       playState, dmaVars, rpcVars
  <1>6. ASSUME PlayCopy PROVE Control'
    BY <1>6 DEF PlayCopy, PlayMayRun, InterruptDue, flagVars, levelVars, playState, dmaVars,
       rpcVars
  <1>7. ASSUME InitSemasFail PROVE Control'
    BY <1>7 DEF InitSemasFail, Request, Reply, RpcMayRun, PlayReady, InterruptDue, flagVars,
       levelVars, playState, dmaVars, spuVars, playVars
  <1>8. ASSUME InitSpuFails PROVE Control'
    BY <1>8 DEF InitSpuFails, Request, Reply, RpcMayRun, PlayReady, InterruptDue, dmaVars,
       spuVars, playVars
  <1>9. ASSUME InitReachesThread PROVE Control'
    BY <1>9 DEF InitReachesThread, Request, Reply, RpcMayRun, PlayReady, InterruptDue, VolumeOf
  <1>10. ASSUME InitAgain PROVE Control'
    BY <1>10 DEF InitAgain, Request, Reply, Refuse, RpcMayRun, PlayReady, InterruptDue,
       flagVars, levelVars, playState, dmaVars, spuVars, playVars
  <1>11. ASSUME NEW n \in 0..MaxFrames + 1, RpcSubmit(n) PROVE Control'
    BY <1>11 DEF RpcSubmit, Request, Reply, Refuse, RpcMayRun, PlayReady, InterruptDue,
       flagVars, levelVars, playState, dmaVars, spuVars, playVars
  <1>12. ASSUME SubmitLock PROVE Control'
    BY <1>12 DEF SubmitLock, At, RpcMayRun, PlayReady, InterruptDue, flagVars, levelVars,
       playState, dmaVars, spuVars, playVars
  <1>13. ASSUME SubmitUnlockFull PROVE Control'
    BY <1>13 DEF SubmitUnlockFull, At, RpcMayRun, PlayReady, InterruptDue, flagVars,
       levelVars, playState, dmaVars, spuVars, playVars
  <1>14. ASSUME SubmitWaitSpace PROVE Control'
    BY <1>14 DEF SubmitWaitSpace, At, RpcMayRun, PlayReady, InterruptDue, flagVars, levelVars,
       playState, dmaVars, spuVars, playVars
  <1>15. ASSUME SubmitCopy PROVE Control'
    BY <1>15 DEF SubmitCopy, At, RpcMayRun, PlayReady, InterruptDue, flagVars, levelVars,
       playState, dmaVars, spuVars, playVars
  <1>16. ASSUME SubmitPublish PROVE Control'
    BY <1>16 DEF SubmitPublish, At, RpcMayRun, PlayReady, InterruptDue, flagVars, levelVars,
       playState, dmaVars, spuVars, playVars
  <1>17. ASSUME SubmitDone PROVE Control'
    BY <1>17 DEF SubmitDone, At, Reply, RpcMayRun, PlayReady, InterruptDue, flagVars,
       levelVars, playState, dmaVars, spuVars, playVars
  <1>18. ASSUME RpcStart PROVE Control'
    BY <1>18 DEF RpcStart, Request, Reply, Refuse, RpcMayRun, PlayReady, InterruptDue,
       VolumeOf, flagVars, levelVars, playState, dmaVars, spuVars, playVars
  <1>19. ASSUME StartLoop PROVE Control'
    BY <1>19 DEF StartLoop, At, RpcMayRun, PlayReady, InterruptDue, flagVars, levelVars,
       playState, playVars
  <1>20. ASSUME StartDone PROVE Control'
    BY <1>20 DEF StartDone, At, Reply, RpcMayRun, PlayReady, InterruptDue, VolumeOf, dmaVars,
       spuVars, playVars
  <1>21. ASSUME NEW p \in BOOLEAN, SetPaused(p) PROVE Control'
    BY <1>21 DEF SetPaused, Request, Reply, Refuse, RpcMayRun, PlayReady, InterruptDue,
       VolumeOf, flagVars, levelVars, playState, dmaVars, spuVars, playVars
  <1>22. ASSUME RpcStop PROVE Control'
    BY <1>22 DEF RpcStop, Request, Reply, Refuse, RpcMayRun, PlayReady, InterruptDue,
       VolumeOf, flagVars, levelVars, playState, dmaVars, spuVars, playVars
  <1>23. ASSUME StopDma PROVE Control'
    BY <1>23 DEF StopDma, At, Reply, RpcMayRun, PlayReady, InterruptDue, VolumeOf, playVars
  <1>24. ASSUME RpcFlush PROVE Control'
    BY <1>24 DEF RpcFlush, Request, RpcMayRun, PlayReady, InterruptDue, flagVars, levelVars,
       playState, dmaVars, spuVars, playVars
  <1>25. ASSUME FlushUnlock PROVE Control'
    BY <1>25 DEF FlushUnlock, At, Reply, RpcMayRun, PlayReady, InterruptDue, flagVars,
       levelVars, playState, dmaVars, spuVars, playVars
  <1>26. ASSUME NEW v \in Volumes, RpcSetVolume(v) PROVE Control'
    BY <1>26 DEF RpcSetVolume, Request, Reply, Refuse, RpcMayRun, PlayReady, InterruptDue,
       VolumeOf, flagVars, levelVars, playState, dmaVars, spuVars, playVars
  <1>27. ASSUME NEW ms \in Latencies, RpcSetLatency(ms) PROVE Control'
    BY <1>27 DEF RpcSetLatency, Request, Reply, Refuse, RpcMayRun, PlayReady, InterruptDue,
       flagVars, levelVars, playState, dmaVars, spuVars, playVars
  <1>28. ASSUME RpcStats PROVE Control'
    BY <1>28 DEF RpcStats, Request, Reply, Refuse, RpcMayRun, PlayReady, InterruptDue,
       flagVars, levelVars, playState, dmaVars, spuVars, playVars
  <1> QED BY <1>1, <1>2, <1>3, <1>4, <1>5, <1>6, <1>7, <1>8, <1>9, <1>10, <1>11, <1>12, <1>13,
             <1>14, <1>15, <1>16, <1>17, <1>18, <1>19, <1>20, <1>21, <1>22, <1>23, <1>24,
             <1>25, <1>26, <1>27, <1>28 DEF Next, PlayStep, RpcRequest, RpcStep, RpcInit

\* Types and control together are invariant.
LEMMA ControlInvariant == Spec => [](TypeOK /\ Control)
  <1>1. Init => Control
    BY DEF Init, Control, Halving, Phase, Audible, Dormant
  <1>2. TypeOK /\ Control /\ [Next]_vars => Control'
    <2>1. Control /\ UNCHANGED vars => Control'
      BY DEF Control, Halving, Phase, Audible, Dormant, vars, playState, flagVars,
         levelVars, spuVars, dmaVars, playVars, rpcVars
    <2>2. QED
      BY <2>1, ControlStep
  <1>3. QED
    BY <1>1, <1>2, TypeCorrect, PTL DEF Spec

\* Whatever the interleaving of requests, refills and interrupts, the flags that
\* audio_start, audio_pause and audio_stop keep describe the hardware.
THEOREM PlaybackSafe == Spec => []PlaybackCoherent
  <1>1. TypeOK /\ Control => PlaybackCoherent
    BY DEF TypeOK, FlagType, SpuType, Control, Phase, Audible, PlaybackCoherent
  <1>2. QED
    BY <1>1, ControlInvariant, PTL

\* However late a refill comes, no step of copy_render_to_spu or audio_start
\* writes the half of the buffer that the DMA is streaming.
THEOREM StreamedHalfSafe == Spec => StreamedHalfUntouched
  <1> DEFINE Untouched ==
        \A h \in Halves : dma_busy /\ dma_block = h => spu_buffer'[h] = spu_buffer[h]
  <1>1. ASSUME TypeOK, Control, Next, NEW h \in Halves, dma_busy, dma_block = h
        PROVE  spu_buffer'[h] = spu_buffer[h]
    <2> USE DEF TypeOK, SpuType, FlagType, Halves, Control
    <2>1. CASE PlayCopy
      <3>1. idle_block # h
        BY <1>1, <2>1 DEF PlayCopy, PlayType, Halving
      <3>2. spu_buffer' = [spu_buffer EXCEPT ![idle_block] = render]
        BY <2>1 DEF PlayCopy
      <3>3. QED
        BY <3>1, <3>2, <1>1 DEF PcmType
    <2>2. CASE InitReachesThread
      BY <1>1, <2>2 DEF InitReachesThread, Request, Dormant, Phase
    <2>3. CASE RpcStart
      BY <1>1, <2>3 DEF RpcStart, Request, Refuse, pcmVars, Phase
    <2>4. CASE DmaComplete \/ DmaInterrupt \/ PlayWaitTransfer \/ PlayFill \/ PlayPickIdle
      BY <2>4 DEF DmaComplete, DmaInterrupt, PlayWaitTransfer, PlayFill, PlayPickIdle, pcmVars
    <2>5. CASE RpcStep
      BY <2>5 DEF RpcStep, SubmitLock, SubmitUnlockFull, SubmitWaitSpace, SubmitCopy,
         SubmitPublish, SubmitDone, StartLoop, StartDone, StopDma, FlushUnlock, pcmVars
    <2>6. CASE InitSemasFail \/ InitSpuFails \/ InitAgain
      BY <2>6 DEF InitSemasFail, InitSpuFails, InitAgain, Refuse, pcmVars
    <2>7. CASE RpcStop \/ RpcFlush \/ RpcStats
      BY <2>7 DEF RpcStop, RpcFlush, RpcStats, Refuse, pcmVars
    <2>8. CASE \E n \in 0..MaxFrames + 1 : RpcSubmit(n)
      BY <2>8 DEF RpcSubmit, Refuse, pcmVars
    <2>9. CASE \/ \E p \in BOOLEAN : SetPaused(p)
               \/ \E v \in Volumes : RpcSetVolume(v)
               \/ \E ms \in Latencies : RpcSetLatency(ms)
      BY <2>9 DEF SetPaused, RpcSetVolume, RpcSetLatency, Refuse, pcmVars
    <2>10. QED
      BY <1>1, <2>1, <2>2, <2>3, <2>4, <2>5, <2>6, <2>7, <2>8, <2>9
         DEF Next, PlayStep, RpcRequest, RpcInit
  <1>2. TypeOK /\ Control /\ [Next]_vars => [Untouched]_vars
    BY <1>1
  <1>3. QED
    BY <1>2, ControlInvariant, PTL DEF Spec, StreamedHalfUntouched
-----------------------------------------------------------------------------
(* A stream that is held.                                                  *)

\* ring_mutex is taken only inside a critical section; a handler that waits needs
\* an initialized service; without it nothing was queued; and while the DMA loop is
\* stopped, the play thread is waiting for it.
Rest == /\ ring_mutex = 0 => rpc_pc \in {"full", "copy", "publish", "flush"}
        /\ rpc_pc \notin {"idle", "flush"} => initialized
        /\ ~initialized => queued_frames = 0 /\ underruns = 0
        /\ ~running => play_pc = "absent" \/ (play_pc = "wait" /\ transfer_sema = 0)

\* Every step keeps a stopped stream at rest: RpcStop runs only while the play
\* thread is blocked, and not on the mutex, which no handler holds between requests.
LEMMA RestStep == ASSUME TypeOK, Control, Rest, Next PROVE Rest'
  <1> USE DEF Rest, Control, Dormant, Phase, Request, At, Reply, Refuse, RpcMayRun, PlayReady,
              InterruptDue, CanWait, AfterWait, AfterSignal, ringVars, counters, semas, playState,
              flagVars, levelVars, spuVars, dmaVars, playVars, rpcVars, submitVars
  <1>0. /\ ring_mutex \in {-1, 0, 1} /\ transfer_sema \in {-1, 0, 1}
        /\ initialized \in BOOLEAN /\ running \in BOOLEAN /\ started \in BOOLEAN
        /\ play_pc \in {"absent", "wait", "fill", "pick", "copy"}
    BY DEF TypeOK, SemaType, FlagType, SpuType, PlayType
  <1>1. ASSUME DmaComplete PROVE Rest'
    BY <1>0, <1>1 DEF DmaComplete
  <1>2. ASSUME DmaInterrupt PROVE Rest'
    BY <1>0, <1>2 DEF DmaInterrupt
  <1>3. ASSUME PlayWaitTransfer PROVE Rest'
    BY <1>0, <1>3 DEF PlayWaitTransfer, PlayMayRun
  <1>4. ASSUME PlayFill PROVE Rest'
    BY <1>0, <1>4 DEF PlayFill, PlayMayRun
  <1>5. ASSUME PlayPickIdle PROVE Rest'
    BY <1>0, <1>5 DEF PlayPickIdle, PlayMayRun
  <1>6. ASSUME PlayCopy PROVE Rest'
    BY <1>0, <1>6 DEF PlayCopy, PlayMayRun
  <1>7. ASSUME InitSemasFail PROVE Rest'
    BY <1>0, <1>7 DEF InitSemasFail
  <1>8. ASSUME InitSpuFails PROVE Rest'
    BY <1>0, <1>8 DEF InitSpuFails
  <1>9. ASSUME InitReachesThread PROVE Rest'
    BY <1>0, <1>9 DEF InitReachesThread
  <1>10. ASSUME InitAgain PROVE Rest'
    BY <1>0, <1>10 DEF InitAgain
  <1>11. ASSUME NEW n \in 0..MaxFrames + 1, RpcSubmit(n) PROVE Rest'
    BY <1>0, <1>11 DEF RpcSubmit
  <1>12. ASSUME SubmitLock PROVE Rest'
    BY <1>0, <1>12 DEF SubmitLock
  <1>13. ASSUME SubmitUnlockFull PROVE Rest'
    BY <1>0, <1>13 DEF SubmitUnlockFull
  <1>14. ASSUME SubmitWaitSpace PROVE Rest'
    BY <1>0, <1>14 DEF SubmitWaitSpace
  <1>15. ASSUME SubmitCopy PROVE Rest'
    BY <1>0, <1>15 DEF SubmitCopy
  <1>16. ASSUME SubmitPublish PROVE Rest'
    BY <1>0, <1>16 DEF SubmitPublish
  <1>17. ASSUME SubmitDone PROVE Rest'
    BY <1>0, <1>17 DEF SubmitDone
  <1>18. ASSUME RpcStart PROVE Rest'
    BY <1>0, <1>18 DEF RpcStart
  <1>19. ASSUME StartLoop PROVE Rest'
    BY <1>0, <1>19 DEF StartLoop
  <1>20. ASSUME StartDone PROVE Rest'
    BY <1>0, <1>20 DEF StartDone
  <1>21. ASSUME NEW p \in BOOLEAN, SetPaused(p) PROVE Rest'
    BY <1>0, <1>21 DEF SetPaused
  <1>22. ASSUME RpcStop PROVE Rest'
    <2>1. CASE running' = running
      <3>1. CASE initialized /\ started /\ rpc_pc' = "stop"
        BY <1>0, <1>22, <2>1, <3>1 DEF RpcStop
      <3>2. CASE rpc_pc' = "idle" /\ UNCHANGED <<ringVars, counters, semas, initialized, playVars>>
        BY <1>0, <1>22, <2>1, <3>2 DEF RpcStop
      <3> QED BY <1>22, <3>1, <3>2 DEF RpcStop
    <2>2. CASE running' # running
      <3>1. /\ ring_mutex # 0 /\ ~PlayReady
            /\ UNCHANGED <<play_pc, transfer_sema, ring_mutex, initialized, queued_frames, underruns>>
        BY <1>0, <1>22, <2>2 DEF RpcStop
      <3>2. play_pc = "absent" \/ (play_pc = "wait" /\ transfer_sema = 0)
        BY <1>0, <3>1
      <3>3. initialized /\ rpc_pc' = "stop"
        BY <1>0, <1>22, <2>2 DEF RpcStop
      <3> QED BY <3>1, <3>2, <3>3
    <2> QED BY <2>1, <2>2
  <1>23. ASSUME StopDma PROVE Rest'
    BY <1>0, <1>23 DEF StopDma
  <1>24. ASSUME RpcFlush PROVE Rest'
    BY <1>0, <1>24 DEF RpcFlush
  <1>25. ASSUME FlushUnlock PROVE Rest'
    BY <1>0, <1>25 DEF FlushUnlock
  <1>26. ASSUME NEW v \in Volumes, RpcSetVolume(v) PROVE Rest'
    BY <1>0, <1>26 DEF RpcSetVolume
  <1>27. ASSUME NEW ms \in Latencies, RpcSetLatency(ms) PROVE Rest'
    BY <1>0, <1>27 DEF RpcSetLatency
  <1>28. ASSUME RpcStats PROVE Rest'
    BY <1>0, <1>28 DEF RpcStats
  <1> QED BY <1>1, <1>2, <1>3, <1>4, <1>5, <1>6, <1>7, <1>8, <1>9, <1>10, <1>11, <1>12, <1>13,
             <1>14, <1>15, <1>16, <1>17, <1>18, <1>19, <1>20, <1>21, <1>22, <1>23, <1>24,
             <1>25, <1>26, <1>27, <1>28 DEF Next, PlayStep, RpcRequest, RpcStep, RpcInit

\* Rest is invariant, with the types and the control of playback.
LEMMA RestInvariant == Spec => [](TypeOK /\ RingConsistent /\ Control /\ Rest)
  <1>1. Init => Rest
    BY DEF Init, Rest
  <1>2. TypeOK /\ Control /\ Rest /\ [Next]_vars => Rest'
    <2>1. Rest /\ UNCHANGED vars => Rest'
      BY DEF Rest, vars, ringVars, counters, semas, playState, flagVars, spuVars, dmaVars,
             playVars, rpcVars
    <2>2. QED
      BY <2>1, RestStep
  <1>3. QED
    BY <1>1, <1>2, ControlInvariant, RingSafe, PTL DEF Spec

\* The queue is kept by a step that adds to it and leaves its slots alone.
LEMMA QueueGrows ==
  ASSUME queued_frames \in Nat, queued_frames' \in Nat, queued_frames' >= queued_frames,
         read_frame' = read_frame,
         \A k \in 0 .. queued_frames - 1 : ring'[Slot(read_frame, k)] = ring[Slot(read_frame, k)]
  PROVE  QueueKept
  <1>1. ASSUME NEW i \in 1..queued_frames PROVE QueueSeq'[i] = QueueSeq[i]
    <2>1. i - 1 \in 0 .. queued_frames - 1 /\ i \in 1..queued_frames'
      OBVIOUS
    <2>2. ring'[Slot(read_frame, i - 1)] = ring[Slot(read_frame, i - 1)]
      BY <2>1
    <2>3. QueueSeq[i] = ring[Slot(read_frame, i - 1)]
      BY DEF QueueSeq
    <2>4. Slot(read_frame', i - 1) = Slot(read_frame, i - 1)
      OBVIOUS
    <2>5. QueueSeq'[i] = ring'[Slot(read_frame', i - 1)]
      BY <2>1 DEF QueueSeq, Slot
    <2> QED BY <2>2, <2>3, <2>4, <2>5
  <1> QED BY <1>1 DEF QueueKept

\* Nor by one that leaves the ring alone.
LEMMA QueueSame == ASSUME TypeOK, UNCHANGED ringVars PROVE QueueKept
  BY QueueGrows DEF TypeOK, RingType, ringVars

\* A queued slot lies behind the write index, further than a copy reaches.
LEMMA QueuedApart ==
  ASSUME NEW first \in Slots, NEW q \in Nat, NEW c \in Nat, q + c <= RingFrames,
         NEW k \in 0 .. q - 1
  PROVE  (Slot(first, k) - Slot(first, q)) % RingFrames >= c
  <1> USE AudioAssumption DEF Slots
  <1>1. ASSUME NEW x \in Nat, x < RingFrames PROVE x % RingFrames = x
    BY <1>1, SMT
  <1>2. ASSUME NEW x \in Nat, RingFrames <= x, x < 2 * RingFrames
        PROVE  x % RingFrames = x - RingFrames
    BY <1>2, SMT
  <1>3. ASSUME NEW x \in Int, -RingFrames <= x, x < 0
        PROVE  x % RingFrames = x + RingFrames
    BY <1>3, SMT
  <1>4. k \in Nat /\ k < q /\ q <= RingFrames
    OBVIOUS
  <1>5. CASE first + q < RingFrames
    <2>1. Slot(first, k) = first + k /\ Slot(first, q) = first + q
      BY <1>1, <1>4, <1>5 DEF Slot
    <2>2. (Slot(first, k) - Slot(first, q)) % RingFrames = k - q + RingFrames
      BY <1>3, <1>4, <2>1
    <2> QED BY <1>4, <2>2
  <1>6. CASE first + q >= RingFrames /\ first + k < RingFrames
    <2>1. Slot(first, k) = first + k /\ Slot(first, q) = first + q - RingFrames
      BY <1>1, <1>2, <1>4, <1>6 DEF Slot
    <2>2. CASE k - q + RingFrames < RingFrames
      <3>1. (Slot(first, k) - Slot(first, q)) % RingFrames = k - q + RingFrames
        BY <1>1, <1>4, <2>1, <2>2
      <3> QED BY <1>4, <3>1
    <2> QED BY <1>4, <2>2
  <1>7. CASE first + k >= RingFrames
    <2>1. Slot(first, k) = first + k - RingFrames /\ Slot(first, q) = first + q - RingFrames
      BY <1>2, <1>4, <1>7 DEF Slot
    <2>2. (Slot(first, k) - Slot(first, q)) % RingFrames = k - q + RingFrames
      BY <1>3, <1>4, <2>1
    <2> QED BY <1>4, <2>2
  <1> QED BY <1>5, <1>6, <1>7

\* The copy loop of audio_submit writes free slots only.
LEMMA CopyKeepsQueue == ASSUME TypeOK, RingConsistent, SubmitCopy PROVE QueueKept
  <1>1. /\ queued_frames \in Nat /\ count \in Nat /\ read_frame \in Slots
        /\ queue_limit \in Nat /\ queue_limit <= RingFrames /\ ring \in [Slots -> Pcm]
    BY AudioAssumption DEF TypeOK, RingType, RpcType, LevelType
  <1>2. queued_frames + count <= RingFrames /\ write_frame = Slot(read_frame, queued_frames)
    BY <1>1, AudioAssumption DEF RingConsistent, SubmitCopy, At
  <1>3. /\ ring' = [s \in Slots |-> IF Offset(s) < count THEN Sample(Offset(s)) ELSE ring[s]]
        /\ read_frame' = read_frame /\ queued_frames' = queued_frames
    BY DEF SubmitCopy
  <1>4. ASSUME NEW k \in 0 .. queued_frames - 1
        PROVE  ring'[Slot(read_frame, k)] = ring[Slot(read_frame, k)]
    <2>1. Slot(read_frame, k) \in Slots
      BY <1>1, SlotsType
    <2>2. Offset(Slot(read_frame, k)) >= count
      <3>1. (Slot(read_frame, k) - Slot(read_frame, queued_frames)) % RingFrames >= count
        BY <1>1, <1>2, QueuedApart
      <3> QED BY <1>2, <3>1 DEF Offset
    <2>3. Offset(Slot(read_frame, k)) \in Int
      <3>1. write_frame \in Slots
        BY <1>1, <1>2, SlotsType
      <3>2. Slot(read_frame, k) - write_frame \in Int
        BY <2>1, <3>1 DEF Slots
      <3> QED BY <3>2, SlotType DEF Offset, Slots
    <2>4. ~(Offset(Slot(read_frame, k)) < count)
      BY <1>1, <2>2, <2>3
    <2> QED BY <1>3, <2>1, <2>4
  <1> QED BY <1>1, <1>3, <1>4, QueueGrows

\* STOP and PAUSE preserve the queue for every ring and block size: while the stream
\* is paused, or the DMA loop is stopped, no step of the play thread or of a handler
\* but audio_flush takes a frame out or overwrites it, and no underrun is counted.
THEOREM HeldQueueSafe == Spec => HeldQueueKept
  <1> DEFINE Kept == paused \/ ~running => /\ QueueKept \/ RpcFlush
                                           /\ underruns' = underruns
  <1>1. ASSUME TypeOK, RingConsistent, Control, Rest, Next, paused \/ ~running
        PROVE  (QueueKept \/ RpcFlush) /\ underruns' = underruns
    <2>0. queued_frames \in Nat /\ read_frame \in Slots /\ paused \in BOOLEAN /\ running \in BOOLEAN
      BY <1>1 DEF TypeOK, RingType, FlagType, SpuType
    <2>1. CASE PlayFill
      <3>1. paused
        BY <1>1, <2>1 DEF PlayFill, Rest
      <3>2. Take = 0 /\ underruns' = underruns
        BY <2>1, <3>1 DEF PlayFill, Take
      <3>3. UNCHANGED ringVars
        BY <2>0, <2>1, <3>2, SlotZero DEF PlayFill, ringVars
      <3> QED BY <1>1, <3>2, <3>3, QueueSame
    <2>2. CASE SubmitCopy
      BY <1>1, <2>2, CopyKeepsQueue DEF SubmitCopy, counters
    <2>3. CASE SubmitPublish
      <3>1. count \in Nat /\ queued_frames' = queued_frames + count /\ read_frame' = read_frame
            /\ ring' = ring
        BY <1>1, <2>3 DEF SubmitPublish, TypeOK, RpcType
      <3>2. queued_frames' \in Nat /\ queued_frames' >= queued_frames
        BY <2>0, <3>1
      <3>3. QueueKept
        BY <2>0, <3>1, <3>2, QueueGrows
      <3> QED BY <2>3, <3>3 DEF SubmitPublish, counters
    <2>4. CASE InitReachesThread
      <3>1. queued_frames = 0 /\ underruns = 0
        BY <1>1, <2>4 DEF InitReachesThread, Rest
      <3>2. read_frame' = 0 /\ queued_frames' = 0 /\ underruns' = 0
        BY <2>4 DEF InitReachesThread
      <3>3. QueueKept
        BY <3>1, <3>2 DEF QueueKept
      <3> QED BY <3>1, <3>2, <3>3
    <2>5. CASE RpcFlush
      BY <2>5 DEF RpcFlush, counters
    <2>6. CASE UNCHANGED ringVars /\ underruns' = underruns
      BY <1>1, <2>6, QueueSame
    <2>7. CASE DmaComplete \/ DmaInterrupt \/ PlayWaitTransfer \/ PlayPickIdle \/ PlayCopy
      BY <2>6, <2>7 DEF DmaComplete, DmaInterrupt, PlayWaitTransfer, PlayPickIdle, PlayCopy, counters
    <2>8. CASE InitSemasFail \/ InitSpuFails \/ InitAgain \/ RpcStart \/ RpcStop \/ RpcStats
      BY <2>6, <2>8 DEF InitSemasFail, InitSpuFails, InitAgain, RpcStart, RpcStop, RpcStats, Refuse,
                        counters
    <2>9. CASE SubmitLock \/ SubmitUnlockFull \/ SubmitWaitSpace \/ SubmitDone
      BY <2>6, <2>9 DEF SubmitLock, SubmitUnlockFull, SubmitWaitSpace, SubmitDone, counters
    <2>10. CASE StartLoop \/ StartDone \/ StopDma \/ FlushUnlock
      BY <2>6, <2>10 DEF StartLoop, StartDone, StopDma, FlushUnlock, counters
    <2>11. CASE \E n \in 0..MaxFrames + 1 : RpcSubmit(n)
      BY <2>6, <2>11 DEF RpcSubmit, Refuse, counters
    <2>12. CASE \/ \E p \in BOOLEAN : SetPaused(p)
                \/ \E v \in Volumes : RpcSetVolume(v)
                \/ \E ms \in Latencies : RpcSetLatency(ms)
      BY <2>6, <2>12 DEF SetPaused, RpcSetVolume, RpcSetLatency, Refuse, counters
    <2> QED
      BY <1>1, <2>1, <2>2, <2>3, <2>4, <2>5, <2>7, <2>8, <2>9, <2>10, <2>11, <2>12
         DEF Next, PlayStep, RpcRequest, RpcStep, RpcInit
  <1>2. TypeOK /\ RingConsistent /\ Control /\ Rest /\ [Next]_vars => [Kept]_vars
    BY <1>1
  <1>3. QED
    BY <1>2, RestInvariant, PTL DEF Spec, HeldQueueKept
-----------------------------------------------------------------------------
(* The refinement of AudioStream.                                          *)

\* What a submission has still to hand over: nothing outside audio_submit; and the
\* frames copied and not yet published are the next ones of the submission.
Handed == /\ rpc_pc \notin {"submit", "full", "wait_space", "copy", "publish"}
               => samples = <<>> /\ source_frame = 0
          /\ rpc_pc = "publish" =>
               \A j \in 0 .. count - 1 : ring[Slot(write_frame, j)] = Sample(j)

\* The distance of the j-th slot after the write index from that index is j.
LEMMA OffsetOfSlot ==
  ASSUME NEW first \in Slots, NEW j \in Nat, j < RingFrames
  PROVE  (Slot(first, j) - first) % RingFrames = j
  <1> USE AudioAssumption DEF Slots
  <1>1. ASSUME NEW x \in Nat, x < RingFrames PROVE x % RingFrames = x
    BY <1>1, SMT
  <1>2. ASSUME NEW x \in Nat, RingFrames <= x, x < 2 * RingFrames
        PROVE  x % RingFrames = x - RingFrames
    BY <1>2, SMT
  <1>3. ASSUME NEW x \in Int, -RingFrames <= x, x < 0
        PROVE  x % RingFrames = x + RingFrames
    BY <1>3, SMT
  <1>4. CASE first + j < RingFrames
    <2>1. Slot(first, j) - first = j
      BY <1>1, <1>4 DEF Slot
    <2> QED BY <1>1, <2>1
  <1>5. CASE first + j >= RingFrames
    <2>1. Slot(first, j) - first = j - RingFrames
      BY <1>2, <1>5 DEF Slot
    <2> QED BY <1>3, <2>1
  <1> QED BY <1>4, <1>5

\* The copy loop copies the samples in order.
LEMMA CopyHands == ASSUME TypeOK, RingConsistent, SubmitCopy PROVE Handed'
  <1>1. /\ count \in Nat /\ count <= RingFrames /\ write_frame \in Slots
    BY AudioAssumption DEF TypeOK, RingType, RpcType, LevelType, RingConsistent, SubmitCopy, At
  <1>2. /\ ring' = [s \in Slots |-> IF Offset(s) < count THEN Sample(Offset(s)) ELSE ring[s]]
        /\ write_frame' = write_frame /\ UNCHANGED <<samples, source_frame, count>>
        /\ rpc_pc' = "publish"
    BY DEF SubmitCopy, submitVars
  <1>3. ASSUME NEW j \in 0 .. count - 1
        PROVE  ring'[Slot(write_frame, j)] = Sample(j)
    <2>1. j \in Nat /\ j < count /\ j < RingFrames
      BY <1>1, AudioAssumption
    <2>2. Slot(write_frame, j) \in Slots /\ Offset(Slot(write_frame, j)) = j
      BY <1>1, <2>1, SlotsType, OffsetOfSlot DEF Offset
    <2> QED BY <1>2, <2>1, <2>2
  <1>4. \A j : Sample(j)' = Sample(j) /\ Slot(write_frame, j)' = Slot(write_frame, j)
    BY <1>2 DEF Sample, Slot
  <1> QED BY <1>2, <1>3, <1>4 DEF Handed

\* Handed holds on as long as what it speaks of stays.
LEMMA HandedKept ==
  ASSUME Handed, UNCHANGED <<ring, write_frame, samples, source_frame>>,
         \/ UNCHANGED <<rpc_pc, count>>
         \/ /\ rpc_pc' # "publish"
            /\ \/ rpc_pc \notin {"submit", "full", "wait_space", "copy", "publish"}
               \/ rpc_pc' \in {"submit", "full", "wait_space", "copy", "publish"}
  PROVE  Handed'
  <1>1. CASE UNCHANGED <<rpc_pc, count>>
    <2>1. \A j : Sample(j)' = Sample(j) /\ Slot(write_frame, j)' = Slot(write_frame, j)
      BY DEF Sample, Slot
    <2> QED BY <1>1, <2>1 DEF Handed
  <1>2. CASE ~ UNCHANGED <<rpc_pc, count>>
    BY <1>2 DEF Handed
  <1> QED BY <1>1, <1>2

\* Every step keeps the submission as far as Handed says.
LEMMA HandedStep == ASSUME TypeOK, RingConsistent, Handed, Next PROVE Handed'
  <1> USE DEF Request, At, Reply, Refuse, ringVars, rpcVars, submitVars
  <1>1. CASE DmaComplete \/ DmaInterrupt \/ PlayStep
    <2>1. UNCHANGED <<ring, write_frame, rpcVars>>
      BY <1>1 DEF DmaComplete, DmaInterrupt, PlayStep, PlayWaitTransfer, PlayFill, PlayPickIdle,
                  PlayCopy
    <2> QED BY <2>1, HandedKept
  <1>2. CASE InitSemasFail \/ InitSpuFails \/ InitAgain \/ RpcStart \/ RpcStop \/ RpcStats
    BY <1>2, HandedKept DEF InitSemasFail, InitSpuFails, InitAgain, RpcStart, RpcStop, RpcStats
  <1>3. CASE SubmitLock \/ SubmitUnlockFull \/ SubmitWaitSpace
    BY <1>3, HandedKept DEF SubmitLock, SubmitUnlockFull, SubmitWaitSpace
  <1>4. CASE SubmitCopy
    BY <1>4, CopyHands
  <1>5. CASE SubmitPublish
    BY <1>5 DEF SubmitPublish, Handed
  <1>6. CASE SubmitDone
    BY <1>6 DEF SubmitDone, Handed
  <1>7. CASE StartLoop \/ StartDone \/ StopDma \/ FlushUnlock
    BY <1>7, HandedKept DEF StartLoop, StartDone, StopDma, FlushUnlock
  <1>8. CASE RpcFlush \/ InitReachesThread
    BY <1>8 DEF RpcFlush, InitReachesThread, Handed
  <1>9. ASSUME NEW n \in 0..MaxFrames + 1, RpcSubmit(n) PROVE Handed'
    <2>1. CASE rpc_pc' = "submit"
      BY <2>1 DEF Handed
    <2>2. CASE rpc_pc' # "submit"
      BY <1>9, <2>2, HandedKept DEF RpcSubmit
    <2> QED BY <2>1, <2>2
  <1>10. CASE \/ \E p \in BOOLEAN : SetPaused(p)
              \/ \E v \in Volumes : RpcSetVolume(v)
              \/ \E ms \in Latencies : RpcSetLatency(ms)
    BY <1>10, HandedKept DEF SetPaused, RpcSetVolume, RpcSetLatency
  <1> QED BY <1>1, <1>2, <1>3, <1>4, <1>5, <1>6, <1>7, <1>8, <1>9, <1>10
             DEF Next, RpcRequest, RpcStep, RpcInit

\* Handed is invariant.
LEMMA HandedInvariant == Spec => [](TypeOK /\ RingConsistent /\ Control /\ Rest /\ Handed)
  <1>1. Init => Handed
    BY DEF Init, Handed
  <1>2. TypeOK /\ RingConsistent /\ Handed /\ [Next]_vars => Handed'
    <2>1. Handed /\ UNCHANGED vars => Handed'
      BY HandedKept DEF vars, ringVars, rpcVars, submitVars
    <2> QED BY <2>1, HandedStep
  <1> QED BY <1>1, <1>2, RestInvariant, PTL DEF Spec

\* The submission in progress, as the stream sees it.
Pending == SubSeq(samples, source_frame + 1, Len(samples))

\* The q frames of a ring from a slot on.
Window(r, first, q) == [i \in 1..q |-> r[Slot(first, i - 1)]]

\* They are a sequence of frames.
LEMMA WindowType ==
  ASSUME NEW r \in [Slots -> Pcm], NEW first \in Slots, NEW q \in Nat
  PROVE  /\ Window(r, first, q) \in Seq(Pcm) /\ Len(Window(r, first, q)) = q
         /\ \A i \in 1..q : Window(r, first, q)[i] = r[Slot(first, i - 1)]
  <1>1. ASSUME NEW i \in 1..q PROVE r[Slot(first, i - 1)] \in Pcm
    <2>1. i - 1 \in Nat
      OBVIOUS
    <2> QED BY <2>1, SlotsType
  <1>2. Window(r, first, q) \in [1..q -> Pcm]
    BY <1>1 DEF Window
  <1>3. Window(r, first, q) \in Seq(Pcm) /\ DOMAIN Window(r, first, q) = 1..q
    BY <1>2
  <1>4. Len(Window(r, first, q)) = q
    BY <1>3
  <1> QED BY <1>3, <1>4 DEF Window

\* Without its first k frames, the window starts k slots later.
LEMMA WindowDrops ==
  ASSUME NEW r \in [Slots -> Pcm], NEW first \in Slots, NEW q \in Nat, q <= RingFrames,
         NEW k \in Nat, k <= q
  PROVE  SubSeq(Window(r, first, q), k + 1, q) = Window(r, Slot(first, k), q - k)
  <1>1. PICK w : w = Window(r, first, q)
    OBVIOUS
  <1>2. w \in Seq(Pcm) /\ Len(w) = q /\ \A i \in 1..q : w[i] = r[Slot(first, i - 1)]
    BY <1>1, WindowType
  <1>3. q - k \in Nat /\ Slot(first, k) \in Slots
    BY SlotsType
  <1>4. PICK v : v = Window(r, Slot(first, k), q - k)
    OBVIOUS
  <1>5. /\ v \in Seq(Pcm) /\ Len(v) = q - k
        /\ \A i \in 1..q - k : v[i] = r[Slot(Slot(first, k), i - 1)]
    BY <1>3, <1>4, WindowType
  <1>6. /\ SubSeq(w, k + 1, q) \in Seq(Pcm)
        /\ Len(SubSeq(w, k + 1, q)) = IF k + 1 <= q THEN q - (k + 1) + 1 ELSE 0
        /\ \A i \in 1..q - (k + 1) + 1 : SubSeq(w, k + 1, q)[i] = w[k + 1 + i - 1]
    <2>1. \A i \in k + 1..q : w[i] \in Pcm
      BY <1>2
    <2>2. k + 1 \in Int /\ q \in Int
      OBVIOUS
    <2> QED BY <2>1, <2>2, SubSeqProperties
  <1>7. Len(SubSeq(w, k + 1, q)) = q - k
    BY <1>6
  <1>8. ASSUME NEW i \in 1..q - k PROVE SubSeq(w, k + 1, q)[i] = v[i]
    <2>1. /\ i - 1 \in Nat /\ k + (i - 1) <= RingFrames /\ i \in 1..q - (k + 1) + 1
          /\ k + 1 + i - 1 = k + i /\ k + i \in 1..q /\ k + i - 1 = k + (i - 1)
      BY AudioAssumption
    <2>2. SubSeq(w, k + 1, q)[i] = r[Slot(first, k + (i - 1))]
      BY <1>2, <1>6, <2>1
    <2>3. Slot(Slot(first, k), i - 1) = Slot(first, k + (i - 1))
      BY <2>1, SlotSum
    <2> QED BY <1>5, <2>2, <2>3
  <1>9. SubSeq(w, k + 1, q) = v
    BY <1>5, <1>6, <1>7, <1>8, SeqEqual
  <1> QED BY <1>1, <1>4, <1>9

\* With n frames in the slots after it, the window is n frames longer.
LEMMA WindowGrows ==
  ASSUME NEW r \in [Slots -> Pcm], NEW first \in Slots, NEW q \in Nat, NEW n \in Nat,
         q + n <= RingFrames, NEW t \in Seq(Pcm), Len(t) = n,
         \A j \in 1..n : t[j] = r[Slot(Slot(first, q), j - 1)]
  PROVE  Window(r, first, q + n) = Window(r, first, q) \o t
  <1>1. PICK w : w = Window(r, first, q)
    OBVIOUS
  <1>2. w \in Seq(Pcm) /\ Len(w) = q /\ \A i \in 1..q : w[i] = r[Slot(first, i - 1)]
    BY <1>1, WindowType
  <1>3. PICK v : v = Window(r, first, q + n)
    OBVIOUS
  <1>4. v \in Seq(Pcm) /\ Len(v) = q + n /\ \A i \in 1..q + n : v[i] = r[Slot(first, i - 1)]
    <2>1. q + n \in Nat
      OBVIOUS
    <2> QED BY <1>3, <2>1, WindowType
  <1>5. /\ w \o t \in Seq(Pcm) /\ Len(w \o t) = q + n
        /\ \A i \in 1..q + n : (w \o t)[i] = IF i <= q THEN w[i] ELSE t[i - q]
    <2>1. w \in Seq(Pcm) /\ t \in Seq(Pcm)
      BY <1>2
    <2>2. /\ w \o t \in Seq(Pcm) /\ Len(w \o t) = Len(w) + Len(t)
          /\ \A i \in 1 .. Len(w) + Len(t) : (w \o t)[i] = IF i <= Len(w) THEN w[i] ELSE t[i - Len(w)]
      BY ONLY <2>1, ConcatProperties
    <2> QED BY <1>2, <2>2
  <1>6. ASSUME NEW i \in 1..q + n PROVE v[i] = (w \o t)[i]
    <2>1. CASE i <= q
      <3>1. i \in 1..q
        BY <2>1
      <3> QED BY <1>2, <1>4, <1>5, <2>1, <3>1
    <2>2. CASE ~(i <= q)
      <3>1. /\ i - q \in 1..n /\ i - q - 1 \in Nat /\ q + (i - q - 1) = i - 1
            /\ q + (i - q - 1) <= RingFrames
        BY <2>2, AudioAssumption
      <3>2. Slot(Slot(first, q), i - q - 1) = Slot(first, i - 1)
        BY <3>1, SlotSum
      <3>3. t[i - q] = r[Slot(first, i - 1)]
        BY <3>1, <3>2
      <3>4. (w \o t)[i] = t[i - q]
        BY <1>5, <2>2
      <3> QED BY <1>4, <3>3, <3>4
    <2> QED BY <2>1, <2>2
  <1>7. v = w \o t
    BY <1>4, <1>5, <1>6, SeqEqual
  <1> QED BY <1>1, <1>3, <1>7

\* The queue is the window of the ring behind the read index.
LEMMA QueueIsWindow == /\ QueueSeq = Window(ring, read_frame, queued_frames)
                       /\ QueueSeq' = Window(ring', read_frame', queued_frames')
  <1>1. QueueSeq = Window(ring, read_frame, queued_frames)
    BY DEF QueueSeq, Window
  <1>2. QueueSeq' = Window(ring', read_frame', queued_frames')
    BY DEF QueueSeq, Window
  <1> QED BY <1>1, <1>2

\* The rest of a submission, element by element.
LEMMA RestOfSubmission ==
  ASSUME NEW s \in Seq(Frames), NEW k \in Nat, k <= Len(s)
  PROVE  /\ SubSeq(s, k + 1, Len(s)) \in Seq(Frames)
         /\ Len(SubSeq(s, k + 1, Len(s))) = Len(s) - k
         /\ \A i \in 1..Len(s) - k : SubSeq(s, k + 1, Len(s))[i] = s[k + i]
  <1>1. Len(s) \in Nat /\ k + 1 \in Int /\ \A i \in k + 1..Len(s) : s[i] \in Frames
    OBVIOUS
  <1>2. /\ SubSeq(s, k + 1, Len(s)) \in Seq(Frames)
        /\ Len(SubSeq(s, k + 1, Len(s))) = IF k + 1 <= Len(s) THEN Len(s) - (k + 1) + 1 ELSE 0
        /\ \A i \in 1..Len(s) - (k + 1) + 1 : SubSeq(s, k + 1, Len(s))[i] = s[k + 1 + i - 1]
    BY ONLY <1>1, SubSeqProperties
  <1>3. /\ Len(s) - (k + 1) + 1 = Len(s) - k
        /\ (IF k + 1 <= Len(s) THEN Len(s) - (k + 1) + 1 ELSE 0) = Len(s) - k
    BY <1>1
  <1>4. ASSUME NEW i \in 1..Len(s) - k PROVE SubSeq(s, k + 1, Len(s))[i] = s[k + i]
    <2>1. k + 1 + i - 1 = k + i
      BY <1>1
    <2>2. i \in 1..Len(s) - (k + 1) + 1
      BY <1>3
    <2> QED BY <1>2, <2>1, <2>2
  <1> QED BY <1>2, <1>3, <1>4

\* Where the ring, the submission and the rendered block stay, the stream does.
LEMMA StreamSame ==
  ASSUME UNCHANGED <<ringVars, samples, source_frame, render>>
  PROVE  UNCHANGED Stream!streamVars
  <1>1. QueueSeq' = QueueSeq
    BY QueueIsWindow DEF ringVars
  <1>2. UNCHANGED SubSeq(samples, source_frame + 1, Len(samples))
    OBVIOUS
  <1> QED BY <1>1, <1>2 DEF Stream!streamVars

\* A refill renders the oldest frames, or silence while paused.
LEMMA FillRenders == ASSUME TypeOK, RingConsistent, PlayFill
                     PROVE  Stream!Render \/ Stream!RenderSilence
  <1>1. /\ Take \in Nat /\ Take <= queued_frames /\ Take <= BlockFrames
        /\ queued_frames \in Nat /\ read_frame \in Slots /\ queued_frames <= RingFrames
        /\ ring \in [Slots -> Pcm]
    BY TakeType DEF TypeOK, RingType, RingConsistent
  <1>2. /\ render' = [i \in 1..BlockFrames |->
                        IF i <= Take THEN ring[Slot(read_frame, i - 1)] ELSE Silence]
        /\ read_frame' = Slot(read_frame, Take) /\ queued_frames' = queued_frames - Take
        /\ UNCHANGED <<ring, samples, source_frame>>
    BY DEF PlayFill, rpcVars, submitVars
  <1>3. /\ Len(QueueSeq) = queued_frames
        /\ \A i \in 1..queued_frames : QueueSeq[i] = ring[Slot(read_frame, i - 1)]
    BY <1>1, QueueIsWindow, WindowType
  <1>4. render' = Stream!Padded(Take)
    <2>1. ASSUME NEW i \in 1..BlockFrames, i <= Take
          PROVE  ring[Slot(read_frame, i - 1)] = QueueSeq[i]
      <3>1. i \in 1..queued_frames
        BY <1>1, <2>1
      <3> QED BY <1>3, <3>1
    <2> QED BY <1>2, <2>1 DEF Stream!Padded
  <1>5. QueueSeq' = SubSeq(QueueSeq, Take + 1, Len(QueueSeq))
    <2>1. QueueSeq' = Window(ring, Slot(read_frame, Take), queued_frames - Take)
      BY <1>2, QueueIsWindow
    <2>2. SubSeq(Window(ring, read_frame, queued_frames), Take + 1, queued_frames)
            = Window(ring, Slot(read_frame, Take), queued_frames - Take)
      BY ONLY <1>1, WindowDrops
    <2> QED BY <1>3, <2>1, <2>2, QueueIsWindow
  <1>6. UNCHANGED SubSeq(samples, source_frame + 1, Len(samples))
    BY <1>2
  <1>7. CASE ~paused
    <2>1. Take = IF Len(QueueSeq) < BlockFrames THEN Len(QueueSeq) ELSE BlockFrames
      BY <1>1, <1>3, <1>7, AudioAssumption DEF Take
    <2> QED BY <1>4, <1>5, <1>6, <2>1 DEF Stream!Render
  <1>8. CASE paused
    <2>1. Take = 0
      BY <1>8 DEF Take
    <2>2. Window(ring, read_frame, queued_frames) = QueueSeq'
      BY <1>1, <1>2, <2>1, QueueIsWindow, SlotZero
    <2> QED BY <1>4, <1>6, <2>1, <2>2, QueueIsWindow DEF Stream!RenderSilence
  <1> QED BY <1>7, <1>8

\* Publishing accepts the frames that were copied.
LEMMA PublishAccepts ==
  ASSUME TypeOK, RingConsistent, Handed, SubmitPublish
  PROVE  \/ \E n \in 1..Len(Pending) : Stream!Accept(n)
         \/ UNCHANGED Stream!streamVars
  <1>1. /\ count \in Nat /\ source_frame \in Nat /\ Len(samples) \in Nat
        /\ queued_frames \in Nat /\ queued_frames + count <= RingFrames
        /\ source_frame + count <= Len(samples) /\ source_frame <= Len(samples)
        /\ ring \in [Slots -> Pcm] /\ read_frame \in Slots
        /\ write_frame = Slot(read_frame, queued_frames)
    BY AudioAssumption DEF TypeOK, RingType, RpcType, LevelType, RingConsistent, SubmitPublish, At
  <1>2. /\ queued_frames' = queued_frames + count /\ source_frame' = source_frame + count
        /\ UNCHANGED <<samples, ring, read_frame, render>>
    BY DEF SubmitPublish, pcmVars
  <1>3. \A j \in 0..count - 1 : ring[Slot(write_frame, j)] = Sample(j)
    BY DEF SubmitPublish, At, Handed
  <1>4. /\ Pending \in Seq(Frames) /\ Len(Pending) = Len(samples) - source_frame
        /\ \A i \in 1..Len(samples) - source_frame : Pending[i] = samples[source_frame + i]
    BY <1>1, RestOfSubmission DEF TypeOK, RpcType, Pending
  <1>5. Len(QueueSeq) = queued_frames
    BY <1>1, QueueIsWindow, WindowType
  <1>6. CASE count = 0
    <2>1. QueueSeq' = QueueSeq
      BY <1>1, <1>2, <1>6, QueueIsWindow
    <2>2. UNCHANGED SubSeq(samples, source_frame + 1, Len(samples))
      BY <1>1, <1>2, <1>6
    <2> QED BY <1>2, <2>1, <2>2 DEF Stream!streamVars
  <1>7. CASE count # 0
    <2>1. PICK t : t = SubSeq(Pending, 1, count)
      OBVIOUS
    <2>2. /\ t \in Seq(Frames) /\ Len(t) = count
          /\ \A j \in 1..count : t[j] = Pending[j]
      <3>1. \A j \in 1..count : Pending[j] \in Frames
        BY <1>1, <1>4
      <3>2. /\ SubSeq(Pending, 1, count) \in Seq(Frames)
            /\ Len(SubSeq(Pending, 1, count)) = IF 1 <= count THEN count - 1 + 1 ELSE 0
            /\ \A j \in 1..count - 1 + 1 : SubSeq(Pending, 1, count)[j] = Pending[1 + j - 1]
        BY <1>1, <3>1, SubSeqProperties
      <3>3. count - 1 + 1 = count /\ \A j \in 1..count : 1 + j - 1 = j
        BY <1>1
      <3> QED BY <1>1, <1>7, <2>1, <3>2, <3>3
    <2>3. t \in Seq(Pcm)
      BY <2>2 DEF Pcm
    <2>4. ASSUME NEW j \in 1..count
          PROVE  t[j] = ring[Slot(Slot(read_frame, queued_frames), j - 1)]
      <3>1. /\ j - 1 \in 0..count - 1 /\ source_frame + 1 + (j - 1) = source_frame + j
            /\ j \in 1..Len(samples) - source_frame
        BY <1>1
      <3>2. ring[Slot(write_frame, j - 1)] = samples[source_frame + j]
        BY <1>3, <3>1 DEF Sample
      <3> QED BY <1>1, <1>4, <2>2, <3>1, <3>2
    <2>5. QueueSeq' = QueueSeq \o t
      <3>1. QueueSeq' = Window(ring, read_frame, queued_frames + count)
        BY <1>2, QueueIsWindow
      <3>2. Window(ring, read_frame, queued_frames + count) = Window(ring, read_frame, queued_frames) \o t
        <4>1. queued_frames + count <= RingFrames /\ t \in Seq(Pcm) /\ Len(t) = count
          BY <1>1, <2>2, <2>3
        <4> QED BY ONLY <1>1, <2>4, <4>1, WindowGrows
      <3> QED BY <3>1, <3>2, QueueIsWindow
    <2>6. SubSeq(samples', source_frame' + 1, Len(samples'))
            = SubSeq(Pending, count + 1, Len(Pending))
      <3>1. PICK a : a = SubSeq(samples', source_frame' + 1, Len(samples'))
        OBVIOUS
      <3>2. PICK b : b = SubSeq(Pending, count + 1, Len(Pending))
        OBVIOUS
      <3>3. /\ a \in Seq(Frames) /\ Len(a) = Len(samples) - (source_frame + count)
            /\ \A i \in 1..Len(samples) - (source_frame + count) : a[i] = samples[source_frame + count + i]
        <4>1. samples \in Seq(Frames) /\ source_frame + count \in Nat /\ source_frame + count <= Len(samples)
          BY <1>1 DEF TypeOK, RpcType
        <4>2. a = SubSeq(samples, source_frame + count + 1, Len(samples))
          BY <1>2, <3>1
        <4> QED BY ONLY <4>1, <4>2, RestOfSubmission
      <3>4. /\ b \in Seq(Frames) /\ Len(b) = Len(Pending) - count
            /\ \A i \in 1..Len(Pending) - count : b[i] = Pending[count + i]
        BY <1>1, <1>4, <3>2, RestOfSubmission
      <3>5. ASSUME NEW i \in 1..Len(samples) - (source_frame + count) PROVE a[i] = b[i]
        <4>1. /\ i \in 1..Len(Pending) - count /\ count + i \in 1..Len(samples) - source_frame
              /\ source_frame + (count + i) = source_frame + count + i
          BY <1>1, <1>4
        <4> QED BY <1>4, <3>3, <3>4, <4>1
      <3>6. Len(a) = Len(b) /\ Len(a) = Len(samples) - (source_frame + count)
        BY <1>1, <1>4, <3>3, <3>4
      <3>7. a = b
        BY <3>3, <3>4, <3>5, <3>6, SeqEqual
      <3> QED BY <3>1, <3>2, <3>7
    <2>7. count \in 1..Len(Pending) /\ Len(QueueSeq) + count <= RingFrames
      BY <1>1, <1>4, <1>5, <1>7
    <2>8. Stream!Accept(count)
      BY <1>2, <2>1, <2>5, <2>6, <2>7 DEF Stream!Accept, Pending
    <2> QED BY <2>7, <2>8
  <1> QED BY <1>6, <1>7

\* The copy loop does not change the queue.
LEMMA CopyStutters == ASSUME TypeOK, RingConsistent, SubmitCopy
                      PROVE  UNCHANGED Stream!streamVars
  <1>1. QueueKept
    BY CopyKeepsQueue
  <1>2. queued_frames' = queued_frames /\ UNCHANGED <<samples, source_frame, render>>
    BY DEF SubmitCopy, submitVars, pcmVars
  <1>3. QueueSeq' = QueueSeq
    <2>1. \A i \in 1..queued_frames : QueueSeq'[i] = QueueSeq[i]
      BY <1>1 DEF QueueKept
    <2>2. /\ QueueSeq = [i \in 1..queued_frames |-> QueueSeq[i]]
          /\ QueueSeq' = [i \in 1..queued_frames |-> QueueSeq'[i]]
      BY <1>2 DEF QueueSeq
    <2> QED BY <2>1, <2>2
  <1> QED BY <1>2, <1>3 DEF Stream!streamVars

\* A new submission is pending as a whole.
LEMMA SubmitPends == ASSUME TypeOK, Handed, NEW n \in 0..MaxFrames + 1, RpcSubmit(n)
                     PROVE  Stream!Submit \/ UNCHANGED Stream!streamVars
  <1>1. CASE UNCHANGED <<ringVars, pcmVars, submitVars>>
    BY <1>1, StreamSame DEF pcmVars, submitVars
  <1>2. CASE rpc_pc' = "submit"
    <2>1. /\ samples' = [i \in 1..n |-> (next_frame + i - 1) % FrameIds] /\ source_frame' = 0
          /\ UNCHANGED <<ringVars, pcmVars>> /\ rpc_pc = "idle"
      BY <1>2 DEF RpcSubmit, Refuse, Reply, Request
    <2>2. samples' \in Seq(Frames) /\ Len(samples') \in Nat
      <3>1. \A i \in 1..n : (next_frame + i - 1) % FrameIds \in Frames
        BY FrameType DEF TypeOK, AuxType, Frames
      <3>2. samples' \in [1..n -> Frames]
        BY <2>1, <3>1
      <3>3. n \in Nat
        BY AudioAssumption
      <3> QED BY <3>2, <3>3
    <2>3. SubSeq(samples', source_frame' + 1, Len(samples')) \in Seq(Frames)
      BY <2>1, <2>2, RestOfSubmission
    <2>4. SubSeq(samples, source_frame + 1, Len(samples)) = <<>>
      <3>1. samples = <<>> /\ source_frame = 0
        BY <2>1 DEF Handed
      <3>2. Len(samples) = 0
        BY <3>1
      <3> QED BY <3>1, <3>2, SubSeqEmpty
    <2>5. QueueSeq' = QueueSeq /\ render' = render
      BY <2>1, QueueIsWindow DEF ringVars, pcmVars
    <2> QED BY <2>3, <2>4, <2>5 DEF Stream!Submit
  <1> QED BY <1>1, <1>2 DEF RpcSubmit, Refuse

\* Every step of the service is a step of the stream.
LEMMA StreamStep ==
  ASSUME TypeOK, RingConsistent, Rest, Handed, Next
  PROVE  Stream!StreamNext \/ UNCHANGED Stream!streamVars
  <1> USE DEF pcmVars, submitVars, rpcVars, Refuse
  <1>1. CASE PlayFill
    BY <1>1, FillRenders DEF Stream!StreamNext
  <1>2. CASE SubmitPublish
    BY <1>2, PublishAccepts DEF Stream!StreamNext, Pending
  <1>3. CASE SubmitCopy
    BY <1>3, CopyStutters
  <1>4. ASSUME NEW n \in 0..MaxFrames + 1, RpcSubmit(n)
        PROVE  Stream!StreamNext \/ UNCHANGED Stream!streamVars
    BY <1>4, SubmitPends DEF Stream!StreamNext
  <1>5. CASE SubmitDone
    <2>1. /\ source_frame = Len(samples) /\ samples' = <<>> /\ source_frame' = 0
          /\ UNCHANGED <<ringVars, render>>
      BY <1>5 DEF SubmitDone, At
    <2>2. Len(samples) \in Nat /\ Len(<<>>) = 0
      BY DEF TypeOK, RpcType
    <2>3. /\ SubSeq(samples, source_frame + 1, Len(samples)) = <<>>
          /\ SubSeq(samples', source_frame' + 1, Len(samples')) = <<>>
      BY <2>1, <2>2, SubSeqEmpty
    <2>4. QueueSeq' = QueueSeq
      BY <2>1, QueueIsWindow DEF ringVars
    <2> QED BY <2>1, <2>3, <2>4 DEF Stream!streamVars
  <1>6. CASE RpcFlush
    <2>1. queued_frames' = 0 /\ UNCHANGED <<samples, source_frame, render>>
      BY <1>6 DEF RpcFlush
    <2>2. QueueSeq' = <<>>
      BY <2>1 DEF QueueSeq
    <2> QED BY <2>1, <2>2 DEF Stream!Discard, Stream!StreamNext
  <1>7. CASE InitReachesThread
    <2>1. /\ queued_frames = 0 /\ queued_frames' = 0 /\ render' = SilentBlock
          /\ UNCHANGED <<samples, source_frame>>
      BY <1>7 DEF InitReachesThread, Rest
    <2>2. QueueSeq = <<>> /\ QueueSeq' = <<>>
      BY <2>1 DEF QueueSeq
    <2>3. Stream!Padded(0) = SilentBlock
      BY AudioAssumption DEF Stream!Padded, SilentBlock
    <2> QED BY <2>1, <2>2, <2>3 DEF Stream!RenderSilence, Stream!StreamNext
  <1>8. CASE DmaComplete \/ DmaInterrupt \/ PlayWaitTransfer \/ PlayPickIdle \/ PlayCopy
    BY <1>8, StreamSame DEF DmaComplete, DmaInterrupt, PlayWaitTransfer, PlayPickIdle, PlayCopy
  <1>9. CASE InitSemasFail \/ InitSpuFails \/ InitAgain \/ RpcStart \/ RpcStop \/ RpcStats
    BY <1>9, StreamSame DEF InitSemasFail, InitSpuFails, InitAgain, RpcStart, RpcStop, RpcStats
  <1>10. CASE SubmitLock \/ SubmitUnlockFull \/ SubmitWaitSpace
    BY <1>10, StreamSame DEF SubmitLock, SubmitUnlockFull, SubmitWaitSpace
  <1>11. CASE StartLoop \/ StartDone \/ StopDma \/ FlushUnlock
    BY <1>11, StreamSame DEF StartLoop, StartDone, StopDma, FlushUnlock
  <1>12. CASE \/ \E p \in BOOLEAN : SetPaused(p)
              \/ \E v \in Volumes : RpcSetVolume(v)
              \/ \E ms \in Latencies : RpcSetLatency(ms)
    BY <1>12, StreamSame DEF SetPaused, RpcSetVolume, RpcSetLatency
  <1> QED BY <1>1, <1>2, <1>3, <1>4, <1>5, <1>6, <1>7, <1>8, <1>9, <1>10, <1>11, <1>12
             DEF Next, PlayStep, RpcRequest, RpcStep, RpcInit

\* The service is a bounded FIFO for every ring and block size: between audio_submit
\* and fill_render_block no frame is lost, repeated or reordered, whatever threads,
\* semaphores and latency changes do.
THEOREM ServiceIsStream == Spec => ImplementsStream
  <1>1. Init => Stream!StreamInit
    <2> SUFFICES ASSUME Init PROVE Stream!StreamInit
      OBVIOUS
    <2>1. samples = <<>> /\ source_frame = 0 /\ queued_frames = 0 /\ render = SilentBlock
      BY DEF Init
    <2>2. SubSeq(samples, source_frame + 1, Len(samples)) = <<>>
      <3>1. Len(samples) = 0
        BY <2>1
      <3> QED BY <2>1, <3>1, SubSeqEmpty
    <2>3. QueueSeq = <<>>
      BY <2>1 DEF QueueSeq
    <2> QED BY <2>1, <2>2, <2>3 DEF Stream!StreamInit, SilentBlock
  <1>2. /\ TypeOK /\ RingConsistent /\ Rest /\ Handed /\ [Next]_vars
        => [Stream!StreamNext]_(Stream!streamVars)
    <2>1. UNCHANGED vars => UNCHANGED Stream!streamVars
      BY StreamSame DEF vars, rpcVars, submitVars, pcmVars
    <2> QED BY <2>1, StreamStep
  <1> QED BY <1>1, <1>2, HandedInvariant, PTL DEF Spec, ImplementsStream, Stream!StreamSpec
-----------------------------------------------------------------------------
(* Refills in time.                                                        *)

\* While the loop runs, the half being streamed has been heard; the other one waits to
\* be heard if the play thread has refilled it, and if it has not, no interrupt is
\* pending that would stream it.
Heard == /\ initialized => play_pc # "absent"
         /\ rpc_pc = "start" => unheard = Halves
         /\ running => active_block \notin unheard
         /\ running /\ play_pc = "wait" /\ transfer_sema = 0 => 1 - active_block \in unheard
         /\ running /\ ~(play_pc = "wait" /\ transfer_sema = 0) =>
              /\ 1 - active_block \notin unheard
              /\ ~irq_pending
              /\ transfer_sema = IF play_pc = "wait" THEN 1 ELSE 0

\* The types Heard and its steps need.
LEMMA HeardTypes == ASSUME TypeOK
                    PROVE  /\ active_block \in {0, 1} /\ idle_block \in {0, 1}
                           /\ unheard \subseteq {0, 1} /\ transfer_sema \in {-1, 0, 1}
                           /\ initialized \in BOOLEAN /\ running \in BOOLEAN
                           /\ irq_pending \in BOOLEAN /\ dma_busy \in BOOLEAN
                           /\ play_pc \in {"absent", "wait", "fill", "pick", "copy"}
  BY DEF TypeOK, SemaType, FlagType, SpuType, PlayType, AuxType, Halves

\* Nothing is heard or refilled in a step that leaves these alone.
LEMMA HeardKept ==
  ASSUME Heard, rpc_pc' # "start" \/ rpc_pc' = rpc_pc,
         UNCHANGED <<initialized, play_pc, unheard, running, active_block, transfer_sema, irq_pending>>
  PROVE  Heard'
  BY DEF Heard

\* When refills are in time, every step keeps that.
LEMMA HeardStep == ASSUME RefillOnTime, TypeOK, Control, Rest, Heard, Next PROVE Heard'
  <1> USE HeardTypes
          DEF Request, At, Reply, Refuse, RpcMayRun, PlayMayRun, InterruptDue, ringVars, counters,
              semas, playState, flagVars, levelVars, spuVars, dmaVars, playVars, rpcVars, submitVars,
              auxVars
  <1>1. ASSUME DmaComplete PROVE Heard'
    BY <1>1 DEF DmaComplete, Heard, Halves
  <1>2. ASSUME DmaInterrupt PROVE Heard'
    BY <1>2 DEF DmaInterrupt, Heard, AfterSignal, Control, Dormant, Phase, Halves
  <1>3. ASSUME PlayWaitTransfer PROVE Heard'
    BY <1>3 DEF PlayWaitTransfer, CanWait, AfterWait, Heard, Rest, Halves
  <1>4. ASSUME PlayFill PROVE Heard'
    BY <1>4 DEF PlayFill, Heard, Rest
  <1>5. ASSUME PlayPickIdle PROVE Heard'
    BY <1>5 DEF PlayPickIdle, Heard, Rest
  <1>6. ASSUME PlayCopy PROVE Heard'
    <2>1. running /\ idle_block = 1 - active_block
      BY <1>6 DEF PlayCopy, Rest, Control, Halving
    <2>2. rpc_pc # "start"
      BY <2>1 DEF Control, Phase
    <2> QED BY <1>6, <2>1, <2>2 DEF PlayCopy, Heard
  <1>7. CASE InitSemasFail \/ InitSpuFails \/ InitReachesThread
    BY <1>7 DEF InitSemasFail, InitSpuFails, InitReachesThread, Heard, Control, Dormant
  <1>8. CASE RpcStart
    BY <1>8 DEF RpcStart, Heard, Control, Phase
  <1>9. CASE StartLoop
    BY <1>9 DEF StartLoop, Heard, Control, Phase, Rest, Halves, Dormant
  <1>10. CASE RpcStop
    <2>1. CASE running' = FALSE
      <3>1. UNCHANGED <<initialized, play_pc>> /\ rpc_pc' # "start"
        BY <1>10 DEF RpcStop
      <3> QED BY <2>1, <3>1 DEF Heard
    <2>2. CASE running' # FALSE
      BY <1>10, <2>2, HeardKept DEF RpcStop
    <2> QED BY <2>1, <2>2
  <1>11. CASE InitAgain \/ RpcFlush \/ RpcStats
    BY <1>11 DEF InitAgain, RpcFlush, RpcStats, Heard
  <1>12. CASE \E n \in 0..MaxFrames + 1 : RpcSubmit(n)
    BY <1>12 DEF RpcSubmit, Heard
  <1>13. CASE SubmitLock \/ SubmitUnlockFull \/ SubmitWaitSpace \/ SubmitCopy \/ SubmitPublish
              \/ SubmitDone
    BY <1>13 DEF SubmitLock, SubmitUnlockFull, SubmitWaitSpace, SubmitCopy, SubmitPublish,
                 SubmitDone, Heard
  <1>14. CASE StartDone \/ StopDma \/ FlushUnlock
    BY <1>14, HeardKept DEF StartDone, StopDma, FlushUnlock
  <1>15. CASE \/ \E p \in BOOLEAN : SetPaused(p)
              \/ \E v \in Volumes : RpcSetVolume(v)
              \/ \E ms \in Latencies : RpcSetLatency(ms)
    BY <1>15 DEF SetPaused, RpcSetVolume, RpcSetLatency, Heard
  <1> QED BY <1>1, <1>2, <1>3, <1>4, <1>5, <1>6, <1>7, <1>8, <1>9, <1>10, <1>11, <1>12, <1>13,
             <1>14, <1>15 DEF Next, PlayStep, RpcRequest, RpcStep, RpcInit

\* When a DMA block lasts longer than a refill takes, each rendered block is streamed
\* exactly once: copy_render_to_spu never overwrites one that was not heard, and the
\* interrupt never restarts the DMA on one that was.
THEOREM BlocksHeardOnce == ASSUME RefillOnTime PROVE Spec => EachBlockHeardOnce
  <1> DEFINE Once == /\ play_pc = "copy" /\ play_pc' = "wait" => idle_block \notin unheard
                     /\ dma_busy' /\ ~dma_busy => dma_block' \in unheard
  <1>1. Init => Heard
    BY DEF Init, Heard
  <1>2. RefillOnTime /\ TypeOK /\ Control /\ Rest /\ Heard /\ [Next]_vars => Heard'
    <2>1. Heard /\ UNCHANGED vars => Heard'
      BY DEF Heard, vars, ringVars, counters, semas, playState, flagVars, spuVars, dmaVars,
             playVars, rpcVars, auxVars
    <2> QED BY <2>1, HeardStep
  <1>3. ASSUME TypeOK, Control, Rest, Heard, Next PROVE Once
    <2>1. ASSUME play_pc = "copy", play_pc' = "wait" PROVE idle_block \notin unheard
      <3>1. running /\ idle_block = 1 - active_block
        BY <1>3, <2>1, HeardTypes DEF Rest, Control, Halving
      <3> QED BY <1>3, <2>1, <3>1 DEF Heard
    <2>2. ASSUME dma_busy', ~dma_busy PROVE dma_block' \in unheard
      <3>1. CASE DmaInterrupt
        BY <1>3, <2>2, <3>1, HeardTypes DEF DmaInterrupt, InterruptDue, Heard
      <3>2. CASE StartLoop
        BY <1>3, <3>2 DEF StartLoop, At, Heard, Halves
      <3>3. CASE UNCHANGED dma_busy
        BY <2>2, <3>3
      <3>4. CASE DmaComplete \/ PlayStep
        BY <2>2, <3>4 DEF DmaComplete, PlayStep, PlayWaitTransfer, PlayFill, PlayPickIdle, PlayCopy,
                          spuVars, dmaVars
      <3>5. CASE InitSemasFail \/ InitSpuFails \/ InitReachesThread \/ InitAgain \/ RpcStart \/ RpcStop
                 \/ RpcFlush \/ RpcStats
        BY <2>2, <3>5 DEF InitSemasFail, InitSpuFails, InitReachesThread, InitAgain, RpcStart,
                          RpcStop, RpcFlush, RpcStats, Refuse, spuVars, dmaVars
      <3>6. CASE RpcStep
        BY <2>2, <3>2, <3>6 DEF RpcStep, SubmitLock, SubmitUnlockFull, SubmitWaitSpace, SubmitCopy,
                  SubmitPublish, SubmitDone, StartDone, StopDma, FlushUnlock, spuVars, dmaVars
      <3>7. CASE \/ \E n \in 0..MaxFrames + 1 : RpcSubmit(n)
                 \/ \E p \in BOOLEAN : SetPaused(p)
                 \/ \E v \in Volumes : RpcSetVolume(v)
                 \/ \E ms \in Latencies : RpcSetLatency(ms)
        BY <2>2, <3>7 DEF RpcSubmit, SetPaused, RpcSetVolume, RpcSetLatency, Refuse, spuVars, dmaVars
      <3> QED BY <1>3, <3>1, <3>4, <3>5, <3>6, <3>7 DEF Next, RpcRequest, RpcInit
    <2> QED BY <2>1, <2>2
  <1>4. TypeOK /\ Control /\ Rest /\ Heard /\ [Next]_vars => [Once]_vars
    BY <1>3
  <1> QED BY <1>1, <1>2, <1>4, RestInvariant, PTL DEF Spec, EachBlockHeardOnce
=============================================================================
