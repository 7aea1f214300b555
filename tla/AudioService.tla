---------------------------- MODULE AudioService ----------------------------
(***************************************************************************)
(* ef2audio.irx: the IOP audio service (src/iop/audio/src/main.c) on its   *)
(* SPU2 backend (spu2_direct.c).                                           *)
(*                                                                         *)
(* Three actors share the state: the RPC thread (priority 40), which runs  *)
(* one request at a time; the play thread (priority 38), which refills     *)
(* the idle half of the SPU2 buffer; and the DMA with its completion       *)
(* interrupt.  The IOP kernel is preemptive with strict priorities: the    *)
(* interrupt runs as soon as it is pending and enabled, the play thread    *)
(* whenever it is not blocked, the RPC thread otherwise.  RpcMayRun and    *)
(* PlayMayRun say so, and are the reason why a step of the play thread     *)
(* that never blocks is one action, while the RPC thread is split wherever *)
(* the other two can come in between.                                      *)
(***************************************************************************)
EXTENDS Integers, Sequences

CONSTANTS RingFrames,    \* EF2AUDIO_RING_FRAMES
          BlockFrames,   \* EF2AUDIO_BLOCK_FRAMES
          MaxFrames,     \* EF2_AUDIO_RPC_MAX_FRAMES
          FrameIds,      \* frames are numbered modulo FrameIds
          Volumes,       \* volumes a client asks for, 0x3FFF among them
          FramesPerMs,   \* 48: frames of one millisecond at the output rate
          Latencies,     \* latencies, in milliseconds, a client asks for
          CounterMod,    \* 2^32 in the code: where the diagnostic counters wrap
          RefillOnTime   \* TRUE: a DMA block lasts longer than a refill takes

\* EF2AUDIO_MAX_VOLUME and the longest latency; a request above is refused.
MaxVolume    == 16383
MaxLatencyMs == 1000

ASSUME AudioAssumption ==
  /\ BlockFrames \in Nat \ {0}
  /\ RingFrames \in Nat \ {0}
  /\ RingFrames % BlockFrames = 0
  /\ BlockFrames <= RingFrames
  /\ MaxFrames \in Nat
  /\ FrameIds \in Nat \ {0}
  /\ Volumes \subseteq Nat
  /\ FramesPerMs \in Nat \ {0}
  /\ Latencies \subseteq Nat
  /\ CounterMod \in Nat \ {0}
  /\ RefillOnTime \in BOOLEAN

VARIABLES
  \* the ring, guarded by ring_mutex
  ring, read_frame, write_frame, queued_frames, underruns, overruns,
  \* semaphores: -1 is a semaphore that does not exist, otherwise its count
  ring_mutex, space_sema, transfer_sema,
  \* playback state
  initialized, started, paused, volume, queue_limit, bvol,
  \* PCM staged by the play thread and the two halves the DMA streams
  render, spu_buffer,
  \* SPU2 backend: block being streamed, DMA and interrupt state
  spu2_initialized, active_block, running, dma_busy, dma_block, irq_pending, intr_enabled,
  \* threads
  play_pc, idle_block, rpc_pc, samples, source_frame, count,
  \* modelling state: number of the next frame the client produces, and the
  \* halves written since the DMA last streamed them
  next_frame, unheard

ringVars   == <<ring, read_frame, write_frame, queued_frames>>
counters   == <<underruns, overruns>>
semas      == <<ring_mutex, space_sema, transfer_sema>>
flagVars   == <<initialized, started, paused>>
levelVars  == <<volume, queue_limit, bvol>>
playState  == <<flagVars, levelVars>>
pcmVars    == <<render, spu_buffer>>
dmaVars    == <<running, dma_busy, dma_block, irq_pending>>
spuVars    == <<spu2_initialized, active_block, dmaVars, intr_enabled>>
playVars   == <<play_pc, idle_block>>
submitVars == <<samples, source_frame, count>>
rpcVars    == <<rpc_pc, submitVars>>
auxVars    == <<next_frame, unheard>>
vars == <<ringVars, counters, semas, playState, pcmVars, spuVars, playVars,
          rpcVars, auxVars>>
-----------------------------------------------------------------------------
Slots   == 0 .. RingFrames - 1
Halves  == {0, 1}
Silence == -1
Frames  == 0 .. FrameIds - 1
Pcm     == Frames \cup {Silence}
SilentBlock == [i \in 1..BlockFrames |-> Silence]

Bump(counter) == (counter + 1) % CounterMod

\* WaitSema returns at once on an invalid identifier, and blocks on count 0;
\* SignalSema is ignored on an invalid identifier and saturates at max = 1.
CanWait(sema)    == sema # 0
AfterWait(sema)  == IF sema = 1 THEN 0 ELSE sema
AfterSignal(sema) == IF sema = 0 THEN 1 ELSE sema

\* The volume update_volume() writes to the BVOL registers.
VolumeOf(isStarted, isPaused, vol) == IF isStarted /\ ~isPaused THEN vol ELSE 0

\* Slot of the i-th queued frame, counted from 0.
Slot(first, i) == (first + i) % RingFrames

\* Scheduling: a pending interrupt preempts every thread, a play thread that
\* is not blocked preempts the RPC thread.
InterruptDue == irq_pending /\ intr_enabled
PlayReady == \/ play_pc = "wait" /\ CanWait(transfer_sema)
             \/ play_pc = "fill" /\ CanWait(ring_mutex)
             \/ play_pc \in {"pick", "copy"}
PlayMayRun == ~InterruptDue
RpcMayRun  == ~InterruptDue /\ ~PlayReady
-----------------------------------------------------------------------------
Init ==
  /\ ring = [s \in Slots |-> Silence]
  /\ read_frame = 0 /\ write_frame = 0 /\ queued_frames = 0
  /\ underruns = 0 /\ overruns = 0
  /\ ring_mutex = -1 /\ space_sema = -1 /\ transfer_sema = -1
  /\ initialized = FALSE /\ started = FALSE /\ paused = FALSE
  /\ volume = MaxVolume /\ queue_limit = RingFrames /\ bvol = 0
  /\ render = SilentBlock /\ spu_buffer = [h \in Halves |-> SilentBlock]
  /\ spu2_initialized = FALSE /\ active_block = 0 /\ running = FALSE
  /\ dma_busy = FALSE /\ dma_block = 0
  /\ irq_pending = FALSE /\ intr_enabled = TRUE
  /\ play_pc = "absent" /\ idle_block = 0
  /\ rpc_pc = "idle" /\ samples = <<>> /\ source_frame = 0 /\ count = 0
  /\ next_frame = 0 /\ unheard = {}
-----------------------------------------------------------------------------
(* The DMA and its interrupt.                                              *)

\* The controller reaches the end of the block it is streaming.  Under
\* RefillOnTime this happens only once the previous refill is finished.
DmaComplete ==
  /\ dma_busy
  /\ RefillOnTime => play_pc = "wait" /\ transfer_sema = 0
  /\ dma_busy' = FALSE
  /\ irq_pending' = TRUE
  /\ UNCHANGED <<ringVars, counters, semas, playState, pcmVars, playVars,
                 rpcVars, auxVars, spu2_initialized, active_block, running,
                 dma_block, intr_enabled>>

\* ef2_spu2_dma_interrupt: swap halves, restart the DMA, wake the play thread.
DmaInterrupt ==
  /\ InterruptDue
  /\ irq_pending' = FALSE
  /\ \/ /\ ~running
        /\ UNCHANGED <<active_block, dma_busy, dma_block, transfer_sema, unheard>>
     \/ /\ running
        /\ active_block' = 1 - active_block
        /\ dma_block' = 1 - active_block
        /\ dma_busy' = TRUE
        /\ unheard' = unheard \ {1 - active_block}
        /\ transfer_sema' = AfterSignal(transfer_sema)
  /\ UNCHANGED <<ringVars, counters, ring_mutex, space_sema, playState, pcmVars,
                 playVars, rpcVars, next_frame, spu2_initialized, running,
                 intr_enabled>>
-----------------------------------------------------------------------------
(* The play thread.                                                        *)

PlayWaitTransfer ==
  /\ PlayMayRun /\ play_pc = "wait" /\ CanWait(transfer_sema)
  /\ transfer_sema' = AfterWait(transfer_sema)
  /\ play_pc' = "fill"
  /\ UNCHANGED <<ringVars, counters, ring_mutex, space_sema, playState, pcmVars,
                 spuVars, idle_block, rpcVars, auxVars>>

\* Frames fill_render_block takes from the ring.
MutTakeWhilePaused == IF queued_frames > BlockFrames THEN BlockFrames ELSE queued_frames
Take == IF paused THEN 0
        ELSE IF queued_frames > BlockFrames THEN BlockFrames ELSE queued_frames

\* The writer is told of room only when a frame was taken.
MutRoomNotSignalled == space_sema
SpaceAfterFill == IF Take # 0 THEN AfterSignal(space_sema) ELSE space_sema

\* fill_render_block: stage one block, oldest frames first, silence after them.
PlayFill ==
  /\ PlayMayRun /\ play_pc = "fill" /\ CanWait(ring_mutex)
  /\ render' = [i \in 1..BlockFrames |->
                  IF i <= Take THEN ring[Slot(read_frame, i - 1)] ELSE Silence]
  /\ read_frame' = Slot(read_frame, Take)
  /\ queued_frames' = queued_frames - Take
  /\ underruns' = IF ~paused /\ Take < BlockFrames THEN Bump(underruns) ELSE underruns
  /\ space_sema' = SpaceAfterFill
  /\ play_pc' = "pick"
  /\ UNCHANGED <<ring, write_frame, overruns, ring_mutex, transfer_sema,
                 playState, spu_buffer, spuVars, idle_block, rpcVars, auxVars>>

MutActiveHalf == active_block
IdleHalf == 1 - active_block

MutPickWithoutSuspend ==
  /\ PlayMayRun /\ play_pc = "pick"
  /\ idle_block' = IdleHalf
  /\ play_pc' = "copy"
  /\ UNCHANGED <<ringVars, counters, semas, playState, pcmVars, spuVars, rpcVars, auxVars>>

\* CpuSuspendIntr, then choose the half the DMA is not streaming.
PlayPickIdle ==
  /\ PlayMayRun /\ play_pc = "pick"
  /\ intr_enabled' = FALSE
  /\ idle_block' = IdleHalf
  /\ play_pc' = "copy"
  /\ UNCHANGED <<ringVars, counters, semas, playState, pcmVars, spu2_initialized,
                 active_block, dmaVars, rpcVars, auxVars>>

\* copy_render_to_spu, then CpuResumeIntr.
PlayCopy ==
  /\ PlayMayRun /\ play_pc = "copy"
  /\ spu_buffer' = [spu_buffer EXCEPT ![idle_block] = render]
  /\ unheard' = unheard \cup {idle_block}
  /\ intr_enabled' = TRUE
  /\ play_pc' = "wait"
  /\ UNCHANGED <<ringVars, counters, semas, playState, render, spu2_initialized,
                 active_block, dmaVars, idle_block, rpcVars, next_frame>>

PlayStep == PlayWaitTransfer \/ PlayFill \/ PlayPickIdle \/ PlayCopy
-----------------------------------------------------------------------------
(* The RPC thread: rpc_handler dispatches one request at a time.           *)
(* fill_reply only copies state into the reply, which no actor of this     *)
(* module reads: Reply(r) names the result code and ends the handler.      *)

Request == RpcMayRun /\ rpc_pc = "idle"
At(pc)  == RpcMayRun /\ rpc_pc = pc
Reply(r) == rpc_pc' = "idle"
Refuse(r) == Reply(r) /\ UNCHANGED <<submitVars, ringVars, counters, semas, playState,
                                     pcmVars, spuVars, playVars, auxVars>>

\* audio_initialize when some semaphore cannot be created: the identifiers are
\* overwritten all the same, the ones of an earlier attempt are lost.
InitSemasFail ==
  /\ Request /\ ~initialized
  /\ \E m \in {-1, 1}, s, t \in {-1, 0} :
       /\ -1 \in {m, s, t}
       /\ ring_mutex' = m /\ space_sema' = s /\ transfer_sema' = t
  /\ Reply(-1)
  /\ UNCHANGED <<submitVars, ringVars, counters, playState, pcmVars, spuVars,
                 playVars, auxVars>>

\* The semaphores are created anew; ef2_spu2_init cannot hook the interrupt.
InitSpuFails ==
  /\ Request /\ ~initialized /\ ~spu2_initialized
  /\ ring_mutex' = 1 /\ space_sema' = 0 /\ transfer_sema' = 0
  /\ bvol' = 0
  /\ Reply(-2)
  /\ UNCHANGED <<submitVars, ringVars, counters, initialized, started, paused,
                 volume, queue_limit, pcmVars, spuVars, playVars, auxVars>>

\* Everything is cleared; then the play thread starts, or it does not.
InitReachesThread ==
  /\ Request /\ ~initialized
  /\ ring_mutex' = 1 /\ space_sema' = 0 /\ transfer_sema' = 0
  /\ spu2_initialized' = TRUE
  /\ IF spu2_initialized THEN UNCHANGED <<active_block, running>>
     ELSE active_block' = 0 /\ running' = FALSE
  /\ ring' = [s \in Slots |-> Silence]
  /\ render' = SilentBlock /\ spu_buffer' = [h \in Halves |-> SilentBlock]
  /\ read_frame' = 0 /\ write_frame' = 0 /\ queued_frames' = 0
  /\ underruns' = 0 /\ overruns' = 0
  /\ bvol' = VolumeOf(started, paused, volume)
  /\ \/ \E r \in {-3, -4} : Reply(r) /\ UNCHANGED <<initialized, play_pc>>
     \/ Reply(0) /\ initialized' = TRUE /\ play_pc' = "wait"
  /\ UNCHANGED <<submitVars, started, paused, volume, queue_limit, idle_block,
                 dma_busy, dma_block, irq_pending, intr_enabled, auxVars>>

InitAgain == Request /\ initialized /\ Refuse(0)

RpcInit == InitSemasFail \/ InitSpuFails \/ InitReachesThread \/ InitAgain
-----------------------------------------------------------------------------
RpcSubmit(n) ==
  /\ Request
  /\ \/ n > MaxFrames /\ Refuse(-11)
     \/ n <= MaxFrames /\ ~initialized /\ Refuse(-1)
     \/ /\ n <= MaxFrames /\ initialized
        /\ samples' = [i \in 1..n |-> (next_frame + i - 1) % FrameIds]
        /\ next_frame' = (next_frame + n) % FrameIds
        /\ source_frame' = 0
        /\ rpc_pc' = "submit"
        /\ UNCHANGED <<count, ringVars, counters, semas, playState, pcmVars,
                       spuVars, playVars, unheard>>

\* Room below the queue limit, which may lie below what is already queued.
MutSpaceWraps == (queue_limit - queued_frames) % 65536
Space == IF queued_frames >= queue_limit THEN 0 ELSE queue_limit - queued_frames

\* Head of the loop: take the mutex, look for room.
SubmitLock ==
  /\ At("submit") /\ source_frame < Len(samples) /\ CanWait(ring_mutex)
  /\ ring_mutex' = AfterWait(ring_mutex)
  /\ \/ /\ Space = 0
        /\ overruns' = Bump(overruns)
        /\ rpc_pc' = "full"
        /\ UNCHANGED count
     \/ /\ Space # 0
        /\ count' = IF Len(samples) - source_frame > Space THEN Space
                    ELSE Len(samples) - source_frame
        /\ rpc_pc' = "copy"
        /\ UNCHANGED overruns
  /\ UNCHANGED <<samples, source_frame, ringVars, underruns, space_sema,
                 transfer_sema, playState, pcmVars, spuVars, playVars, auxVars>>

SubmitUnlockFull ==
  /\ At("full")
  /\ ring_mutex' = AfterSignal(ring_mutex)
  /\ rpc_pc' = "wait_space"
  /\ UNCHANGED <<submitVars, ringVars, counters, space_sema, transfer_sema,
                 playState, pcmVars, spuVars, playVars, auxVars>>

SubmitWaitSpace ==
  /\ At("wait_space") /\ CanWait(space_sema)
  /\ space_sema' = AfterWait(space_sema)
  /\ rpc_pc' = "submit"
  /\ UNCHANGED <<submitVars, ringVars, counters, ring_mutex, transfer_sema,
                 playState, pcmVars, spuVars, playVars, auxVars>>

\* The i-th sample of this turn, counted from 0, and the turn's index of slot s.
MutSampleFromStart(i) == samples[1 + i]
Sample(i) == samples[source_frame + 1 + i]
Offset(s) == (s - write_frame) % RingFrames

\* The copy loop: count samples go to the slots from write_frame on.
SubmitCopy ==
  /\ At("copy")
  /\ ring' = [s \in Slots |-> IF Offset(s) < count THEN Sample(Offset(s)) ELSE ring[s]]
  /\ rpc_pc' = "publish"
  /\ UNCHANGED <<submitVars, read_frame, write_frame, queued_frames, counters,
                 semas, playState, pcmVars, spuVars, playVars, auxVars>>

\* The indices move past the copied frames, then the mutex is released.
SubmitPublish ==
  /\ At("publish")
  /\ write_frame' = Slot(write_frame, count)
  /\ queued_frames' = queued_frames + count
  /\ source_frame' = source_frame + count
  /\ count' = 0                             \* local to one turn of the loop
  /\ ring_mutex' = AfterSignal(ring_mutex)
  /\ rpc_pc' = "submit"
  /\ UNCHANGED <<samples, ring, read_frame, counters, space_sema,
                 transfer_sema, playState, pcmVars, spuVars, playVars, auxVars>>

SubmitDone ==
  /\ At("submit") /\ source_frame = Len(samples)
  /\ samples' = <<>> /\ source_frame' = 0   \* the handler's locals end here
  /\ Reply(Len(samples))
  /\ UNCHANGED <<count, ringVars, counters, semas, playState, pcmVars,
                 spuVars, playVars, auxVars>>
-----------------------------------------------------------------------------
\* audio_start: clear the buffer while no DMA runs, then start the loop.
RpcStart ==
  /\ Request
  /\ \/ ~initialized /\ Refuse(-1)
     \/ initialized /\ started /\ Refuse(0)
     \/ /\ initialized /\ ~started
        /\ spu_buffer' = [h \in Halves |-> SilentBlock]
        /\ unheard' = Halves
        /\ bvol' = VolumeOf(started, paused, volume)
        /\ rpc_pc' = "start"
        /\ UNCHANGED <<submitVars, ringVars, counters, semas, initialized,
                       started, paused, volume, queue_limit, render, spuVars,
                       playVars, next_frame>>

\* ef2_spu2_start_loop: its argument checks hold for this buffer once the
\* backend is initialized, so it does not fail.
StartLoop ==
  /\ At("start")
  /\ active_block' = 0
  /\ running' = TRUE
  /\ dma_busy' = TRUE /\ dma_block' = 0
  /\ unheard' = unheard \ {0}
  /\ rpc_pc' = "started"
  /\ UNCHANGED <<submitVars, ringVars, counters, semas, playState, pcmVars,
                 spu2_initialized, irq_pending, intr_enabled, playVars, next_frame>>

StartDone ==
  /\ At("started")
  /\ started' = TRUE /\ paused' = FALSE
  /\ bvol' = VolumeOf(TRUE, FALSE, volume)
  /\ Reply(0)
  /\ UNCHANGED <<submitVars, ringVars, counters, semas, initialized, volume,
                 queue_limit, pcmVars, spuVars, playVars, auxVars>>

\* audio_pause and audio_resume.
SetPaused(p) ==
  /\ Request
  /\ \/ ~(initialized /\ started) /\ Refuse(-1)
     \/ /\ initialized /\ started
        /\ paused' = p
        /\ bvol' = VolumeOf(started, p, volume)
        /\ Reply(0)
        /\ UNCHANGED <<submitVars, ringVars, counters, semas, initialized, started,
                       volume, queue_limit, pcmVars, spuVars, playVars, auxVars>>

\* audio_stop: the handler stops restarting the DMA, then the DMA is stopped.
RpcStop ==
  /\ Request
  /\ \/ ~initialized /\ Refuse(-1)
     \/ /\ initialized /\ ~started
        /\ paused' = FALSE
        /\ bvol' = VolumeOf(started, FALSE, volume)
        /\ Reply(0)
        /\ UNCHANGED <<submitVars, ringVars, counters, semas, initialized, started,
                       volume, queue_limit, pcmVars, spuVars, playVars, auxVars>>
     \/ /\ initialized /\ started
        /\ running' = FALSE
        /\ rpc_pc' = "stop"
        /\ UNCHANGED <<submitVars, ringVars, counters, semas, playState,
                       pcmVars, spu2_initialized, active_block, dma_busy, dma_block,
                       irq_pending, intr_enabled, playVars, auxVars>>

MutStopKeepsPaused ==
  /\ At("stop")
  /\ dma_busy' = FALSE
  /\ started' = FALSE
  /\ bvol' = 0
  /\ Reply(0)
  /\ UNCHANGED <<submitVars, ringVars, counters, semas, initialized, paused, volume,
                 queue_limit, pcmVars, spu2_initialized, active_block, running,
                 dma_block, irq_pending, intr_enabled, playVars, auxVars>>

StopDma ==
  /\ At("stop")
  /\ dma_busy' = FALSE
  /\ started' = FALSE /\ paused' = FALSE
  /\ bvol' = VolumeOf(FALSE, FALSE, volume)
  /\ Reply(0)
  /\ UNCHANGED <<submitVars, ringVars, counters, semas, initialized, volume,
                 queue_limit, pcmVars, spu2_initialized, active_block, running,
                 dma_block, irq_pending, intr_enabled, playVars, auxVars>>

\* audio_flush does not ask for initialization: before it, the semaphores do
\* not exist and waiting for them returns at once.
RpcFlush ==
  /\ Request /\ CanWait(ring_mutex)
  /\ ring_mutex' = AfterWait(ring_mutex)
  /\ read_frame' = 0 /\ write_frame' = 0 /\ queued_frames' = 0
  /\ rpc_pc' = "flush"
  /\ UNCHANGED <<submitVars, ring, counters, space_sema, transfer_sema,
                 playState, pcmVars, spuVars, playVars, auxVars>>

FlushUnlock ==
  /\ At("flush")
  /\ ring_mutex' = AfterSignal(ring_mutex)
  /\ space_sema' = AfterSignal(space_sema)
  /\ Reply(0)
  /\ UNCHANGED <<submitVars, ringVars, counters, transfer_sema, playState, pcmVars,
                 spuVars, playVars, auxVars>>

RpcSetVolume(v) ==
  /\ Request
  /\ \/ v > MaxVolume /\ Refuse(-1)
     \/ /\ v <= MaxVolume
        /\ volume' = v
        /\ bvol' = VolumeOf(started, paused, v)
        /\ Reply(0)
        /\ UNCHANGED <<submitVars, ringVars, counters, semas, initialized, started,
                       paused, queue_limit, pcmVars, spuVars, playVars, auxVars>>

\* The latency in frames, rounded up to whole blocks and kept within the ring.
MutLimitUnclamped(ms) ==
  ((ms * FramesPerMs + BlockFrames - 1) \div BlockFrames) * BlockFrames

LimitOf(ms) ==
  LET frames == ((ms * FramesPerMs + BlockFrames - 1) \div BlockFrames) * BlockFrames
  IN  IF frames < BlockFrames THEN BlockFrames
      ELSE IF frames > RingFrames THEN RingFrames ELSE frames

RpcSetLatency(ms) ==
  /\ Request
  /\ \/ ms \notin 1..MaxLatencyMs /\ Refuse(-1)
     \/ /\ ms \in 1..MaxLatencyMs
        /\ queue_limit' = LimitOf(ms)
        /\ space_sema' = AfterSignal(space_sema)
        /\ Reply(0)
        /\ UNCHANGED <<submitVars, ringVars, counters, ring_mutex, transfer_sema,
                       initialized, started, paused, volume, bvol, pcmVars, spuVars,
                       playVars, auxVars>>

\* STATS changes nothing; an unknown function number is refused.
RpcStats == Request /\ \E r \in {0, -100} : Refuse(r)
-----------------------------------------------------------------------------
\* What the client asks for next.
RpcRequest ==
  \/ RpcInit \/ RpcStart \/ RpcStop \/ RpcFlush \/ RpcStats
  \/ \E n \in 0..MaxFrames + 1 : RpcSubmit(n)
  \/ \E p \in BOOLEAN : SetPaused(p)
  \/ \E v \in Volumes : RpcSetVolume(v)
  \/ \E ms \in Latencies : RpcSetLatency(ms)

\* The rest of a handler that has begun.
RpcStep ==
  \/ SubmitLock \/ SubmitUnlockFull \/ SubmitWaitSpace \/ SubmitCopy
  \/ SubmitPublish \/ SubmitDone
  \/ StartLoop \/ StartDone \/ StopDma \/ FlushUnlock

Next == DmaComplete \/ DmaInterrupt \/ PlayStep \/ RpcRequest \/ RpcStep

Spec == Init /\ [][Next]_vars

\* The hardware finishes its transfers and the kernel schedules its threads.
\* The RPC thread is the one the others preempt: a DMA block lasts 10.7 ms and
\* a refill a small part of it, so it is given the processor again and again,
\* and strong fairness says that it then makes progress.  Whether the client
\* ever sends another request is up to the client.
Fairness == /\ WF_vars(DmaComplete) /\ WF_vars(DmaInterrupt)
            /\ WF_vars(PlayStep) /\ SF_vars(RpcStep)

FairSpec == Spec /\ Fairness
-----------------------------------------------------------------------------
(* Properties.                                                             *)

RpcStates == {"idle", "submit", "full", "wait_space", "copy", "publish",
              "start", "started", "stop", "flush"}

RingType  == /\ ring \in [Slots -> Pcm]
             /\ read_frame \in Slots /\ write_frame \in Slots
             /\ queued_frames \in Nat
CountType == underruns \in Nat /\ overruns \in Nat
SemaType  == /\ ring_mutex \in {-1, 0, 1} /\ space_sema \in {-1, 0, 1}
             /\ transfer_sema \in {-1, 0, 1}
FlagType  == initialized \in BOOLEAN /\ started \in BOOLEAN /\ paused \in BOOLEAN
LevelType == volume \in Nat /\ bvol \in Nat /\ queue_limit \in BlockFrames..RingFrames
PcmType   == /\ render \in [1..BlockFrames -> Pcm]
             /\ spu_buffer \in [Halves -> [1..BlockFrames -> Pcm]]
SpuType   == /\ active_block \in Halves /\ dma_block \in Halves
             /\ spu2_initialized \in BOOLEAN /\ running \in BOOLEAN
             /\ dma_busy \in BOOLEAN /\ irq_pending \in BOOLEAN
             /\ intr_enabled \in BOOLEAN
PlayType  == /\ play_pc \in {"absent", "wait", "fill", "pick", "copy"}
             /\ idle_block \in Halves
RpcType   == /\ rpc_pc \in RpcStates
             /\ samples \in Seq(Frames) /\ source_frame \in Nat /\ count \in Nat
AuxType   == next_frame \in Frames /\ unheard \subseteq Halves

\* Type invariant of the service's state.
TypeOK == /\ RingType /\ CountType /\ SemaType /\ FlagType /\ LevelType
          /\ PcmType /\ SpuType /\ PlayType /\ RpcType /\ AuxType

\* Whatever the two threads and the latency changes do, the queued frames
\* fit the ring and lie between the read and the write index, and a copy in
\* progress stays within the free slots and within the submitted samples.
RingConsistent ==
  /\ queued_frames <= RingFrames
  /\ write_frame = Slot(read_frame, queued_frames)
  /\ source_frame <= Len(samples)
  /\ rpc_pc \in {"copy", "publish"} =>
       /\ queued_frames + count <= queue_limit
       /\ source_frame + count <= Len(samples)

\* Between requests the flags describe the hardware: a started stream is one
\* the interrupt keeps restarting and whose DMA is busy or just finished,
\* a stopped one has no DMA left that could complete, only a started stream
\* is paused, and the volume register is non-zero only while PCM is audible.
PlaybackCoherent ==
  /\ running => dma_busy \/ irq_pending
  /\ paused => started
  /\ bvol # 0 => started /\ ~paused
  /\ rpc_pc = "idle" => /\ started <=> running
                        /\ ~started => ~dma_busy /\ ~irq_pending

\* A late refill never races a DMA block swap: the half that the DMA is
\* streaming does not change, neither by copy_render_to_spu nor by START.
StreamedHalfUntouched ==
  [][\A h \in Halves : dma_busy /\ dma_block = h => spu_buffer'[h] = spu_buffer[h]]_vars

\* The frames queued in the ring, oldest first.
QueueSeq == [i \in 1..queued_frames |-> ring[Slot(read_frame, i - 1)]]

\* The queued frames before a step are the first ones queued after it.
QueueKept == /\ queued_frames' >= queued_frames
             /\ \A i \in 1..queued_frames : QueueSeq'[i] = QueueSeq[i]

\* STOP and PAUSE preserve the queue: while the stream is paused, or the DMA
\* loop is stopped, nothing but FLUSH takes frames out, and no underrun is
\* counted.
HeldQueueKept ==
  [][paused \/ ~running => /\ QueueKept \/ RpcFlush
                           /\ underruns' = underruns]_vars

\* When a DMA block lasts longer than a refill takes, no rendered block is
\* overwritten before the DMA streamed it, and none is streamed twice.
EachBlockHeardOnce ==
  [][/\ play_pc = "copy" /\ play_pc' = "wait" => idle_block \notin unheard
     /\ dma_busy' /\ ~dma_busy => dma_block' \in unheard]_vars

\* The service implements the abstract stream.
Stream == INSTANCE AudioStream
            WITH Capacity <- RingFrames,
                 pending <- SubSeq(samples, source_frame + 1, Len(samples)),
                 queue <- QueueSeq,
                 block <- render

\* Threads, semaphores and ring indices implement the bounded FIFO: frames are
\* neither lost, repeated nor reordered between SUBMIT and the rendered block.
ImplementsStream == Stream!StreamSpec

\* A submission that waits for room while the stream plays is accepted in the
\* end: no wakeup is lost, whatever tokens space_sema was left with.
SubmitCompletes ==
  rpc_pc = "wait_space" /\ running /\ ~paused ~> rpc_pc = "idle"
=============================================================================
