------------------------- MODULE PipelineThreadsProofs -------------------------
(***************************************************************************)
(* The pipeline's workers, proved for any number of source threads and any *)
(* collection of drivers: no source is destroyed under a thread, no driver *)
(* is entered twice, the ring keeps one writer and no thread handle is     *)
(* overwritten, whatever the drivers do with their reads.                  *)
(***************************************************************************)
EXTENDS PipelineThreads, FiniteSetTheorems, TLAPS

(* Types in two halves: the workers with the flags they read, and what the *)
(* control calls own.                                                      *)
WorkerTypes ==
    /\ run \in BOOLEAN /\ srcRun \in BOOLEAN /\ dspRun \in BOOLEAN /\ faulted \in BOOLEAN
    /\ audio \in {"free", "dsp", "control"} /\ dpc \in DspPcs
    /\ tpc \in [Threads -> ThreadPcs] /\ tsrc \in [Threads -> Sources]
    /\ ttoken \in [Threads -> BOOLEAN] /\ detached \in [Threads -> BOOLEAN]
ControlTypes ==
    /\ op \in {"none", "start", "stop", "setSource", "rate"} /\ cpc \in ControlPcs
    /\ live \in BOOLEAN /\ incoming \in (Sources \ {Builtin}) \cup {NoSource} /\ newRing \in BOOLEAN
    /\ zombie \in BOOLEAN /\ cur \subseteq Threads /\ dspJoinable \in BOOLEAN
    /\ external \in (Sources \ {Builtin}) \cup {NoSource} /\ destroyed \subseteq Sources \ {Builtin}
    /\ ring \in {"small", "big"}
Types == WorkerTypes /\ ControlTypes

(* Where each call can be.                                                 *)
Quiescing == {"quiesce", "joinSource"}
Starting == {"startSource", "resize", "raise", "spawnSource"}
CallKnows ==
    /\ cpc = "idle" <=> op = "none"
    /\ op = "start" => cpc \in Quiescing \cup Starting
                                \cup {"joinDsp", "refuse", "drain", "lock", "locked", "spawnDsp"}
    /\ op = "stop" => cpc \in Quiescing \cup {"joinDsp"}
    /\ op = "setSource" => cpc \in Quiescing \cup Starting
                                    \cup {"swap", "joinDsp", "lock", "locked", "spawnDsp"}
    /\ op = "rate" => cpc \in {"joinDsp", "lock", "locked", "spawnDsp"}

(* What each call has joined by then: past the quiesce there is no source  *)
(* thread until the call spawns one, and no DSP thread where the call      *)
(* replaces it; setSource() keeps its DSP thread only while the ring fits. *)
Joined ==
    /\ op \in {"start", "stop", "setSource"} /\ cpc \notin Quiescing \cup {"spawnDsp"} => cur = {}
    /\ op = "start" /\ cpc \notin Quiescing \cup {"joinDsp"} => ~dspJoinable
    /\ op = "rate" /\ cpc # "joinDsp" => ~dspJoinable
    /\ op = "setSource" /\ newRing /\ cpc \in {"resize", "raise", "spawnSource", "spawnDsp"}
          => ~dspJoinable
    /\ op = "setSource" /\ cpc \in {"joinDsp", "spawnDsp"} => newRing
    /\ op = "setSource" /\ cpc \in {"joinDsp", "resize"} /\ ring # RingFor(Active) => newRing

(* A handle is joinable exactly while its thread is neither joined nor     *)
(* detached, and one source thread at most is not yet given up on.         *)
Handles ==
    /\ cur = {t \in Threads : tpc[t] # "none" /\ ~detached[t]}
    /\ \A t, u \in cur : t = u
    /\ dspJoinable <=> dpc # "none"

(* A thread given up on has lost its token before, so that what remains of *)
(* its life is the way out of the read it was abandoned in.                *)
Abandoned ==
    /\ cpc = "joinSource" => \A t \in cur : ~ttoken[t]
    /\ \A t \in Threads : detached[t] =>
          /\ ~ttoken[t] /\ tsrc[t] # Builtin
          /\ tpc[t] \in {"reading", "returned", "empty", "exited",
                         "fault", "fault2", "fault3", "fault4"}

(* The driver in use: its one thread is the thread the handle names; a     *)
(* thread given up on may be inside it only while zombieSource_ says so,   *)
(* and no call starts it then.                                             *)
InUse ==
    /\ \A t \in cur : tsrc[t] = Active
    /\ ~zombie => \A t \in Threads : detached[t] /\ Busy(t) => tsrc[t] # external
    /\ op \in {"start", "setSource"} /\ cpc \in Starting \cup {"drain", "lock", "locked"} => ~zombie
    /\ op = "setSource" /\ cpc = "joinDsp" => ~zombie
    /\ external \notin destroyed

(* The driver on its way in, until the swap: alive, and nobody is inside.  *)
Incoming ==
    op = "setSource" /\ cpc \in Quiescing \cup {"swap"} =>
        /\ incoming \notin destroyed /\ (incoming = NoSource \/ incoming # external)
        /\ \A t \in Threads : Busy(t) => tsrc[t] # incoming

OneEach == \A t, u \in Threads : t # u /\ Busy(t) /\ Busy(u) => tsrc[t] # tsrc[u]

IInv == Types /\ CallKnows /\ Joined /\ Handles /\ Abandoned /\ InUse /\ Incoming
        /\ OneEach /\ NoUseAfterFree

USE DEF Quiescing, Starting, Busy, Active, RingFor

LEMMA InitIInv == Init => IInv
BY SourcesAssumption DEF Init, IInv, Types, WorkerTypes, ControlTypes, CallKnows, Joined, Handles, Abandoned, InUse, Incoming,
    OneEach, NoUseAfterFree, ThreadPcs, DspPcs, ControlPcs

-------------------------------------------------------------------------------
(* What a step of a source thread leaves alone: everything but the flags,  *)
(* its own place and, when it vanishes, its own mark.                      *)
SourceFrame(t) ==
    /\ UNCHANGED <<control, owned, tsrc, ttoken, audio, dpc>>
    /\ tpc' \in [Threads -> ThreadPcs] /\ detached' \in [Threads -> BOOLEAN]
    /\ run' \in BOOLEAN /\ srcRun' \in BOOLEAN /\ dspRun' \in BOOLEAN /\ faulted' \in BOOLEAN
    /\ \A u \in Threads \ {t} : tpc'[u] = tpc[u] /\ detached'[u] = detached[u]
    /\ tpc[t] # "none" /\ (tpc[t] = "exited" => tpc'[t] = "none")
    /\ \/ tpc'[t] = "none" /\ tpc[t] = "exited" /\ detached[t] /\ ~detached'[t]
       \/ tpc'[t] # "none" /\ detached'[t] = detached[t]
    /\ tpc'[t] = "writing" => ttoken[t]
    /\ ~ttoken[t] /\ tpc[t] \in {"reading", "returned", "empty", "exited",
                                 "fault", "fault2", "fault3", "fault4"}
          => tpc'[t] \in {"none", "returned", "empty", "exited",
                          "fault", "fault2", "fault3", "fault4"}

LEMMA SourceStepFrame ==
    ASSUME NEW t \in Threads, Types, SourceStep(t)
    PROVE  SourceFrame(t)
<1> USE DEF Types, WorkerTypes, ThreadPcs, SourceFrame, TOnly, TGoto, flags, vars
<1>1. CASE LoopTop(t) BY <1>1 DEF LoopTop
<1>2. CASE ReadReturns(t) BY <1>2 DEF ReadReturns
<1>3. CASE ReadThrows(t) BY <1>3 DEF ReadThrows
<1>4. CASE TokenTest(t) BY <1>4 DEF TokenTest
<1>5. CASE RingWrite(t) BY <1>5 DEF RingWrite
<1>6. CASE FaultPoll(t) BY <1>6 DEF FaultPoll
<1>7. CASE TFaultStep(t) BY <1>7 DEF TFaultStep, StoreFault, AfterFault
<1>8. CASE Vanish(t) BY <1>8 DEF Vanish
<1> QED
  BY <1>1, <1>2, <1>3, <1>4, <1>5, <1>6, <1>7, <1>8 DEF SourceStep, SourceRuns

(* And of the DSP thread.                                                  *)
DspFrame ==
    /\ UNCHANGED <<control, owned, threads>>
    /\ run' \in BOOLEAN /\ srcRun' \in BOOLEAN /\ dspRun' \in BOOLEAN /\ faulted' \in BOOLEAN
    /\ audio' \in {"free", "dsp", "control"}
    /\ dpc # "none" /\ dpc' \in DspPcs \ {"none"}

LEMMA DspStepFrame == Types /\ DspStep => DspFrame
<1> SUFFICES ASSUME Types, DspStep PROVE DspFrame
  OBVIOUS
<1> USE DEF Types, WorkerTypes, DspPcs, DspFrame, DOnly, flags
<1>1. CASE DspTop BY <1>1 DEF DspTop
<1>2. CASE DspRead BY <1>2 DEF DspRead
<1>3. CASE DspLock BY <1>3 DEF DspLock
<1>4. CASE DspUnlock BY <1>4 DEF DspUnlock
<1>5. CASE DFaultStep BY <1>5 DEF DFaultStep, StoreFault, AfterFault
<1> QED
  BY <1>1, <1>2, <1>3, <1>4, <1>5 DEF DspStep

-------------------------------------------------------------------------------
LEMMA WorkerTypesStep == Types /\ [Next]_vars => WorkerTypes'
<1> SUFFICES ASSUME Types, [Next]_vars PROVE WorkerTypes'
  OBVIOUS
<1> USE DEF Types, WorkerTypes, flags, locals, threads, owned, Call, CGoto, Return, TGoto
<1>1. CASE StartCall BY <1>1 DEF StartCall
<1>2. CASE StopCall BY <1>2 DEF StopCall
<1>3. CASE SetRateCall BY <1>3 DEF SetRateCall
<1>4. CASE \E s \in Fresh \cup {NoSource} : SetSourceCall(s) BY <1>4 DEF SetSourceCall
<1>5. CASE Quiesce
  <2>1. ttoken' = ttoken \/ ttoken' = [t \in Threads |-> ttoken[t] /\ t \notin cur]
    BY <1>5 DEF Quiesce
  <2>2. ttoken' \in [Threads -> BOOLEAN]
    <3>1. [t \in Threads |-> ttoken[t] /\ t \notin cur] \in [Threads -> BOOLEAN] BY Zenon
    <3> QED BY <2>1, <3>1
  <2> QED BY <1>5, <2>2 DEF Quiesce
<1>6. CASE JoinDsp BY <1>6 DEF JoinDsp, DspPcs
<1>7. CASE Refuse BY <1>7 DEF Refuse
<1>8. CASE Drain BY <1>8 DEF Drain
<1>9. CASE Swap BY <1>9 DEF Swap
<1>10. CASE UnlockAudio BY <1>10 DEF UnlockAudio
<1>11. CASE StartSource BY <1>11 DEF StartSource
<1>12. CASE Resize BY <1>12 DEF Resize
<1>13. CASE Raise BY <1>13 DEF Raise
<1>14. CASE SpawnDsp BY <1>14 DEF SpawnDsp, DspPcs
<1>15. CASE \E t \in Threads : JoinSource(t) BY <1>15 DEF JoinSource, ThreadPcs
<1>16. CASE \E t \in Threads : Abandon(t) BY <1>16 DEF Abandon
<1>17. CASE \E t \in Threads : SpawnSource(t)
  BY <1>17, SourcesAssumption DEF SpawnSource, Free, ThreadPcs, ControlTypes
<1>18. CASE LockAudio BY <1>18 DEF LockAudio
<1>19. CASE \E t \in Threads : SourceStep(t)
  BY <1>19, SourceStepFrame DEF SourceFrame, control
<1>20. CASE DspStep BY <1>20, DspStepFrame DEF DspFrame, control
<1>21. CASE UNCHANGED vars BY <1>21 DEF vars, control
<1> QED
  BY <1>1, <1>2, <1>3, <1>4, <1>5, <1>6, <1>7, <1>8, <1>9, <1>10, <1>11, <1>12, <1>13, <1>14,
     <1>15, <1>16, <1>17, <1>18, <1>19, <1>20, <1>21 DEF Next, ControlCalls, ControlRuns

LEMMA ControlTypesStep == Types /\ CallKnows /\ [Next]_vars => ControlTypes'
<1> SUFFICES ASSUME Types, CallKnows, [Next]_vars PROVE ControlTypes'
  OBVIOUS
<1> USE DEF Types, ControlTypes, ControlPcs, flags, locals, threads, owned, Call, CGoto, Return, TGoto
<1>1. CASE StartCall BY <1>1 DEF StartCall
<1>2. CASE StopCall BY <1>2 DEF StopCall
<1>3. CASE SetRateCall BY <1>3 DEF SetRateCall, WorkerTypes
<1>4. CASE \E s \in Fresh \cup {NoSource} : SetSourceCall(s)
  <2>1. PICK s \in Fresh \cup {NoSource} : SetSourceCall(s) BY <1>4
  <2>2. s \in (Sources \ {Builtin}) \cup {NoSource} BY DEF Fresh
  <2>3. destroyed' \subseteq Sources \ {Builtin} BY <2>1 DEF SetSourceCall
  <2> QED BY <2>1, <2>2, <2>3 DEF SetSourceCall, WorkerTypes
<1>5. CASE Quiesce BY <1>5 DEF Quiesce, AfterQuiesce
<1>6. CASE JoinDsp BY <1>6 DEF JoinDsp, CallKnows
<1>7. CASE Refuse BY <1>7 DEF Refuse
<1>8. CASE Drain BY <1>8 DEF Drain
<1>9. CASE Swap BY <1>9 DEF Swap
<1>10. CASE UnlockAudio BY <1>10 DEF UnlockAudio
<1>11. CASE StartSource BY <1>11 DEF StartSource
<1>12. CASE Resize BY <1>12 DEF Resize
<1>13. CASE Raise BY <1>13 DEF Raise
<1>14. CASE SpawnDsp BY <1>14 DEF SpawnDsp
<1>15. CASE \E t \in Threads : JoinSource(t) BY <1>15 DEF JoinSource, AfterQuiesce
<1>16. CASE \E t \in Threads : Abandon(t) BY <1>16 DEF Abandon, AfterQuiesce
<1>17. CASE \E t \in Threads : SpawnSource(t) BY <1>17 DEF SpawnSource
<1>18. CASE LockAudio BY <1>18 DEF LockAudio
<1>19. CASE \E t \in Threads : SourceStep(t)
  BY <1>19, SourceStepFrame DEF SourceFrame, control
<1>20. CASE DspStep BY <1>20, DspStepFrame DEF DspFrame, control
<1>21. CASE UNCHANGED vars BY <1>21 DEF vars, control
<1> QED
  BY <1>1, <1>2, <1>3, <1>4, <1>5, <1>6, <1>7, <1>8, <1>9, <1>10, <1>11, <1>12, <1>13, <1>14,
     <1>15, <1>16, <1>17, <1>18, <1>19, <1>20, <1>21 DEF Next, ControlCalls, ControlRuns

LEMMA CallKnowsStep == Types /\ CallKnows /\ [Next]_vars => CallKnows'
<1> SUFFICES ASSUME Types, CallKnows, [Next]_vars PROVE CallKnows'
  OBVIOUS
<1> USE DEF Types, ControlTypes, CallKnows, flags, locals, threads, owned, Call, CGoto, Return, TGoto
<1>1. CASE StartCall BY <1>1 DEF StartCall
<1>2. CASE StopCall BY <1>2 DEF StopCall
<1>3. CASE SetRateCall BY <1>3 DEF SetRateCall
<1>4. CASE \E s \in Fresh \cup {NoSource} : SetSourceCall(s) BY <1>4 DEF SetSourceCall
<1>5. CASE Quiesce BY <1>5 DEF Quiesce, AfterQuiesce
<1>6. CASE JoinDsp BY <1>6 DEF JoinDsp
<1>7. CASE Refuse BY <1>7 DEF Refuse
<1>8. CASE Drain BY <1>8 DEF Drain
<1>9. CASE Swap BY <1>9 DEF Swap
<1>10. CASE UnlockAudio BY <1>10 DEF UnlockAudio
<1>11. CASE StartSource BY <1>11 DEF StartSource
<1>12. CASE Resize BY <1>12 DEF Resize
<1>13. CASE Raise BY <1>13 DEF Raise
<1>14. CASE SpawnDsp BY <1>14 DEF SpawnDsp
<1>15. CASE \E t \in Threads : JoinSource(t) BY <1>15 DEF JoinSource, AfterQuiesce
<1>16. CASE \E t \in Threads : Abandon(t) BY <1>16 DEF Abandon, AfterQuiesce
<1>17. CASE \E t \in Threads : SpawnSource(t) BY <1>17 DEF SpawnSource
<1>18. CASE LockAudio BY <1>18 DEF LockAudio
<1>19. CASE \E t \in Threads : SourceStep(t)
  BY <1>19, SourceStepFrame DEF SourceFrame, control
<1>20. CASE DspStep BY <1>20, DspStepFrame DEF DspFrame, control
<1>21. CASE UNCHANGED vars BY <1>21 DEF vars, control
<1> QED
  BY <1>1, <1>2, <1>3, <1>4, <1>5, <1>6, <1>7, <1>8, <1>9, <1>10, <1>11, <1>12, <1>13, <1>14,
     <1>15, <1>16, <1>17, <1>18, <1>19, <1>20, <1>21 DEF Next, ControlCalls, ControlRuns

LEMMA JoinedStep == Types /\ CallKnows /\ Joined /\ [Next]_vars => Joined'
<1> SUFFICES ASSUME Types, CallKnows, Joined, [Next]_vars PROVE Joined'
  OBVIOUS
<1> USE DEF Types, ControlTypes, CallKnows, Joined, flags, locals, threads, owned, Call, CGoto, Return, TGoto
<1>1. CASE StartCall BY <1>1 DEF StartCall
<1>2. CASE StopCall BY <1>2 DEF StopCall
<1>3. CASE SetRateCall BY <1>3 DEF SetRateCall
<1>4. CASE \E s \in Fresh \cup {NoSource} : SetSourceCall(s) BY <1>4 DEF SetSourceCall
<1>5. CASE Quiesce BY <1>5 DEF Quiesce, AfterQuiesce
<1>6. CASE JoinDsp BY <1>6 DEF JoinDsp
<1>7. CASE Refuse BY <1>7 DEF Refuse
<1>8. CASE Drain BY <1>8 DEF Drain
<1>9. CASE Swap BY <1>9 DEF Swap
<1>10. CASE UnlockAudio BY <1>10 DEF UnlockAudio
<1>11. CASE StartSource BY <1>11 DEF StartSource
<1>12. CASE Resize BY <1>12 DEF Resize
<1>13. CASE Raise BY <1>13 DEF Raise
<1>14. CASE SpawnDsp BY <1>14 DEF SpawnDsp
<1>15. CASE \E t \in Threads : JoinSource(t) BY <1>15 DEF JoinSource, AfterQuiesce
<1>16. CASE \E t \in Threads : Abandon(t) BY <1>16 DEF Abandon, AfterQuiesce
<1>17. CASE \E t \in Threads : SpawnSource(t) BY <1>17 DEF SpawnSource
<1>18. CASE LockAudio BY <1>18 DEF LockAudio
<1>19. CASE \E t \in Threads : SourceStep(t)
  BY <1>19, SourceStepFrame DEF SourceFrame, control
<1>20. CASE DspStep BY <1>20, DspStepFrame DEF DspFrame, control
<1>21. CASE UNCHANGED vars BY <1>21 DEF vars, control
<1> QED
  BY <1>1, <1>2, <1>3, <1>4, <1>5, <1>6, <1>7, <1>8, <1>9, <1>10, <1>11, <1>12, <1>13, <1>14,
     <1>15, <1>16, <1>17, <1>18, <1>19, <1>20, <1>21 DEF Next, ControlCalls, ControlRuns

LEMMA HandlesStep == Types /\ CallKnows /\ Joined /\ Handles /\ Abandoned /\ [Next]_vars => Handles'
<1> SUFFICES ASSUME Types, CallKnows, Joined, Handles, Abandoned, [Next]_vars PROVE Handles'
  OBVIOUS
<1> USE DEF Types, ControlTypes, WorkerTypes, CallKnows, Joined, Handles, flags, locals, threads, owned, Call, CGoto, Return, TGoto
<1>1. CASE StartCall BY <1>1 DEF StartCall
<1>2. CASE StopCall BY <1>2 DEF StopCall
<1>3. CASE SetRateCall BY <1>3 DEF SetRateCall
<1>4. CASE \E s \in Fresh \cup {NoSource} : SetSourceCall(s) BY <1>4 DEF SetSourceCall
<1>5. CASE Quiesce BY <1>5 DEF Quiesce, AfterQuiesce
<1>6. CASE JoinDsp BY <1>6 DEF JoinDsp
<1>7. CASE Refuse BY <1>7 DEF Refuse
<1>8. CASE Drain BY <1>8 DEF Drain
<1>9. CASE Swap BY <1>9 DEF Swap
<1>10. CASE UnlockAudio BY <1>10 DEF UnlockAudio
<1>11. CASE StartSource BY <1>11 DEF StartSource
<1>12. CASE Resize BY <1>12 DEF Resize
<1>13. CASE Raise BY <1>13 DEF Raise
<1>14. CASE SpawnDsp BY <1>14 DEF SpawnDsp
<1>15. CASE \E t \in Threads : JoinSource(t) BY <1>15 DEF JoinSource, AfterQuiesce
<1>16. CASE \E t \in Threads : Abandon(t) BY <1>16 DEF Abandon, AfterQuiesce
<1>17. CASE \E t \in Threads : SpawnSource(t)
  <2>1. PICK t \in Threads : SpawnSource(t) BY <1>17
  <2>2. cur = {} BY <2>1 DEF SpawnSource
  <2>3. ~detached[t] BY <2>1 DEF SpawnSource, Free, Abandoned
  <2>4. cur' = {u \in Threads : tpc'[u] # "none" /\ ~detached'[u]}
    BY <2>1, <2>2, <2>3 DEF SpawnSource
  <2> QED BY <2>1, <2>4 DEF SpawnSource
<1>18. CASE LockAudio BY <1>18 DEF LockAudio
<1>19. CASE \E t \in Threads : SourceStep(t)
  BY <1>19, SourceStepFrame DEF SourceFrame, control
<1>20. CASE DspStep BY <1>20, DspStepFrame DEF DspFrame, control
<1>21. CASE UNCHANGED vars BY <1>21 DEF vars, control
<1> QED
  BY <1>1, <1>2, <1>3, <1>4, <1>5, <1>6, <1>7, <1>8, <1>9, <1>10, <1>11, <1>12, <1>13, <1>14,
     <1>15, <1>16, <1>17, <1>18, <1>19, <1>20, <1>21 DEF Next, ControlCalls, ControlRuns

LEMMA AbandonedStep == Types /\ CallKnows /\ Joined /\ Handles /\ Abandoned /\ [Next]_vars => Abandoned'
<1> SUFFICES ASSUME Types, CallKnows, Joined, Handles, Abandoned, [Next]_vars PROVE Abandoned'
  OBVIOUS
<1> USE DEF Types, ControlTypes, WorkerTypes, CallKnows, Joined, Handles, Abandoned, flags, locals, threads, owned, Call, CGoto, Return, TGoto
<1>1. CASE StartCall BY <1>1 DEF StartCall
<1>2. CASE StopCall BY <1>2 DEF StopCall
<1>3. CASE SetRateCall BY <1>3 DEF SetRateCall
<1>4. CASE \E s \in Fresh \cup {NoSource} : SetSourceCall(s) BY <1>4 DEF SetSourceCall
<1>5. CASE Quiesce BY <1>5 DEF Quiesce, AfterQuiesce
<1>6. CASE JoinDsp BY <1>6 DEF JoinDsp
<1>7. CASE Refuse BY <1>7 DEF Refuse
<1>8. CASE Drain BY <1>8 DEF Drain
<1>9. CASE Swap BY <1>9 DEF Swap
<1>10. CASE UnlockAudio BY <1>10 DEF UnlockAudio
<1>11. CASE StartSource BY <1>11 DEF StartSource
<1>12. CASE Resize BY <1>12 DEF Resize
<1>13. CASE Raise BY <1>13 DEF Raise
<1>14. CASE SpawnDsp BY <1>14 DEF SpawnDsp
<1>15. CASE \E t \in Threads : JoinSource(t) BY <1>15 DEF JoinSource, AfterQuiesce
<1>16. CASE \E t \in Threads : Abandon(t) BY <1>16 DEF Abandon, AfterQuiesce
<1>17. CASE \E t \in Threads : SpawnSource(t)
  <2>1. PICK t \in Threads : SpawnSource(t) BY <1>17
  <2>2. ~detached[t] /\ cpc' # "joinSource" BY <2>1 DEF SpawnSource, Free
  <2> QED BY <2>1, <2>2 DEF SpawnSource
<1>18. CASE LockAudio BY <1>18 DEF LockAudio
<1>19. CASE \E t \in Threads : SourceStep(t)
  BY <1>19, SourceStepFrame DEF SourceFrame, control
<1>20. CASE DspStep BY <1>20, DspStepFrame DEF DspFrame, control
<1>21. CASE UNCHANGED vars BY <1>21 DEF vars, control
<1> QED
  BY <1>1, <1>2, <1>3, <1>4, <1>5, <1>6, <1>7, <1>8, <1>9, <1>10, <1>11, <1>12, <1>13, <1>14,
     <1>15, <1>16, <1>17, <1>18, <1>19, <1>20, <1>21 DEF Next, ControlCalls, ControlRuns

LEMMA InUseStep == IInv /\ [Next]_vars => InUse'
<1> SUFFICES ASSUME IInv, [Next]_vars PROVE InUse'
  OBVIOUS
<1> USE DEF IInv, Types, ControlTypes, WorkerTypes, CallKnows, Joined, Handles, InUse, Incoming, flags, locals, threads, owned, Call, CGoto, Return, TGoto
<1>1. CASE StartCall BY <1>1 DEF StartCall
<1>2. CASE StopCall BY <1>2 DEF StopCall
<1>3. CASE SetRateCall BY <1>3 DEF SetRateCall
<1>4. CASE \E s \in Fresh \cup {NoSource} : SetSourceCall(s) BY <1>4 DEF SetSourceCall
<1>5. CASE Quiesce BY <1>5 DEF Quiesce, AfterQuiesce
<1>6. CASE JoinDsp BY <1>6 DEF JoinDsp, StartRefused
<1>7. CASE Refuse BY <1>7 DEF Refuse
<1>8. CASE Drain BY <1>8 DEF Drain
<1>9. CASE Swap BY <1>9 DEF Swap
<1>10. CASE UnlockAudio BY <1>10 DEF UnlockAudio
<1>11. CASE StartSource BY <1>11 DEF StartSource
<1>12. CASE Resize BY <1>12 DEF Resize
<1>13. CASE Raise BY <1>13 DEF Raise
<1>14. CASE SpawnDsp BY <1>14 DEF SpawnDsp
<1>15. CASE \E t \in Threads : JoinSource(t) BY <1>15 DEF JoinSource, AfterQuiesce
<1>16. CASE \E t \in Threads : Abandon(t) BY <1>16 DEF Abandon, AfterQuiesce
<1>17. CASE \E t \in Threads : SpawnSource(t)
  <2>1. PICK t \in Threads : SpawnSource(t) BY <1>17
  <2>2. cur' = {t} /\ tsrc'[t] = Active /\ ~detached[t]
    BY <2>1 DEF SpawnSource, Free, Abandoned
  <2>3. cpc' \notin Starting \cup {"drain", "lock", "locked"}
    BY <2>1 DEF SpawnSource
  <2> QED BY <2>1, <2>2, <2>3 DEF SpawnSource
<1>18. CASE LockAudio BY <1>18 DEF LockAudio
<1>19. CASE \E t \in Threads : SourceStep(t)
  BY <1>19, SourceStepFrame DEF SourceFrame, control
<1>20. CASE DspStep BY <1>20, DspStepFrame DEF DspFrame, control
<1>21. CASE UNCHANGED vars BY <1>21 DEF vars, control
<1> QED
  BY <1>1, <1>2, <1>3, <1>4, <1>5, <1>6, <1>7, <1>8, <1>9, <1>10, <1>11, <1>12, <1>13, <1>14,
     <1>15, <1>16, <1>17, <1>18, <1>19, <1>20, <1>21 DEF Next, ControlCalls, ControlRuns

LEMMA IncomingStep == IInv /\ [Next]_vars => Incoming'
<1> SUFFICES ASSUME IInv, [Next]_vars PROVE Incoming'
  OBVIOUS
<1> USE DEF IInv, Types, ControlTypes, WorkerTypes, CallKnows, Incoming, flags, locals, threads, owned, Call, CGoto, Return, TGoto
<1>1. CASE StartCall BY <1>1 DEF StartCall
<1>2. CASE StopCall BY <1>2 DEF StopCall
<1>3. CASE SetRateCall BY <1>3 DEF SetRateCall
<1>4. CASE \E s \in Fresh \cup {NoSource} : SetSourceCall(s)
  <2>1. PICK s \in Fresh \cup {NoSource} : SetSourceCall(s) BY <1>4
  <2>2. s = NoSource \/ s # external BY DEF Fresh
  <2>3. \A t \in Threads : Busy(t) => tsrc[t] # s BY SourcesAssumption DEF Fresh
  <2> QED BY <2>1, <2>2, <2>3 DEF SetSourceCall
<1>5. CASE Quiesce BY <1>5 DEF Quiesce, AfterQuiesce
<1>6. CASE JoinDsp BY <1>6 DEF JoinDsp
<1>7. CASE Refuse BY <1>7 DEF Refuse
<1>8. CASE Drain BY <1>8 DEF Drain
<1>9. CASE Swap BY <1>9 DEF Swap
<1>10. CASE UnlockAudio BY <1>10 DEF UnlockAudio
<1>11. CASE StartSource BY <1>11 DEF StartSource
<1>12. CASE Resize BY <1>12 DEF Resize
<1>13. CASE Raise BY <1>13 DEF Raise
<1>14. CASE SpawnDsp BY <1>14 DEF SpawnDsp
<1>15. CASE \E t \in Threads : JoinSource(t) BY <1>15 DEF JoinSource, AfterQuiesce
<1>16. CASE \E t \in Threads : Abandon(t) BY <1>16 DEF Abandon, AfterQuiesce
<1>17. CASE \E t \in Threads : SpawnSource(t) BY <1>17 DEF SpawnSource
<1>18. CASE LockAudio BY <1>18 DEF LockAudio
<1>19. CASE \E t \in Threads : SourceStep(t)
  BY <1>19, SourceStepFrame DEF SourceFrame, control
<1>20. CASE DspStep BY <1>20, DspStepFrame DEF DspFrame, control
<1>21. CASE UNCHANGED vars BY <1>21 DEF vars, control
<1> QED
  BY <1>1, <1>2, <1>3, <1>4, <1>5, <1>6, <1>7, <1>8, <1>9, <1>10, <1>11, <1>12, <1>13, <1>14,
     <1>15, <1>16, <1>17, <1>18, <1>19, <1>20, <1>21 DEF Next, ControlCalls, ControlRuns

LEMMA OneEachStep == IInv /\ [Next]_vars => OneEach'
<1> SUFFICES ASSUME IInv, [Next]_vars PROVE OneEach'
  OBVIOUS
<1> USE DEF IInv, Types, ControlTypes, WorkerTypes, CallKnows, Joined, Handles, InUse, OneEach, flags, locals, threads, owned, Call, CGoto, Return, TGoto
<1>1. CASE StartCall BY <1>1 DEF StartCall
<1>2. CASE StopCall BY <1>2 DEF StopCall
<1>3. CASE SetRateCall BY <1>3 DEF SetRateCall
<1>4. CASE \E s \in Fresh \cup {NoSource} : SetSourceCall(s) BY <1>4 DEF SetSourceCall
<1>5. CASE Quiesce BY <1>5 DEF Quiesce, AfterQuiesce
<1>6. CASE JoinDsp BY <1>6 DEF JoinDsp
<1>7. CASE Refuse BY <1>7 DEF Refuse
<1>8. CASE Drain BY <1>8 DEF Drain
<1>9. CASE Swap BY <1>9 DEF Swap
<1>10. CASE UnlockAudio BY <1>10 DEF UnlockAudio
<1>11. CASE StartSource BY <1>11 DEF StartSource
<1>12. CASE Resize BY <1>12 DEF Resize
<1>13. CASE Raise BY <1>13 DEF Raise
<1>14. CASE SpawnDsp BY <1>14 DEF SpawnDsp
<1>15. CASE \E t \in Threads : JoinSource(t) BY <1>15 DEF JoinSource, AfterQuiesce
<1>16. CASE \E t \in Threads : Abandon(t) BY <1>16 DEF Abandon, AfterQuiesce
<1>17. CASE \E t \in Threads : SpawnSource(t)
  <2>1. PICK t \in Threads : SpawnSource(t) BY <1>17
  <2>2. \A u \in Threads \ {t} : Busy(u) => tsrc[u] # Active
    <3>1. SUFFICES ASSUME NEW u \in Threads \ {t}, Busy(u) PROVE tsrc[u] # Active
      OBVIOUS
    <3>2. cur = {} /\ ~zombie BY <2>1 DEF SpawnSource
    <3>3. detached[u] BY <3>1, <3>2
    <3> QED BY <3>1, <3>2, <3>3 DEF Abandoned
  <2> QED BY <2>1, <2>2 DEF SpawnSource
<1>18. CASE LockAudio BY <1>18 DEF LockAudio
<1>19. CASE \E t \in Threads : SourceStep(t)
  BY <1>19, SourceStepFrame DEF SourceFrame, control
<1>20. CASE DspStep BY <1>20, DspStepFrame DEF DspFrame, control
<1>21. CASE UNCHANGED vars BY <1>21 DEF vars, control
<1> QED
  BY <1>1, <1>2, <1>3, <1>4, <1>5, <1>6, <1>7, <1>8, <1>9, <1>10, <1>11, <1>12, <1>13, <1>14,
     <1>15, <1>16, <1>17, <1>18, <1>19, <1>20, <1>21 DEF Next, ControlCalls, ControlRuns

LEMMA NoUseAfterFreeStep == IInv /\ [Next]_vars => NoUseAfterFree'
<1> SUFFICES ASSUME IInv, [Next]_vars PROVE NoUseAfterFree'
  OBVIOUS
<1> USE DEF IInv, Types, ControlTypes, WorkerTypes, CallKnows, Joined, Handles, Abandoned, InUse, Incoming, NoUseAfterFree, flags, locals, threads, owned, Call, CGoto, Return, TGoto
<1>1. CASE StartCall BY <1>1 DEF StartCall
<1>2. CASE StopCall BY <1>2 DEF StopCall
<1>3. CASE SetRateCall BY <1>3 DEF SetRateCall
<1>4. CASE \E s \in Fresh \cup {NoSource} : SetSourceCall(s) BY <1>4 DEF SetSourceCall
<1>5. CASE Quiesce BY <1>5 DEF Quiesce, AfterQuiesce
<1>6. CASE JoinDsp BY <1>6 DEF JoinDsp
<1>7. CASE Refuse BY <1>7 DEF Refuse
<1>8. CASE Drain BY <1>8 DEF Drain
<1>9. CASE Swap BY <1>9 DEF Swap
<1>10. CASE UnlockAudio BY <1>10 DEF UnlockAudio
<1>11. CASE StartSource BY <1>11 DEF StartSource
<1>12. CASE Resize BY <1>12 DEF Resize
<1>13. CASE Raise BY <1>13 DEF Raise
<1>14. CASE SpawnDsp BY <1>14 DEF SpawnDsp
<1>15. CASE \E t \in Threads : JoinSource(t) BY <1>15 DEF JoinSource, AfterQuiesce
<1>16. CASE \E t \in Threads : Abandon(t) BY <1>16 DEF Abandon, AfterQuiesce
<1>17. CASE \E t \in Threads : SpawnSource(t) BY <1>17 DEF SpawnSource
<1>18. CASE LockAudio BY <1>18 DEF LockAudio
<1>19. CASE \E t \in Threads : SourceStep(t)
  BY <1>19, SourceStepFrame DEF SourceFrame, control
<1>20. CASE DspStep BY <1>20, DspStepFrame DEF DspFrame, control
<1>21. CASE UNCHANGED vars BY <1>21 DEF vars, control
<1> QED
  BY <1>1, <1>2, <1>3, <1>4, <1>5, <1>6, <1>7, <1>8, <1>9, <1>10, <1>11, <1>12, <1>13, <1>14,
     <1>15, <1>16, <1>17, <1>18, <1>19, <1>20, <1>21 DEF Next, ControlCalls, ControlRuns

LEMMA IInvStep == IInv /\ [Next]_vars => IInv'
BY WorkerTypesStep, ControlTypesStep, CallKnowsStep, JoinedStep, HandlesStep, AbandonedStep,
   InUseStep, IncomingStep, OneEachStep, NoUseAfterFreeStep DEF IInv, Types

(* The invariant of the pipeline's threads: who knows of a call, what is   *)
(* joined, whose each handle is, what was given up on, and what a driver   *)
(* is in use by, as start(), stop() and setSource() leave them.            *)
THEOREM Invariance == Spec => []IInv
BY InitIInv, IInvStep, PTL DEF Spec

-------------------------------------------------------------------------------
(* A set whose members are all equal has one element at most.              *)
LEMMA AtMostOne ==
    ASSUME NEW S, \A x, y \in S : x = y
    PROVE  Cardinality(S) <= 1
<1>1. CASE S = {} BY <1>1, FS_EmptySet
<1>2. CASE S # {}
  <2>1. PICK x \in S : S = {x} BY <1>2
  <2> QED BY <2>1, FS_Singleton
<1> QED BY <1>1, <1>2

(* Every variable keeps its type, and a thread handle is joinable exactly  *)
(* while its thread is neither joined nor detached, however many threads   *)
(* and drivers there are (start(), stop(), setSource(), setInputRateHz()). *)
THEOREM TypesAndHandles == Spec => []TypeOK
<1>1. IInv => TypeOK
  BY AtMostOne DEF IInv, Types, WorkerTypes, ControlTypes, Handles, TypeOK
<1> QED BY <1>1, Invariance, PTL

(* The unique_ptr of the old source is released, not destroyed, exactly    *)
(* when a thread may still be inside it: no thread ever stands in a read() *)
(* of a destroyed source.                                                  *)
THEOREM SourcesOutliveTheirThreads == Spec => []NoUseAfterFree
<1>1. IInv => NoUseAfterFree BY DEF IInv
<1> QED BY <1>1, Invariance, PTL

(* No driver's read() is entered by two threads, and start() and           *)
(* setSource() start no source that a thread given up on is still inside.  *)
THEOREM DriversHaveOneThread == Spec => []OneThreadPerDriver
<1>1. IInv => OneThreadPerDriver
  BY DEF IInv, OneThreadPerDriver, OneEach, CallKnows, Joined, Handles, Abandoned, InUse,
     Types, WorkerTypes, ControlTypes
<1> QED BY <1>1, Invariance, PTL

(* The ring has one writer, the drain of start() and the replacement in    *)
(* resizeRingLocked() find nobody inside it, and a thread given up on      *)
(* never writes it.                                                        *)
THEOREM RingHasItsEndpoints == Spec => []RingEndpointsExclusive
<1>1. IInv => RingEndpointsExclusive
  <2> SUFFICES ASSUME IInv PROVE RingEndpointsExclusive
    OBVIOUS
  <2> DEFINE W == {t \in Threads : tpc[t] = "writing"}
  <2> USE DEF IInv, Types, WorkerTypes, ControlTypes
  <2>1. \A t \in Threads : detached[t] => tpc[t] \notin {"writing", "poll"} BY DEF Abandoned
  <2>2. W \subseteq cur BY <2>1 DEF Handles
  <2>3. Cardinality(W) <= 1 BY <2>2, AtMostOne DEF Handles
  <2>4. ASSUME cpc = "drain" \/ (cpc = "resize" /\ ring # RingFor(Active))
        PROVE  RingUsers = {}
    <3>1. cur = {} /\ ~dspJoinable BY <2>4 DEF CallKnows, Joined
    <3> QED BY <2>2, <3>1 DEF RingUsers, Handles
  <2> QED BY <2>1, <2>3, <2>4 DEF RingEndpointsExclusive
<1> QED BY <1>1, Invariance, PTL

(* No std::thread is assigned over a joinable one, in any interleaving of  *)
(* control calls, faults and abandoned reads: the assignment would be      *)
(* std::terminate.                                                         *)
THEOREM HandlesAreFreeWhenAssigned == Spec => []NoHandleOverwritten
<1>1. IInv => NoHandleOverwritten
  BY DEF IInv, NoHandleOverwritten, CallKnows, Joined, Types, ControlTypes
<1> QED BY <1>1, Invariance, PTL
===============================================================================
