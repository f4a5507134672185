---------------------------- MODULE PipelineThreads ----------------------------
(***************************************************************************)
(* core/pipeline.cpp: the life of the pipeline's two worker threads under  *)
(* start(), stop(), setSource() and setInputRateHz(), with drivers whose   *)
(* read() may throw, report a fault or never return.                       *)
(*                                                                         *)
(* controlMutex_ is held for the whole of a control call, so the control   *)
(* side is one process (op, cpc).  A source thread that a bounded join     *)
(* gave up on is detached and lives on: threads therefore have identities, *)
(* while the DSP thread is always joined and needs none.  The join timeout *)
(* (3 s) is taken to expire only on a thread parked inside a driver's      *)
(* read(): every other stretch of a worker is microseconds long.           *)
(***************************************************************************)
EXTENDS Naturals, FiniteSets

CONSTANTS
    Threads,    \* identities of source threads alive at one time
    Sources,    \* source objects, the built-in generator included
    Builtin,    \* the built-in generator: its read() always returns
    NoSource,
    BigRing     \* the sources whose one read needs the larger ring

ASSUME SourcesAssumption ==
    /\ Builtin \in Sources /\ NoSource \notin Sources
    /\ BigRing \subseteq Sources

VARIABLES
    run, srcRun, dspRun,    \* run_, srcRun_, dspRun_
    faulted,                \* faulted_
    zombie,                 \* zombieSource_
    cur,                    \* srcThread_: the thread it is joinable to, {} or {t}
    dspJoinable,            \* dspThread_.joinable()
    external,               \* external_: the owned source, or NoSource
    destroyed,              \* source objects whose destructor has run
    ring,                   \* ring_->capacity(): "small" or "big"
    audio,                  \* holder of audioMutex_
    tpc, tsrc, ttoken, detached,    \* each source thread
    dpc,                            \* the DSP thread
    op, cpc,                \* the control call in progress and where it is
    live, incoming, newRing \* its locals

flags == <<run, srcRun, dspRun, faulted>>
control == <<op, cpc, live, incoming, newRing>>
owned == <<zombie, cur, dspJoinable, external, destroyed, ring>>
threads == <<tpc, tsrc, ttoken, detached>>
vars == <<flags, control, owned, threads, audio, dpc>>

Active == IF external = NoSource THEN Builtin ELSE external
RingFor(s) == IF s \in BigRing THEN "big" ELSE "small"
Busy(t) == tpc[t] \notin {"none", "exited"}
Free == {t \in Threads : tpc[t] = "none"}

Init ==
    /\ run = FALSE /\ srcRun = FALSE /\ dspRun = FALSE /\ faulted = FALSE
    /\ zombie = FALSE /\ cur = {} /\ dspJoinable = FALSE
    /\ external = NoSource /\ destroyed = {} /\ ring = "small"
    /\ audio = "free"
    /\ tpc = [t \in Threads |-> "none"]
    /\ tsrc = [t \in Threads |-> Builtin]
    /\ ttoken = [t \in Threads |-> FALSE]
    /\ detached = [t \in Threads |-> FALSE]
    /\ dpc = "none"
    /\ op = "none" /\ cpc = "idle" /\ live = FALSE /\ incoming = NoSource
    /\ newRing = FALSE

-------------------------------------------------------------------------------
(* noteThreadFault(), store by store, on whichever thread failed: the      *)
(* fault latches first and run_ falls last.  An operator whose name adds a *)
(* mistake to another's is that operator with the mistake seeded in it.    *)

AfterFault == [fault |-> "fault2", fault2 |-> "fault3", fault3 |-> "fault4", fault4 |-> "exited"]

StoreFault(at) ==
    /\ faulted' = (faulted \/ at = "fault")
    /\ srcRun' = (srcRun /\ at # "fault2")
    /\ dspRun' = (dspRun /\ at # "fault3")
    /\ run' = (run /\ at # "fault4")

(* A source thread. *)

TGoto(t, pc) == tpc' = [tpc EXCEPT ![t] = pc]
TOnly(t, from, to) ==
    /\ tpc[t] = from
    /\ TGoto(t, to)
    /\ UNCHANGED <<flags, control, owned, tsrc, ttoken, detached, audio, dpc>>

(* The loop condition. The token comes first: an abandoned generation must *)
(* not go by flags a later session has raised again.                       *)
MayLoop(t) == ttoken[t] /\ run /\ srcRun
LoopTop(t) == TOnly(t, "top", IF MayLoop(t) THEN "reading" ELSE "exited")

(* read() gives samples or comes back empty; only an external driver       *)
(* throws.  A read that ignores stop() is one that takes no step.          *)
ReadReturns(t) == TOnly(t, "reading", "returned") \/ TOnly(t, "reading", "empty")
ReadThrows(t) ==
    /\ tsrc[t] # Builtin
    /\ TOnly(t, "reading", "fault")

(* The token is tested again before anything of the pipeline is touched.   *)
TokenTest(t) ==
    \/ TOnly(t, "returned", IF ttoken[t] THEN "writing" ELSE "exited")
    \/ TOnly(t, "empty", IF ttoken[t] THEN "poll" ELSE "exited")

RingWrite(t) == TOnly(t, "writing", "poll")

(* src.faulted(): a lost device does not throw, it is polled for.          *)
FaultPoll(t) ==
    \/ TOnly(t, "poll", "top")
    \/ tsrc[t] # Builtin /\ TOnly(t, "poll", "fault")

TFaultStep(t) ==
    /\ tpc[t] \in DOMAIN AfterFault
    /\ StoreFault(tpc[t])
    /\ TGoto(t, AfterFault[tpc[t]])
    /\ UNCHANGED <<control, owned, tsrc, ttoken, detached, audio, dpc>>

(* A detached thread that has ended is nobody's any more.                  *)
Vanish(t) ==
    /\ tpc[t] = "exited" /\ detached[t]
    /\ TGoto(t, "none")
    /\ detached' = [detached EXCEPT ![t] = FALSE]
    /\ UNCHANGED <<flags, control, owned, tsrc, ttoken, audio, dpc>>

(* Everything but the return of an external driver's read(). *)
SourceRuns(t) ==
    \/ tsrc[t] = Builtin /\ ReadReturns(t)
    \/ LoopTop(t) \/ TokenTest(t) \/ RingWrite(t) \/ FaultPoll(t) \/ TFaultStep(t) \/ Vanish(t)
SourceStep(t) == SourceRuns(t) \/ ReadReturns(t) \/ ReadThrows(t)

-------------------------------------------------------------------------------
(* The DSP thread: read the ring, then process a block under audioMutex_.  *)

DOnly(from, to) ==
    /\ dpc = from
    /\ dpc' = to
    /\ UNCHANGED <<flags, control, owned, threads, audio>>

DspTop == DOnly("top", IF run /\ dspRun THEN "ringRead" ELSE "exited")
DspRead == DOnly("ringRead", "top") \/ DOnly("ringRead", "wantAudio")
DspLock ==
    /\ dpc = "wantAudio" /\ audio = "free"
    /\ dpc' = "block" /\ audio' = "dsp"
    /\ UNCHANGED <<flags, control, owned, threads>>
DspUnlock ==        \* the end of the block, or an exception thrown in it
    /\ dpc = "block"
    /\ dpc' \in {"top", "fault"} /\ audio' = "free"
    /\ UNCHANGED <<flags, control, owned, threads>>
DFaultStep ==
    /\ dpc \in DOMAIN AfterFault
    /\ StoreFault(dpc)
    /\ dpc' = AfterFault[dpc]
    /\ UNCHANGED <<control, owned, threads, audio>>

DspStep == DspTop \/ DspRead \/ DspLock \/ DspUnlock \/ DFaultStep

-------------------------------------------------------------------------------
(* The control calls. Each takes controlMutex_ when it starts and keeps it *)
(* until Return; locals are cleared there.                                 *)

locals == <<live, incoming, newRing>>
CGoto(pc) == cpc' = pc /\ UNCHANGED op
Return ==
    /\ op' = "none" /\ cpc' = "idle"
    /\ live' = FALSE /\ incoming' = NoSource /\ newRing' = FALSE
Call(name, pc) == cpc = "idle" /\ op' = name /\ cpc' = pc

(* An object no thread is inside and nobody owns.                          *)
Fresh == {s \in Sources \ {Builtin, external} : \A t \in Threads : Busy(t) => tsrc[t] # s}

(* start(): clears the last fault first.  A call on a running pipeline     *)
(* returns at once and is no step.                                         *)
StartCall ==
    /\ Call("start", "quiesce")
    /\ ~run /\ Free # {}
    /\ faulted' = FALSE
    /\ UNCHANGED <<run, srcRun, dspRun, locals, owned, threads, audio, dpc>>

StopCall ==
    /\ Call("stop", "quiesce")
    /\ run' = FALSE /\ srcRun' = FALSE /\ dspRun' = FALSE
    /\ UNCHANGED <<faulted, locals, owned, threads, audio, dpc>>

SetSourceCall(s) ==
    /\ Call("setSource", "quiesce")
    /\ Free # {}
    /\ live' = run /\ incoming' = s
    /\ destroyed' = destroyed \ {s}
    /\ UNCHANGED <<newRing, flags, zombie, cur, dspJoinable, external, ring, threads, audio, dpc>>

(* setInputRateHz() past its validation: only the DSP thread is quiesced.  *)
SetRateCallSkipsQuiesce ==
    /\ Call("rate", "lock")
    /\ live' = run
    /\ UNCHANGED <<incoming, newRing, flags, owned, threads, audio, dpc>>

SetRateCall ==
    /\ Call("rate", IF dspJoinable THEN "joinDsp" ELSE "lock")
    /\ live' = run
    /\ dspRun' = IF dspJoinable THEN FALSE ELSE dspRun
    /\ UNCHANGED <<incoming, newRing, run, srcRun, faulted, owned, threads, audio, dpc>>

(* quiesceSourceThreadLocked() *)
AfterQuiesce == IF op = "setSource" THEN "swap" ELSE "joinDsp"

Quiesce ==
    /\ cpc = "quiesce"
    /\ IF cur = {}
       THEN CGoto(AfterQuiesce) /\ UNCHANGED <<ttoken, srcRun>>
       ELSE /\ ttoken' = [t \in Threads |-> ttoken[t] /\ t \notin cur]
            /\ srcRun' = FALSE
            /\ CGoto("joinSource")
    /\ UNCHANGED <<run, dspRun, faulted, locals, owned, tpc, tsrc, detached, audio, dpc>>

JoinSource(t) ==
    /\ cpc = "joinSource" /\ t \in cur /\ tpc[t] = "exited"
    /\ TGoto(t, "none") /\ cur' = {}
    /\ CGoto(AfterQuiesce)
    /\ UNCHANGED <<flags, locals, zombie, dspJoinable, external, destroyed, ring,
                   tsrc, ttoken, detached, audio, dpc>>

(* The bounded wait expires on a thread the driver does not give back.     *)
AbandonNever(t) == FALSE

Abandon(t) ==
    /\ cpc = "joinSource" /\ t \in cur
    /\ tpc[t] = "reading" /\ tsrc[t] # Builtin
    /\ detached' = [detached EXCEPT ![t] = TRUE]
    /\ cur' = {} /\ zombie' = TRUE
    /\ CGoto(AfterQuiesce)
    /\ UNCHANGED <<flags, locals, dspJoinable, external, destroyed, ring,
                   tpc, tsrc, ttoken, audio, dpc>>

(* start() will not put a second thread into a driver that still holds the *)
(* first.                                                                  *)
NeverRefused == FALSE
StartRefused == zombie

JoinDsp ==
    /\ cpc = "joinDsp" /\ (dspJoinable => dpc = "exited")
    /\ dspJoinable' = FALSE /\ dpc' = "none"
    /\ CASE op = "start" -> CGoto(IF StartRefused THEN "refuse" ELSE "drain") /\ UNCHANGED locals
         [] op = "stop" -> Return
         [] op = "setSource" -> CGoto("resize") /\ UNCHANGED locals
         [] op = "rate" -> CGoto("lock") /\ UNCHANGED locals
    /\ UNCHANGED <<flags, zombie, cur, external, destroyed, ring, threads, audio>>

(* The refusal is a fault of start()'s own. *)
Refuse ==
    /\ cpc = "refuse"
    /\ faulted' = TRUE /\ run' = FALSE /\ srcRun' = FALSE /\ dspRun' = FALSE
    /\ Return
    /\ UNCHANGED <<owned, threads, audio, dpc>>

(* start() empties the ring itself: both its endpoints are joined.         *)
Drain ==
    /\ cpc = "drain" /\ CGoto("lock")
    /\ UNCHANGED <<flags, locals, owned, threads, audio, dpc>>

(* setSource(): a source an abandoned thread may be inside is leaked, any  *)
(* other is destroyed.                                                     *)
SwapDestroys ==
    /\ cpc = "swap"
    /\ zombie' = FALSE /\ external' = incoming
    /\ destroyed' = destroyed \cup ({external} \ {NoSource})
    /\ CGoto("lock")
    /\ UNCHANGED <<flags, locals, cur, dspJoinable, ring, threads, audio, dpc>>

Swap ==
    /\ cpc = "swap"
    /\ zombie' = FALSE /\ external' = incoming
    /\ destroyed' = IF zombie THEN destroyed ELSE destroyed \cup ({external} \ {NoSource})
    /\ CGoto("lock")
    /\ UNCHANGED <<flags, locals, cur, dspJoinable, ring, threads, audio, dpc>>

(* The resets of start() and setSource() and the rebuild of                *)
(* setInputRateHz(), under audioMutex_.                                    *)
LockAudio ==
    /\ cpc = "lock" /\ audio = "free"
    /\ audio' = "control" /\ CGoto("locked")
    /\ UNCHANGED <<flags, locals, owned, threads, dpc>>

UnlockAudio ==
    /\ cpc = "locked" /\ audio' = "free"
    /\ IF op = "start" \/ live
       THEN CGoto(IF op = "rate" THEN "spawnDsp" ELSE "startSource") /\ UNCHANGED locals
       ELSE Return
    /\ UNCHANGED <<flags, owned, threads, dpc>>

(* active_->start(), before the thread that will read it exists.  In       *)
(* setSource() the DSP thread steps aside only if the ring must change.    *)
StartSourceKeepsDsp ==
    /\ cpc = "startSource"
    /\ newRing' = (ring # RingFor(Active))
    /\ CGoto("resize")
    /\ UNCHANGED <<flags, live, incoming, owned, threads, audio, dpc>>

StartSource ==
    /\ cpc = "startSource"
    /\ newRing' = (ring # RingFor(Active))
    /\ IF op = "setSource" /\ newRing' /\ dspJoinable
       THEN dspRun' = FALSE /\ CGoto("joinDsp")
       ELSE CGoto("resize") /\ UNCHANGED dspRun
    /\ UNCHANGED <<run, srcRun, faulted, live, incoming, owned, threads, audio, dpc>>

Resize ==
    /\ cpc = "resize"
    /\ ring' = RingFor(Active)
    /\ CGoto("raise")
    /\ UNCHANGED <<flags, locals, zombie, cur, dspJoinable, external, destroyed, threads, audio, dpc>>

Raise ==
    /\ cpc = "raise"
    /\ srcRun' = TRUE
    /\ IF op = "start" THEN run' = TRUE /\ dspRun' = TRUE ELSE UNCHANGED <<run, dspRun>>
    /\ CGoto("spawnSource")
    /\ UNCHANGED <<faulted, locals, owned, threads, audio, dpc>>

(* spawnSourceThread(): a fresh token for a fresh generation.              *)
SpawnSource(t) ==
    /\ cpc = "spawnSource" /\ t \in Free
    /\ TGoto(t, "top")
    /\ tsrc' = [tsrc EXCEPT ![t] = Active]
    /\ ttoken' = [ttoken EXCEPT ![t] = TRUE]
    /\ cur' = {t}
    /\ IF op = "start" \/ newRing THEN CGoto("spawnDsp") /\ UNCHANGED locals ELSE Return
    /\ UNCHANGED <<flags, zombie, dspJoinable, external, destroyed, ring, detached, audio, dpc>>

SpawnDsp ==
    /\ cpc = "spawnDsp"
    /\ dspRun' = IF op = "start" THEN dspRun ELSE TRUE
    /\ dspJoinable' = TRUE /\ dpc' = "top"
    /\ Return
    /\ UNCHANGED <<run, srcRun, faulted, zombie, cur, external, destroyed, ring, threads, audio>>

ControlCalls ==
    \/ StartCall \/ StopCall \/ SetRateCall
    \/ \E s \in Fresh \cup {NoSource} : SetSourceCall(s)
ControlRuns ==
    \/ Quiesce \/ JoinDsp \/ Refuse \/ Drain \/ Swap \/ UnlockAudio \/ StartSource
    \/ Resize \/ Raise \/ SpawnDsp
    \/ \E t \in Threads : JoinSource(t) \/ Abandon(t) \/ SpawnSource(t)

Next ==
    \/ ControlCalls \/ ControlRuns \/ LockAudio
    \/ \E t \in Threads : SourceStep(t)
    \/ DspStep

(* A control call in progress keeps running, its bounded wait expires, the *)
(* workers are scheduled, and a waiter on audioMutex_ is not starved; that *)
(* a driver's read() ever returns is not assumed.                          *)
Fairness ==
    /\ WF_vars(ControlRuns) /\ SF_vars(LockAudio)
    /\ \A t \in Threads : WF_vars(SourceRuns(t))
    /\ WF_vars(DspStep)

Spec == Init /\ [][Next]_vars /\ Fairness

-------------------------------------------------------------------------------
ThreadPcs == {"none", "top", "reading", "returned", "empty", "writing", "poll",
              "fault", "fault2", "fault3", "fault4", "exited"}
DspPcs == {"none", "top", "ringRead", "wantAudio", "block",
           "fault", "fault2", "fault3", "fault4", "exited"}
ControlPcs == {"idle", "quiesce", "joinSource", "joinDsp", "refuse", "drain", "swap", "lock",
               "locked", "startSource", "resize", "raise", "spawnSource", "spawnDsp"}

(* Every variable has the type of the member or local it stands for, and a *)
(* thread handle is joinable exactly while its thread is neither joined    *)
(* nor detached.                                                           *)
TypeOK ==
    /\ run \in BOOLEAN /\ srcRun \in BOOLEAN /\ dspRun \in BOOLEAN /\ faulted \in BOOLEAN
    /\ zombie \in BOOLEAN /\ cur \subseteq Threads /\ dspJoinable \in BOOLEAN
    /\ external \in (Sources \ {Builtin}) \cup {NoSource} /\ destroyed \subseteq Sources \ {Builtin}
    /\ ring \in {"small", "big"} /\ audio \in {"free", "dsp", "control"}
    /\ tpc \in [Threads -> ThreadPcs] /\ tsrc \in [Threads -> Sources]
    /\ ttoken \in [Threads -> BOOLEAN] /\ detached \in [Threads -> BOOLEAN]
    /\ dpc \in DspPcs
    /\ op \in {"none", "start", "stop", "setSource", "rate"} /\ cpc \in ControlPcs
    /\ live \in BOOLEAN /\ incoming \in (Sources \ {Builtin}) \cup {NoSource} /\ newRing \in BOOLEAN
    /\ cur = {t \in Threads : tpc[t] # "none" /\ ~detached[t]} /\ Cardinality(cur) <= 1
    /\ dspJoinable <=> dpc # "none"

(* setSource() never destroys a source while a thread may be inside its    *)
(* read(), a thread abandoned by an earlier stop() included.               *)
NoUseAfterFree == \A t \in Threads : Busy(t) => tsrc[t] \notin destroyed

(* One thread per driver: no source is read by two threads, and none is    *)
(* started while a thread is still inside it.                              *)
OneThreadPerDriver ==
    /\ \A t, u \in Threads : t # u /\ Busy(t) /\ Busy(u) => tsrc[t] # tsrc[u]
    /\ cpc \in {"startSource", "spawnSource"} => \A t \in Threads : Busy(t) => tsrc[t] # Active

(* The ring keeps one producer and one consumer: two source threads never  *)
(* write it, start() drains it and resizeRingLocked() replaces it only     *)
(* with no worker inside it, and a thread given up on, whenever its driver *)
(* answers, writes no sample into the ring of a later session.             *)
RingUsers == {t \in Threads : tpc[t] = "writing"} \cup (IF dpc = "ringRead" THEN {"dsp"} ELSE {})
RingEndpointsExclusive ==
    /\ Cardinality({t \in Threads : tpc[t] = "writing"}) <= 1
    /\ cpc = "drain" => RingUsers = {}
    /\ cpc = "resize" /\ ring # RingFor(Active) => RingUsers = {}
    /\ \A t \in Threads : detached[t] => tpc[t] \notin {"writing", "poll"}

(* No thread object is assigned over a joinable one, which would be        *)
(* std::terminate.                                                         *)
NoHandleOverwritten ==
    /\ cpc = "spawnSource" => cur = {}
    /\ cpc = "spawnDsp" => ~dspJoinable

(* Every control call returns, even when a driver's read() never does.     *)
ControlReturns == (cpc # "idle") ~> (cpc = "idle")

(* pipeline.cpp:1704: an abandoned thread waking from its read touches no  *)
(* member of the pipeline, noteThreadFault() included.                     *)
AbandonedThreadIsSilent ==
    \A t \in Threads : detached[t] => tpc[t] \in {"reading", "returned", "empty", "exited"}

(* pipeline.cpp:806: a fresh run begins with no fault of the previous one. *)
FreshRunIsUnfaulted ==
    op = "start" /\ cpc = "spawnSource" /\ (\A t \in Threads : ~detached[t]) => ~faulted
===============================================================================
