---------------------------- MODULE PipelineSetters ----------------------------
(***************************************************************************)
(* core/pipeline.cpp: the setters' command queue.  A setter posts a        *)
(* command and never waits for audioMutex_; whoever holds that lock next   *)
(* drains the queue.  Getters read mirrors.                                *)
(*                                                                         *)
(* cmdMutex_ is only ever held for one of the steps below, which is how it *)
(* appears here: post's critical section and each look of the drain at the *)
(* queue are atomic.  audioMutex_ is the variable holder.                  *)
(***************************************************************************)
EXTENDS Integers, Sequences

CONSTANTS
    Callers,        \* threads that call setters
    Params,         \* the settable parameters
    Verbatim,       \* those whose mirror is stored with the post
    Values,         \* what a caller may ask for
    Top,            \* the live object's clamp on the other parameters
    MaxQueue        \* bound on the commands posted and not yet run

ASSUME SettersAssumption ==
    /\ Callers \cap {"free", "dsp", "control"} = {}
    /\ Verbatim \subseteq Params /\ Values \subseteq Nat /\ 0 \in Values
    /\ Top \in Values /\ MaxQueue \in Nat \ {0}

VARIABLES
    live,       \* the chain's own value of each parameter
    mirror,     \* what its getter returns
    queue,      \* cmdQueue_
    scratch,    \* cmdScratch_: the commands being run, first one next
    pending,    \* cmdPending_
    holder,     \* audioMutex_: "free", a caller, "dsp" or "control"
    drain,      \* drainCommandsLocked() on the holder: "off", "look" or "run"
    pc,         \* each caller: "idle", "try" or "drain"
    dsp,        \* the DSP thread: "off", "joined", "idle", "drain", "top" or "block"
    ctl,        \* the control call in progress and its place
    seen,       \* the parameter set the block in progress began with (0s between)
    asked       \* history: the value each setter was last called with

core == <<live, mirror, queue, scratch, pending>>
vars == <<core, holder, drain, pc, dsp, ctl, seen, asked>>

(* What a command leaves in the live object.  An operator whose name adds  *)
(* a mistake to another's is that operator with the mistake seeded in it.  *)
Applied(p, v) == IF p \in Verbatim \/ v < Top THEN v ELSE Top
Run(l, c) == [l EXCEPT ![c.param] = Applied(c.param, c.value)]

Zeros == [p \in Params |-> 0]

Init ==
    /\ live = Zeros /\ mirror = Zeros /\ asked = Zeros /\ seen = Zeros
    /\ queue = <<>> /\ scratch = <<>> /\ pending = FALSE
    /\ holder = "free" /\ drain = "off"
    /\ pc = [c \in Callers |-> "idle"]
    /\ dsp = "off" /\ ctl = "idle"

-------------------------------------------------------------------------------
(* post(): mirror, push and flag under cmdMutex_, then a try of the lock.  *)

Mirrored(p, v) == IF p \in Verbatim THEN [mirror EXCEPT ![p] = v] ELSE mirror

PostAtFront(c, p, v) ==
    /\ pc[c] = "idle" /\ Len(queue) < MaxQueue
    /\ mirror' = Mirrored(p, v)
    /\ queue' = <<[param |-> p, value |-> v]>> \o queue
    /\ pending' = TRUE
    /\ asked' = [asked EXCEPT ![p] = v]
    /\ pc' = [pc EXCEPT ![c] = "try"]
    /\ UNCHANGED <<live, scratch, holder, drain, dsp, ctl, seen>>

PostLeavesFlag(c, p, v) ==
    /\ pc[c] = "idle" /\ Len(queue) < MaxQueue
    /\ mirror' = Mirrored(p, v)
    /\ queue' = Append(queue, [param |-> p, value |-> v])
    /\ asked' = [asked EXCEPT ![p] = v]
    /\ pc' = [pc EXCEPT ![c] = "try"]
    /\ UNCHANGED <<live, scratch, pending, holder, drain, dsp, ctl, seen>>

PostAppliesAtOnce(c, p, v) ==
    /\ pc[c] = "idle"
    /\ live' = [live EXCEPT ![p] = Applied(p, v)] /\ mirror' = live'
    /\ asked' = [asked EXCEPT ![p] = v]
    /\ UNCHANGED <<queue, scratch, pending, holder, drain, pc, dsp, ctl, seen>>

Post(c, p, v) ==
    /\ pc[c] = "idle" /\ Len(queue) < MaxQueue
    /\ mirror' = Mirrored(p, v)
    /\ queue' = Append(queue, [param |-> p, value |-> v])
    /\ pending' = TRUE
    /\ asked' = [asked EXCEPT ![p] = v]
    /\ pc' = [pc EXCEPT ![c] = "try"]
    /\ UNCHANGED <<live, scratch, holder, drain, dsp, ctl, seen>>

TryLock(c) ==
    /\ pc[c] = "try"
    /\ IF holder = "free"
       THEN holder' = c /\ drain' = "look" /\ pc' = [pc EXCEPT ![c] = "drain"]
       ELSE pc' = [pc EXCEPT ![c] = "idle"] /\ UNCHANGED <<holder, drain>>
    /\ UNCHANGED <<core, dsp, ctl, seen, asked>>

PostReturns(c) ==
    /\ pc[c] = "drain" /\ drain = "off"
    /\ holder' = "free" /\ pc' = [pc EXCEPT ![c] = "idle"]
    /\ UNCHANGED <<core, drain, dsp, ctl, seen, asked>>

(* drainCommandsLocked(), on whichever thread holds audioMutex_.           *)
DrainLookPublishesEarly ==
    /\ drain = "look"
    /\ mirror' = live
    /\ IF queue = <<>>
       THEN pending' = FALSE /\ drain' = "off" /\ UNCHANGED <<queue, scratch>>
       ELSE scratch' = queue /\ queue' = <<>> /\ drain' = "run" /\ UNCHANGED pending
    /\ UNCHANGED <<live, holder, pc, dsp, ctl, seen, asked>>

DrainLookNeverPublishes ==
    /\ drain = "look"
    /\ IF queue = <<>>
       THEN pending' = FALSE /\ drain' = "off" /\ UNCHANGED <<queue, scratch>>
       ELSE scratch' = queue /\ queue' = <<>> /\ drain' = "run" /\ UNCHANGED pending
    /\ UNCHANGED <<live, mirror, holder, pc, dsp, ctl, seen, asked>>

DrainLook ==
    /\ drain = "look"
    /\ IF queue = <<>>
       THEN pending' = FALSE /\ mirror' = live /\ drain' = "off" /\ UNCHANGED <<queue, scratch>>
       ELSE scratch' = queue /\ queue' = <<>> /\ drain' = "run" /\ UNCHANGED <<mirror, pending>>
    /\ UNCHANGED <<live, holder, pc, dsp, ctl, seen, asked>>

DrainRun ==
    /\ drain = "run"
    /\ IF scratch = <<>>
       THEN drain' = "look" /\ UNCHANGED <<live, scratch>>
       ELSE live' = Run(live, Head(scratch)) /\ scratch' = Tail(scratch) /\ UNCHANGED drain
    /\ UNCHANGED <<mirror, queue, pending, holder, pc, dsp, ctl, seen, asked>>

Drain == DrainLook \/ DrainRun

-------------------------------------------------------------------------------
(* The DSP thread: processAudioBlock() holds the lock for a whole block and*)
(* drains at its top if anything is pending.                               *)

BlockBegin ==
    /\ dsp = "idle" /\ holder = "free" /\ ctl # "rateJoin"
    /\ holder' = "dsp"
    /\ IF pending THEN drain' = "look" /\ dsp' = "drain" ELSE dsp' = "top" /\ UNCHANGED drain
    /\ UNCHANGED <<core, pc, ctl, seen, asked>>

BlockDrained ==
    /\ dsp = "drain" /\ drain = "off"
    /\ dsp' = "top"
    /\ UNCHANGED <<core, holder, drain, pc, ctl, seen, asked>>

BlockReadsParams ==
    /\ dsp = "top"
    /\ seen' = live /\ dsp' = "block"
    /\ UNCHANGED <<core, holder, drain, pc, ctl, asked>>

BlockEnd ==
    /\ dsp = "block"
    /\ holder' = "free" /\ dsp' = "idle" /\ seen' = Zeros
    /\ UNCHANGED <<core, drain, pc, ctl, asked>>

Dsp == BlockDrained \/ BlockReadsParams \/ BlockEnd

-------------------------------------------------------------------------------
(* Control calls under controlMutex_: start() drains before it resets the  *)
(* chain, stop() joins the DSP thread, and setInputRateHz() joins it,      *)
(* drains, rebuilds the chain, publishes the mirrors - under audioMutex_   *)
(* alone - and respawns it.  A DSP thread told to leave begins no block: a *)
(* last one, past the loop test already, is one that began before the call.*)

ControlCall ==
    /\ ctl = "idle"
    /\ \/ dsp = "off" /\ ctl' = "start"
       \/ ctl' = "rateJoin"
    /\ UNCHANGED <<core, holder, drain, pc, dsp, seen, asked>>

StopJoins ==
    /\ ctl = "idle" /\ dsp = "idle"
    /\ dsp' = "off"
    /\ UNCHANGED <<core, holder, drain, pc, ctl, seen, asked>>

RateJoins ==
    /\ ctl = "rateJoin" /\ dsp \in {"off", "idle"}
    /\ ctl' = "rate" /\ dsp' = IF dsp = "off" THEN "off" ELSE "joined"
    /\ UNCHANGED <<core, holder, drain, pc, seen, asked>>

ControlLocks ==
    /\ ctl \in {"start", "rate"} /\ holder = "free"
    /\ holder' = "control" /\ drain' = "look"
    /\ ctl' = IF ctl = "start" THEN "startDrain" ELSE "rateDrain"
    /\ UNCHANGED <<core, pc, dsp, seen, asked>>

StartReturns ==
    /\ ctl = "startDrain" /\ drain = "off"
    /\ holder' = "free" /\ ctl' = "idle" /\ dsp' = "idle"
    /\ UNCHANGED <<core, drain, pc, seen, asked>>

(* The rebuild keeps every live value; the mirrors then follow it.         *)
RateRebuilds ==
    /\ ctl = "rateDrain" /\ drain = "off"
    /\ ctl' = "rebuilt"
    /\ UNCHANGED <<core, holder, drain, pc, dsp, seen, asked>>

RatePublishes ==
    /\ ctl = "rebuilt"
    /\ mirror' = live
    /\ holder' = "free" /\ ctl' = "idle" /\ dsp' = IF dsp = "joined" THEN "idle" ELSE dsp
    /\ UNCHANGED <<live, queue, scratch, pending, drain, pc, seen, asked>>

Control == StartReturns \/ RateJoins \/ RateRebuilds \/ RatePublishes

Next ==
    \/ \E c \in Callers :
        \/ \E p \in Params, v \in Values : Post(c, p, v)
        \/ TryLock(c) \/ PostReturns(c)
    \/ Drain \/ BlockBegin \/ Dsp
    \/ ControlCall \/ StopJoins \/ ControlLocks \/ Control

(* Threads in the middle of something are scheduled; the DSP thread, whose *)
(* only competitors for the lock are callers and control calls that come   *)
(* and go, gets it in the end.                                             *)
Fairness ==
    /\ \A c \in Callers : WF_vars(TryLock(c)) /\ WF_vars(PostReturns(c))
    /\ WF_vars(Drain) /\ WF_vars(Dsp) /\ SF_vars(BlockBegin)
    /\ SF_vars(ControlLocks) /\ WF_vars(Control)

Spec == Init /\ [][Next]_vars /\ Fairness

-------------------------------------------------------------------------------
Commands == [param : Params, value : Values]

(* Types, and who may be where: only the lock holder drains or blocks.     *)
TypeOK ==
    /\ live \in [Params -> Values] /\ mirror \in [Params -> Values]
    /\ \A p \in Params \ Verbatim : live[p] <= Top
    /\ asked \in [Params -> Values] /\ seen \in [Params -> Values]
    /\ queue \in Seq(Commands) /\ scratch \in Seq(Commands) /\ pending \in BOOLEAN
    /\ holder \in Callers \cup {"free", "dsp", "control"} /\ drain \in {"off", "look", "run"}
    /\ pc \in [Callers -> {"idle", "try", "drain"}]
    /\ dsp \in {"off", "joined", "idle", "drain", "top", "block"}
    /\ ctl \in {"idle", "start", "startDrain", "rateJoin", "rate", "rateDrain", "rebuilt"}

(* Exactly once and in order: a parameter no command waits for is at the   *)
(* value last asked of it, and any other comes to it with the last of its  *)
(* commands to wait.                                                       *)
InOrder(waiting, l, a) ==
    \A p \in Params :
        \/ /\ \A i \in 1..Len(waiting) : waiting[i].param # p
           /\ l[p] = Applied(p, a[p])
        \/ \E i \in 1..Len(waiting) :
              /\ waiting[i] = [param |-> p, value |-> a[p]]
              /\ \A j \in i+1..Len(waiting) : waiting[j].param # p
PostsTakeEffectInOrder == InOrder(scratch \o queue, live, asked)

(* A parameter set never lands halfway through a block (pipeline.cpp:1872).*)
NoTornBlock == dsp = "block" => live = seen

(* A block may skip the queue on the flag alone only because a queued      *)
(* command always has the flag up.                                         *)
FlagCoversQueue == queue # <<>> \/ scratch # <<>> => pending

(* With nothing left to run, every getter shows what is actually in use,   *)
(* clamped parameters included.                                            *)
QuietGettersShowLive == queue = <<>> /\ scratch = <<>> /\ drain = "off" => mirror = live

(* pipeline.hpp:119: a getter read straight after a setter returns the     *)
(* value just set, for every parameter whose mirror is verbatim.           *)
ReadYourWrites == \A p \in Verbatim : mirror[p] = asked[p]

(* Once right, a getter is made wrong only by the rate switch's own        *)
(* publish; posts and drains, on whatever thread, never do it.             *)
OnlyRateSwitchForgets == [][ReadYourWrites => ReadYourWrites' \/ ctl = "rebuilt"]_vars

(* drainCommandsLocked() loops until it finds the queue empty, so callers  *)
(* that always post before it looks again keep it looping for good.        *)
PostsOutrunDrain == <>[](drain # "off")

(* While the DSP thread runs, a value posted reaches the chain, unless     *)
(* another replaces it first.                                              *)
PostsReachTheChain ==
    \A p \in Params, v \in Values :
        (dsp # "off" /\ asked[p] = v) ~> (live[p] = Applied(p, v) \/ asked[p] # v \/ dsp = "off")

(* A control call waits only as long as the others hold the lock, and they *)
(* give it up unless posts outrun a drain for ever.                        *)
ControlReturns == PostsOutrunDrain \/ ((ctl # "idle") ~> (ctl = "idle"))
===============================================================================
