------------------------------ MODULE PatchRunner ------------------------------
(***************************************************************************)
(* core/patch_runner.hpp, class Runner: how a set of decoders goes from    *)
(* the GUI thread to the DSP thread and back to be destroyed, and how      *)
(* flushNow() shuts the DSP thread out without a lock on the audio path.   *)
(*                                                                         *)
(* One GUI thread, one DSP thread; which threads they are, and how long the*)
(* runner lives, is PatchRadio's.  Each store and load of the two          *)
(* handshake flags is a step, and so is each section under pendingMutex_.  *)
(* A set is an identity, in use again once the set is destroyed.           *)
(***************************************************************************)
EXTENDS Naturals

CONSTANTS Sets, NoSet

ASSUME SetsAssumption == NoSet \notin Sets

VARIABLES
    pending, stopPending, hasPending, retired,  \* guarded by pendingMutex_ (but the flag)
    active,             \* active_: the DSP thread's, except while it is frozen out
    ring, reports,      \* the set whose audio the ring holds, whose squelch the slots report
    frozen, inDsp,      \* frozen_, inDsp_
    dpc, taken, stop,   \* the DSP thread, and adoptImpl()'s locals
    gpc, hand,          \* the GUI thread, and the sets its locals will destroy
    alive,              \* sets constructed and not destroyed
    dspDestroyed        \* history: a destructor ran on the DSP thread

shared == <<pending, stopPending, hasPending, retired>>
left == <<ring, reports>>
dsp == <<dpc, taken, stop>>
gui == <<gpc, hand>>
vars == <<shared, active, left, frozen, inDsp, dsp, gui, alive, dspDestroyed>>

Holding(s) == {s} \ {NoSet}

Init ==
    /\ pending = NoSet /\ stopPending = FALSE /\ hasPending = FALSE /\ retired = {}
    /\ active = NoSet /\ ring = NoSet /\ reports = NoSet /\ frozen = FALSE /\ inDsp = FALSE
    /\ dpc = "out" /\ taken = NoSet /\ stop = FALSE
    /\ gpc = "idle" /\ hand = {} /\ alive = {} /\ dspDestroyed = FALSE

-------------------------------------------------------------------------------
(* GUI thread.  What a call moved out of the runner is destroyed when the  *)
(* call's locals go, after its lock.  An operator whose name adds a mistake*)
(* to another's is that operator with the mistake seeded in it.            *)

PublishSilently(s) ==
    /\ gpc = "idle" /\ s \notin alive
    /\ hand' = Holding(pending) /\ pending' = s /\ stopPending' = FALSE
    /\ alive' = alive \cup {s} /\ gpc' = "destroy"
    /\ UNCHANGED <<hasPending, retired, active, left, frozen, inDsp, dsp, dspDestroyed>>

Publish(s) ==
    /\ gpc = "idle" /\ s \notin alive
    /\ hand' = Holding(pending) /\ pending' = s /\ stopPending' = FALSE /\ hasPending' = TRUE
    /\ alive' = alive \cup {s} /\ gpc' = "destroy"
    /\ UNCHANGED <<retired, active, left, frozen, inDsp, dsp, dspDestroyed>>

Clear ==
    /\ gpc = "idle"
    /\ hand' = Holding(pending) /\ pending' = NoSet
    /\ stopPending' = TRUE /\ hasPending' = TRUE /\ gpc' = "destroy"
    /\ UNCHANGED <<retired, active, left, frozen, inDsp, dsp, alive, dspDestroyed>>

Reap ==
    /\ gpc = "idle"
    /\ hand' = retired /\ retired' = {} /\ gpc' = "destroy"
    /\ UNCHANGED <<pending, stopPending, hasPending, active, left, frozen, inDsp, dsp,
                   alive, dspDestroyed>>

Destroy ==
    /\ gpc \in {"destroy", "flushDestroy"}
    /\ alive' = alive \ hand /\ hand' = {} /\ gpc' = "idle"
    /\ UNCHANGED <<shared, active, left, frozen, inDsp, dsp, dspDestroyed>>

FlushFreeze ==
    /\ gpc = "idle"
    /\ frozen' = TRUE /\ gpc' = "flushWait"
    /\ UNCHANGED <<shared, active, left, inDsp, dsp, hand, alive, dspDestroyed>>

FlushWait ==
    /\ gpc = "flushWait" /\ ~inDsp
    /\ gpc' = "flushActive"
    /\ UNCHANGED <<shared, active, left, frozen, inDsp, dsp, hand, alive, dspDestroyed>>

FlushActive ==
    /\ gpc = "flushActive"
    /\ hand' = Holding(active) /\ active' = NoSet /\ gpc' = "flushPending"
    /\ UNCHANGED <<shared, left, frozen, inDsp, dsp, alive, dspDestroyed>>

FlushPending ==
    /\ gpc = "flushPending"
    /\ hand' = hand \cup Holding(pending) \cup retired
    /\ pending' = NoSet /\ stopPending' = FALSE /\ hasPending' = FALSE /\ retired' = {}
    /\ ring' = NoSet /\ reports' = NoSet /\ gpc' = "flushThaw"
    /\ UNCHANGED <<active, frozen, inDsp, dsp, alive, dspDestroyed>>

FlushThaw ==
    /\ gpc = "flushThaw"
    /\ frozen' = FALSE /\ gpc' = "flushDestroy"
    /\ UNCHANGED <<shared, active, left, inDsp, dsp, hand, alive, dspDestroyed>>

GuiRuns == Destroy \/ FlushActive \/ FlushPending \/ FlushThaw
GuiCalls == (\E s \in Sets : Publish(s)) \/ Clear \/ Reap \/ FlushFreeze

-------------------------------------------------------------------------------
(* DSP thread: every entry point is a DspScope around its body.  process() *)
(* and adopt() look for a published set first, pullAudio() does not.       *)

EnterChecksFirst ==
    /\ dpc = "out" /\ ~frozen
    /\ dpc' = "marked"
    /\ UNCHANGED <<shared, active, left, frozen, inDsp, taken, stop, gui, alive, dspDestroyed>>

Enter ==
    /\ dpc = "out"
    /\ inDsp' = TRUE /\ dpc' = "marked"
    /\ UNCHANGED <<shared, active, left, frozen, taken, stop, gui, alive, dspDestroyed>>

(* The check of frozen_ that ends DspScope's constructor.                  *)
Checked(to) ==
    /\ dpc = "marked"
    /\ dpc' = to
    /\ UNCHANGED <<shared, active, left, frozen, inDsp, taken, stop, gui, alive, dspDestroyed>>

Refused == frozen /\ Checked("leave")
Process == ~frozen /\ Checked("look")
PullAudio == ~frozen /\ Checked("run")

Look ==
    /\ dpc = "look"
    /\ dpc' = IF hasPending THEN "lock" ELSE "run"
    /\ UNCHANGED <<shared, active, left, frozen, inDsp, taken, stop, gui, alive, dspDestroyed>>

Changing == pending # NoSet \/ stopPending

(* The old set goes back to the GUI thread under the lock already held.    *)
AdoptLock ==
    /\ dpc = "lock"
    /\ taken' = pending /\ pending' = NoSet /\ stop' = stopPending /\ stopPending' = FALSE
    /\ hasPending' = FALSE
    /\ retired' = retired \cup (IF Changing THEN Holding(active) ELSE {})
    /\ active' = (IF Changing THEN NoSet ELSE active)
    /\ dpc' = "install"
    /\ UNCHANGED <<left, frozen, inDsp, gui, alive, dspDestroyed>>

InstallKeepsReports ==
    /\ dpc = "install"
    /\ IF taken # NoSet \/ stop THEN ring' = NoSet ELSE UNCHANGED ring
    /\ IF taken = NoSet
       THEN UNCHANGED <<active, alive, dspDestroyed>>
       ELSE /\ active' = taken
            /\ alive' = alive \ Holding(active)
            /\ dspDestroyed' = (dspDestroyed \/ active # NoSet)
    /\ taken' = NoSet /\ stop' = FALSE /\ dpc' = "run"
    /\ UNCHANGED <<shared, reports, frozen, inDsp, gui>>

(* active_ = move(taken) would destroy, here, a set still in active_.      *)
Install ==
    /\ dpc = "install"
    /\ IF taken # NoSet \/ stop THEN ring' = NoSet /\ reports' = NoSet ELSE UNCHANGED left
    /\ IF taken = NoSet
       THEN UNCHANGED <<active, alive, dspDestroyed>>
       ELSE /\ active' = taken
            /\ alive' = alive \ Holding(active)
            /\ dspDestroyed' = (dspDestroyed \/ active # NoSet)
    /\ taken' = NoSet /\ stop' = FALSE /\ dpc' = "run"
    /\ UNCHANGED <<shared, frozen, inDsp, gui>>

(* The body: the active set's audio fills the ring, or is played from it,  *)
(* and its channels report their squelch.                                  *)
Body ==
    /\ dpc = "run"
    /\ ring' \in {ring} \cup Holding(active) /\ reports' \in {reports} \cup Holding(active)
    /\ dpc' = "leave"
    /\ UNCHANGED <<shared, active, frozen, inDsp, taken, stop, gui, alive, dspDestroyed>>

Leave ==
    /\ dpc = "leave"
    /\ inDsp' = FALSE /\ dpc' = "out"
    /\ UNCHANGED <<shared, active, left, frozen, taken, stop, gui, alive, dspDestroyed>>

DspStep == Enter \/ Refused \/ Process \/ PullAudio \/ Look \/ AdoptLock \/ Install \/ Body \/ Leave

Next == GuiCalls \/ GuiRuns \/ FlushWait \/ DspStep

-------------------------------------------------------------------------------
SetOrNone == Sets \cup {NoSet}
Inside == {"look", "lock", "install", "run"}
Flushing == {"flushActive", "flushPending", "flushThaw"}

(* Types, and what each flag stands for.                                   *)
TypeOK ==
    /\ pending \in SetOrNone /\ stopPending \in BOOLEAN /\ hasPending \in BOOLEAN
    /\ retired \subseteq Sets /\ active \in SetOrNone
    /\ ring \in SetOrNone /\ reports \in SetOrNone
    /\ dpc \in Inside \cup {"out", "marked", "leave"} /\ taken \in SetOrNone /\ stop \in BOOLEAN
    /\ gpc \in Flushing \cup {"idle", "destroy", "flushWait", "flushDestroy"}
    /\ hand \subseteq Sets /\ alive \subseteq Sets /\ dspDestroyed \in BOOLEAN
    /\ inDsp \in BOOLEAN /\ (inDsp <=> dpc # "out")
    /\ frozen \in BOOLEAN /\ (frozen <=> gpc \in Flushing \cup {"flushWait"})

(* flushNow() and a DSP entry point are never both inside: of the two      *)
(* flags, at least one side sees the other's.                              *)
FlushExcludesDsp == ~(gpc \in Flushing /\ dpc \in Inside)

(* A set is destroyed on the GUI thread only, and the DSP thread never     *)
(* runs one that has been destroyed.                                       *)
OnlyGuiDestroys == ~dspDestroyed /\ (active # NoSet => active \in alive)

(* Every live set is held in exactly one place, so each is destroyed once  *)
(* and none is lost.                                                       *)
Disjoint(A, B) == A \cap B = {}
Running == Holding(active) \cup Holding(taken)
HeldOnce ==
    /\ alive = Holding(pending) \cup Running \cup retired \cup hand
    /\ Disjoint(Holding(pending), Running \cup retired \cup hand)
    /\ Disjoint(Holding(active), Holding(taken))
    /\ Disjoint(Running, retired \cup hand)
    /\ Disjoint(retired, hand)

(* When flushNow() comes to destroy, it holds every set there is.          *)
FlushTakesAll == gpc = "flushDestroy" => alive = hand

(* A set's leftovers die with it: outside an adoption or a flush, the ring *)
(* holds audio, and squelchState() reports levels, of the running set only.*)
LeftoversAreOfActive ==
    dpc # "install" /\ gpc # "flushPending" => {ring, reports} \subseteq {NoSet, active}
===============================================================================
