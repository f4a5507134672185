--------------------------- MODULE PatchRunnerProofs ---------------------------
(***************************************************************************)
(* The hand-over of decoder sets, proved for any collection of sets: the   *)
(* flush and the DSP thread exclude each other, and a set is destroyed     *)
(* once, by the GUI thread, and never while it runs; in the receiver, and  *)
(* in a patch radio, of which a stop that gives up its reader leaves no    *)
(* set behind.                                                             *)
(***************************************************************************)
EXTENDS PatchRadio, TLAPS

(* What each place of the two threads still knows.  The DSP thread is at   *)
(* the lock, and past it, only for a change; a taken set meets an emptied  *)
(* active_; the GUI thread's locals are empty outside the calls that fill  *)
(* them; and a flush leaves behind an empty runner.                        *)
DspKnows ==
    /\ dpc = "lock" => hasPending
    /\ dpc = "install" => taken # NoSet \/ stop
    /\ taken # NoSet => dpc = "install" /\ active = NoSet
    /\ hasPending => Changing
GuiKnows ==
    /\ gpc \in {"idle", "flushWait", "flushActive"} => hand = {}
    /\ gpc = "flushPending" => active = NoSet
    /\ gpc \in {"flushThaw", "flushDestroy"} =>
        /\ pending = NoSet /\ ~hasPending /\ active = NoSet /\ taken = NoSet /\ retired = {}
IInv == TypeOK /\ FlushExcludesDsp /\ DspKnows /\ GuiKnows /\ HeldOnce /\ ~dspDestroyed
        /\ LeftoversAreOfActive

USE DEF Holding, SetOrNone, Inside, Flushing, Running, Disjoint, Changing

LEMMA InitIInv == Init => IInv
BY SetsAssumption DEF Init, IInv, TypeOK, FlushExcludesDsp, DspKnows, GuiKnows, HeldOnce,
    LeftoversAreOfActive

(* Types in two halves: the places with the flags that mark them, and the  *)
(* sets.                                                                   *)
Places ==
    /\ dpc \in Inside \cup {"out", "marked", "leave"}
    /\ gpc \in Flushing \cup {"idle", "destroy", "flushWait", "flushDestroy"}
    /\ inDsp \in BOOLEAN /\ (inDsp <=> dpc # "out")
    /\ frozen \in BOOLEAN /\ (frozen <=> gpc \in Flushing \cup {"flushWait"})
Contents ==
    /\ pending \in SetOrNone /\ stopPending \in BOOLEAN /\ hasPending \in BOOLEAN
    /\ retired \subseteq Sets /\ active \in SetOrNone
    /\ ring \in SetOrNone /\ reports \in SetOrNone
    /\ taken \in SetOrNone /\ stop \in BOOLEAN
    /\ hand \subseteq Sets /\ alive \subseteq Sets /\ dspDestroyed \in BOOLEAN

LEMMA TwoHalves == TypeOK <=> Places /\ Contents
BY DEF TypeOK, Places, Contents

LEMMA PlacesStep == Places /\ [Next]_vars => Places'
<1> SUFFICES ASSUME Places, [Next]_vars PROVE Places'
  OBVIOUS
<1> USE DEF Places, dsp, gui
<1>1. CASE \E s \in Sets : Publish(s) BY <1>1 DEF Publish
<1>2. CASE Clear BY <1>2 DEF Clear
<1>3. CASE Reap BY <1>3 DEF Reap
<1>4. CASE FlushFreeze BY <1>4 DEF FlushFreeze
<1>5. CASE Destroy BY <1>5 DEF Destroy
<1>6. CASE FlushActive BY <1>6 DEF FlushActive
<1>7. CASE FlushPending BY <1>7 DEF FlushPending
<1>8. CASE FlushThaw BY <1>8 DEF FlushThaw
<1>9. CASE FlushWait BY <1>9 DEF FlushWait
<1>10. CASE Enter BY <1>10 DEF Enter
<1>11. CASE Refused BY <1>11 DEF Refused, Checked
<1>12. CASE Process BY <1>12 DEF Process, Checked
<1>13. CASE PullAudio BY <1>13 DEF PullAudio, Checked
<1>14. CASE Look BY <1>14 DEF Look
<1>15. CASE AdoptLock BY <1>15 DEF AdoptLock
<1>16. CASE Install BY <1>16 DEF Install
<1>17. CASE Body BY <1>17 DEF Body
<1>18. CASE Leave BY <1>18 DEF Leave
<1>19. CASE UNCHANGED vars BY <1>19 DEF vars
<1> QED
  BY <1>1, <1>2, <1>3, <1>4, <1>5, <1>6, <1>7, <1>8, <1>9, <1>10, <1>11, <1>12, <1>13, <1>14,
     <1>15, <1>16, <1>17, <1>18, <1>19 DEF Next, GuiCalls, GuiRuns, DspStep

LEMMA ContentsStep == Contents /\ [Next]_vars => Contents'
<1> SUFFICES ASSUME Contents, [Next]_vars PROVE Contents'
  OBVIOUS
<1> USE DEF Contents, shared, left, dsp, gui
<1>1. CASE \E s \in Sets : Publish(s) BY <1>1 DEF Publish
<1>2. CASE Clear BY <1>2 DEF Clear
<1>3. CASE Reap BY <1>3 DEF Reap
<1>4. CASE FlushFreeze BY <1>4 DEF FlushFreeze
<1>5. CASE Destroy BY <1>5 DEF Destroy
<1>6. CASE FlushActive BY <1>6 DEF FlushActive
<1>7. CASE FlushPending BY <1>7 DEF FlushPending
<1>8. CASE FlushThaw BY <1>8 DEF FlushThaw
<1>9. CASE FlushWait BY <1>9 DEF FlushWait
<1>10. CASE Enter BY <1>10 DEF Enter
<1>11. CASE Refused BY <1>11 DEF Refused, Checked
<1>12. CASE Process BY <1>12 DEF Process, Checked
<1>13. CASE PullAudio BY <1>13 DEF PullAudio, Checked
<1>14. CASE Look BY <1>14 DEF Look
<1>15. CASE AdoptLock BY <1>15 DEF AdoptLock
<1>16. CASE Install BY <1>16 DEF Install
<1>17. CASE Body BY <1>17 DEF Body
<1>18. CASE Leave BY <1>18 DEF Leave
<1>19. CASE UNCHANGED vars BY <1>19 DEF vars
<1> QED
  BY <1>1, <1>2, <1>3, <1>4, <1>5, <1>6, <1>7, <1>8, <1>9, <1>10, <1>11, <1>12, <1>13, <1>14,
     <1>15, <1>16, <1>17, <1>18, <1>19 DEF Next, GuiCalls, GuiRuns, DspStep

(* The flags: each side raises its own before it looks at the other's.     *)
LEMMA ExclusionStep == Places /\ FlushExcludesDsp /\ [Next]_vars => FlushExcludesDsp'
<1> SUFFICES ASSUME Places, FlushExcludesDsp, [Next]_vars PROVE FlushExcludesDsp'
  OBVIOUS
<1> USE DEF Places, FlushExcludesDsp, dsp, gui
<1>1. CASE \E s \in Sets : Publish(s) BY <1>1 DEF Publish
<1>2. CASE Clear BY <1>2 DEF Clear
<1>3. CASE Reap BY <1>3 DEF Reap
<1>4. CASE FlushFreeze BY <1>4 DEF FlushFreeze
<1>5. CASE Destroy BY <1>5 DEF Destroy
<1>6. CASE FlushActive BY <1>6 DEF FlushActive
<1>7. CASE FlushPending BY <1>7 DEF FlushPending
<1>8. CASE FlushThaw BY <1>8 DEF FlushThaw
<1>9. CASE FlushWait BY <1>9 DEF FlushWait
<1>10. CASE Enter BY <1>10 DEF Enter
<1>11. CASE Refused BY <1>11 DEF Refused, Checked
<1>12. CASE Process BY <1>12 DEF Process, Checked
<1>13. CASE PullAudio BY <1>13 DEF PullAudio, Checked
<1>14. CASE Look BY <1>14 DEF Look
<1>15. CASE AdoptLock BY <1>15 DEF AdoptLock
<1>16. CASE Install BY <1>16 DEF Install
<1>17. CASE Body BY <1>17 DEF Body
<1>18. CASE Leave BY <1>18 DEF Leave
<1>19. CASE UNCHANGED vars BY <1>19 DEF vars
<1> QED
  BY <1>1, <1>2, <1>3, <1>4, <1>5, <1>6, <1>7, <1>8, <1>9, <1>10, <1>11, <1>12, <1>13, <1>14,
     <1>15, <1>16, <1>17, <1>18, <1>19 DEF Next, GuiCalls, GuiRuns, DspStep

LEMMA DspKnowsStep == IInv /\ [Next]_vars => DspKnows'
<1> SUFFICES ASSUME IInv, [Next]_vars PROVE DspKnows'
  OBVIOUS
<1> USE SetsAssumption DEF IInv, FlushExcludesDsp, DspKnows, shared, left, dsp, gui
<1>1. CASE \E s \in Sets : Publish(s) BY <1>1 DEF Publish
<1>2. CASE Clear BY <1>2 DEF Clear
<1>3. CASE Reap BY <1>3 DEF Reap
<1>4. CASE FlushFreeze BY <1>4 DEF FlushFreeze
<1>5. CASE Destroy BY <1>5 DEF Destroy
<1>6. CASE FlushActive BY <1>6 DEF FlushActive
<1>7. CASE FlushPending BY <1>7 DEF FlushPending
<1>8. CASE FlushThaw BY <1>8 DEF FlushThaw
<1>9. CASE FlushWait BY <1>9 DEF FlushWait
<1>10. CASE Enter BY <1>10 DEF Enter
<1>11. CASE Refused BY <1>11 DEF Refused, Checked
<1>12. CASE Process BY <1>12 DEF Process, Checked
<1>13. CASE PullAudio BY <1>13 DEF PullAudio, Checked
<1>14. CASE Look BY <1>14 DEF Look
<1>15. CASE AdoptLock BY <1>15 DEF AdoptLock
<1>16. CASE Install BY <1>16 DEF Install
<1>17. CASE Body BY <1>17 DEF Body
<1>18. CASE Leave BY <1>18 DEF Leave
<1>19. CASE UNCHANGED vars BY <1>19 DEF vars
<1> QED
  BY <1>1, <1>2, <1>3, <1>4, <1>5, <1>6, <1>7, <1>8, <1>9, <1>10, <1>11, <1>12, <1>13, <1>14,
     <1>15, <1>16, <1>17, <1>18, <1>19 DEF Next, GuiCalls, GuiRuns, DspStep

(* The part about who holds which set. *)
Holdings == GuiKnows /\ HeldOnce /\ ~dspDestroyed

LEMMA HoldingsStep == IInv /\ [Next]_vars => Holdings'
<1> SUFFICES ASSUME IInv, [Next]_vars PROVE Holdings'
  OBVIOUS
<1> USE SetsAssumption DEF IInv, Holdings, TypeOK, FlushExcludesDsp, DspKnows, GuiKnows, HeldOnce,
    shared, left, dsp, gui
<1>1. CASE \E s \in Sets : Publish(s) BY <1>1 DEF Publish
<1>2. CASE Clear BY <1>2 DEF Clear
<1>3. CASE Reap BY <1>3 DEF Reap
<1>4. CASE FlushFreeze BY <1>4 DEF FlushFreeze
<1>5. CASE Destroy BY <1>5 DEF Destroy
<1>6. CASE FlushActive BY <1>6 DEF FlushActive
<1>7. CASE FlushPending BY <1>7 DEF FlushPending
<1>8. CASE FlushThaw BY <1>8 DEF FlushThaw
<1>9. CASE FlushWait BY <1>9 DEF FlushWait
<1>10. CASE Enter BY <1>10 DEF Enter
<1>11. CASE Refused BY <1>11 DEF Refused, Checked
<1>12. CASE Process BY <1>12 DEF Process, Checked
<1>13. CASE PullAudio BY <1>13 DEF PullAudio, Checked
<1>14. CASE Look BY <1>14 DEF Look
<1>15. CASE AdoptLock BY <1>15 DEF AdoptLock
<1>16. CASE Install BY <1>16 DEF Install
<1>17. CASE Body BY <1>17 DEF Body
<1>18. CASE Leave BY <1>18 DEF Leave
<1>19. CASE UNCHANGED vars BY <1>19 DEF vars
<1> QED
  BY <1>1, <1>2, <1>3, <1>4, <1>5, <1>6, <1>7, <1>8, <1>9, <1>10, <1>11, <1>12, <1>13, <1>14,
     <1>15, <1>16, <1>17, <1>18, <1>19 DEF Next, GuiCalls, GuiRuns, DspStep

(* The part about what a set leaves behind it. *)
LEMMA LeftoversStep == IInv /\ [Next]_vars => LeftoversAreOfActive'
<1> SUFFICES ASSUME IInv, [Next]_vars PROVE LeftoversAreOfActive'
  OBVIOUS
<1> USE DEF IInv, TypeOK, FlushExcludesDsp, DspKnows, GuiKnows, LeftoversAreOfActive,
    shared, left, dsp, gui
<1>1. CASE GuiCalls BY <1>1 DEF GuiCalls, Publish, Clear, Reap, FlushFreeze
<1>2. CASE GuiRuns \/ FlushWait
  BY <1>2 DEF GuiRuns, Destroy, FlushActive, FlushPending, FlushThaw, FlushWait
<1>3. CASE Enter \/ Refused \/ Process \/ PullAudio \/ Look \/ Leave
  BY <1>3 DEF Enter, Refused, Process, PullAudio, Checked, Look, Leave
<1>4. CASE AdoptLock BY <1>4 DEF AdoptLock
<1>5. CASE Install BY <1>5 DEF Install
<1>6. CASE Body BY <1>6 DEF Body
<1>7. CASE UNCHANGED vars BY <1>7 DEF vars
<1> QED BY <1>1, <1>2, <1>3, <1>4, <1>5, <1>6, <1>7 DEF Next, DspStep

(* Every step of the runner's own keeps its invariant.                     *)
LEMMA IInvStep == IInv /\ [Next]_vars => IInv'
<1> SUFFICES ASSUME IInv, [Next]_vars PROVE IInv'
  OBVIOUS
<1>1. Places /\ Contents BY TwoHalves DEF IInv
<1>2. TypeOK'
  <2>1. Places' /\ Contents' BY <1>1, PlacesStep, ContentsStep
  <2> QED BY <2>1 DEF TypeOK, Places, Contents
<1>3. FlushExcludesDsp' BY <1>1, ExclusionStep DEF IInv
<1>4. DspKnows' BY DspKnowsStep
<1>5. Holdings' BY HoldingsStep
<1>6. LeftoversAreOfActive' BY LeftoversStep
<1> QED BY <1>2, <1>3, <1>4, <1>5, <1>6 DEF Holdings, IInv

(* What a host adds.  Its reader is outside the runner but for a block; its*)
(* stop begins with the GUI thread idle, and a flush that has ended has    *)
(* left nothing, to which nothing is added any more.                       *)
Hosting ==
    /\ host \in {"receiver", "radio"}
    /\ host = "receiver" => life = "on" /\ reader = "none"
    /\ host = "radio" /\ reader # "block" => dpc = "out"
    /\ life \in {"on", "waiting", "joined", "flushing", "released"}
    /\ life = "waiting" => gpc = "idle"
    /\ life = "flushing" /\ gpc \notin Flushing \cup {"flushWait", "flushDestroy"} =>
        gpc = "idle" /\ alive = {}
    /\ life = "released" => gpc = "idle" /\ alive = {}
HInv == IInv /\ Hosting

(* All but a joined stop are steps of the runner, or none of its own.      *)
LEMMA HostedStepIsRunners == [HostedNext]_hosted => [Next]_vars \/ StopJoins
<1> SUFFICES ASSUME [HostedNext]_hosted PROVE [Next]_vars \/ StopJoins
  OBVIOUS
<1>1. CASE Calls BY <1>1 DEF Calls, Next
<1>2. CASE Returns BY <1>2 DEF Returns, Next
<1>3. CASE Receiver BY <1>3 DEF Receiver, Next
<1>4. CASE ReaderTop \/ ReaderBack \/ ReaderEnds \/ ReadReturns
  BY <1>4 DEF ReaderTop, ReaderBack, ReaderEnds, ReadReturns, Reads
<1>5. CASE ReaderProcesses BY <1>5 DEF ReaderProcesses, Next, DspStep
<1>6. CASE ReaderProcessed BY <1>6 DEF ReaderProcessed, Next, DspStep
<1>7. CASE StopBegin BY <1>7 DEF StopBegin
<1>8. CASE Stops BY <1>8 DEF Stops, StopExpires, StopReleases, Next, GuiCalls
<1>9. CASE UNCHANGED hosted BY <1>9 DEF hosted
<1> QED
  BY <1>1, <1>2, <1>3, <1>4, <1>5, <1>6, <1>7, <1>8, <1>9 DEF HostedNext, Reader

LEMMA JoinKeepsIInv == HInv /\ StopJoins => IInv'
<1> SUFFICES ASSUME HInv, StopJoins PROVE IInv'
  OBVIOUS
<1>1. gpc = "idle" /\ hand = {} /\ dpc = "out" /\ taken = NoSet
  BY DEF HInv, Hosting, IInv, GuiKnows, DspKnows, StopJoins
<1>2. TypeOK'
  BY <1>1 DEF HInv, IInv, StopJoins, TypeOK, dsp
<1>3. HeldOnce'
  BY <1>1 DEF HInv, IInv, StopJoins, HeldOnce, dsp
<1>4. FlushExcludesDsp' /\ DspKnows' /\ GuiKnows' /\ LeftoversAreOfActive'
  BY <1>1 DEF StopJoins, FlushExcludesDsp, DspKnows, GuiKnows, LeftoversAreOfActive, dsp
<1> QED BY <1>2, <1>3, <1>4 DEF HInv, IInv, StopJoins

LEMMA HostingStep == HInv /\ [HostedNext]_hosted => Hosting'
<1> SUFFICES ASSUME HInv, [HostedNext]_hosted PROVE Hosting'
  OBVIOUS
<1> USE DEF HInv, Hosting, radio
<1>1. CASE Calls
  BY <1>1 DEF Calls, GuiCalls, Publish, Clear, Reap, FlushFreeze, dsp
<1>2. CASE Returns
  <2>1. CASE Destroy
    BY <2>1, <1>2, SetsAssumption DEF Returns, Destroy, dsp, IInv, GuiKnows, HeldOnce, TypeOK
  <2>2. CASE FlushActive \/ FlushPending \/ FlushThaw \/ FlushWait
    BY <2>2, <1>2 DEF Returns, FlushActive, FlushPending, FlushThaw, FlushWait, dsp, gui
  <2> QED BY <1>2, <2>1, <2>2 DEF Returns, GuiRuns
<1>3. CASE Receiver BY <1>3 DEF Receiver
<1>4. CASE ReaderTop \/ ReaderBack \/ ReaderEnds \/ ReadReturns
  BY <1>4 DEF ReaderTop, ReaderBack, ReaderEnds, ReadReturns, Reads, vars, dsp, gui
<1>5. CASE ReaderProcesses
  <2>1. CASE Install
    BY <2>1, <1>5, SetsAssumption DEF ReaderProcesses, Install, gui, IInv, HeldOnce, TypeOK, DspKnows
  <2>2. CASE Enter \/ Refused \/ Process \/ Look \/ AdoptLock \/ Body
    BY <2>2, <1>5 DEF ReaderProcesses, Enter, Refused, Process, Checked, Look, AdoptLock, Body, gui
  <2> QED BY <1>5, <2>1, <2>2 DEF ReaderProcesses
<1>6. CASE ReaderProcessed BY <1>6 DEF ReaderProcessed, Leave, gui
<1>7. CASE StopBegin BY <1>7 DEF StopBegin, vars, dsp, gui
<1>8. CASE StopJoins BY <1>8 DEF StopJoins, dsp
<1>9. CASE StopExpires BY <1>9 DEF StopExpires, FlushFreeze, dsp
<1>10. CASE StopReleases BY <1>10 DEF StopReleases, vars, dsp, gui
<1>11. CASE UNCHANGED hosted BY <1>11 DEF hosted, vars, dsp, gui
<1> QED
  BY <1>1, <1>2, <1>3, <1>4, <1>5, <1>6, <1>7, <1>8, <1>9, <1>10, <1>11
  DEF HostedNext, Reader, Stops

(* The inductive invariant of the hand-over and its host.                  *)
THEOREM RunnerInvariant == HostedSpec => []HInv
<1>1. HostedInit => HInv
  BY InitIInv DEF HostedInit, HInv, Hosting, Init
<1>2. HInv /\ [HostedNext]_hosted => HInv'
  BY HostedStepIsRunners, IInvStep, JoinKeepsIInv, HostingStep DEF HInv
<1> QED BY <1>1, <1>2, PTL DEF HostedSpec

(* Types, and what the two handshake flags stand for.                      *)
THEOREM RunnerTypes == HostedSpec => []TypeOK
<1>1. HInv => TypeOK BY DEF HInv, IInv
<1> QED BY <1>1, RunnerInvariant, PTL

(* flushNow() and a DSP entry point are never both inside.                 *)
THEOREM RunnerExclusion == HostedSpec => []FlushExcludesDsp
<1>1. HInv => FlushExcludesDsp BY DEF HInv, IInv
<1> QED BY <1>1, RunnerInvariant, PTL

(* Every live set is in exactly one place.                                 *)
THEOREM RunnerHeldOnce == HostedSpec => []HeldOnce
<1>1. HInv => HeldOnce BY DEF HInv, IInv
<1> QED BY <1>1, RunnerInvariant, PTL

(* No destructor runs on the DSP thread, and it runs no destroyed set.     *)
THEOREM RunnerOwnership == HostedSpec => []OnlyGuiDestroys
<1>1. HInv => OnlyGuiDestroys
  BY SetsAssumption DEF HInv, IInv, TypeOK, HeldOnce, OnlyGuiDestroys
<1> QED BY <1>1, RunnerInvariant, PTL

(* flushNow() destroys every set there is before it returns, and a reader  *)
(* let go with its runner never has one again.                             *)
THEOREM RunnerFlush == HostedSpec => []NothingLeftBehind
<1>1. HInv => FlushTakesAll
  BY SetsAssumption DEF HInv, IInv, TypeOK, HeldOnce, GuiKnows, FlushTakesAll
<1>2. HInv => NothingLeftBehind BY <1>1 DEF HInv, Hosting, NothingLeftBehind
<1> QED BY <1>2, RunnerInvariant, PTL

(* Audio and squelch reports never outlive the set they came from.         *)
THEOREM RunnerLeftovers == HostedSpec => []LeftoversAreOfActive
<1>1. HInv => LeftoversAreOfActive BY DEF HInv, IInv
<1> QED BY <1>1, RunnerInvariant, PTL
===============================================================================
