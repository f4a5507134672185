------------------------------ MODULE StallProofs ------------------------------
(***************************************************************************)
(* Proofs about the two threads that watch whether the GUI thread comes    *)
(* round its frame: Transmitter, for every value of its four waits, and    *)
(* HangWatchdog, for every poll, budget, cap and number of nested pauses.  *)
(*                                                                         *)
(* Transmitter.  The types carry the link between the thread and the flags:*)
(* a thread is there exactly while transmitting_ is up, and only a running *)
(* one leaves the radio on the air.  Ages bounds, for each step of the     *)
(* thread, how old the frame's stamp may have become when the thread is at *)
(* it.  Rounds and what goes with it do the same for the key: what of a    *)
(* frame's round has been done when the plug-in no longer asks, and how    *)
(* late that makes the moment the transmitter is let go.                   *)
(*                                                                         *)
(* HangWatchdog.  Places relates the counters to the pauses held and the   *)
(* thresholds to the phase.  Reporting says that a stall is on its way to  *)
(* a report: how old each clock must be by the time the GUI thread has     *)
(* owed a sign of life for as long as it has, wherever the poll is.        *)
(* Founded says the converse, that a poll which finds the clock over the   *)
(* budget with no hang to report will find an excuse before it reports.    *)
(***************************************************************************)
EXTENDS Transmitter, HangWatchdog, FiniteSets, FiniteSetTheorems, TLAPS

(* What a thread at this step may have missed of the frame loop.           *)
Ages ==
    /\ tx \in Running => txAge <= Cycle
    /\ tx = "block" => alive <= AliveWait + txAge
    /\ tx = "look" => alive <= AliveWait + Cycle + txAge
    /\ tx = "silence" => alive <= AliveWait + 2 * Cycle + txAge

(* A hand's key down during a transmission is remembered, and a block of   *)
(* the hand's input has one to thank.                                      *)
HandsAreSeen ==
    /\ transmitting /\ down \cap Hands # {} => handed
    /\ transmitting => source \/ handed

(* A cut latches the fault, and a latched fault withholds the plugin's key *)
(* in the frame that follows.                                              *)
CutIsLatched ==
    /\ cut => pluginFault
    /\ gui \in {"tick", "decide"} /\ "plugin" \in down => ~pluginFault

(* Types: keys.                                                            *)
KeysOK == down \subseteq Hands \cup {"plugin"} /\ left \in [Timed -> Nat]

(* Types: the rest.                                                        *)
StateOK ==
    /\ (tx = "off" <=> ~transmitting) /\ (onAir => tx \in Running \ {"exit"})
    /\ (keyed => transmitting)
    /\ transmitting \in BOOLEAN /\ run \in BOOLEAN /\ source \in BOOLEAN /\ keyed \in BOOLEAN
    /\ onAir \in BOOLEAN
    /\ sink \in {"none", "ok", "faulted"} /\ tx \in Running \cup {"off", "gone"}
FlagsOK ==
    /\ pluginFault \in BOOLEAN /\ faults \in BOOLEAN /\ armed \in BOOLEAN /\ ptt \in BOOLEAN
    /\ press \in BOOLEAN /\ hand \in BOOLEAN /\ handed \in BOOLEAN /\ cut \in BOOLEAN
TimesOK == txAge \in Nat /\ alive \in Nat /\ postAge \in Nat /\ unasked \in Nat
PlacesOK ==
    /\ gui \in {"web", "draw", "hand", "plugin", "tick", "decide", "tail", "after"}
    /\ page \in {"live", "hidden", "shut"} /\ post \in {"none", "assert", "release"}

LEMMA TypeSplit == TypeOK <=> KeysOK /\ StateOK /\ FlagsOK /\ TimesOK /\ PlacesOK
  BY DEF TypeOK, KeysOK, StateOK, FlagsOK, TimesOK, PlacesOK

LEMMA KeysStep == KeysOK /\ TransmitterAssumption /\ Next => KeysOK'
  <1> SUFFICES ASSUME KeysOK, TransmitterAssumption, Next PROVE KeysOK'
    OBVIOUS
  <1>1. ASSUME NEW d \in SUBSET (Hands \cup {"plugin"}), NEW l \in [Timed -> Nat], Keys(d, l)
        PROVE  KeysOK'
    BY <1>1 DEF Keys, KeysOK
  <1>2. ASSUME UNCHANGED keys
        PROVE  KeysOK'
    BY <1>2 DEF keys, KeysOK
  <1>3. RemoteHold \in Nat /\ LatchTimeout \in Nat
    BY TransmitterAssumption DEF TransmitterAssumption
  <1>4. \A k \in Timed, n \in Nat : [left EXCEPT ![k] = n] \in [Timed -> Nat]
    BY DEF KeysOK
  <1>5. CASE Passes
    BY <1>5 DEF Passes, KeysOK
  <1>6. ASSUME NEW p \in {"live", "hidden", "shut"}, NEW served \in BOOLEAN, FrameWeb(p, served)
        PROVE  KeysOK'
    <2>1. down \cup {"remote"} \subseteq Hands \cup {"plugin"} /\ "remote" \in Timed
      BY DEF KeysOK, Hands, Timed
    <2> QED BY <1>1, <1>3, <1>4, <1>6, <2>1 DEF FrameWeb, KeysOK
  <1>7. CASE HandKeys
    <2>1. {"ptt", "latch"} \subseteq Hands /\ "latch" \in Timed
      BY DEF Hands, Timed
    <2> QED BY <1>1, <1>3, <1>4, <1>7, <2>1 DEF HandKeys, KeysOK
  <1>8. ASSUME NEW e \in BOOLEAN, NEW g \in BOOLEAN, NEW w \in BOOLEAN, PluginKey(e, g, w)
        PROVE  KeysOK'
    <2>1. "plugin" \in Timed
      BY DEF Timed
    <2> QED BY <1>1, <1>3, <1>4, <1>8, <2>1 DEF PluginKey, KeysOK
  <1>9. CASE OpenRadio \/ CloseRadio \/ TickDeadlines \/ KeyRefused \/ LetGoSeen
    BY <1>1, <1>9 DEF OpenRadio, CloseRadio, TickDeadlines, KeyRefused, LetGoSeen, LetGo, KeysOK
  <1>10. CASE Arm \/ Disarm \/ (\E b \in BOOLEAN : PageDrawn(b)) \/ KeyDown \/ KeyUpBegins
              \/ NothingToDo \/ TailTimesOut \/ TailPlayed \/ AfterTick \/ ThreadBody \/ Outside
    BY <1>2, <1>10 DEF Arm, Disarm, PageDrawn, KeyDown, KeyUpBegins, NothingToDo, TailTimesOut,
       TailPlayed, AfterTick, ThreadBody, Look, Block, Silence, Exit, Outside, HandMoves, Browser,
       RadioFaults
  <1> QED BY <1>5, <1>6, <1>7, <1>8, <1>9, <1>10 DEF Next, Frame

LEMMA StateStep == StateOK /\ Next => StateOK'
  <1> SUFFICES ASSUME StateOK, Next PROVE StateOK'
    OBVIOUS
  <1> USE DEF StateOK, Running
  <1>1. ASSUME UNCHANGED radio, UNCHANGED tx
        PROVE  StateOK'
    BY <1>1 DEF radio
  <1>2. CASE Passes
    BY <1>1, <1>2 DEF Passes
  <1>3. CASE Outside
    <2>1. CASE RadioFaults
      BY <2>1 DEF RadioFaults, thread
    <2> QED BY <1>1, <1>3, <2>1 DEF Outside, HandMoves, Browser, thread
  <1>4. CASE Look
    BY <1>4 DEF Look, radio
  <1>13. CASE Silence
    BY <1>13 DEF Silence
  <1>14. CASE Exit
    BY <1>14 DEF Exit
  <1>5. CASE Block
    BY <1>5 DEF Block, FromPlugin
  <1>6. CASE OpenRadio \/ CloseRadio \/ Arm \/ Disarm \/ HandKeys \/ TickDeadlines
    BY <1>1, <1>6 DEF OpenRadio, CloseRadio, Arm, Disarm, HandKeys, TickDeadlines, radio, thread
  <1>7. CASE KeyDown
    BY <1>7 DEF KeyDown
  <1>8. CASE KeyRefused \/ NothingToDo \/ AfterTick
    BY <1>1, <1>8 DEF KeyRefused, NothingToDo, AfterTick, thread
  <1>9. CASE LetGoSeen \/ TailPlayed
    BY <1>9 DEF LetGoSeen, TailPlayed, Joined
  <1>11. CASE TailTimesOut
    BY <1>11 DEF TailTimesOut, thread
  <1>12. CASE KeyUpBegins
    BY <1>12 DEF KeyUpBegins, thread
  <1>10. ASSUME \/ \E p \in {"live", "hidden", "shut"}, v \in BOOLEAN : FrameWeb(p, v)
                \/ \E b \in BOOLEAN : PageDrawn(b)
                \/ \E e \in BOOLEAN, g \in BOOLEAN, w \in BOOLEAN : PluginKey(e, g, w)
         PROVE  StateOK'
    BY <1>1, <1>10 DEF FrameWeb, PageDrawn, PluginKey, thread
  <1> QED BY <1>2, <1>3, <1>4, <1>5, <1>6, <1>7, <1>8, <1>9, <1>10, <1>11, <1>12, <1>13,
          <1>14
       DEF Next, Frame, ThreadBody

LEMMA FlagsStep == FlagsOK /\ KeysOK /\ TimesOK /\ Next => FlagsOK'
  <1> SUFFICES ASSUME FlagsOK, Next PROVE FlagsOK'
    OBVIOUS
  <1> USE DEF FlagsOK
  <1>1. CASE Passes
    BY <1>1 DEF Passes, guard, frame
  <1>2. CASE Outside
    BY <1>2, Zenon DEF Outside, HandMoves, Browser, RadioFaults, guard, frame, env, seen
  <1>3. CASE ThreadBody
    BY <1>3 DEF ThreadBody, Look, Block, Silence, Exit, guard, frame, env, seen
  <1>4. CASE OpenRadio \/ CloseRadio \/ Arm \/ Disarm \/ HandKeys
    BY <1>4 DEF OpenRadio, CloseRadio, Arm, Disarm, HandKeys, guard, frame, env, seen
  <1>5. CASE TickDeadlines \/ KeyRefused \/ LetGoSeen
    BY <1>5 DEF TickDeadlines, KeyRefused, LetGoSeen, LetGo, CutPlugin, guard, frame, env, seen
  <1>9. CASE KeyDown
    BY <1>9 DEF KeyDown, guard, env
  <1>6. CASE KeyUpBegins \/ NothingToDo \/ TailTimesOut \/ TailPlayed \/ AfterTick
    BY <1>6, Zenon DEF KeyUpBegins, NothingToDo, TailTimesOut, TailPlayed, AfterTick, guard,
       frame, env, seen
  <1>7. ASSUME NEW p \in {"live", "hidden", "shut"}, NEW v \in BOOLEAN, FrameWeb(p, v)
        PROVE  FlagsOK'
    BY <1>7 DEF FrameWeb, guard
  <1>10. ASSUME NEW b \in BOOLEAN, PageDrawn(b)
        PROVE  FlagsOK'
    <2>1. ptt' \in BOOLEAN /\ press' \in BOOLEAN
      BY <1>10 DEF PageDrawn
    <2> QED BY <1>10, <2>1 DEF PageDrawn, guard, env, seen
  <1>8. ASSUME NEW e \in BOOLEAN, NEW g \in BOOLEAN, NEW w \in BOOLEAN, PluginKey(e, g, w)
        PROVE  FlagsOK'
    BY <1>8 DEF PluginKey, WindowHolds, env, seen
  <1> QED BY <1>1, <1>2, <1>3, <1>4, <1>5, <1>6, <1>7, <1>8, <1>9, <1>10 DEF Next, Frame

LEMMA TimesStep == TimesOK /\ TransmitterAssumption /\ Next => TimesOK'
  <1> SUFFICES ASSUME TimesOK, TransmitterAssumption, Next PROVE TimesOK'
    OBVIOUS
  <1>0. {AliveWait, LatchTimeout, RemoteHold, Cycle} \subseteq Nat
    BY TransmitterAssumption DEF TransmitterAssumption
  <1> USE DEF TimesOK
  <1>1. CASE Passes
    <2>1. \A n \in Nat, t \in Nat : Upto(n, t) \in Nat
      BY DEF Upto
    <2>2. AliveTop \in Nat /\ Overhang + 1 \in Nat /\ RemoteHold + 1 \in Nat
      BY <1>0 DEF AliveTop, Overhang
    <2>3. txAge' \in Nat /\ alive' \in Nat
      BY <1>1, <2>1, <2>2 DEF Passes
    <2>4. postAge' \in Nat
      BY <1>1, <2>1, <2>2 DEF Passes
    <2>5. unasked' \in Nat
      BY <1>1, <2>1, <2>2 DEF Passes
    <2> QED BY <2>3, <2>4, <2>5
  <1>2. ASSUME Watched
        PROVE  unasked' \in Nat
    BY <1>2 DEF Watched
  <1>3. ASSUME Outside, Watched
        PROVE  TimesOK'
    BY <1>2, <1>3 DEF Outside, HandMoves, Browser, RadioFaults, thread, env
  <1>4. ASSUME ThreadBody, Watched
        PROVE  TimesOK'
    BY <1>2, <1>4 DEF ThreadBody, Look, Block, Silence, Exit, env
  <1>5. ASSUME OpenRadio \/ CloseRadio \/ Arm \/ Disarm \/ HandKeys \/ TickDeadlines \/ KeyDown,
               Watched
        PROVE  TimesOK'
    BY <1>2, <1>5 DEF OpenRadio, CloseRadio, Arm, Disarm, HandKeys, TickDeadlines,
       KeyDown, thread, env
  <1>6. ASSUME KeyRefused \/ KeyUpBegins \/ NothingToDo \/ AfterTick \/ TailTimesOut, Watched
        PROVE  TimesOK'
    BY <1>2, <1>6 DEF KeyRefused, KeyUpBegins, NothingToDo, AfterTick, TailTimesOut,
       thread, env
  <1>7. ASSUME LetGoSeen \/ TailPlayed, Watched
        PROVE  TimesOK'
    BY <1>2, <1>7 DEF LetGoSeen, TailPlayed, Joined, env
  <1>8. ASSUME \/ \E p \in {"live", "hidden", "shut"}, v \in BOOLEAN : FrameWeb(p, v)
               \/ \E b \in BOOLEAN : PageDrawn(b)
               \/ \E e \in BOOLEAN, g \in BOOLEAN, w \in BOOLEAN : PluginKey(e, g, w),
               Watched
        PROVE  TimesOK'
    BY <1>2, <1>8 DEF FrameWeb, PageDrawn, PluginKey, thread, env
  <1> QED BY <1>1, <1>3, <1>4, <1>5, <1>6, <1>7, <1>8 DEF Next, Frame

LEMMA PlacesStep == PlacesOK /\ Next => PlacesOK'
  <1> SUFFICES ASSUME PlacesOK, Next PROVE PlacesOK'
    OBVIOUS
  <1> USE DEF PlacesOK
  <1>1. CASE Passes
    BY <1>1 DEF Passes, frame
  <1>2. CASE Outside
    BY <1>2 DEF Outside, HandMoves, Browser, RadioFaults, frame, env
  <1>3. CASE ThreadBody
    BY <1>3 DEF ThreadBody, Look, Block, Silence, Exit, frame, env
  <1>4. CASE OpenRadio \/ CloseRadio \/ Arm \/ Disarm \/ HandKeys \/ TickDeadlines
    BY <1>4 DEF OpenRadio, CloseRadio, Arm, Disarm, HandKeys, TickDeadlines, frame, env
  <1>5. CASE KeyDown \/ KeyRefused \/ KeyUpBegins \/ NothingToDo \/ LetGoSeen
    BY <1>5 DEF KeyDown, KeyRefused, KeyUpBegins, NothingToDo, LetGoSeen, env
  <1>6. CASE TailTimesOut \/ TailPlayed \/ AfterTick
    BY <1>6 DEF TailTimesOut, TailPlayed, AfterTick, frame, env
  <1>7. ASSUME \/ \E p \in {"live", "hidden", "shut"}, v \in BOOLEAN : FrameWeb(p, v)
               \/ \E b \in BOOLEAN : PageDrawn(b)
               \/ \E e \in BOOLEAN, g \in BOOLEAN, w \in BOOLEAN : PluginKey(e, g, w)
        PROVE  PlacesOK'
    BY <1>7 DEF FrameWeb, PageDrawn, PluginKey, env
  <1> QED BY <1>1, <1>2, <1>3, <1>4, <1>5, <1>6, <1>7 DEF Next, Frame

(* The types of the machine, for every value of the waits.                 *)
LEMMA TypeInit == Init => TypeOK
  <1> SUFFICES ASSUME Init PROVE TypeOK
    OBVIOUS
  <1>1. KeysOK
    BY DEF Init, KeysOK
  <1>2. StateOK
    BY DEF Init, StateOK, Running
  <1>3. FlagsOK /\ TimesOK /\ PlacesOK
    BY DEF Init, FlagsOK, TimesOK, PlacesOK
  <1> QED BY <1>1, <1>2, <1>3, TypeSplit

LEMMA TypeStep == TypeOK /\ TransmitterAssumption /\ [Next]_vars => TypeOK'
  <1> SUFFICES ASSUME TypeOK, TransmitterAssumption, [Next]_vars PROVE TypeOK'
    OBVIOUS
  <1>1. CASE Next
    <2>1. KeysOK' /\ StateOK' /\ FlagsOK' /\ TimesOK' /\ PlacesOK'
      BY <1>1, TypeSplit, KeysStep, StateStep, FlagsStep, TimesStep, PlacesStep
    <2> QED BY <2>1 DEF TypeOK, KeysOK, StateOK, FlagsOK, TimesOK, PlacesOK
  <1>2. CASE UNCHANGED vars
    BY <1>2 DEF vars, keys, radio, thread, guard, frame, env, seen, TypeOK
  <1> QED BY <1>1, <1>2

(* Types; and a thread to be joined exists exactly while transmitting_ is  *)
(* up, whatever fails and whoever stalls (transmitter.cpp:922).            *)
THEOREM TransmitterTypes == Spec => []TypeOK
  <1>1. TypeOK /\ [Next]_vars => TypeOK'
    BY TypeStep, TransmitterAssumption
  <1> QED BY TypeInit, <1>1, PTL DEF Spec

-------------------------------------------------------------------------------
(* The dead-man's handle.                                                  *)

LEMMA AgesStep == TypeOK /\ Ages /\ TransmitterAssumption /\ [Next]_vars => Ages'
  <1> SUFFICES ASSUME TypeOK, Ages, TransmitterAssumption, [Next]_vars PROVE Ages'
    OBVIOUS
  <1>0. /\ AliveWait \in Nat /\ Cycle \in Nat /\ alive \in Nat /\ txAge \in Nat
        /\ tx \in Running \cup {"off", "gone"}
    BY TransmitterAssumption DEF TransmitterAssumption, TypeOK
  <1> USE DEF Ages, Running
  <1>1. CASE Passes
    <2>1. alive' <= alive + 1
      BY <1>0, <1>1 DEF Passes, Upto, AliveTop
    <2>2. alive' \in Nat
      BY <1>0, <1>1 DEF Passes, Upto, AliveTop
    <2> QED BY <1>0, <1>1, <2>1, <2>2 DEF Passes
  <1>2. ASSUME UNCHANGED <<tx, txAge, alive>>
        PROVE  Ages'
    BY <1>2
  <1>3. CASE Look
    BY <1>0, <1>3 DEF Look
  <1>4. CASE Block
    BY <1>0, <1>4 DEF Block
  <1>5. CASE Silence \/ Exit
    BY <1>0, <1>5 DEF Silence, Exit
  <1>6. CASE KeyDown
    BY <1>0, <1>6 DEF KeyDown
  <1>7. CASE TickDeadlines
    BY <1>0, <1>7 DEF TickDeadlines, thread
  <1>8. CASE LetGoSeen \/ TailPlayed
    BY <1>0, <1>8 DEF LetGoSeen, TailPlayed, Joined
  <1>9. CASE OpenRadio \/ CloseRadio \/ Arm \/ Disarm \/ HandKeys \/ KeyRefused
             \/ KeyUpBegins \/ NothingToDo \/ TailTimesOut \/ AfterTick \/ Outside
    BY <1>2, <1>9 DEF OpenRadio, CloseRadio, Arm, Disarm, HandKeys, KeyRefused, KeyUpBegins,
       NothingToDo, TailTimesOut, AfterTick, Outside, HandMoves, Browser, RadioFaults, thread
  <1>10. ASSUME \/ \E p \in {"live", "hidden", "shut"}, v \in BOOLEAN : FrameWeb(p, v)
                \/ \E b \in BOOLEAN : PageDrawn(b)
                \/ \E e \in BOOLEAN, g \in BOOLEAN, w \in BOOLEAN : PluginKey(e, g, w)
         PROVE  Ages'
    BY <1>2, <1>10 DEF FrameWeb, PageDrawn, PluginKey, thread
  <1>11. CASE UNCHANGED vars
    BY <1>2, <1>11 DEF vars, thread
  <1> QED BY <1>1, <1>3, <1>4, <1>5, <1>6, <1>7, <1>8, <1>9, <1>10, <1>11
          DEF Next, Frame, ThreadBody

(* However the frame loop stalls, for every alive wait and every bound on  *)
(* the thread's steps, the radio is silent three steps after the wait.     *)
THEOREM FrozenWindow == Spec => []FrozenWindowUnkeys
  <1>1. Init => Ages
    BY DEF Init, Ages, Running
  <1>2. TypeOK /\ Ages /\ [Next]_vars => Ages'
    BY AgesStep, TransmitterAssumption
  <1>3. TypeOK /\ Ages => FrozenWindowUnkeys
    <2> SUFFICES ASSUME TypeOK, Ages, onAir PROVE alive <= AliveWait + 3 * Cycle
      BY DEF FrozenWindowUnkeys
    <2>1. AliveWait \in Nat /\ Cycle \in Nat /\ alive \in Nat /\ txAge \in Nat
      BY TransmitterAssumption DEF TransmitterAssumption, TypeOK
    <2>2. tx \in {"look", "block", "silence"}
      BY DEF TypeOK, Running
    <2> QED BY <2>1, <2>2 DEF Ages, Running
  <1> QED BY <1>1, <1>2, <1>3, TransmitterTypes, PTL DEF Spec

-------------------------------------------------------------------------------
(* Whose audio is on the air.                                              *)

LEMMA HandsStep == TypeOK /\ HandsAreSeen /\ [Next]_vars => HandsAreSeen'
  <1> SUFFICES ASSUME TypeOK, HandsAreSeen, [Next]_vars PROVE HandsAreSeen'
    OBVIOUS
  <1>0. /\ down \subseteq Hands \cup {"plugin"}
        /\ tx = "off" <=> ~transmitting
        /\ transmitting \in BOOLEAN /\ source \in BOOLEAN /\ handed \in BOOLEAN
    BY DEF TypeOK
  <1> USE DEF HandsAreSeen
  (* A step that brings no hand's key down and leaves the source alone.    *)
  <1>1. ASSUME down' \cap Hands \subseteq down \cap Hands,
               UNCHANGED <<transmitting, source, handed>>
        PROVE  HandsAreSeen'
    BY <1>1
  <1>2. ASSUME NEW p \in {"live", "hidden", "shut"}, NEW v \in BOOLEAN, FrameWeb(p, v)
        PROVE  HandsAreSeen'
    <2>1. CASE handed'
      BY <1>2, <2>1 DEF FrameWeb, radio
    <2>2. CASE ~handed'
      <3>1. down' \subseteq down /\ UNCHANGED <<transmitting, source, handed>>
        BY <1>2, <2>2 DEF FrameWeb, Keys, radio
      <3> QED BY <1>1, <3>1
    <2> QED BY <2>1, <2>2
  <1>3. CASE HandKeys
    BY <1>3 DEF HandKeys, radio
  <1>4. ASSUME NEW e \in BOOLEAN, NEW g \in BOOLEAN, NEW w \in BOOLEAN, PluginKey(e, g, w)
        PROVE  HandsAreSeen'
    <2>1. down' \subseteq down \cup {"plugin"} /\ "plugin" \notin Hands
      BY <1>4 DEF PluginKey, Keys, Hands
    <2> QED BY <1>1, <1>4, <2>1 DEF PluginKey, radio, seen
  <1>5. CASE KeyDown
    <2>1. down # {} /\ UNCHANGED down
      BY <1>5 DEF KeyDown, keys
    <2>2. down \cap Hands = {} => down = {"plugin"}
      BY <1>0, <2>1
    <2>3. source' = (down = {"plugin"}) /\ handed' = (down \cap Hands # {})
      BY <1>5 DEF KeyDown
    <2> QED BY <2>1, <2>2, <2>3
  <1>6. CASE Block
    <2>1. UNCHANGED <<down, transmitting, handed>> /\ transmitting
      BY <1>0, <1>6 DEF Block, keys, seen
    <2>2. source' \/ handed
      BY <1>6, <2>1 DEF Block, FromPlugin
    <2> QED BY <2>1, <2>2
  <1>7. CASE LetGoSeen \/ TailPlayed
    BY <1>7 DEF LetGoSeen, TailPlayed, Joined
  <1>8. CASE OpenRadio \/ CloseRadio \/ Arm \/ Disarm
    BY <1>1, <1>8 DEF OpenRadio, CloseRadio, Arm, Disarm, Keys, keys, radio, seen
  <1>9. CASE TickDeadlines \/ KeyRefused
    BY <1>1, <1>9 DEF TickDeadlines, KeyRefused, LetGo, Keys, radio
  <1>10. CASE KeyUpBegins \/ NothingToDo \/ TailTimesOut \/ AfterTick
    BY <1>1, <1>10 DEF KeyUpBegins, NothingToDo, TailTimesOut, AfterTick, keys, radio, seen
  <1>11. CASE Look \/ Silence \/ Exit \/ Outside \/ Passes
    BY <1>1, <1>11 DEF Look, Silence, Exit, Outside, HandMoves, Browser, RadioFaults, Passes, keys,
       radio, seen
  <1>12. ASSUME NEW b \in BOOLEAN, PageDrawn(b)
         PROVE  HandsAreSeen'
    BY <1>1, <1>12 DEF PageDrawn, keys, radio, seen
  <1>13. CASE UNCHANGED vars
    BY <1>1, <1>13 DEF vars, keys, radio, seen
  <1> QED BY <1>2, <1>3, <1>4, <1>5, <1>6, <1>7, <1>8, <1>9, <1>10, <1>11, <1>12, <1>13
          DEF Next, Frame, ThreadBody

(* Whoever lets go of the key, and when: no block of the microphone is     *)
(* made in a transmission no hand asked for (transmitter.cpp:824).         *)
THEOREM MicrophoneIsKeyed == Spec => MicNeverUnkeyed
  <1>1. Init => HandsAreSeen
    BY DEF Init, HandsAreSeen
  <1>2. TypeOK /\ HandsAreSeen /\ [Next]_vars => [Block /\ ~source' => handed]_vars
    <2> SUFFICES ASSUME TypeOK, HandsAreSeen, Block, ~source' PROVE handed
      OBVIOUS
    <2>1. transmitting
      BY DEF Block, TypeOK
    <2> QED BY <2>1 DEF HandsAreSeen, Block, FromPlugin
  <1> QED BY <1>1, <1>2, HandsStep, TransmitterTypes, PTL DEF Spec, MicNeverUnkeyed

-------------------------------------------------------------------------------
(* A plugin that was cut.                                                  *)

LEMMA CutStep == TypeOK /\ CutIsLatched /\ [Next]_vars => CutIsLatched'
  <1> SUFFICES ASSUME TypeOK, CutIsLatched, [Next]_vars PROVE CutIsLatched'
    OBVIOUS
  <1> USE DEF CutIsLatched
  (* A step that cuts nobody and leaves the plugin its key at most.        *)
  <1>1. ASSUME UNCHANGED <<cut, pluginFault>>, gui' \notin {"tick", "decide"}
        PROVE  CutIsLatched'
    BY <1>1
  <1>2. ASSUME UNCHANGED <<cut, pluginFault, gui, down>>
        PROVE  CutIsLatched'
    BY <1>2
  <1>3. CASE Arm
    BY <1>3 DEF Arm, frame
  <1>4. ASSUME NEW e \in BOOLEAN, NEW g \in BOOLEAN, NEW w \in BOOLEAN, PluginKey(e, g, w)
        PROVE  CutIsLatched'
    <2>1. UNCHANGED <<cut, pluginFault>>
      BY <1>4 DEF PluginKey, seen
    <2>2. "plugin" \in down' => ~pluginFault
      BY <1>4 DEF PluginKey, WindowHolds, Keys
    <2> QED BY <2>1, <2>2
  <1>5. CASE TickDeadlines
    <2>1. pluginFault' = (pluginFault \/ "plugin" \in Expired)
          /\ cut' = (cut \/ "plugin" \in Expired) /\ down' = down \ Expired
      BY <1>5 DEF TickDeadlines, CutPlugin, Keys
    <2>2. gui = "tick"
      BY <1>5 DEF TickDeadlines
    <2> QED BY <2>1, <2>2
  <1>6. CASE KeyRefused \/ LetGoSeen
    BY <1>6 DEF KeyRefused, LetGoSeen, LetGo, CutPlugin
  <1>7. CASE KeyDown \/ KeyUpBegins \/ NothingToDo \/ TailPlayed \/ AfterTick \/ HandKeys
    BY <1>1, <1>7 DEF KeyDown, KeyUpBegins, NothingToDo, TailPlayed, AfterTick, HandKeys, guard,
       seen
  <1>8. ASSUME \/ \E p \in {"live", "hidden", "shut"}, v \in BOOLEAN : FrameWeb(p, v)
               \/ \E b \in BOOLEAN : PageDrawn(b)
        PROVE  CutIsLatched'
    BY <1>1, <1>8 DEF FrameWeb, PageDrawn, guard, seen
  <1>9. CASE OpenRadio \/ CloseRadio \/ Disarm \/ TailTimesOut
    <2>1. gui' \notin {"tick", "decide"} /\ UNCHANGED <<cut, pluginFault>>
      BY <1>9 DEF OpenRadio, CloseRadio, Disarm, TailTimesOut, Pressable, guard, frame, seen
    <2> QED BY <1>1, <2>1
  <1>10. CASE ThreadBody
    BY <1>2, <1>10 DEF ThreadBody, Look, Block, Silence, Exit, keys, guard, frame, seen
  <1>11. CASE Outside \/ Passes
    BY <1>2, <1>11 DEF Outside, HandMoves, Browser, RadioFaults, Passes, keys, guard, frame, seen
  <1>12. CASE UNCHANGED vars
    BY <1>2, <1>12 DEF vars, keys, guard, frame, seen
  <1> QED BY <1>3, <1>4, <1>5, <1>6, <1>7, <1>8, <1>9, <1>10, <1>11, <1>12 DEF Next, Frame

(* A plugin tick() has cut keeps asking every frame, and is not heard until *)
(* the operator arms a new window (transmitter.cpp:359).                   *)
THEOREM CutPluginWaits == Spec => CutPluginStaysCut
  <1>1. Init => CutIsLatched
    BY DEF Init, CutIsLatched
  <1>2. TypeOK /\ CutIsLatched /\ [Next]_vars => [KeyDown /\ source' => ~cut]_vars
    BY DEF CutIsLatched, KeyDown
  <1> QED BY <1>1, <1>2, CutStep, TransmitterTypes, PTL DEF Spec, CutPluginStaysCut

-------------------------------------------------------------------------------
(* On the air with nobody asking.  A round is the longest two stamps may   *)
(* be apart with the thread still making blocks.  A key let go is, at      *)
(* worst, one the frame has just seen down: the tick of this frame keeps   *)
(* it, the tick of the next drops it, and then the thread lets go.         *)

Round == AliveWait + 2 * Cycle
StillSeen ==
    \/ gui = "hand" /\ page = "live" /\ ptt
    \/ gui \in {"plugin", "tick"} /\ "ptt" \in down
LettingGo == gui = "tail" \/ (gui = "decide" /\ down = {})
Rounds == IF LettingGo THEN 2 * Round ELSE IF StillSeen THEN 0 ELSE Round

(* What may have passed with nobody asking: the rounds behind, and the one *)
(* under way, which the stamp measures until the thread silences the radio.*)
Late(behind) ==
    onAir =>
        /\ tx \in {"look", "block"} => unasked <= behind + alive
        /\ tx = "silence" => unasked <= behind + Round + txAge
NobodyAsking == (Asking => unasked = 0) /\ Late(Rounds)

LEMMA AskingStep ==
    ASSUME TypeOK, TransmitterAssumption, NobodyAsking, [Next]_vars
    PROVE  Asking' => unasked' = 0
  <1> USE DEF NobodyAsking
  <1>1. CASE Watched
    BY <1>1 DEF Watched
  <1>2. CASE Passes
    <2> SUFFICES ASSUME Asking' PROVE Asking
      BY <1>2 DEF Passes
    <2>1. hand' = hand /\ down' = down
      BY <1>2 DEF Passes
    <2>2. ASSUME NEW k \in Timed, left'[k] > 0
          PROVE  left[k] > 0
      BY <1>2, <2>2 DEF Passes
    <2> QED BY <2>1, <2>2 DEF Asking
  <1>3. CASE UNCHANGED vars
    BY <1>3 DEF vars, keys, env, Asking
  <1> QED BY <1>1, <1>2, <1>3 DEF Next

LEMMA LateStep ==
    ASSUME TypeOK, TransmitterAssumption, Ages, NobodyAsking, [Next]_vars
    PROVE  Late(Rounds)'
  <1>0. /\ AliveWait \in Nat /\ Cycle \in Nat /\ alive \in Nat /\ txAge \in Nat
        /\ unasked \in Nat /\ tx \in Running \cup {"off", "gone"}
        /\ onAir => transmitting /\ tx # "exit"
    BY TransmitterAssumption DEF TransmitterAssumption, TypeOK, Running
  <1>1. /\ Round \in Nat /\ Rounds \in {0, Round, 2 * Round} /\ Rounds' \in {0, Round, 2 * Round}
        /\ Rounds \in Nat /\ Rounds' \in Nat /\ Round = AliveWait + 2 * Cycle
        /\ Round' = Round
    BY <1>0 DEF Round, Rounds
  <1>2. /\ tx \in Running => txAge <= Cycle
        /\ tx \in {"look", "block"} => alive <= Round
        /\ tx = "block" => alive <= AliveWait + Cycle
    BY <1>0, <1>1 DEF Ages, Running
  <1>3. /\ onAir /\ tx \in {"look", "block"} => unasked <= Rounds + alive
        /\ onAir /\ tx = "silence" => unasked <= Rounds + Round + txAge
    BY DEF NobodyAsking, Late
  <1>4. Late(Rounds)' <=>
          (onAir' => /\ tx' \in {"look", "block"} => unasked' <= Rounds' + alive'
                     /\ tx' = "silence" => unasked' <= Rounds' + Round + txAge')
    BY <1>1 DEF Late
  <1>5. Watched => unasked' = 0 \/ (unasked' = unasked /\ onAir /\ ~Asking /\ ~Asking')
    BY DEF Watched
  (* Nothing to show with the radio off, and little with somebody asking.  *)
  <1>6. ASSUME ~onAir' \/ unasked' = 0, alive' \in Nat, txAge' \in Nat
        PROVE  Late(Rounds)'
    BY <1>1, <1>4, <1>6
  (* A step of the frame that leaves the thread and the stamp alone.       *)
  <1>7. ASSUME Watched, UNCHANGED <<tx, txAge, alive, onAir>>,
               onAir /\ ~Asking => Rounds <= Rounds'
        PROVE  Late(Rounds)'
    BY <1>0, <1>1, <1>3, <1>4, <1>5, <1>7
  <1> USE DEF Rounds, LettingGo, StillSeen
  <1>8. ASSUME NEW p \in {"live", "hidden", "shut"}, NEW v \in BOOLEAN, FrameWeb(p, v), Watched
        PROVE  Late(Rounds)'
    BY <1>1, <1>7, <1>8 DEF FrameWeb, radio, thread
  <1>9. ASSUME OpenRadio \/ CloseRadio \/ Arm \/ Disarm, Watched
        PROVE  Late(Rounds)'
    <2>1. gui = "draw" /\ gui' = "draw" /\ UNCHANGED <<tx, txAge, alive, onAir>>
      BY <1>9 DEF OpenRadio, CloseRadio, Arm, Disarm, Pressable, frame, radio, thread
    <2> QED BY <1>1, <1>7, <1>9, <2>1
  <1>10. ASSUME NEW b \in BOOLEAN, PageDrawn(b), Watched
         PROVE  Late(Rounds)'
    <2>1. UNCHANGED <<tx, txAge, alive, onAir, page>> /\ gui = "draw" /\ gui' = "hand"
          /\ (ptt' => hand)
      BY <1>10 DEF PageDrawn, radio, thread
    <2>2. ~Asking => Rounds <= Rounds'
      BY <1>1, <2>1 DEF Asking
    <2> QED BY <1>7, <1>10, <2>1, <2>2
  <1>11. ASSUME HandKeys, Watched
         PROVE  Late(Rounds)'
    <2>1. /\ UNCHANGED <<tx, txAge, alive, onAir>> /\ gui = "hand" /\ gui' = "plugin"
          /\ "ptt" \in down' => page = "live" /\ ptt
      BY <1>11 DEF HandKeys, Keys, Asked, radio, thread
    <2>2. Rounds <= Rounds'
      BY <1>1, <2>1
    <2> QED BY <1>7, <1>11, <2>1, <2>2
  <1>12. ASSUME NEW e \in BOOLEAN, NEW g \in BOOLEAN, NEW w \in BOOLEAN, PluginKey(e, g, w), Watched
         PROVE  Late(Rounds)'
    <2>1. /\ UNCHANGED <<tx, txAge, alive, onAir>> /\ gui = "plugin" /\ gui' = "tick"
          /\ "ptt" \in down' <=> "ptt" \in down
      BY <1>12 DEF PluginKey, Keys, radio, thread
    <2>2. Rounds <= Rounds'
      BY <1>1, <2>1
    <2> QED BY <1>7, <1>12, <2>1, <2>2
  <1>13. ASSUME TickDeadlines, Watched
         PROVE  Late(Rounds)'
    <2>1. /\ gui = "tick" /\ gui' = "decide" /\ alive' = 0 /\ UNCHANGED <<tx, txAge, onAir>>
          /\ down' = down \ Expired
      BY <1>13 DEF TickDeadlines, Keys, radio, thread
    <2>2. CASE "ptt" \in down
      <3>1. "ptt" \in down'
        BY <2>1, <2>2 DEF Expired, Timed
      <3>2. Rounds = 0 /\ Rounds' = Round
        BY <1>1, <2>1, <2>2, <3>1
      <3> QED BY <1>0, <1>1, <1>2, <1>3, <1>4, <1>5, <1>13, <2>1, <3>2
    <2>3. CASE "ptt" \notin down /\ ~Asking
      <3>1. down \subseteq Timed
        BY <2>3 DEF TypeOK, Hands, Timed
      <3>2. \A k \in down : left[k] = 0
        BY <2>3, <3>1 DEF Asking, TypeOK
      <3>3. down' = {}
        BY <2>1, <3>1, <3>2 DEF Expired
      <3>4. Rounds = Round /\ Rounds' = 2 * Round
        BY <1>1, <2>1, <2>3, <3>3
      <3> QED BY <1>0, <1>1, <1>2, <1>3, <1>4, <1>5, <1>13, <2>1, <3>4
    <2>4. CASE Asking
      BY <1>0, <1>5, <1>6, <1>13, <2>1, <2>4
    <2> QED BY <2>2, <2>3, <2>4
  <1>14. ASSUME KeyDown, Watched
         PROVE  Late(Rounds)'
    <2>1. ~onAir /\ alive' = 0 /\ txAge' = 0
      BY <1>0, <1>14 DEF KeyDown
    <2> QED BY <1>5, <1>6, <1>14, <2>1
  <1>15. ASSUME KeyRefused \/ LetGoSeen \/ TailPlayed
         PROVE  Late(Rounds)'
    <2>1. ~onAir'
      BY <1>0, <1>15 DEF KeyRefused, LetGoSeen, TailPlayed, Joined, radio
    <2> QED BY <1>4, <2>1
  <1>16. ASSUME KeyUpBegins \/ NothingToDo \/ TailTimesOut \/ AfterTick, Watched
         PROVE  Late(Rounds)'
    <2>1. UNCHANGED <<tx, txAge, alive, onAir, down>>
      BY <1>16 DEF KeyUpBegins, NothingToDo, TailTimesOut, AfterTick, keys, radio, thread
    <2>2. CASE KeyUpBegins
      BY <1>1, <1>7, <1>16, <2>1, <2>2 DEF KeyUpBegins
    <2>3. CASE NothingToDo
      <3>1. onAir => down # {} /\ gui = "decide" /\ gui' = "after"
        BY <1>0, <2>3 DEF NothingToDo
      <3>2. onAir => Rounds <= Rounds'
        BY <1>1, <3>1
      <3> QED BY <1>7, <1>16, <2>1, <3>2
    <2>4. CASE TailTimesOut \/ AfterTick
      <3>1. UNCHANGED gui \/ (gui = "after" /\ gui' = "web")
        BY <2>4 DEF TailTimesOut, AfterTick, frame
      <3>2. gui = "tail" \/ gui = "after"
        BY <2>4 DEF TailTimesOut, AfterTick
      <3>3. Rounds <= Rounds'
        BY <1>1, <3>1, <3>2
      <3> QED BY <1>7, <1>16, <2>1, <3>3
    <2> QED BY <1>16, <2>2, <2>3, <2>4
  <1>17. ASSUME Outside, Watched
         PROVE  Late(Rounds)'
    <2>1. UNCHANGED <<tx, txAge, alive, onAir, down, gui, page, ptt>>
      BY <1>17 DEF Outside, HandMoves, Browser, RadioFaults, keys, radio, thread, frame
    <2> QED BY <1>1, <1>7, <1>17, <2>1
  <1>18. ASSUME ThreadBody, Watched
         PROVE  Late(Rounds)'
    <2>1. Rounds' = Rounds /\ alive' = alive /\ txAge' = 0
      BY <1>18 DEF ThreadBody, Look, Block, Silence, Exit, keys, frame
    <2>2. CASE Look
      BY <1>0, <1>1, <1>2, <1>3, <1>4, <1>5, <1>18, <2>1, <2>2 DEF Look, radio
    <2>3. CASE Block
      BY <1>0, <1>1, <1>2, <1>3, <1>4, <1>5, <1>18, <2>1, <2>3 DEF Block
    <2>4. CASE Silence \/ Exit
      BY <1>0, <1>4, <2>4 DEF Silence, Exit
    <2> QED BY <1>18, <2>2, <2>3, <2>4 DEF ThreadBody
  <1>19. ASSUME Passes
         PROVE  Late(Rounds)'
    <2>1. UNCHANGED <<tx, onAir, down, gui, page, ptt>>
      BY <1>19 DEF Passes, radio, frame
    <2>2. unasked' <= unasked + 1 /\ unasked' \in Nat
      BY <1>0, <1>19 DEF Passes, Upto, Overhang
    <2>3. tx \in {"look", "block"} => alive' = alive + 1
      BY <1>0, <1>1, <1>2, <1>19 DEF Passes, Upto, AliveTop
    <2>4. tx \in Running => txAge' = txAge + 1
      BY <1>19 DEF Passes
    <2> QED BY <1>0, <1>1, <1>3, <1>4, <2>1, <2>2, <2>3, <2>4 DEF Running
  <1>20. ASSUME UNCHANGED vars
         PROVE  Late(Rounds)'
    BY <1>1, <1>3, <1>4, <1>20 DEF vars, keys, radio, thread, frame
  <1> QED BY <1>8, <1>9, <1>10, <1>11, <1>12, <1>13, <1>14, <1>15, <1>16, <1>17, <1>18, <1>19, <1>20
          DEF Next, Frame

(* "Every one of them opens the key inside two seconds": for every length  *)
(* of the waits and of the thread's steps, and wherever the frame stalls,  *)
(* the radio is off within three rounds and a last step of the thread once *)
(* nobody asks for it.                                                     *)
THEOREM KeyIsLetGo == Spec => []OnlyWhileAsked
  <1>1. Init => Ages /\ NobodyAsking
    BY DEF Init, Ages, Running, NobodyAsking, Late, Asking
  <1>2. TypeOK /\ Ages /\ NobodyAsking /\ [Next]_vars => Ages' /\ NobodyAsking'
    BY AgesStep, AskingStep, LateStep, TransmitterAssumption DEF NobodyAsking
  <1>3. TypeOK /\ Ages /\ NobodyAsking => OnlyWhileAsked
    <2> SUFFICES ASSUME TypeOK, Ages, NobodyAsking, onAir PROVE unasked <= Overhang
      BY DEF OnlyWhileAsked
    <2>1. /\ AliveWait \in Nat /\ Cycle \in Nat /\ alive \in Nat /\ txAge \in Nat /\ unasked \in Nat
      BY TransmitterAssumption DEF TransmitterAssumption, TypeOK
    <2>2. tx \in {"look", "block", "silence"}
      BY DEF TypeOK, Running
    <2>3. Rounds <= 2 * Round /\ Rounds \in Nat /\ Round \in Nat
      BY <2>1 DEF Rounds, Round
    <2> QED BY <2>1, <2>2, <2>3 DEF Ages, Running, NobodyAsking, Late, Round, Overhang
  <1> QED BY <1>1, <1>2, <1>3, TransmitterTypes, PTL DEF Spec
-------------------------------------------------------------------------------
(* HangWatchdog.  The pauses held matter only by their number and by the   *)
(* number of those that are a person's; everything after the first part    *)
(* speaks of the two counters.                                             *)
Kinds == {"grace", "app", "user"}
PersonsIn(pauses) == {i \in DOMAIN pauses : pauses[i] = "user"}

WatchPlaces ==
    /\ gpc \in {"run", "count", "grace", "app", "userUp", "userDown", "resume", "rearm", "restart"}
    /\ phase \in {"starting", "frames", "teardown", "joining", "off"}
    /\ loop \in {"none", "modal", "handler", "person", "win32u"}
    /\ wpc \in {"wait", "user", "verdict", "paused", "since", "rearm", "beat", "excuse", "check",
                "gone"}
    /\ stop \in BOOLEAN /\ reported \in BOOLEAN
    /\ late \in BOOLEAN /\ dozed \in BOOLEAN /\ due \in BOOLEAN

WatchAges ==
    /\ {threshold, limit} \subseteq {Steady, Startup, Shutdown} /\ framesLeft \in 0..Frames
    /\ beat \in 0..Longest /\ since \in 0..Cap /\ own \in 0..Cap
    /\ pollAge \in 0..(Poll + Longest + 1) /\ pumped \in {None} \cup (0..Cap)
    /\ mute \in 0..Most(HungAfter, Longest)
    /\ idle \in 0..AwayTop /\ stuck \in 0..(Longest + Poll)

(* The counters count the pauses held, a person's from before it is taken  *)
(* to before it is released.                                               *)
Ahead == IF gpc = "userUp" THEN 1 ELSE IF gpc = "resume" THEN -1 ELSE 0
PausesCounted ==
    /\ held \in Seq(Kinds) /\ Len(held) <= MaxHeld
    /\ paused = Len(held) /\ user = Cardinality(PersonsIn(held)) + Ahead
    /\ gpc \in {"grace", "app", "userUp"} => Len(held) < MaxHeld
    /\ gpc \in {"userDown", "resume"} => held # <<>> /\ Top = "user"

(* Where the GUI thread is in each phase, and the budget of that phase.    *)
PhaseKnown ==
    /\ gpc \in {"count", "grace", "app", "userUp", "userDown", "resume", "rearm"}
           => phase = "frames" /\ loop = "none"
    /\ gpc = "restart" => phase = "teardown" /\ loop = "none"
    /\ gpc = "rearm" => paused = 0
    /\ gpc = "count" => beat = 0 /\ stuck = 0
    /\ phase # "frames" => paused = 0
    /\ phase = "starting" => loop = "none" /\ framesLeft = 0
    /\ loop \in {"modal", "handler"} => user = 0
    /\ loop = "person" => user > 0 /\ mute = 0
    /\ loop # "none" => phase \in {"frames", "teardown"}
    /\ stop <=> phase \in {"joining", "off"}
    /\ wpc = "gone" => stop
    /\ phase # "off" => threshold = Budget

Places == WatchPlaces /\ WatchAges /\ PausesCounted /\ PhaseKnown

LEMMA WatchConstants ==
    /\ Poll \in Nat \ {0} /\ Steady \in Nat /\ Startup \in Nat /\ Shutdown \in Nat
    /\ Frames \in Nat \ {0} /\ Cap \in Nat /\ HungAfter \in Nat /\ MaxHeld \in Nat \ {0}
    /\ Poll < Steady /\ Steady < Startup /\ Steady < Shutdown
    /\ Poll < Cap /\ Poll < HungAfter /\ None \notin Int
    /\ Rests \subseteq Nat \ {0}
  BY HangWatchdogAssumption

LEMMA LongestFacts ==
    /\ Longest \in Nat /\ Startup <= Longest /\ Shutdown <= Longest /\ Steady < Longest
    /\ Poll < Longest
    /\ Most(HungAfter, Longest) \in Nat
    /\ HungAfter <= Most(HungAfter, Longest) /\ Longest <= Most(HungAfter, Longest)
    /\ AwayTop \in Nat /\ Longest + HungAfter + 2 * Poll <= AwayTop
    /\ Longest + Cap + 2 * Poll <= AwayTop
  <1>1. /\ Longest \in Nat /\ Startup <= Longest /\ Shutdown <= Longest /\ Steady < Longest
        /\ Poll < Longest
    BY WatchConstants DEF Longest, Most
  <1>2. /\ Most(HungAfter, Longest) \in Nat
        /\ HungAfter <= Most(HungAfter, Longest) /\ Longest <= Most(HungAfter, Longest)
    BY <1>1, WatchConstants DEF Most
  <1>3. Most(HungAfter, Cap) \in Nat /\ HungAfter <= Most(HungAfter, Cap)
        /\ Cap <= Most(HungAfter, Cap)
    BY WatchConstants DEF Most
  <1>4. AwayTop = Longest + Most(HungAfter, Cap) + 2 * Poll
    BY DEF AwayTop
  <1> QED BY <1>1, <1>2, <1>3, <1>4, WatchConstants

LEMMA BudgetFacts ==
    /\ Budget \in {Steady, Startup, Shutdown} /\ Budget \in Nat
    /\ Poll < Budget /\ Steady <= Budget /\ Budget <= Longest
  BY WatchConstants, LongestFacts DEF Budget

(* Ages saturate.                                                          *)
LEMMA OlderFacts ==
    ASSUME NEW top \in Nat, NEW age \in 0..top, NEW n \in Nat
    PROVE  /\ Older(age, n, top) \in 0..top
           /\ Older(age, n, top) = IF age + n < top THEN age + n ELSE top
           /\ Older(age, n, top) <= age + n
  BY DEF Older, Least

LEMMA PersonsNumber ==
    ASSUME NEW pauses \in Seq(Kinds)
    PROVE  /\ IsFiniteSet(PersonsIn(pauses))
           /\ Cardinality(PersonsIn(pauses)) \in 0..Len(pauses)
           /\ Cardinality(PersonsIn(pauses)) = 0 <=> \A i \in DOMAIN pauses : pauses[i] # "user"
  <1>1. DOMAIN pauses = 1..Len(pauses) /\ Len(pauses) \in Nat
    OBVIOUS
  <1>2. IsFiniteSet(1..Len(pauses)) /\ Cardinality(1..Len(pauses)) = Len(pauses)
    BY <1>1, FS_Interval
  <1>3. PersonsIn(pauses) \subseteq 1..Len(pauses)
    BY <1>1 DEF PersonsIn
  <1>4. IsFiniteSet(PersonsIn(pauses)) /\ Cardinality(PersonsIn(pauses)) <= Len(pauses)
    BY <1>2, <1>3, FS_Subset
  <1>5. Cardinality(PersonsIn(pauses)) \in Nat
    BY <1>4, FS_CardinalityType
  <1>6. Cardinality(PersonsIn(pauses)) = 0 <=> PersonsIn(pauses) = {}
    BY <1>4, FS_EmptySet
  <1> QED BY <1>1, <1>4, <1>5, <1>6 DEF PersonsIn

LEMMA PersonsAppended ==
    ASSUME NEW pauses \in Seq(Kinds), NEW kind \in Kinds
    PROVE  Cardinality(PersonsIn(Append(pauses, kind)))
             = Cardinality(PersonsIn(pauses)) + (IF kind = "user" THEN 1 ELSE 0)
  <1> DEFINE more == Append(pauses, kind)
             n == Len(pauses) + 1
  <1>1. /\ Len(pauses) \in Nat /\ DOMAIN pauses = 1..Len(pauses) /\ DOMAIN more = 1..n
        /\ \A i \in 1..Len(pauses) : more[i] = pauses[i]
        /\ more[n] = kind
    OBVIOUS
  <1>2. IsFiniteSet(PersonsIn(pauses)) /\ Cardinality(PersonsIn(pauses)) \in Nat
    BY PersonsNumber, FS_CardinalityType
  <1> HIDE DEF more
  <1>3. CASE kind = "user"
    <2>1. PersonsIn(more) = PersonsIn(pauses) \cup {n} /\ n \notin PersonsIn(pauses)
      BY <1>1, <1>3 DEF PersonsIn
    <2> QED BY <1>2, <1>3, <2>1, FS_AddElement DEF more
  <1>4. CASE kind # "user"
    <2>1. PersonsIn(more) = PersonsIn(pauses)
      BY <1>1, <1>4 DEF PersonsIn
    <2> QED BY <1>2, <1>4, <2>1 DEF more
  <1> QED BY <1>3, <1>4

LEMMA PersonsPopped ==
    ASSUME NEW pauses \in Seq(Kinds), pauses # <<>>
    PROVE  LET rest == SubSeq(pauses, 1, Len(pauses) - 1)
           IN /\ rest \in Seq(Kinds) /\ Len(rest) = Len(pauses) - 1
              /\ Cardinality(PersonsIn(rest))
                   = Cardinality(PersonsIn(pauses))
                       - (IF pauses[Len(pauses)] = "user" THEN 1 ELSE 0)
  <1> DEFINE rest == SubSeq(pauses, 1, Len(pauses) - 1)
             n == Len(pauses)
  <1>1. n \in Nat \ {0} /\ DOMAIN pauses = 1..n /\ pauses[n] \in Kinds
    OBVIOUS
  <1>2. /\ rest \in Seq(Kinds) /\ Len(rest) = n - 1 /\ DOMAIN rest = 1..(n - 1)
        /\ \A i \in 1..(n - 1) : rest[i] = pauses[i]
    BY <1>1
  <1>3. /\ IsFiniteSet(PersonsIn(rest)) /\ Cardinality(PersonsIn(rest)) \in Nat
        /\ Cardinality(PersonsIn(pauses)) \in Nat
    BY <1>2, PersonsNumber, FS_CardinalityType
  <1> HIDE DEF rest, n
  <1>4. CASE pauses[n] = "user"
    <2>1. PersonsIn(pauses) = PersonsIn(rest) \cup {n} /\ n \notin PersonsIn(rest)
      BY <1>1, <1>2, <1>4 DEF PersonsIn
    <2>2. Cardinality(PersonsIn(pauses)) = Cardinality(PersonsIn(rest)) + 1
      BY <1>3, <2>1, FS_AddElement
    <2> QED BY <1>2, <1>3, <1>4, <2>2 DEF rest, n
  <1>5. CASE pauses[n] # "user"
    <2>1. PersonsIn(pauses) = PersonsIn(rest)
      BY <1>1, <1>2, <1>5 DEF PersonsIn
    <2> QED BY <1>2, <1>3, <1>5, <2>1 DEF rest, n
  <1> QED BY <1>4, <1>5

(* What the counters say of the pauses held.                               *)
PersonPauses == user > 0 \/ gpc = "resume"

Told ==
    /\ paused \in Nat /\ user \in Nat
    /\ (held = <<>> <=> paused = 0)
    /\ (UserHeld <=> PersonPauses)
    /\ held = <<"grace">> => user = 0 \/ gpc = "userUp"
    /\ paused = 0 => user = 0 \/ gpc = "userUp"
    /\ gpc \in {"userDown", "resume"} => paused > 0
    /\ gpc = "userDown" => user > 0
    /\ gpc = "userUp" => user > 0

LEMMA CountersTell ==
    ASSUME Places
    PROVE  Told
  <1> USE DEF Places, PausesCounted
  <1> DEFINE n == Cardinality(PersonsIn(held))
  <1>1. held \in Seq(Kinds) /\ Len(held) \in Nat /\ DOMAIN held = 1..Len(held)
    OBVIOUS
  <1>2. n \in Nat /\ n <= Len(held) /\ (n = 0 <=> \A i \in DOMAIN held : held[i] # "user")
    BY <1>1, PersonsNumber
  <1>3. gpc \in {"userDown", "resume"} => held # <<>> /\ n > 0
    BY <1>1, <1>2 DEF Top
  <1>4. held = <<"grace">> => n = 0
    BY <1>2
  <1> HIDE DEF n
  <1>5. user = n + Ahead /\ Ahead = IF gpc = "userUp" THEN 1 ELSE IF gpc = "resume" THEN -1 ELSE 0
    BY DEF n, Ahead
  <1>6. UserHeld <=> gpc = "userUp" \/ n > 0
    BY <1>2 DEF UserHeld
  <1>7. held = <<>> <=> Len(held) = 0
    BY <1>1
  <1> QED BY <1>1, <1>2, <1>3, <1>4, <1>5, <1>6, <1>7 DEF PersonPauses, Told

LEMMA PlacesAtStart == WatchInit => Places
  <1> SUFFICES ASSUME WatchInit PROVE Places
    OBVIOUS
  <1> USE DEF WatchInit
  <1>1. WatchPlaces
    BY DEF WatchPlaces
  <1>2. WatchAges
    BY WatchConstants, LongestFacts DEF WatchAges
  <1>3. PausesCounted
    <2>1. PersonsIn(held) = {}
      BY DEF PersonsIn
    <2>2. Cardinality(PersonsIn(held)) = 0
      BY <2>1, FS_EmptySet
    <2> QED BY <2>2, WatchConstants DEF PausesCounted, Ahead
  <1>4. PhaseKnown
    BY DEF PhaseKnown, Budget
  <1> QED BY <1>1, <1>2, <1>3, <1>4 DEF Places

LEMMA PlacesInGui ==
    ASSUME Places, Gui
    PROVE  WatchPlaces'
  <1> USE DEF WatchPlaces, ComesRound, Silent, Begins, watchdogs, poll, counts, budget
  <1>p. WatchPlaces /\ due' \in BOOLEAN
    BY DEF Places, Gui, Hang, Hung, Excused
  <1>1. CASE BeginStartup
    BY <1>p, <1>1 DEF BeginStartup
  <1>2. CASE Heartbeat
    BY <1>p, <1>2 DEF Heartbeat
  <1>3. CASE Count
    BY <1>p, <1>3 DEF Count
  <1>4. CASE Pause("grace")
    BY <1>p, <1>4 DEF Pause
  <1>5. CASE Pause("app")
    BY <1>p, <1>5 DEF Pause
  <1>6. CASE Paused
    BY <1>p, <1>6 DEF Paused
  <1>7. CASE PauseUser
    BY <1>p, <1>7 DEF PauseUser
  <1>8. CASE PausedUser
    BY <1>p, <1>8 DEF PausedUser
  <1>9. CASE ResumeUser
    BY <1>p, <1>9 DEF ResumeUser
  <1>10. CASE UserDown
    BY <1>p, <1>10 DEF UserDown
  <1>11. CASE Resume
    BY <1>p, <1>11 DEF Resume
  <1>12. CASE Resumed
    BY <1>p, <1>12 DEF Resumed
  <1>13. CASE \E l \in {"modal", "person", "win32u"} : Enter(l)
    BY <1>p, <1>13 DEF Enter
  <1>14. CASE Handler
    BY <1>p, <1>14 DEF Handler
  <1>15. CASE LeaveLoop
    BY <1>p, <1>15 DEF LeaveLoop
  <1>16. CASE BeginShutdown
    BY <1>p, <1>16 DEF BeginShutdown
  <1>17. CASE ShutdownBegun
    BY <1>p, <1>17 DEF ShutdownBegun
  <1>18. CASE Stop
    BY <1>p, <1>18 DEF Stop
  <1>19. CASE StopReturns
    BY <1>p, <1>19 DEF StopReturns
  <1> QED BY <1>1, <1>2, <1>3, <1>4, <1>5, <1>6, <1>7, <1>8, <1>9, <1>10, <1>11, <1>12, <1>13,
             <1>14, <1>15, <1>16, <1>17, <1>18, <1>19
             DEF Gui, GuiSteps

LEMMA AgesInGui ==
    ASSUME Places, Gui
    PROVE  WatchAges'
  <1> USE WatchConstants, LongestFacts
          DEF WatchAges, ComesRound, Silent, Begins, watchdogs, poll, counts, budget
  <1>p. WatchAges
    BY DEF Places
  <1>1. CASE BeginStartup
    BY <1>p, <1>1 DEF BeginStartup
  <1>2. CASE Heartbeat
    BY <1>p, <1>2 DEF Heartbeat
  <1>3. CASE Count
    BY <1>p, <1>3 DEF Count, Most
  <1>4. CASE Pause("grace")
    BY <1>p, <1>4 DEF Pause
  <1>5. CASE Pause("app")
    BY <1>p, <1>5 DEF Pause
  <1>6. CASE Paused
    BY <1>p, <1>6 DEF Paused
  <1>7. CASE PauseUser
    BY <1>p, <1>7 DEF PauseUser
  <1>8. CASE PausedUser
    BY <1>p, <1>8 DEF PausedUser
  <1>9. CASE ResumeUser
    BY <1>p, <1>9 DEF ResumeUser
  <1>10. CASE UserDown
    BY <1>p, <1>10 DEF UserDown
  <1>11. CASE Resume
    BY <1>p, <1>11 DEF Resume
  <1>12. CASE Resumed
    BY <1>p, <1>12 DEF Resumed
  <1>13. CASE \E l \in {"modal", "person", "win32u"} : Enter(l)
    BY <1>p, <1>13 DEF Enter
  <1>14. CASE Handler
    BY <1>p, <1>14 DEF Handler
  <1>15. CASE LeaveLoop
    BY <1>p, <1>15 DEF LeaveLoop
  <1>16. CASE BeginShutdown
    BY <1>p, <1>16 DEF BeginShutdown
  <1>17. CASE ShutdownBegun
    BY <1>p, <1>17 DEF ShutdownBegun
  <1>18. CASE Stop
    BY <1>p, <1>18 DEF Stop
  <1>19. CASE StopReturns
    BY <1>p, <1>19 DEF StopReturns
  <1> QED BY <1>1, <1>2, <1>3, <1>4, <1>5, <1>6, <1>7, <1>8, <1>9, <1>10, <1>11, <1>12, <1>13,
             <1>14, <1>15, <1>16, <1>17, <1>18, <1>19
             DEF Gui, GuiSteps


LEMMA CountsKept ==
    ASSUME Places, UNCHANGED <<held, paused>>, user' = user + Ahead' - Ahead,
           gpc' \in {"grace", "app", "userUp"} => Len(held) < MaxHeld,
           gpc' \in {"userDown", "resume"} => held # <<>> /\ Top = "user"
    PROVE  PausesCounted'
  <1>1. PausesCounted /\ paused \in Nat /\ user \in Nat /\ Ahead \in Int /\ Ahead' \in Int
    BY CountersTell DEF Told, Places, Ahead
  <1>2. Cardinality(PersonsIn(held)) \in Nat
    BY <1>1, PersonsNumber DEF PausesCounted
  <1>3. user' = Cardinality(PersonsIn(held)) + Ahead'
    BY <1>1, <1>2 DEF PausesCounted
  <1>4. Top' = Top
    BY DEF Top
  <1> QED BY <1>1, <1>3, <1>4 DEF PausesCounted

LEMMA CountsInGui ==
    ASSUME Places, Gui
    PROVE  PausesCounted'
  <1>p. PausesCounted /\ WatchPlaces /\ PhaseKnown /\ paused \in Nat /\ user \in Nat
    BY CountersTell DEF Told, Places
  <1>1. CASE Paused
    <2>1. held' = Append(held, gpc) /\ gpc \in Kinds /\ gpc # "user" /\ held \in Seq(Kinds)
      BY <1>p, <1>1 DEF Paused, Kinds, PausesCounted
    <2>2. Cardinality(PersonsIn(held')) = Cardinality(PersonsIn(held)) + 0
      BY <2>1, PersonsAppended
    <2>3. held' \in Seq(Kinds) /\ Len(held') = Len(held) + 1 /\ Len(held) \in Nat
      BY <2>1
    <2> QED BY <1>p, <1>1, <2>2, <2>3, WatchConstants DEF Paused, PausesCounted, Ahead
  <1>2. CASE PausedUser
    <2>1. held' = Append(held, "user") /\ "user" \in Kinds /\ held \in Seq(Kinds)
      BY <1>p, <1>2 DEF PausedUser, Kinds, PausesCounted
    <2>2. Cardinality(PersonsIn(held')) = Cardinality(PersonsIn(held)) + 1
      BY <2>1, PersonsAppended
    <2>3. held' \in Seq(Kinds) /\ Len(held') = Len(held) + 1 /\ Len(held) \in Nat
      BY <2>1
    <2> QED BY <1>p, <1>2, <2>2, <2>3, WatchConstants DEF PausedUser, PausesCounted, Ahead
  <1>3. CASE Resume
    <2>1. held' = SubSeq(held, 1, Len(held) - 1) /\ held \in Seq(Kinds) /\ held # <<>>
      BY <1>p, <1>3 DEF Resume, Popped, PausesCounted
    <2>2. /\ held' \in Seq(Kinds) /\ Len(held') = Len(held) - 1
          /\ Cardinality(PersonsIn(held'))
               = Cardinality(PersonsIn(held)) - (IF Top = "user" THEN 1 ELSE 0)
      BY <2>1, PersonsPopped DEF Top
    <2>3. Len(held) \in Nat /\ Cardinality(PersonsIn(held)) \in Nat
      BY <2>1, PersonsNumber
    <2>4. (gpc = "resume" /\ Top = "user") \/ (gpc = "run" /\ Top # "user")
      BY <1>p, <1>3 DEF Resume, InFrame, PausesCounted
    <2>5. paused' = Len(held') /\ user' = Cardinality(PersonsIn(held')) /\ gpc' \in {"run", "rearm"}
      BY <1>p, <1>3, <2>2, <2>3, <2>4 DEF Resume, PausesCounted, Ahead
    <2> QED BY <1>p, <2>2, <2>3, <2>5, WatchConstants DEF PausesCounted, Ahead
  <1>4. CASE \/ Pause("grace") \/ Pause("app") \/ PauseUser \/ ResumeUser \/ UserDown
    BY <1>p, <1>4, CountsKept
       DEF Pause, PauseUser, ResumeUser, UserDown, InFrame, Ahead, counts, PausesCounted
  <1>5. CASE \/ BeginStartup \/ Heartbeat \/ Count \/ Resumed
             \/ \E l \in {"modal", "person", "win32u"} : Enter(l)
             \/ Handler \/ LeaveLoop \/ BeginShutdown \/ ShutdownBegun \/ Stop \/ StopReturns
    <2>1. UNCHANGED <<held, counts>> /\ gpc' \in {"run", "count", "restart", gpc}
      BY <1>5 DEF BeginStartup, Heartbeat, Count, Resumed, Enter, Handler, LeaveLoop,
                  BeginShutdown, ShutdownBegun, Stop, StopReturns
    <2>2. \/ gpc' = gpc
          \/ Ahead = 0 /\ gpc' \notin {"grace", "app", "userUp", "userDown", "resume"}
      BY <1>5 DEF BeginStartup, Heartbeat, Count, Resumed, Enter, Handler, LeaveLoop,
                  BeginShutdown, ShutdownBegun, Stop, StopReturns, InFrame, Ahead
    <2> QED BY <1>p, <2>1, <2>2, CountsKept DEF counts, Ahead, PausesCounted
  <1> QED BY <1>1, <1>2, <1>3, <1>4, <1>5 DEF Gui, GuiSteps

LEMMA PhaseInGui ==
    ASSUME Places, Gui
    PROVE  PhaseKnown'
  <1> USE WatchConstants, CountersTell DEF Told, PhaseKnown, Budget, InFrame,
          ComesRound, Silent, Begins, watchdogs, poll, counts, budget
  <1>p. WatchPlaces /\ WatchAges /\ PhaseKnown
    BY DEF Places
  <1>1. CASE BeginStartup
    BY <1>p, <1>1 DEF BeginStartup
  <1>2. CASE Heartbeat
    BY <1>p, <1>2 DEF Heartbeat
  <1>3. CASE Count
    <2>1. framesLeft' = (IF framesLeft > 0 THEN framesLeft - 1 ELSE 0) /\ framesLeft \in Nat
      BY <1>p, <1>3 DEF Count, Most, WatchAges
    <2>2. /\ phase = "frames" /\ phase' = "frames"
          /\ threshold = IF framesLeft > 0 THEN Startup ELSE Steady
      BY <1>p, <1>3 DEF Count
    <2>3. threshold' = IF framesLeft' > 0 THEN Startup ELSE Steady
      BY <1>3, <2>1, <2>2 DEF Count
    <2> QED BY <1>p, <1>3, <2>1, <2>2, <2>3 DEF Count
  <1>4. CASE Pause("grace")
    BY <1>p, <1>4 DEF Pause
  <1>5. CASE Pause("app")
    BY <1>p, <1>5 DEF Pause
  <1>6. CASE Paused
    BY <1>p, <1>6 DEF Paused
  <1>7. CASE PauseUser
    BY <1>p, <1>7 DEF PauseUser
  <1>8. CASE PausedUser
    BY <1>p, <1>8 DEF PausedUser
  <1>9. CASE ResumeUser
    BY <1>p, <1>9 DEF ResumeUser
  <1>10. CASE UserDown
    BY <1>p, <1>10 DEF UserDown
  <1>11. CASE Resume
    BY <1>p, <1>11 DEF Resume
  <1>12. CASE Resumed
    BY <1>p, <1>12 DEF Resumed
  <1>13. CASE \E l \in {"modal", "person", "win32u"} : Enter(l)
    BY <1>p, <1>13 DEF Enter, PersonPauses
  <1>14. CASE Handler
    BY <1>p, <1>14 DEF Handler
  <1>15. CASE LeaveLoop
    BY <1>p, <1>15 DEF LeaveLoop
  <1>16. CASE BeginShutdown
    BY <1>p, <1>16 DEF BeginShutdown
  <1>17. CASE ShutdownBegun
    BY <1>p, <1>17 DEF ShutdownBegun
  <1>18. CASE Stop
    BY <1>p, <1>18 DEF Stop
  <1>19. CASE StopReturns
    BY <1>p, <1>19 DEF StopReturns
  <1> QED BY <1>1, <1>2, <1>3, <1>4, <1>5, <1>6, <1>7, <1>8, <1>9, <1>10, <1>11, <1>12, <1>13,
             <1>14, <1>15, <1>16, <1>17, <1>18, <1>19
             DEF Gui, GuiSteps

LEMMA AgesInWatchdog ==
    ASSUME Places, Watchdog
    PROVE  WatchPlaces' /\ WatchAges'
  <1> USE WatchConstants, LongestFacts DEF guis, guiPlace, budget, counts, Goto, Steps
  <1>p. WatchPlaces /\ WatchAges
    BY DEF Places
  <1>1. CASE WakeUp
    <2>1. WatchPlaces'
      BY <1>p, <1>1 DEF WatchPlaces, WakeUp, Hang, Hung, Excused
    <2>2. WatchAges'
      BY <1>p, <1>1 DEF WatchAges, WakeUp
    <2> QED BY <2>1, <2>2
  <1>2. CASE ReadUser
    <2>1. WatchPlaces'
      BY <1>p, <1>2 DEF WatchPlaces, ReadUser
    <2>2. WatchAges'
      BY <1>p, <1>2 DEF WatchAges, ReadUser
    <2> QED BY <2>1, <2>2
  <1>3. CASE Verdict
    <2>1. WatchPlaces'
      BY <1>p, <1>3 DEF WatchPlaces, Verdict
    <2>2. WatchAges'
      BY <1>p, <1>3 DEF WatchAges, Verdict
    <2> QED BY <2>1, <2>2
  <1>4. CASE ReadPaused
    <2>1. WatchPlaces'
      BY <1>p, <1>4 DEF WatchPlaces, ReadPaused
    <2>2. WatchAges'
      BY <1>p, <1>4 DEF WatchAges, ReadPaused
    <2> QED BY <2>1, <2>2
  <1>5. CASE ReadSince
    <2>1. WatchPlaces'
      BY <1>p, <1>5 DEF WatchPlaces, ReadSince
    <2>2. WatchAges'
      BY <1>p, <1>5 DEF WatchAges, ReadSince
    <2> QED BY <2>1, <2>2
  <1>6. CASE Rearm
    <2>1. WatchPlaces'
      BY <1>p, <1>6, Zenon DEF WatchPlaces, Rearm
    <2>2. WatchAges'
      BY <1>p, <1>6 DEF WatchAges, Rearm
    <2> QED BY <2>1, <2>2
  <1>7. CASE Recover
    <2>1. WatchPlaces'
      BY <1>p, <1>7 DEF WatchPlaces, Recover
    <2>2. WatchAges'
      BY <1>p, <1>7 DEF WatchAges, Recover
    <2> QED BY <2>1, <2>2
  <1>8. CASE ReadBeat
    <2>1. WatchPlaces'
      BY <1>p, <1>8 DEF WatchPlaces, ReadBeat
    <2>2. WatchAges'
      BY <1>p, <1>8 DEF WatchAges, ReadBeat
    <2> QED BY <2>1, <2>2
  <1>9. CASE Excuse
    <2>1. WatchPlaces'
      BY <1>p, <1>9 DEF WatchPlaces, Excuse
    <2>2. WatchAges'
      BY <1>p, <1>9 DEF WatchAges, Excuse
    <2> QED BY <2>1, <2>2
  <1>10. CASE Report
    <2>1. WatchPlaces'
      BY <1>p, <1>10 DEF WatchPlaces, Report
    <2>2. WatchAges'
      BY <1>p, <1>10 DEF WatchAges, Report
    <2> QED BY <2>1, <2>2
  <1>11. CASE Leave
    <2>1. WatchPlaces'
      BY <1>p, <1>11 DEF WatchPlaces, Leave
    <2>2. WatchAges'
      BY <1>p, <1>11 DEF WatchAges, Leave
    <2> QED BY <2>1, <2>2
  <1> QED BY <1>1, <1>2, <1>3, <1>4, <1>5, <1>6, <1>7, <1>8, <1>9, <1>10, <1>11 DEF Watchdog


LEMMA PhaseInWatchdog ==
    ASSUME Places, Watchdog
    PROVE  PausesCounted' /\ PhaseKnown'
  <1>1. UNCHANGED <<guiPlace, budget, counts, stop, stuck>>
    BY DEF Watchdog, WakeUp, ReadUser, Verdict, ReadPaused, ReadSince, Rearm, Recover, ReadBeat,
           Excuse, Report, Leave, guis, Steps
  <1>2. (wpc' = "gone" => stop) /\ beat' \in {beat, 0} /\ mute' = mute
    BY DEF Places, PhaseKnown, Watchdog, WakeUp, ReadUser, Verdict, ReadPaused, ReadSince, Rearm,
           Recover, ReadBeat, Excuse, Report, Leave, guis, Steps, Goto
  <1>3. PausesCounted'
    BY <1>1 DEF Places, PausesCounted, guiPlace, counts, Ahead, Top
  <1>4. PhaseKnown'
    BY <1>1, <1>2 DEF Places, PhaseKnown, guiPlace, budget, counts, Budget
  <1> QED BY <1>3, <1>4

LEMMA PlacesInTime ==
    ASSUME Places, TimePasses \/ Sleeps
    PROVE  Places'
  <1> USE WatchConstants, LongestFacts
  <1>p. WatchPlaces /\ WatchAges /\ PausesCounted /\ PhaseKnown
    BY DEF Places
  <1>1. PICK n \in Nat : AllAge(n)
    BY WatchConstants DEF TimePasses, Sleeps
  <1>2. UNCHANGED <<guiPlace, budget, counts, stop, wpc, limit, reported, late, due>> /\ gpc = "run"
    BY <1>1 DEF AllAge
  <1>3. /\ beat' \in 0..Longest /\ since' \in 0..Cap /\ own' \in 0..Cap
        /\ pollAge' \in 0..(Poll + Longest + 1)
    BY <1>1, <1>p, OlderFacts DEF AllAge, WatchAges
  <1>4. pumped' \in {None} \cup (0..Cap)
    BY <1>1, <1>p, OlderFacts DEF AllAge, WatchAges
  <1>5. mute' \in 0..Most(HungAfter, Longest) /\ (loop = "person" => mute' = 0)
    <2>1. Older(mute, n, Most(HungAfter, Longest)) \in 0..Most(HungAfter, Longest)
      BY <1>p, OlderFacts DEF WatchAges
    <2> QED BY <1>1, <2>1 DEF AllAge
  <1>6. idle' \in 0..AwayTop /\ stuck' \in 0..(Longest + Poll)
    <2>1. CASE TimePasses
      <3>1. /\ AwayTop \in Nat /\ idle \in 0..AwayTop
            /\ Longest + Poll \in Nat /\ stuck \in 0..(Longest + Poll)
        BY <1>p DEF WatchAges
      <3>2. Older(idle, 1, AwayTop) \in 0..AwayTop
        BY <3>1, OlderFacts
      <3>3. Older(stuck, 1, Longest + Poll) \in 0..(Longest + Poll)
        BY <3>1, OlderFacts
      <3> QED BY <3>1, <3>2, <3>3, <2>1 DEF TimePasses
    <2>2. CASE Sleeps
      BY <2>2 DEF Sleeps
    <2> QED BY <2>1, <2>2
  <1>7. WatchPlaces'
    <2>1. dozed' \in BOOLEAN
      BY <1>p DEF WatchPlaces, TimePasses, Sleeps
    <2> QED BY <1>p, <1>2, <2>1 DEF WatchPlaces, guiPlace
  <1>8. WatchAges'
    BY <1>p, <1>2, <1>3, <1>4, <1>5, <1>6 DEF WatchAges, budget
  <1>9. PausesCounted'
    BY <1>p, <1>2 DEF PausesCounted, guiPlace, counts, Ahead, Top
  <1>10. PhaseKnown'
    BY <1>p, <1>2, <1>5 DEF PhaseKnown, guiPlace, budget, counts, Budget
  <1> QED BY <1>7, <1>8, <1>9, <1>10 DEF Places

LEMMA PlacesKept ==
    ASSUME Places, [WatchNext]_watchVars
    PROVE  Places'
  <1>1. CASE Gui
    BY <1>1, PlacesInGui, AgesInGui, CountsInGui, PhaseInGui DEF Places
  <1>2. CASE Watchdog
    BY <1>2, AgesInWatchdog, PhaseInWatchdog DEF Places
  <1>3. CASE TimePasses \/ Sleeps
    BY <1>3, PlacesInTime
  <1>4. CASE UNCHANGED watchVars
    BY <1>4 DEF watchVars, guiPlace, clocks, budget, counts, poll, Places, WatchPlaces, WatchAges,
                PausesCounted, Ahead, Top, PhaseKnown, Budget
  <1> QED BY <1>1, <1>2, <1>3, <1>4 DEF WatchNext

(* pause(), resume() and their kin keep the two counters at the pauses held *)
(* between and inside calls, and every phase has its own budget's          *)
(* threshold (hang_watchdog.cpp:323-480).                                  *)
THEOREM PlacesInvariant == WatchSpec => []Places
  BY PlacesAtStart, PlacesKept, PTL DEF WatchSpec

(* Type correctness: the pauses nest within the bound, and no counter of   *)
(* them goes below nothing, however they are released.                     *)
THEOREM WatchTypes == WatchSpec => []WatchTypeOK
  <1>1. Places => WatchTypeOK
    <2> SUFFICES ASSUME Places PROVE WatchTypeOK
      OBVIOUS
    <2>1. held \in Seq(Kinds) /\ Len(held) \in Nat /\ Len(held) <= MaxHeld /\ paused = Len(held)
      BY DEF Places, PausesCounted
    <2>2. Cardinality(PersonsIn(held)) \in 0..Len(held)
      BY <2>1, PersonsNumber
    <2>3. {paused, user} \subseteq 0..MaxHeld /\ user <= paused + 1
      BY <2>1, <2>2, CountersTell, WatchConstants DEF Told, Places, PausesCounted, Ahead
    <2> QED BY <2>1, <2>3 DEF WatchTypeOK, Places, WatchPlaces, WatchAges, Kinds
  <1> QED BY <1>1, PlacesInvariant, PTL

-------------------------------------------------------------------------------
(* Every hang is reported.  What the display's and the application's pauses*)
(* and a person's excuse, read off the counters.                           *)
MayRearm ==
    \/ PersonPauses /\ mute < HungAfter
    \/ paused > 0 /\ ~PersonPauses /\ own < Cap

(* The poll's reads, in whatever order with the GUI thread's stores, all   *)
(* find that nothing excuses it.                                           *)
Settled ==
    /\ ~MayRearm
    /\ \/ gpc \in {"run", "grace", "app"}
       \/ gpc = "userDown" /\ user > 1
       \/ gpc = "resume" /\ user > 0

Away == loop \in {"handler", "win32u"} /\ paused = 0

(* The instant a pause of the application's is measured from is the one its*)
(* own code has set the pace since, but in the middle of a call.           *)
Stamps ==
    /\ \/ since = own
       \/ gpc \in {"grace", "app"} /\ paused = 0
       \/ gpc = "userDown" /\ user <= 1
    /\ gpc \in {"grace", "app"} /\ paused = 0 => since = 0
    /\ gpc = "userDown" /\ user <= 1 => since = 0
    /\ gpc = "resume" /\ user = 0 => own = 0

(* No time passes in a poll, and a poll longer than the interval found the *)
(* machine asleep.                                                         *)
PollAges ==
    /\ wpc \notin {"wait", "gone"} => pollAge = 0
    /\ wpc # "gone" /\ pollAge > Poll => stuck = 0 /\ idle = 0

(* The clock the poll compares is at least as old as what is owed.         *)
BeatOld ==
    ~stop =>
      /\ wpc # "wait" \/ pollAge > 0 \/ Settled => stuck <= beat \/ beat = Longest
      /\ Away => idle <= beat \/ beat = Longest
      /\ loop = "handler" => idle <= mute \/ mute = Most(HungAfter, Longest)

(* A poll re-arms only what was excused in it.                             *)
PollPermits ==
    ~stop =>
      /\ wpc \in {"verdict", "since", "rearm"} /\ Away => idle = 0
      /\ wpc = "rearm" => stuck = 0 \/ ~Settled
      /\ wpc = "verdict" => user > 0 \/ stuck = 0 \/ ~Settled
      /\ wpc = "since" /\ paused = 0 => stuck = 0 \/ gpc = "rearm"
      /\ wpc \in {"paused", "since"} /\ PersonPauses
           => stuck = 0 \/ gpc = "userUp" \/ (gpc = "resume" /\ user = 0)
      /\ wpc \notin {"wait", "rearm"}
           => limit <= Budget \/ gpc = "restart" \/ (stuck = 0 /\ (Away => idle = 0))

(* What has been owed for as long as the budget and the poll's age is      *)
(* reported; in win32u.dll, not before the excuse has lasted.              *)
Aged == IF wpc = "wait" THEN pollAge ELSE Poll
StallLatched ==
    ~stop /\ loop = "none" /\ gpc # "restart" =>
      /\ stuck >= Budget + Poll => reported
      /\ wpc = "wait" /\ (pollAge > 0 \/ Settled) /\ stuck >= Budget + pollAge => reported
HandlerLatched ==
    loop = "handler" /\ paused = 0 /\ idle >= Most(HungAfter, Budget) + Aged => reported
DriverLatched ==
    loop = "win32u" /\ paused = 0 =>
      /\ idle >= Budget + Aged
           => reported \/ (pumped # None /\ (idle - Budget - Poll <= pumped \/ pumped = Cap))
      /\ idle >= Budget + Poll + Cap + Aged => reported

Reporting ==
    /\ Stamps /\ PollAges /\ BeatOld /\ PollPermits
    /\ StallLatched /\ HandlerLatched /\ DriverLatched

Known == WatchPlaces /\ WatchAges /\ PhaseKnown /\ Told

LEMMA StampsKept ==
    ASSUME Known, Stamps, Gui \/ Watchdog
    PROVE  Stamps'
  <1> USE WatchConstants, LongestFacts
      DEF Known, WatchPlaces, WatchAges, PhaseKnown, Told, InFrame,
          Stamps, PersonPauses,
          ComesRound, Silent, Begins, watchdogs, poll, counts, budget, guiPlace, guis, Goto, Steps
  <1>1. CASE BeginStartup
    BY <1>1 DEF BeginStartup
  <1>2. CASE Heartbeat
    BY <1>2 DEF Heartbeat
  <1>3. CASE Count
    BY <1>3 DEF Count
  <1>4. CASE Pause("grace")
    BY <1>4 DEF Pause
  <1>5. CASE Pause("app")
    BY <1>5 DEF Pause
  <1>6. CASE Paused
    BY <1>6 DEF Paused
  <1>7. CASE PauseUser
    BY <1>7 DEF PauseUser
  <1>8. CASE PausedUser
    BY <1>8 DEF PausedUser
  <1>9. CASE ResumeUser
    BY <1>9 DEF ResumeUser
  <1>10. CASE UserDown
    BY <1>10 DEF UserDown
  <1>11. CASE Resume
    BY <1>11 DEF Resume
  <1>12. CASE Resumed
    BY <1>12 DEF Resumed
  <1>13. CASE \E l \in {"modal", "person", "win32u"} : Enter(l)
    BY <1>13 DEF Enter
  <1>14. CASE Handler
    BY <1>14 DEF Handler
  <1>15. CASE LeaveLoop
    BY <1>15 DEF LeaveLoop
  <1>16. CASE BeginShutdown
    BY <1>16 DEF BeginShutdown
  <1>17. CASE ShutdownBegun
    BY <1>17 DEF ShutdownBegun
  <1>18. CASE Stop
    BY <1>18 DEF Stop
  <1>19. CASE StopReturns
    BY <1>19 DEF StopReturns
  <1>20. CASE Watchdog
    BY <1>20
       DEF Watchdog, WakeUp, ReadUser, Verdict, ReadPaused, ReadSince, Rearm, Recover, ReadBeat,
           Excuse, Report, Leave
  <1> QED BY <1>1, <1>2, <1>3, <1>4, <1>5, <1>6, <1>7, <1>8, <1>9, <1>10, <1>11, <1>12, <1>13,
             <1>14, <1>15, <1>16, <1>17, <1>18, <1>19, <1>20
             DEF Gui, GuiSteps, Watchdog

LEMMA PollAgesKept ==
    ASSUME Known, PollAges, Gui \/ Watchdog
    PROVE  PollAges'
  <1> USE WatchConstants, LongestFacts
      DEF Known, WatchPlaces, WatchAges, PhaseKnown, Told, InFrame,
          PollAges, Hang,
          ComesRound, Silent, Begins, watchdogs, poll, counts, budget, guiPlace, guis, Goto, Steps
  <1>1. CASE BeginStartup
    BY <1>1 DEF BeginStartup
  <1>2. CASE Heartbeat
    BY <1>2 DEF Heartbeat
  <1>3. CASE Count
    BY <1>3 DEF Count
  <1>4. CASE Pause("grace")
    BY <1>4 DEF Pause
  <1>5. CASE Pause("app")
    BY <1>5 DEF Pause
  <1>6. CASE Paused
    BY <1>6 DEF Paused
  <1>7. CASE PauseUser
    BY <1>7 DEF PauseUser
  <1>8. CASE PausedUser
    BY <1>8 DEF PausedUser
  <1>9. CASE ResumeUser
    BY <1>9 DEF ResumeUser
  <1>10. CASE UserDown
    BY <1>10 DEF UserDown
  <1>11. CASE Resume
    BY <1>11 DEF Resume
  <1>12. CASE Resumed
    BY <1>12 DEF Resumed
  <1>13. CASE \E l \in {"modal", "person", "win32u"} : Enter(l)
    BY <1>13 DEF Enter
  <1>14. CASE Handler
    BY <1>14 DEF Handler
  <1>15. CASE LeaveLoop
    BY <1>15 DEF LeaveLoop
  <1>16. CASE BeginShutdown
    BY <1>16 DEF BeginShutdown
  <1>17. CASE ShutdownBegun
    BY <1>17 DEF ShutdownBegun
  <1>18. CASE Stop
    BY <1>18 DEF Stop
  <1>19. CASE StopReturns
    BY <1>19 DEF StopReturns
  <1>20. CASE WakeUp
    BY <1>20 DEF WakeUp
  <1>21. CASE ReadUser
    BY <1>21 DEF ReadUser
  <1>22. CASE Verdict
    BY <1>22 DEF Verdict
  <1>23. CASE ReadPaused
    BY <1>23 DEF ReadPaused
  <1>24. CASE ReadSince
    BY <1>24 DEF ReadSince
  <1>25. CASE Rearm
    BY <1>25 DEF Rearm
  <1>26. CASE Recover
    BY <1>26 DEF Recover
  <1>27. CASE ReadBeat
    BY <1>27 DEF ReadBeat
  <1>28. CASE Excuse
    BY <1>28 DEF Excuse
  <1>29. CASE Report
    BY <1>29 DEF Report
  <1>30. CASE Leave
    BY <1>30 DEF Leave
  <1> QED BY <1>1, <1>2, <1>3, <1>4, <1>5, <1>6, <1>7, <1>8, <1>9, <1>10, <1>11, <1>12, <1>13,
             <1>14, <1>15, <1>16, <1>17, <1>18, <1>19, <1>20, <1>21, <1>22, <1>23, <1>24, <1>25,
             <1>26, <1>27, <1>28, <1>29, <1>30
             DEF Gui, GuiSteps, Watchdog

LEMMA BeatOldKept ==
    ASSUME Known, Stamps, PollAges, PollPermits, BeatOld, Gui \/ Watchdog
    PROVE  BeatOld'
  <1> USE WatchConstants, LongestFacts
      DEF Known, WatchPlaces, WatchAges, PhaseKnown, Told, InFrame,
          Stamps, PollAges, PollPermits, BeatOld, Settled, MayRearm, PersonPauses, Away, Hung,
          ComesRound, Silent, Begins, watchdogs, poll, counts, budget, guiPlace, guis, Goto, Steps
  <1>1. CASE BeginStartup
    BY <1>1 DEF BeginStartup
  <1>2. CASE Heartbeat
    BY <1>2 DEF Heartbeat
  <1>3. CASE Count
    BY <1>3 DEF Count
  <1>4. CASE Pause("grace")
    BY <1>4 DEF Pause
  <1>5. CASE Pause("app")
    BY <1>5 DEF Pause
  <1>6. CASE Paused
    BY <1>6 DEF Paused
  <1>7. CASE PauseUser
    BY <1>7 DEF PauseUser
  <1>8. CASE PausedUser
    BY <1>8 DEF PausedUser
  <1>9. CASE ResumeUser
    BY <1>9 DEF ResumeUser
  <1>10. CASE UserDown
    BY <1>10 DEF UserDown
  <1>11. CASE Resume
    BY <1>11 DEF Resume
  <1>12. CASE Resumed
    BY <1>12 DEF Resumed
  <1>13. CASE \E l \in {"modal", "person", "win32u"} : Enter(l)
    BY <1>13 DEF Enter
  <1>14. CASE Handler
    BY <1>14 DEF Handler
  <1>15. CASE LeaveLoop
    BY <1>15 DEF LeaveLoop
  <1>16. CASE BeginShutdown
    BY <1>16 DEF BeginShutdown
  <1>17. CASE ShutdownBegun
    BY <1>17 DEF ShutdownBegun
  <1>18. CASE Stop
    BY <1>18 DEF Stop
  <1>19. CASE StopReturns
    BY <1>19 DEF StopReturns
  <1>20. CASE WakeUp
    BY <1>20 DEF WakeUp
  <1>21. CASE ReadUser
    BY <1>21 DEF ReadUser
  <1>22. CASE Verdict
    BY <1>22 DEF Verdict
  <1>23. CASE ReadPaused
    BY <1>23 DEF ReadPaused
  <1>24. CASE ReadSince
    BY <1>24 DEF ReadSince
  <1>25. CASE Rearm
    BY <1>25 DEF Rearm
  <1>26. CASE Recover
    BY <1>26 DEF Recover
  <1>27. CASE ReadBeat
    BY <1>27 DEF ReadBeat
  <1>28. CASE Excuse
    BY <1>28 DEF Excuse
  <1>29. CASE Report
    BY <1>29 DEF Report
  <1>30. CASE Leave
    BY <1>30 DEF Leave
  <1> QED BY <1>1, <1>2, <1>3, <1>4, <1>5, <1>6, <1>7, <1>8, <1>9, <1>10, <1>11, <1>12, <1>13,
             <1>14, <1>15, <1>16, <1>17, <1>18, <1>19, <1>20, <1>21, <1>22, <1>23, <1>24, <1>25,
             <1>26, <1>27, <1>28, <1>29, <1>30
             DEF Gui, GuiSteps, Watchdog

LEMMA PollPermitsKept ==
    ASSUME Known, Stamps, PollAges, PollPermits, Gui \/ Watchdog
    PROVE  PollPermits'
  <1> USE WatchConstants, LongestFacts
      DEF Known, WatchPlaces, WatchAges, PhaseKnown, Told, InFrame,
          Stamps, PollAges, PollPermits, Settled, MayRearm, PersonPauses, Away, Hung, Budget,
          ComesRound, Silent, Begins, watchdogs, poll, counts, budget, guiPlace, guis, Goto, Steps
  <1>1. CASE BeginStartup
    BY <1>1 DEF BeginStartup
  <1>2. CASE Heartbeat
    BY <1>2 DEF Heartbeat
  <1>3. CASE Count
    BY <1>3 DEF Count
  <1>4. CASE Pause("grace")
    BY <1>4 DEF Pause
  <1>5. CASE Pause("app")
    BY <1>5 DEF Pause
  <1>6. CASE Paused
    BY <1>6 DEF Paused
  <1>7. CASE PauseUser
    BY <1>7 DEF PauseUser
  <1>8. CASE PausedUser
    BY <1>8 DEF PausedUser
  <1>9. CASE ResumeUser
    BY <1>9 DEF ResumeUser
  <1>10. CASE UserDown
    BY <1>10 DEF UserDown
  <1>11. CASE Resume
    BY <1>11 DEF Resume
  <1>12. CASE Resumed
    BY <1>12 DEF Resumed
  <1>13. CASE \E l \in {"modal", "person", "win32u"} : Enter(l)
    BY <1>13 DEF Enter
  <1>14. CASE Handler
    BY <1>14 DEF Handler
  <1>15. CASE LeaveLoop
    BY <1>15 DEF LeaveLoop
  <1>16. CASE BeginShutdown
    BY <1>16 DEF BeginShutdown
  <1>17. CASE ShutdownBegun
    BY <1>17 DEF ShutdownBegun
  <1>18. CASE Stop
    BY <1>18 DEF Stop
  <1>19. CASE StopReturns
    BY <1>19 DEF StopReturns
  <1>20. CASE WakeUp
    BY <1>20 DEF WakeUp
  <1>21. CASE ReadUser
    BY <1>21 DEF ReadUser
  <1>22. CASE Verdict
    BY <1>22 DEF Verdict
  <1>23. CASE ReadPaused
    BY <1>23 DEF ReadPaused
  <1>24. CASE ReadSince
    BY <1>24 DEF ReadSince
  <1>25. CASE Rearm
    BY <1>25 DEF Rearm
  <1>26. CASE Recover
    BY <1>26 DEF Recover
  <1>27. CASE ReadBeat
    BY <1>27 DEF ReadBeat
  <1>28. CASE Excuse
    BY <1>28 DEF Excuse
  <1>29. CASE Report
    BY <1>29 DEF Report
  <1>30. CASE Leave
    BY <1>30 DEF Leave
  <1> QED BY <1>1, <1>2, <1>3, <1>4, <1>5, <1>6, <1>7, <1>8, <1>9, <1>10, <1>11, <1>12, <1>13,
             <1>14, <1>15, <1>16, <1>17, <1>18, <1>19, <1>20, <1>21, <1>22, <1>23, <1>24, <1>25,
             <1>26, <1>27, <1>28, <1>29, <1>30
             DEF Gui, GuiSteps, Watchdog

LEMMA StallLatchedKept ==
    ASSUME Known, Stamps, PollAges, BeatOld, PollPermits, StallLatched, Gui \/ Watchdog
    PROVE  StallLatched'
  <1> USE WatchConstants, LongestFacts
      DEF Known, WatchPlaces, WatchAges, PhaseKnown, Told, InFrame,
          Stamps, PollAges, BeatOld, PollPermits, StallLatched, Settled, MayRearm, PersonPauses,
          Away, Hung, Budget,
          ComesRound, Silent, Begins, watchdogs, poll, counts, budget, guiPlace, guis, Goto, Steps
  <1>1. CASE BeginStartup
    BY <1>1 DEF BeginStartup
  <1>2. CASE Heartbeat
    BY <1>2 DEF Heartbeat
  <1>3. CASE Count
    BY <1>3 DEF Count
  <1>4. CASE Pause("grace")
    BY <1>4 DEF Pause
  <1>5. CASE Pause("app")
    BY <1>5 DEF Pause
  <1>6. CASE Paused
    BY <1>6 DEF Paused
  <1>7. CASE PauseUser
    BY <1>7 DEF PauseUser
  <1>8. CASE PausedUser
    BY <1>8 DEF PausedUser
  <1>9. CASE ResumeUser
    BY <1>9 DEF ResumeUser
  <1>10. CASE UserDown
    BY <1>10 DEF UserDown
  <1>11. CASE Resume
    BY <1>11 DEF Resume
  <1>12. CASE Resumed
    BY <1>12 DEF Resumed
  <1>13. CASE \E l \in {"modal", "person", "win32u"} : Enter(l)
    BY <1>13 DEF Enter
  <1>14. CASE Handler
    BY <1>14 DEF Handler
  <1>15. CASE LeaveLoop
    BY <1>15 DEF LeaveLoop
  <1>16. CASE BeginShutdown
    BY <1>16 DEF BeginShutdown
  <1>17. CASE ShutdownBegun
    BY <1>17 DEF ShutdownBegun
  <1>18. CASE Stop
    BY <1>18 DEF Stop
  <1>19. CASE StopReturns
    BY <1>19 DEF StopReturns
  <1>20. CASE WakeUp
    BY <1>20 DEF WakeUp
  <1>21. CASE ReadUser
    BY <1>21 DEF ReadUser
  <1>22. CASE Verdict
    BY <1>22 DEF Verdict
  <1>23. CASE ReadPaused
    BY <1>23 DEF ReadPaused
  <1>24. CASE ReadSince
    BY <1>24 DEF ReadSince
  <1>25. CASE Rearm
    BY <1>25 DEF Rearm
  <1>26. CASE Recover
    BY <1>26 DEF Recover
  <1>27. CASE ReadBeat
    BY <1>27 DEF ReadBeat
  <1>28. CASE Excuse
    BY <1>28 DEF Excuse
  <1>29. CASE Report
    BY <1>29 DEF Report
  <1>30. CASE Leave
    BY <1>30 DEF Leave
  <1> QED BY <1>1, <1>2, <1>3, <1>4, <1>5, <1>6, <1>7, <1>8, <1>9, <1>10, <1>11, <1>12, <1>13,
             <1>14, <1>15, <1>16, <1>17, <1>18, <1>19, <1>20, <1>21, <1>22, <1>23, <1>24, <1>25,
             <1>26, <1>27, <1>28, <1>29, <1>30
             DEF Gui, GuiSteps, Watchdog

LEMMA HandlerLatchedKept ==
    ASSUME Known, PollAges, BeatOld, PollPermits, HandlerLatched, Gui \/ Watchdog
    PROVE  HandlerLatched'
  <1> USE WatchConstants, LongestFacts
      DEF Known, WatchPlaces, WatchAges, PhaseKnown, Told, InFrame,
          PollAges, BeatOld, PollPermits, HandlerLatched, Away, Hung, Budget, Aged, Most,
          ComesRound, Silent, Begins, watchdogs, poll, counts, budget, guiPlace, guis, Goto, Steps
  <1>1. CASE BeginStartup
    BY <1>1 DEF BeginStartup
  <1>2. CASE Heartbeat
    BY <1>2 DEF Heartbeat
  <1>3. CASE Count
    BY <1>3 DEF Count
  <1>4. CASE Pause("grace")
    BY <1>4 DEF Pause
  <1>5. CASE Pause("app")
    BY <1>5 DEF Pause
  <1>6. CASE Paused
    BY <1>6 DEF Paused
  <1>7. CASE PauseUser
    BY <1>7 DEF PauseUser
  <1>8. CASE PausedUser
    BY <1>8 DEF PausedUser
  <1>9. CASE ResumeUser
    BY <1>9 DEF ResumeUser
  <1>10. CASE UserDown
    BY <1>10 DEF UserDown
  <1>11. CASE Resume
    BY <1>11 DEF Resume
  <1>12. CASE Resumed
    BY <1>12 DEF Resumed
  <1>13. CASE \E l \in {"modal", "person", "win32u"} : Enter(l)
    BY <1>13 DEF Enter
  <1>14. CASE Handler
    BY <1>14 DEF Handler
  <1>15. CASE LeaveLoop
    BY <1>15 DEF LeaveLoop
  <1>16. CASE BeginShutdown
    BY <1>16 DEF BeginShutdown
  <1>17. CASE ShutdownBegun
    BY <1>17 DEF ShutdownBegun
  <1>18. CASE Stop
    BY <1>18 DEF Stop
  <1>19. CASE StopReturns
    BY <1>19 DEF StopReturns
  <1>20. CASE WakeUp
    BY <1>20 DEF WakeUp
  <1>21. CASE ReadUser
    BY <1>21 DEF ReadUser
  <1>22. CASE Verdict
    BY <1>22 DEF Verdict
  <1>23. CASE ReadPaused
    BY <1>23 DEF ReadPaused
  <1>24. CASE ReadSince
    BY <1>24 DEF ReadSince
  <1>25. CASE Rearm
    BY <1>25 DEF Rearm
  <1>26. CASE Recover
    BY <1>26 DEF Recover
  <1>27. CASE ReadBeat
    BY <1>27 DEF ReadBeat
  <1>28. CASE Excuse
    BY <1>28 DEF Excuse
  <1>29. CASE Report
    BY <1>29 DEF Report
  <1>30. CASE Leave
    BY <1>30 DEF Leave
  <1> QED BY <1>1, <1>2, <1>3, <1>4, <1>5, <1>6, <1>7, <1>8, <1>9, <1>10, <1>11, <1>12, <1>13,
             <1>14, <1>15, <1>16, <1>17, <1>18, <1>19, <1>20, <1>21, <1>22, <1>23, <1>24, <1>25,
             <1>26, <1>27, <1>28, <1>29, <1>30
             DEF Gui, GuiSteps, Watchdog

LEMMA DriverLatchedKept ==
    ASSUME Known, PollAges, BeatOld, PollPermits, DriverLatched, Gui \/ Watchdog
    PROVE  DriverLatched'
  <1> USE WatchConstants, LongestFacts
      DEF Known, WatchPlaces, WatchAges, PhaseKnown, Told, InFrame,
          PollAges, BeatOld, PollPermits, DriverLatched, Away, Hung, Budget, Aged,
          ComesRound, Silent, Begins, watchdogs, poll, counts, budget, guiPlace, guis, Goto, Steps
  <1>1. CASE BeginStartup
    BY <1>1 DEF BeginStartup
  <1>2. CASE Heartbeat
    BY <1>2 DEF Heartbeat
  <1>3. CASE Count
    BY <1>3 DEF Count
  <1>4. CASE Pause("grace")
    BY <1>4 DEF Pause
  <1>5. CASE Pause("app")
    BY <1>5 DEF Pause
  <1>6. CASE Paused
    BY <1>6 DEF Paused
  <1>7. CASE PauseUser
    BY <1>7 DEF PauseUser
  <1>8. CASE PausedUser
    BY <1>8 DEF PausedUser
  <1>9. CASE ResumeUser
    BY <1>9 DEF ResumeUser
  <1>10. CASE UserDown
    BY <1>10 DEF UserDown
  <1>11. CASE Resume
    BY <1>11 DEF Resume
  <1>12. CASE Resumed
    BY <1>12 DEF Resumed
  <1>13. CASE \E l \in {"modal", "person", "win32u"} : Enter(l)
    BY <1>13 DEF Enter
  <1>14. CASE Handler
    BY <1>14 DEF Handler
  <1>15. CASE LeaveLoop
    BY <1>15 DEF LeaveLoop
  <1>16. CASE BeginShutdown
    BY <1>16 DEF BeginShutdown
  <1>17. CASE ShutdownBegun
    BY <1>17 DEF ShutdownBegun
  <1>18. CASE Stop
    BY <1>18 DEF Stop
  <1>19. CASE StopReturns
    BY <1>19 DEF StopReturns
  <1>20. CASE WakeUp
    BY <1>20 DEF WakeUp
  <1>21. CASE ReadUser
    BY <1>21 DEF ReadUser
  <1>22. CASE Verdict
    <2>1. CASE Hung
      BY <1>22, <2>1 DEF Verdict
    <2>2. CASE ~Hung
      BY <1>22, <2>2 DEF Verdict
    <2> QED BY <2>1, <2>2
  <1>23. CASE ReadPaused
    BY <1>23 DEF ReadPaused
  <1>24. CASE ReadSince
    BY <1>24 DEF ReadSince
  <1>25. CASE Rearm
    BY <1>25 DEF Rearm
  <1>26. CASE Recover
    BY <1>26 DEF Recover
  <1>27. CASE ReadBeat
    BY <1>27 DEF ReadBeat
  <1>28. CASE Excuse
    BY <1>28 DEF Excuse
  <1>29. CASE Report
    BY <1>29 DEF Report
  <1>30. CASE Leave
    BY <1>30 DEF Leave
  <1> QED BY <1>1, <1>2, <1>3, <1>4, <1>5, <1>6, <1>7, <1>8, <1>9, <1>10, <1>11, <1>12, <1>13,
             <1>14, <1>15, <1>16, <1>17, <1>18, <1>19, <1>20, <1>21, <1>22, <1>23, <1>24, <1>25,
             <1>26, <1>27, <1>28, <1>29, <1>30
             DEF Gui, GuiSteps, Watchdog

(* What a step of time of n does to every age.                             *)
Grown(n) ==
    /\ UNCHANGED <<guiPlace, budget, counts, stop, wpc, limit, reported, late, due>>
    /\ gpc = "run" /\ wpc \in {"wait", "gone"}
    /\ beat' = IF beat + n < Longest THEN beat + n ELSE Longest
    /\ since' = IF since + n < Cap THEN since + n ELSE Cap
    /\ own' = IF own + n < Cap THEN own + n ELSE Cap
    /\ pollAge' = IF pollAge + n < Poll + Longest + 1 THEN pollAge + n ELSE Poll + Longest + 1
    /\ pumped' = IF pumped = None THEN None ELSE IF pumped + n < Cap THEN pumped + n ELSE Cap
    /\ mute' = IF loop \in {"modal", "person"} THEN 0
               ELSE IF mute + n < Most(HungAfter, Longest) THEN mute + n
               ELSE Most(HungAfter, Longest)

Awake ==
    /\ wpc = "wait" => pollAge < Poll /\ ~stop
    /\ stuck' = IF loop \in {"modal", "person"} \/ MayRearm THEN 0
                ELSE IF stuck + 1 < Longest + Poll THEN stuck + 1 ELSE Longest + Poll
    /\ idle' = IF loop = "none" THEN 0
               ELSE IF idle + 1 < AwayTop THEN idle + 1 ELSE AwayTop
    /\ dozed' = dozed

LEMMA TimeGrows ==
    ASSUME Known, TimePasses \/ Sleeps
    PROVE  \E n \in Nat \ {0} : /\ Grown(n)
                                /\ \/ n = 1 /\ Awake
                                   \/ stuck' = 0 /\ idle' = 0 /\ dozed'
  <1> USE WatchConstants, LongestFacts
  <1>p. WatchAges /\ (UserHeld <=> PersonPauses) /\ (held = <<>> <=> paused = 0) /\ paused \in Nat
    BY DEF Known, Told
  <1>1. ASSUME NEW n \in Nat \ {0}, AllAge(n) PROVE Grown(n)
    <2>1. \A top \in Nat : \A age \in 0..top :
            Older(age, n, top) = IF age + n < top THEN age + n ELSE top
      BY OlderFacts
    <2>2. Poll + Longest + 1 \in Nat
      OBVIOUS
    <2>3. Older(beat, n, Longest) = IF beat + n < Longest THEN beat + n ELSE Longest
      BY <1>p, <2>1 DEF WatchAges
    <2>4. /\ Older(since, n, Cap) = IF since + n < Cap THEN since + n ELSE Cap
          /\ Older(own, n, Cap) = IF own + n < Cap THEN own + n ELSE Cap
      BY <1>p, <2>1 DEF WatchAges
    <2>5. Older(pollAge, n, Poll + Longest + 1)
            = IF pollAge + n < Poll + Longest + 1 THEN pollAge + n ELSE Poll + Longest + 1
      BY <1>p, <2>1, <2>2 DEF WatchAges
    <2>6. pumped # None
            => Older(pumped, n, Cap) = IF pumped + n < Cap THEN pumped + n ELSE Cap
      BY <1>p, <2>1 DEF WatchAges
    <2>7. Older(mute, n, Most(HungAfter, Longest))
            = IF mute + n < Most(HungAfter, Longest) THEN mute + n ELSE Most(HungAfter, Longest)
      BY <1>p, <2>1 DEF WatchAges
    <2> QED BY <1>1, <2>3, <2>4, <2>5, <2>6, <2>7 DEF AllAge, Grown
  <1>2. CASE TimePasses
    <2>1. Longest + Poll \in Nat /\ AwayTop \in Nat /\ 1 \in Nat \ {0}
      OBVIOUS
    <2>2. Older(stuck, 1, Longest + Poll)
            = IF stuck + 1 < Longest + Poll THEN stuck + 1 ELSE Longest + Poll
      BY <1>p, <2>1, OlderFacts DEF WatchAges
    <2>3. Older(idle, 1, AwayTop) = IF idle + 1 < AwayTop THEN idle + 1 ELSE AwayTop
      BY <1>p, <2>1, OlderFacts DEF WatchAges
    <2>4. Excused <=> loop \in {"modal", "person"} \/ MayRearm
      BY <1>p DEF Excused, MayRearm, Hung, WatchAges
    <2>5. Awake
      BY <1>2, <2>2, <2>3, <2>4 DEF TimePasses, Awake
    <2> QED BY <1>1, <1>2, <2>1, <2>5 DEF TimePasses
  <1>3. CASE Sleeps
    BY <1>1, <1>3 DEF Sleeps
  <1> QED BY <1>2, <1>3

LEMMA ReportingInTime ==
    ASSUME Known, WatchAges', Reporting, TimePasses \/ Sleeps
    PROVE  Reporting'
  <1> USE WatchConstants, LongestFacts
      DEF Known, WatchPlaces, WatchAges, PhaseKnown, Told, Reporting
  <1>1. PICK n \in Nat \ {0} : /\ Grown(n)
                               /\ \/ n = 1 /\ Awake
                                  \/ stuck' = 0 /\ idle' = 0 /\ dozed'
    BY TimeGrows
  <1>2. /\ UNCHANGED <<guiPlace, budget, counts, stop, wpc, limit, reported, late, due>>
        /\ gpc = "run" /\ wpc \in {"wait", "gone"}
    BY <1>1 DEF Grown
  <1>3. /\ beat' = IF beat + n < Longest THEN beat + n ELSE Longest
        /\ since' = IF since + n < Cap THEN since + n ELSE Cap
        /\ own' = IF own + n < Cap THEN own + n ELSE Cap
        /\ pollAge' = IF pollAge + n < Poll + Longest + 1 THEN pollAge + n ELSE Poll + Longest + 1
    BY <1>1 DEF Grown
  <1>4. pumped' = IF pumped = None THEN None ELSE IF pumped + n < Cap THEN pumped + n ELSE Cap
    BY <1>1 DEF Grown
  <1>5. mute' = IF loop \in {"modal", "person"} THEN 0
                ELSE IF mute + n < Most(HungAfter, Longest) THEN mute + n
                ELSE Most(HungAfter, Longest)
    BY <1>1 DEF Grown
  <1>6. /\ wpc # "gone" /\ Poll < pollAge' => stuck' = 0 /\ idle' = 0
        /\ stuck' = 0 \/ (n = 1 /\ ~MayRearm /\ stuck' <= stuck + 1)
        /\ idle' = 0 \/ (n = 1 /\ idle' <= idle + 1)
    BY <1>1, <1>2, <1>3 DEF Awake
  <1>7. Stamps'
    BY <1>2, <1>3 DEF Stamps, guiPlace, counts
  <1> USE DEF guiPlace, budget, counts, PersonPauses, MayRearm, Settled, Away, Budget
  <1>8. PollAges'
    BY <1>2, <1>3, <1>6 DEF PollAges
  <1>9. BeatOld'
    <2> USE <1>2
    <2>1. ~stop => stuck' <= beat' \/ beat' = Longest
      BY <1>1, <1>2, <1>3, <1>6 DEF BeatOld
    <2>2. ~stop /\ Away' => idle' <= beat' \/ beat' = Longest
      BY <1>1, <1>2, <1>3, <1>6 DEF BeatOld
    <2>3. ~stop /\ loop' = "handler" => idle' <= mute' \/ mute' = Most(HungAfter, Longest)
      BY <1>1, <1>2, <1>5, <1>6 DEF BeatOld
    <2> QED BY <2>1, <2>2, <2>3 DEF BeatOld
  <1>10. PollPermits'
    BY <1>2, <1>6 DEF PollPermits
  <1>11. StallLatched'
    BY <1>1, <1>2, <1>3, <1>6 DEF StallLatched, PollAges
  <1>12. HandlerLatched'
    BY <1>1, <1>2, <1>3, <1>6 DEF HandlerLatched, Aged, Most
  <1>13. DriverLatched'
    <2>1. CASE pumped = None
      BY <1>1, <1>2, <1>3, <1>4, <1>6, <2>1 DEF DriverLatched, Aged
    <2>2. CASE pumped \in 0..Cap
      BY <1>1, <1>2, <1>3, <1>4, <1>6, <2>2 DEF DriverLatched, Aged
    <2> QED BY <2>1, <2>2
  <1> QED BY <1>7, <1>8, <1>9, <1>10, <1>11, <1>12, <1>13

LEMMA PlacesTell == Places => Known
  BY CountersTell DEF Places, Known

LEMMA ReportingAtStart == WatchInit => Reporting
  <1> SUFFICES ASSUME WatchInit PROVE Reporting
    OBVIOUS
  <1>1. Budget = Steady /\ Steady \in Nat \ {0} /\ Poll \in Nat
    BY WatchConstants DEF WatchInit, Budget
  <1> QED BY <1>1 DEF WatchInit, Reporting, Stamps, PollAges, BeatOld, Away, PollPermits,
                      StallLatched, HandlerLatched, DriverLatched

LEMMA ReportingStep ==
    ASSUME Places, Places', Reporting, [WatchNext]_watchVars
    PROVE  Reporting'
  <1>1. Known /\ WatchAges'
    BY PlacesTell DEF Places
  <1>2. CASE Gui \/ Watchdog
    BY <1>1, <1>2, StampsKept, PollAgesKept, BeatOldKept, PollPermitsKept, StallLatchedKept,
       HandlerLatchedKept, DriverLatchedKept DEF Reporting
  <1>3. CASE TimePasses \/ Sleeps
    BY <1>1, <1>3, ReportingInTime
  <1>4. CASE UNCHANGED watchVars
    BY <1>4 DEF watchVars, guiPlace, clocks, budget, counts, poll, Reporting, Stamps, PollAges,
                BeatOld, PollPermits, StallLatched, HandlerLatched, DriverLatched, Settled,
                MayRearm, PersonPauses, Away, Aged, Budget
  <1> QED BY <1>2, <1>3, <1>4 DEF WatchNext

(* A stall that nothing excuses is on its way to the report, whatever place *)
(* threadMain() is in: the clocks it compares are as old as the stall.     *)
THEOREM ReportingInvariant == WatchSpec => []Reporting
  BY PlacesInvariant, ReportingAtStart, ReportingStep, PTL DEF WatchSpec

(* Every hang is reported within a poll of its budget, the second like the *)
(* first, and inside an excuse too once that has run out, whatever the     *)
(* budgets, the cap and the poll of threadMain() are                       *)
(* (hang_watchdog.cpp:783-906).                                            *)
THEOREM HangsAreReported == WatchSpec => []HangIsReported
  <1>1. Places /\ Reporting => HangIsReported
    <2> SUFFICES ASSUME Places, Reporting PROVE HangIsReported
      OBVIOUS
    <2>1. Known
      BY PlacesTell
    <2>2. Budget \in Nat \ {0} /\ Most(HungAfter, Budget) \in Nat \ {0}
      BY WatchConstants, BudgetFacts DEF Most
    <2>3. Aged \in Nat /\ (Aged <= Poll \/ idle = 0)
      BY <2>1, WatchConstants, LongestFacts DEF Known, Aged, PollAges, Reporting, WatchAges
    <2>4. (held = <<>> <=> paused = 0) /\ idle \in Nat /\ stuck \in Nat
      BY <2>1, LongestFacts DEF Known, Told, WatchAges
    <2>5. gpc = "run" /\ ~stop /\ loop = "none" /\ stuck >= Budget + Poll => reported
      BY DEF Reporting, StallLatched
    <2>6. loop = "handler" /\ held = <<>> /\ idle >= Most(HungAfter, Budget) + Poll => reported
      BY <2>2, <2>3, <2>4, WatchConstants DEF Reporting, HandlerLatched
    <2>7. loop = "win32u" /\ held = <<>> /\ idle >= Budget + Cap + 2 * Poll => reported
      BY <2>2, <2>3, <2>4, WatchConstants DEF Reporting, DriverLatched
    <2> QED BY <2>5, <2>6, <2>7 DEF HangIsReported
  <1> QED BY <1>1, PlacesInvariant, ReportingInvariant, PTL

-------------------------------------------------------------------------------
(* Nothing but a hang is reported.  What a poll will find excused: the     *)
(* pauses are younger than the poll, or it is past the reads that could    *)
(* have missed them.                                                       *)
Relieved ==
    /\ mute <= pollAge
    /\ PersonPauses \/ (paused > 0 /\ own <= pollAge)

WillRearm ==
    \/ wpc = "user" /\ mute <= Poll /\ (PersonPauses \/ (paused > 0 /\ own < Cap))
    \/ wpc = "verdict" /\ mute < HungAfter
    \/ wpc = "paused" /\ paused > 0 /\ own < Cap
    \/ wpc = "since" /\ own < Cap
    \/ wpc = "rearm"

(* Unless the machine has slept, the clock is no older than what is owed,  *)
(* but for the poll that the cap ran out in, ...                           *)
OwedKnown ==
    ~stop /\ ~late /\ loop = "none" /\ ~dozed /\ wpc # "rearm" =>
      /\ paused = 0 => beat <= stuck
      /\ paused > 0 /\ ~PersonPauses /\ own = Cap => beat <= stuck + Poll
      /\ paused > 0 /\ ~PersonPauses /\ own < Cap /\ wpc \notin {"user", "paused", "since"}
           => beat <= pollAge \/ own <= pollAge

(* ... nor than what the GUI thread has taken no message for, ...          *)
MuteKnown ==
    ~stop /\ ~late /\ loop \in {"none", "win32u"} /\ ~dozed =>
      beat <= mute \/ Relieved \/ WillRearm

(* ... and an excuse of the driver's began with the wait it is for.        *)
PumpKnown ==
    ~stop /\ ~late /\ pumped # None /\ loop \in {"none", "person", "win32u"} /\ ~dozed =>
      \/ Relieved \/ WillRearm
      \/ loop = "win32u" /\ pumped <= idle
      \/ IF wpc \in {"wait", "excuse", "check"} THEN beat <= pollAge ELSE beat < limit

DueKnown == wpc \notin {"wait", "gone"} => (Hang \/ late \/ dozed => due)

(* A poll that will find the clock over the budget with no hang to report  *)
(* will find an excuse too.                                                *)
Suspects ==
    wpc \in {"user", "verdict", "paused", "since", "beat"} /\ ~due /\ ~stop /\ beat >= limit

Excusing ==
    \/ loop \in {"modal", "handler"}
    \/ loop = "win32u" /\ (pumped = None \/ pumped <= idle)

MayExcuse ==
    \/ wpc = "user" /\ MayRearm
    \/ wpc # "user" /\ WillRearm

SuspectsExcused ==
    Suspects =>
      /\ limit = Budget /\ (MayExcuse \/ Excusing)
      /\ loop = "none" => paused > 0 \/ user > 0
      /\ loop \in {"none", "person", "win32u"} => beat <= mute \/ mute < HungAfter

ReportsAreDue ==
    ~stop /\ ~due => wpc # "check" /\ (wpc = "excuse" => Excusing)

AgesInPolls == wpc = "wait" /\ ~dozed => pollAge <= Poll \/ beat = 0

Founded ==
    /\ AgesInPolls /\ OwedKnown /\ MuteKnown /\ PumpKnown /\ DueKnown
    /\ SuspectsExcused /\ ReportsAreDue

(* A hang, read off the counters.                                          *)
Stalls ==
    \/ loop = "handler" /\ mute >= HungAfter
    \/ loop = "win32u" /\ idle >= Cap
    \/ loop = "none" /\ PersonPauses /\ mute >= HungAfter /\ mute >= Budget
    \/ loop = "none" /\ ~PersonPauses /\ paused = 0 /\ stuck >= Budget
    \/ loop = "none" /\ ~PersonPauses /\ paused > 0 /\ stuck + Poll >= Budget

LEMMA StallsTell == Known => (Hang <=> Stalls)
  <1> SUFFICES ASSUME Known PROVE Hang <=> Stalls
    OBVIOUS
  <1>1. paused \in Nat /\ stuck \in Nat /\ Budget \in Nat /\ Poll \in Nat
    BY WatchConstants, LongestFacts, BudgetFacts DEF Known, Told, WatchAges
  <1>2. (held = <<>> <=> paused = 0) /\ (UserHeld <=> PersonPauses)
    BY DEF Known, Told
  <1> QED BY <1>1, <1>2 DEF Hang, Stalls, Hung

LEMMA StallsTellNext == Known' => (Hang' <=> Stalls')
  BY StallsTell, PTL
LEMMA DueKnownKept ==
    ASSUME DueKnown, Gui \/ Watchdog
    PROVE  DueKnown'
  <1>1. CASE Gui
    <2>1. wpc' = wpc
      BY <1>1 DEF Gui, GuiSteps, BeginStartup, Heartbeat, Count, Pause, Paused, PauseUser,
                  PausedUser, ResumeUser, UserDown, Resume, Resumed, Enter, Handler, LeaveLoop,
                  BeginShutdown, ShutdownBegun, Stop, StopReturns, watchdogs, poll
    <2>2. dozed' => dozed
      BY <1>1 DEF Gui, GuiSteps, BeginStartup, Heartbeat, Count, Pause, Paused, PauseUser,
                  PausedUser, ResumeUser, UserDown, Resume, Resumed, Enter, Handler, LeaveLoop,
                  BeginShutdown, ShutdownBegun, Stop, StopReturns, ComesRound, Silent, Begins
    <2> QED BY <1>1, <2>1, <2>2 DEF Gui, DueKnown
  <1>2. CASE Watchdog
    <2>1. UNCHANGED guis
      BY <1>2 DEF Watchdog, WakeUp, ReadUser, Verdict, ReadPaused, ReadSince, Rearm, Recover,
                  ReadBeat, Excuse, Report, Leave, Steps
    <2>2. Hang' = Hang /\ late' = late
      BY <2>1 DEF guis, guiPlace, budget, Hang, Hung, UserHeld, Budget
    <2>3. CASE WakeUp
      BY <2>2, <2>3 DEF WakeUp, DueKnown
    <2>4. CASE ~WakeUp
      <3>1. due' = due /\ (wpc' \notin {"wait", "gone"} => wpc \notin {"wait", "gone"})
        BY <1>2, <2>4 DEF Watchdog, ReadUser, Verdict, ReadPaused, ReadSince, Rearm, Recover,
                          ReadBeat, Excuse, Report, Leave, Steps, Goto
      <3>2. dozed' => dozed
        BY <1>2, <2>4 DEF Watchdog, ReadUser, Verdict, ReadPaused, ReadSince, Rearm, Recover,
                          ReadBeat, Excuse, Report, Leave, Steps
      <3> QED BY <2>2, <3>1, <3>2 DEF DueKnown
    <2> QED BY <2>3, <2>4
  <1> QED BY <1>1, <1>2

(* Where the poll begins: what the clock, found over the budget, and the   *)
(* hang that there is not leave, is an excuse.                             *)
LEMMA WakeUpExcused ==
    ASSUME Known, AgesInPolls, OwedKnown, MuteKnown, PumpKnown, WakeUp, Suspects'
    PROVE  /\ limit' = Budget' /\ (MayExcuse' \/ Excusing')
           /\ loop' = "none" => paused' > 0 \/ user' > 0
           /\ loop' \in {"none", "person", "win32u"} => beat' <= mute' \/ mute' < HungAfter
  <1> USE WatchConstants, LongestFacts, BudgetFacts
  <1>0. ~dozed /\ ~late /\ ~Hang
    <2>1. threshold \in Nat /\ pollAge \in Nat
      BY DEF Known, WatchAges
    <2>2. ~(pollAge > Poll + threshold)
      BY DEF WakeUp, Suspects, Goto
    <2>3. pollAge <= Poll + threshold
      BY <2>1, <2>2
    <2> QED BY <2>3 DEF WakeUp, Suspects
  <1>1. /\ UNCHANGED <<gpc, phase, held, loop, framesLeft, paused, user, mute, idle, own, beat,
                       pumped>>
        /\ wpc = "wait" /\ wpc' = "user" /\ limit' = threshold /\ ~stop
        /\ beat >= threshold /\ ~dozed /\ pollAge = Poll
    BY <1>0 DEF WakeUp, Suspects, guis, guiPlace, budget, counts, Goto, Known, WatchAges,
           AgesInPolls
  <1>2. threshold = Budget /\ Budget' = Budget
    BY <1>1 DEF Known, PhaseKnown, Budget
  <1>3. ~late /\ ~Hang
    BY <1>0 DEF WakeUp, Suspects
  <1>4. ~Stalls
    BY <1>3, StallsTell
  <1>5. /\ loop \in {"none", "modal", "handler", "person", "win32u"}
        /\ beat \in Nat /\ stuck \in Nat /\ mute \in Nat /\ own \in 0..Cap /\ idle \in Nat
        /\ paused \in Nat /\ user \in Nat
        /\ pumped \in {None} \cup (0..Cap)
        /\ loop = "person" => user > 0 /\ mute = 0
        /\ gpc = "resume" => paused > 0
    BY DEF Known, WatchPlaces, WatchAges, PhaseKnown, Told
  <1>6. loop \in {"none", "win32u"} => beat <= mute \/ Relieved
    BY <1>1, <1>3 DEF MuteKnown, WillRearm
  <1>7. Relieved => MayRearm /\ mute < HungAfter
    BY <1>1, <1>5 DEF Relieved, MayRearm
  <1>8. MayRearm \/ Excusing
    <2>1. CASE loop = "win32u"
      BY <1>1, <1>2, <1>3, <1>4, <1>5, <1>7, <2>1 DEF Stalls, PumpKnown, WillRearm, Excusing
    <2>2. CASE loop = "none" /\ PersonPauses
      BY <1>1, <1>2, <1>4, <1>5, <1>6, <1>7, <2>2 DEF Stalls, MayRearm
    <2>3. CASE loop = "none" /\ ~PersonPauses
      BY <1>1, <1>2, <1>3, <1>4, <1>5, <2>3 DEF Stalls, OwedKnown, MayRearm
    <2>4. CASE loop = "person"
      BY <1>5, <2>4 DEF MayRearm, PersonPauses
    <2>5. CASE loop \in {"modal", "handler"}
      BY <2>5 DEF Excusing
    <2> QED BY <1>5, <2>1, <2>2, <2>3, <2>4, <2>5
  <1>9. MayExcuse' \/ Excusing'
    BY <1>1, <1>8 DEF MayExcuse, MayRearm, PersonPauses, Excusing
  <1>10. loop = "none" => paused > 0 \/ user > 0
    BY <1>1, <1>2, <1>3, <1>4, <1>5 DEF Stalls, OwedKnown, PersonPauses
  <1>11. loop \in {"none", "person", "win32u"} => beat <= mute \/ mute < HungAfter
    BY <1>5, <1>6, <1>7
  <1> QED BY <1>1, <1>2, <1>9, <1>10, <1>11

LEMMA AgesInPollsKept ==
    ASSUME Known, Known', PollAges, AgesInPolls, Gui \/ Watchdog
    PROVE  AgesInPolls'
  <1> USE WatchConstants, LongestFacts
      DEF Known, WatchPlaces, WatchAges, PhaseKnown, Told, InFrame,
          PollAges, AgesInPolls, Hang,
          ComesRound, Silent, Begins, watchdogs, poll, counts, budget, guiPlace, guis, Goto, Steps
  <1>1. CASE BeginStartup
    BY <1>1 DEF BeginStartup
  <1>2. CASE Heartbeat
    BY <1>2 DEF Heartbeat
  <1>3. CASE Count
    BY <1>3 DEF Count
  <1>4. CASE Pause("grace")
    BY <1>4 DEF Pause
  <1>5. CASE Pause("app")
    BY <1>5 DEF Pause
  <1>6. CASE Paused
    BY <1>6 DEF Paused
  <1>7. CASE PauseUser
    BY <1>7 DEF PauseUser
  <1>8. CASE PausedUser
    BY <1>8 DEF PausedUser
  <1>9. CASE ResumeUser
    BY <1>9 DEF ResumeUser
  <1>10. CASE UserDown
    BY <1>10 DEF UserDown
  <1>11. CASE Resume
    <2>1. ~late' => ~late /\ paused # 1
      BY <1>11 DEF Resume
    <2> QED BY <1>11, <2>1 DEF Resume
  <1>12. CASE Resumed
    BY <1>12 DEF Resumed
  <1>13. CASE \E l \in {"modal", "person", "win32u"} : Enter(l)
    BY <1>13 DEF Enter
  <1>14. CASE Handler
    BY <1>14 DEF Handler
  <1>15. CASE LeaveLoop
    <2>1. ~late' => ~late /\ loop = "person"
      BY <1>15 DEF LeaveLoop
    <2> QED BY <1>15, <2>1 DEF LeaveLoop
  <1>16. CASE BeginShutdown
    BY <1>16 DEF BeginShutdown
  <1>17. CASE ShutdownBegun
    BY <1>17 DEF ShutdownBegun
  <1>18. CASE Stop
    BY <1>18 DEF Stop
  <1>19. CASE StopReturns
    BY <1>19 DEF StopReturns
  <1>20. CASE WakeUp
    BY <1>20 DEF WakeUp
  <1>21. CASE ReadUser
    BY <1>21 DEF ReadUser
  <1>22. CASE Verdict
    BY <1>22 DEF Verdict
  <1>23. CASE ReadPaused
    BY <1>23 DEF ReadPaused
  <1>24. CASE ReadSince
    BY <1>24 DEF ReadSince
  <1>25. CASE Rearm
    BY <1>25 DEF Rearm
  <1>26. CASE Recover
    BY <1>26 DEF Recover
  <1>27. CASE ReadBeat
    BY <1>27 DEF ReadBeat
  <1>28. CASE Excuse
    BY <1>28 DEF Excuse
  <1>29. CASE Report
    BY <1>29 DEF Report
  <1>30. CASE Leave
    BY <1>30 DEF Leave
  <1> QED BY <1>1, <1>2, <1>3, <1>4, <1>5, <1>6, <1>7, <1>8, <1>9, <1>10, <1>11, <1>12, <1>13,
             <1>14, <1>15, <1>16, <1>17, <1>18, <1>19, <1>20, <1>21, <1>22, <1>23, <1>24, <1>25,
             <1>26, <1>27, <1>28, <1>29, <1>30
             DEF Gui, GuiSteps, Watchdog

LEMMA OwedKnownKept ==
    ASSUME Known, Known', Stamps, PollAges, AgesInPolls, OwedKnown, Gui \/ Watchdog
    PROVE  OwedKnown'
  <1> USE WatchConstants, LongestFacts
      DEF Known, WatchPlaces, WatchAges, PhaseKnown, Told, InFrame,
          Stamps, PollAges, AgesInPolls, OwedKnown, PersonPauses, Hung,
          ComesRound, Silent, Begins, watchdogs, poll, counts, budget, guiPlace, guis, Goto, Steps
  <1>1. CASE BeginStartup
    BY <1>1 DEF BeginStartup
  <1>2. CASE Heartbeat
    BY <1>2 DEF Heartbeat
  <1>3. CASE Count
    BY <1>3 DEF Count
  <1>4. CASE Pause("grace")
    BY <1>4 DEF Pause
  <1>5. CASE Pause("app")
    BY <1>5 DEF Pause
  <1>6. CASE Paused
    BY <1>6 DEF Paused
  <1>7. CASE PauseUser
    BY <1>7 DEF PauseUser
  <1>8. CASE PausedUser
    BY <1>8 DEF PausedUser
  <1>9. CASE ResumeUser
    BY <1>9 DEF ResumeUser
  <1>10. CASE UserDown
    BY <1>10 DEF UserDown
  <1>11. CASE Resume
    <2>1. ~late' => ~late /\ paused # 1
      BY <1>11 DEF Resume
    <2> QED BY <1>11, <2>1 DEF Resume
  <1>12. CASE Resumed
    BY <1>12 DEF Resumed
  <1>13. CASE \E l \in {"modal", "person", "win32u"} : Enter(l)
    BY <1>13 DEF Enter
  <1>14. CASE Handler
    BY <1>14 DEF Handler
  <1>15. CASE LeaveLoop
    <2>1. ~late' => ~late /\ loop = "person"
      BY <1>15 DEF LeaveLoop
    <2> QED BY <1>15, <2>1 DEF LeaveLoop
  <1>16. CASE BeginShutdown
    BY <1>16 DEF BeginShutdown
  <1>17. CASE ShutdownBegun
    BY <1>17 DEF ShutdownBegun
  <1>18. CASE Stop
    BY <1>18 DEF Stop
  <1>19. CASE StopReturns
    BY <1>19 DEF StopReturns
  <1>20. CASE WakeUp
    BY <1>20 DEF WakeUp
  <1>21. CASE ReadUser
    BY <1>21 DEF ReadUser
  <1>22. CASE Verdict
    BY <1>22 DEF Verdict
  <1>23. CASE ReadPaused
    BY <1>23 DEF ReadPaused
  <1>24. CASE ReadSince
    BY <1>24 DEF ReadSince
  <1>25. CASE Rearm
    BY <1>25 DEF Rearm
  <1>26. CASE Recover
    BY <1>26 DEF Recover
  <1>27. CASE ReadBeat
    BY <1>27 DEF ReadBeat
  <1>28. CASE Excuse
    BY <1>28 DEF Excuse
  <1>29. CASE Report
    BY <1>29 DEF Report
  <1>30. CASE Leave
    BY <1>30 DEF Leave
  <1> QED BY <1>1, <1>2, <1>3, <1>4, <1>5, <1>6, <1>7, <1>8, <1>9, <1>10, <1>11, <1>12, <1>13,
             <1>14, <1>15, <1>16, <1>17, <1>18, <1>19, <1>20, <1>21, <1>22, <1>23, <1>24, <1>25,
             <1>26, <1>27, <1>28, <1>29, <1>30
             DEF Gui, GuiSteps, Watchdog

LEMMA MuteKnownKept ==
    ASSUME Known, Known', Stamps, PollAges, AgesInPolls, MuteKnown, Gui \/ Watchdog
    PROVE  MuteKnown'
  <1> USE WatchConstants, LongestFacts
      DEF Known, WatchPlaces, WatchAges, PhaseKnown, Told, InFrame,
          Stamps, PollAges, AgesInPolls, MuteKnown, Relieved, WillRearm, PersonPauses, Hung,
          ComesRound, Silent, Begins, watchdogs, poll, counts, budget, guiPlace, guis, Goto, Steps
  <1>1. CASE BeginStartup
    BY <1>1 DEF BeginStartup
  <1>2. CASE Heartbeat
    BY <1>2 DEF Heartbeat
  <1>3. CASE Count
    BY <1>3 DEF Count
  <1>4. CASE Pause("grace")
    BY <1>4 DEF Pause
  <1>5. CASE Pause("app")
    BY <1>5 DEF Pause
  <1>6. CASE Paused
    BY <1>6 DEF Paused
  <1>7. CASE PauseUser
    BY <1>7 DEF PauseUser
  <1>8. CASE PausedUser
    BY <1>8 DEF PausedUser
  <1>9. CASE ResumeUser
    BY <1>9 DEF ResumeUser
  <1>10. CASE UserDown
    BY <1>10 DEF UserDown
  <1>11. CASE Resume
    <2>1. ~late' => ~late /\ paused # 1
      BY <1>11 DEF Resume
    <2> QED BY <1>11, <2>1 DEF Resume
  <1>12. CASE Resumed
    BY <1>12 DEF Resumed
  <1>13. CASE \E l \in {"modal", "person", "win32u"} : Enter(l)
    BY <1>13 DEF Enter
  <1>14. CASE Handler
    BY <1>14 DEF Handler
  <1>15. CASE LeaveLoop
    <2>1. ~late' => ~late /\ loop = "person"
      BY <1>15 DEF LeaveLoop
    <2> QED BY <1>15, <2>1 DEF LeaveLoop
  <1>16. CASE BeginShutdown
    BY <1>16 DEF BeginShutdown
  <1>17. CASE ShutdownBegun
    BY <1>17 DEF ShutdownBegun
  <1>18. CASE Stop
    BY <1>18 DEF Stop
  <1>19. CASE StopReturns
    BY <1>19 DEF StopReturns
  <1>20. CASE WakeUp
    BY <1>20 DEF WakeUp
  <1>21. CASE ReadUser
    BY <1>21 DEF ReadUser
  <1>22. CASE Verdict
    BY <1>22 DEF Verdict
  <1>23. CASE ReadPaused
    BY <1>23 DEF ReadPaused
  <1>24. CASE ReadSince
    BY <1>24 DEF ReadSince
  <1>25. CASE Rearm
    BY <1>25 DEF Rearm
  <1>26. CASE Recover
    BY <1>26 DEF Recover
  <1>27. CASE ReadBeat
    BY <1>27 DEF ReadBeat
  <1>28. CASE Excuse
    BY <1>28 DEF Excuse
  <1>29. CASE Report
    BY <1>29 DEF Report
  <1>30. CASE Leave
    BY <1>30 DEF Leave
  <1> QED BY <1>1, <1>2, <1>3, <1>4, <1>5, <1>6, <1>7, <1>8, <1>9, <1>10, <1>11, <1>12, <1>13,
             <1>14, <1>15, <1>16, <1>17, <1>18, <1>19, <1>20, <1>21, <1>22, <1>23, <1>24, <1>25,
             <1>26, <1>27, <1>28, <1>29, <1>30
             DEF Gui, GuiSteps, Watchdog

LEMMA PumpKnownKept ==
    ASSUME Known, Known', Stamps, PollAges, AgesInPolls, PumpKnown, Gui \/ Watchdog
    PROVE  PumpKnown'
  <1> USE WatchConstants, LongestFacts
      DEF Known, WatchPlaces, WatchAges, PhaseKnown, Told, InFrame,
          Stamps, PollAges, AgesInPolls, PumpKnown, Relieved, WillRearm, PersonPauses, Hung,
          ComesRound, Silent, Begins, watchdogs, poll, counts, budget, guiPlace, guis, Goto, Steps
  <1>1. CASE BeginStartup
    BY <1>1 DEF BeginStartup
  <1>2. CASE Heartbeat
    BY <1>2 DEF Heartbeat
  <1>3. CASE Count
    BY <1>3 DEF Count
  <1>4. CASE Pause("grace")
    BY <1>4 DEF Pause
  <1>5. CASE Pause("app")
    BY <1>5 DEF Pause
  <1>6. CASE Paused
    BY <1>6 DEF Paused
  <1>7. CASE PauseUser
    BY <1>7 DEF PauseUser
  <1>8. CASE PausedUser
    BY <1>8 DEF PausedUser
  <1>9. CASE ResumeUser
    BY <1>9 DEF ResumeUser
  <1>10. CASE UserDown
    BY <1>10 DEF UserDown
  <1>11. CASE Resume
    <2>1. ~late' => ~late /\ paused # 1
      BY <1>11 DEF Resume
    <2> QED BY <1>11, <2>1 DEF Resume
  <1>12. CASE Resumed
    BY <1>12 DEF Resumed
  <1>13. CASE \E l \in {"modal", "person", "win32u"} : Enter(l)
    BY <1>13 DEF Enter
  <1>14. CASE Handler
    BY <1>14 DEF Handler
  <1>15. CASE LeaveLoop
    <2>1. ~late' => ~late /\ loop = "person"
      BY <1>15 DEF LeaveLoop
    <2> QED BY <1>15, <2>1 DEF LeaveLoop
  <1>16. CASE BeginShutdown
    BY <1>16 DEF BeginShutdown
  <1>17. CASE ShutdownBegun
    BY <1>17 DEF ShutdownBegun
  <1>18. CASE Stop
    BY <1>18 DEF Stop
  <1>19. CASE StopReturns
    BY <1>19 DEF StopReturns
  <1>20. CASE WakeUp
    BY <1>20 DEF WakeUp
  <1>21. CASE ReadUser
    BY <1>21 DEF ReadUser
  <1>22. CASE Verdict
    BY <1>22 DEF Verdict
  <1>23. CASE ReadPaused
    BY <1>23 DEF ReadPaused
  <1>24. CASE ReadSince
    BY <1>24 DEF ReadSince
  <1>25. CASE Rearm
    BY <1>25 DEF Rearm
  <1>26. CASE Recover
    BY <1>26 DEF Recover
  <1>27. CASE ReadBeat
    BY <1>27 DEF ReadBeat
  <1>28. CASE Excuse
    BY <1>28 DEF Excuse
  <1>29. CASE Report
    BY <1>29 DEF Report
  <1>30. CASE Leave
    BY <1>30 DEF Leave
  <1> QED BY <1>1, <1>2, <1>3, <1>4, <1>5, <1>6, <1>7, <1>8, <1>9, <1>10, <1>11, <1>12, <1>13,
             <1>14, <1>15, <1>16, <1>17, <1>18, <1>19, <1>20, <1>21, <1>22, <1>23, <1>24, <1>25,
             <1>26, <1>27, <1>28, <1>29, <1>30
             DEF Gui, GuiSteps, Watchdog

LEMMA SuspectsExcusedInGui ==
    ASSUME Known, Known', Stamps, PollAges, AgesInPolls, OwedKnown, MuteKnown, PumpKnown,
           DueKnown, SuspectsExcused, Gui
    PROVE  SuspectsExcused'
  <1> USE WatchConstants, LongestFacts
      DEF Known, WatchPlaces, WatchAges, PhaseKnown, Told, InFrame,
          Stamps, PollAges, AgesInPolls, OwedKnown, MuteKnown, PumpKnown, SuspectsExcused,
          Suspects, MayExcuse, MayRearm, Excusing, Relieved, WillRearm, PersonPauses,
          Hung, Budget,
          ComesRound, Silent, Begins, watchdogs, poll, counts, budget, guiPlace, guis, Goto, Steps
  <1>d. ~due' => ~due /\ ~late' /\ (wpc \notin {"wait", "gone"} => ~dozed)
    BY DEF Gui, DueKnown
  <1>h. ~due' => ~Stalls'
    BY StallsTellNext DEF Gui
  <1>1. CASE BeginStartup
    BY <1>d, <1>1 DEF BeginStartup
  <1>2. CASE Heartbeat
    BY <1>d, <1>2 DEF Heartbeat
  <1>3. CASE Count
    BY <1>d, <1>3 DEF Count
  <1>4. CASE Pause("grace")
    BY <1>d, <1>4 DEF Pause
  <1>5. CASE Pause("app")
    BY <1>d, <1>5 DEF Pause
  <1>6. CASE Paused
    BY <1>d, <1>6 DEF Paused
  <1>7. CASE PauseUser
    BY <1>h, <1>d, <1>7 DEF PauseUser, Stalls
  <1>8. CASE PausedUser
    BY <1>d, <1>8 DEF PausedUser
  <1>9. CASE ResumeUser
    BY <1>d, <1>9 DEF ResumeUser
  <1>10. CASE UserDown
    BY <1>d, <1>10 DEF UserDown
  <1>11. CASE Resume
    <2>1. ~late' => ~late /\ paused # 1
      BY <1>11 DEF Resume
    <2> QED BY <1>d, <1>11, <2>1 DEF Resume
  <1>12. CASE Resumed
    BY <1>d, <1>12 DEF Resumed
  <1>13. CASE \E l \in {"modal", "person", "win32u"} : Enter(l)
    BY <1>d, <1>13 DEF Enter
  <1>14. CASE Handler
    BY <1>d, <1>14 DEF Handler
  <1>15. CASE LeaveLoop
    <2>1. ~late' => ~late /\ loop = "person"
      BY <1>15 DEF LeaveLoop
    <2> QED BY <1>d, <1>15, <2>1 DEF LeaveLoop
  <1>16. CASE BeginShutdown
    BY <1>d, <1>16 DEF BeginShutdown
  <1>17. CASE ShutdownBegun
    BY <1>d, <1>17 DEF ShutdownBegun
  <1>18. CASE Stop
    BY <1>d, <1>18 DEF Stop
  <1>19. CASE StopReturns
    BY <1>d, <1>19 DEF StopReturns
  <1> QED BY <1>1, <1>2, <1>3, <1>4, <1>5, <1>6, <1>7, <1>8, <1>9, <1>10, <1>11, <1>12, <1>13,
             <1>14, <1>15, <1>16, <1>17, <1>18, <1>19
             DEF Gui, GuiSteps

LEMMA SuspectsExcusedInWatchdog ==
    ASSUME Known, Known', Stamps, PollAges, AgesInPolls, OwedKnown, MuteKnown, PumpKnown,
           SuspectsExcused, Watchdog
    PROVE  SuspectsExcused'
  <1> USE WatchConstants, LongestFacts
      DEF Known, WatchPlaces, WatchAges, PhaseKnown, Told, InFrame,
          Stamps, PollAges, AgesInPolls, OwedKnown, MuteKnown, PumpKnown, SuspectsExcused,
          Suspects, MayExcuse, MayRearm, Excusing, Relieved, WillRearm, PersonPauses,
          Hung, Budget,
          ComesRound, Silent, Begins, watchdogs, poll, counts, budget, guiPlace, guis, Goto, Steps
  <1>h. Hang <=> Stalls
    BY StallsTell
  <1>1. CASE WakeUp
    BY <1>1, WakeUpExcused DEF SuspectsExcused
  <1>2. CASE ReadUser
    BY <1>h, <1>2 DEF ReadUser
  <1>3. CASE Verdict
    BY <1>h, <1>3 DEF Verdict
  <1>4. CASE ReadPaused
    BY <1>h, <1>4 DEF ReadPaused
  <1>5. CASE ReadSince
    BY <1>h, <1>5 DEF ReadSince
  <1>6. CASE Rearm
    BY <1>h, <1>6 DEF Rearm
  <1>7. CASE Recover
    BY <1>h, <1>7 DEF Recover
  <1>8. CASE ReadBeat
    BY <1>h, <1>8 DEF ReadBeat
  <1>9. CASE Excuse
    BY <1>h, <1>9 DEF Excuse, Stalls
  <1>10. CASE Report
    BY <1>h, <1>10 DEF Report
  <1>11. CASE Leave
    BY <1>h, <1>11 DEF Leave
  <1> QED BY <1>1, <1>2, <1>3, <1>4, <1>5, <1>6, <1>7, <1>8, <1>9, <1>10, <1>11 DEF Watchdog

LEMMA ReportsAreDueInGui ==
    ASSUME Known, Known', Stamps, DueKnown, SuspectsExcused, ReportsAreDue, Gui
    PROVE  ReportsAreDue'
  <1> USE WatchConstants, LongestFacts
      DEF Known, WatchPlaces, WatchAges, PhaseKnown, Told, InFrame,
          Stamps, DueKnown, SuspectsExcused, ReportsAreDue, Suspects, MayExcuse, WillRearm,
          Excusing, PersonPauses, Hung, Budget,
          ComesRound, Silent, Begins, watchdogs, poll, counts, budget, guiPlace, guis, Goto, Steps
  <1>d. ~due' => ~due /\ ~late' /\ (wpc \notin {"wait", "gone"} => ~dozed)
    BY DEF Gui, DueKnown
  <1>1. CASE BeginStartup
    BY <1>d, <1>1 DEF BeginStartup
  <1>2. CASE Heartbeat
    BY <1>d, <1>2 DEF Heartbeat
  <1>3. CASE Count
    BY <1>d, <1>3 DEF Count
  <1>4. CASE Pause("grace")
    BY <1>d, <1>4 DEF Pause
  <1>5. CASE Pause("app")
    BY <1>d, <1>5 DEF Pause
  <1>6. CASE Paused
    BY <1>d, <1>6 DEF Paused
  <1>7. CASE PauseUser
    BY <1>d, <1>7 DEF PauseUser
  <1>8. CASE PausedUser
    BY <1>d, <1>8 DEF PausedUser
  <1>9. CASE ResumeUser
    BY <1>d, <1>9 DEF ResumeUser
  <1>10. CASE UserDown
    BY <1>d, <1>10 DEF UserDown
  <1>11. CASE Resume
    <2>1. ~late' => ~late /\ paused # 1
      BY <1>11 DEF Resume
    <2> QED BY <1>d, <1>11, <2>1 DEF Resume
  <1>12. CASE Resumed
    BY <1>d, <1>12 DEF Resumed
  <1>13. CASE \E l \in {"modal", "person", "win32u"} : Enter(l)
    BY <1>d, <1>13 DEF Enter
  <1>14. CASE Handler
    BY <1>d, <1>14 DEF Handler
  <1>15. CASE LeaveLoop
    <2>1. ~late' => ~late /\ loop = "person"
      BY <1>15 DEF LeaveLoop
    <2> QED BY <1>d, <1>15, <2>1 DEF LeaveLoop
  <1>16. CASE BeginShutdown
    BY <1>d, <1>16 DEF BeginShutdown
  <1>17. CASE ShutdownBegun
    BY <1>d, <1>17 DEF ShutdownBegun
  <1>18. CASE Stop
    BY <1>d, <1>18 DEF Stop
  <1>19. CASE StopReturns
    BY <1>d, <1>19 DEF StopReturns
  <1> QED BY <1>1, <1>2, <1>3, <1>4, <1>5, <1>6, <1>7, <1>8, <1>9, <1>10, <1>11, <1>12, <1>13,
             <1>14, <1>15, <1>16, <1>17, <1>18, <1>19
             DEF Gui, GuiSteps

LEMMA ReportsAreDueInWatchdog ==
    ASSUME Known, Known', Stamps, DueKnown, SuspectsExcused, ReportsAreDue, Watchdog
    PROVE  ReportsAreDue'
  <1> USE WatchConstants, LongestFacts
      DEF Known, WatchPlaces, WatchAges, PhaseKnown, Told, InFrame,
          Stamps, DueKnown, SuspectsExcused, ReportsAreDue, Suspects, MayExcuse, WillRearm,
          Excusing, PersonPauses, Hung, Budget,
          ComesRound, Silent, Begins, watchdogs, poll, counts, budget, guiPlace, guis, Goto, Steps
  <1>h. Hang <=> Stalls
    BY StallsTell
  <1>1. CASE WakeUp
    BY <1>h, <1>1 DEF WakeUp, Stalls
  <1>2. CASE ReadUser
    BY <1>h, <1>2 DEF ReadUser
  <1>3. CASE Verdict
    BY <1>h, <1>3 DEF Verdict
  <1>4. CASE ReadPaused
    BY <1>h, <1>4 DEF ReadPaused
  <1>5. CASE ReadSince
    BY <1>h, <1>5 DEF ReadSince
  <1>6. CASE Rearm
    BY <1>h, <1>6 DEF Rearm
  <1>7. CASE Recover
    BY <1>h, <1>7 DEF Recover
  <1>8. CASE ReadBeat
    BY <1>h, <1>8 DEF ReadBeat
  <1>9. CASE Excuse
    BY <1>h, <1>9 DEF Excuse, Stalls
  <1>10. CASE Report
    BY <1>h, <1>10 DEF Report
  <1>11. CASE Leave
    BY <1>h, <1>11 DEF Leave
  <1> QED BY <1>1, <1>2, <1>3, <1>4, <1>5, <1>6, <1>7, <1>8, <1>9, <1>10, <1>11 DEF Watchdog

LEMMA FoundedInTime ==
    ASSUME Known, WatchAges', Founded, PollAges, TimePasses \/ Sleeps
    PROVE  Founded'
  <1> USE WatchConstants, LongestFacts
      DEF Known, WatchPlaces, WatchAges, PhaseKnown, Told, Founded
  <1>1. PICK n \in Nat \ {0} : /\ Grown(n)
                               /\ \/ n = 1 /\ Awake
                                  \/ stuck' = 0 /\ idle' = 0 /\ dozed'
    BY TimeGrows
  <1>2. /\ UNCHANGED <<guiPlace, budget, counts, stop, wpc, limit, reported, late, due>>
        /\ gpc = "run" /\ wpc \in {"wait", "gone"}
    BY <1>1 DEF Grown
  <1> USE DEF guiPlace, budget, counts, PersonPauses
  <1>3. DueKnown' /\ SuspectsExcused' /\ ReportsAreDue'
    BY <1>2 DEF DueKnown, SuspectsExcused, Suspects, ReportsAreDue
  <1>4. CASE dozed'
    BY <1>3, <1>4 DEF AgesInPolls, OwedKnown, MuteKnown, PumpKnown
  <1>5. CASE n = 1 /\ Awake
    <2>1. AgesInPolls'
      BY <1>1, <1>2, <1>5 DEF Grown, Awake, AgesInPolls
    <2>2. OwedKnown'
      BY <1>1, <1>2, <1>5 DEF Grown, Awake, AgesInPolls, OwedKnown, MayRearm
    <2>3. MuteKnown'
      BY <1>1, <1>2, <1>5 DEF Grown, Awake, AgesInPolls, MuteKnown, Relieved, WillRearm
    <2>4. PumpKnown'
      BY <1>1, <1>2, <1>5 DEF Grown, Awake, AgesInPolls, PumpKnown, Relieved, WillRearm
    <2> QED BY <1>3, <2>1, <2>2, <2>3, <2>4
  <1> QED BY <1>1, <1>4, <1>5

LEMMA FoundedAtStart == WatchInit => Founded
  <1> SUFFICES ASSUME WatchInit PROVE Founded
    OBVIOUS
  <1> USE WatchConstants, LongestFacts DEF WatchInit
  <1>1. AgesInPolls /\ DueKnown /\ SuspectsExcused /\ ReportsAreDue
    BY DEF AgesInPolls, DueKnown, SuspectsExcused, Suspects, ReportsAreDue
  <1>2. OwedKnown /\ MuteKnown /\ PumpKnown
    BY DEF OwedKnown, MuteKnown, PumpKnown
  <1> QED BY <1>1, <1>2 DEF Founded

LEMMA PlacesTellNext == Places' => Known'
  BY PlacesTell, PTL

LEMMA FoundedStep ==
    ASSUME Places, Places', Reporting, Founded, [WatchNext]_watchVars
    PROVE  Founded'
  <1>1. Known /\ Known' /\ WatchAges'
    BY PlacesTell, PlacesTellNext DEF Places
  <1>2. Stamps /\ PollAges
    BY DEF Reporting
  <1>3. ASSUME Gui \/ Watchdog
        PROVE  AgesInPolls' /\ OwedKnown' /\ MuteKnown' /\ PumpKnown' /\ DueKnown'
    BY <1>1, <1>2, <1>3, AgesInPollsKept, OwedKnownKept, MuteKnownKept, PumpKnownKept,
       DueKnownKept DEF Founded
  <1>4. CASE Gui
    <2>1. SuspectsExcused'
      BY <1>1, <1>2, <1>4, SuspectsExcusedInGui DEF Founded
    <2>2. ReportsAreDue'
      BY <1>1, <1>2, <1>4, ReportsAreDueInGui DEF Founded
    <2> QED BY <1>3, <1>4, <2>1, <2>2 DEF Founded
  <1>5. CASE Watchdog
    <2>1. SuspectsExcused'
      BY <1>1, <1>2, <1>5, SuspectsExcusedInWatchdog DEF Founded
    <2>2. ReportsAreDue'
      BY <1>1, <1>2, <1>5, ReportsAreDueInWatchdog DEF Founded
    <2> QED BY <1>3, <1>5, <2>1, <2>2 DEF Founded
  <1>6. CASE TimePasses \/ Sleeps
    BY <1>1, <1>2, <1>6, FoundedInTime
  <1>7. CASE UNCHANGED watchVars
    <2> USE <1>7 DEF watchVars, guiPlace, clocks, budget, counts, poll
    <2>1. AgesInPolls' /\ OwedKnown'
      BY DEF Founded, AgesInPolls, OwedKnown, PersonPauses
    <2>2. MuteKnown' /\ PumpKnown'
      BY DEF Founded, MuteKnown, PumpKnown, Relieved, WillRearm, PersonPauses
    <2>3. DueKnown' /\ ReportsAreDue'
      BY DEF Founded, DueKnown, ReportsAreDue, Excusing, Hang, Hung, UserHeld, Budget
    <2>4. SuspectsExcused'
      BY DEF Founded, SuspectsExcused, Suspects, MayExcuse, MayRearm, WillRearm, Excusing,
             PersonPauses, Budget
    <2> QED BY <2>1, <2>2, <2>3, <2>4 DEF Founded
  <1> QED BY <1>4, <1>5, <1>6, <1>7 DEF WatchNext

(* What threadMain() may still report is a hang, and where there is none it *)
(* has an excuse ahead of it: a pause to read, or a wait excuse() knows.   *)
THEOREM FoundedInvariant == WatchSpec => []Founded
  BY PlacesInvariant, ReportingInvariant, FoundedAtStart, FoundedStep, PTL DEF WatchSpec

(* No report but of a hang, whatever pauses, budgets and excuses the poll  *)
(* read one atomic at a time, however long the machine slept, and whatever *)
(* the budgets, the cap and the poll are (hang_watchdog.cpp:811, the test  *)
(* for a sleep, and :897-906, the latch); but for what NoFalseReport       *)
(* excepts, a thread just out of an excuse and a sleep too short to tell.  *)
THEOREM ReportsAreOfHangs == WatchSpec => NoFalseReport
  <1>1. Founded /\ [WatchNext]_watchVars => [reported' /\ ~reported => due]_watchVars
    <2> SUFFICES ASSUME Founded, WatchNext, reported', ~reported PROVE due
      BY DEF watchVars, poll
    <2>1. CASE Report
      BY <2>1 DEF Report, Founded, ReportsAreDue
    <2>2. CASE Gui
      BY <2>2 DEF Gui, GuiSteps, watchdogs, poll, BeginStartup, Heartbeat, Count, Pause, Paused,
                  PauseUser, PausedUser, ResumeUser, UserDown, Resume, Resumed, Enter, Handler,
                  LeaveLoop, BeginShutdown, ShutdownBegun, Stop, StopReturns
    <2>3. CASE Watchdog /\ ~Report
      BY <2>3 DEF Watchdog, WakeUp, ReadUser, Verdict, ReadPaused, ReadSince, Rearm, Recover,
                  ReadBeat, Excuse, Leave
    <2>4. CASE TimePasses \/ Sleeps
      BY <2>4 DEF TimePasses, Sleeps, AllAge
    <2> QED BY <2>1, <2>2, <2>3, <2>4 DEF WatchNext, Watchdog
  <1> QED BY <1>1, FoundedInvariant, PTL DEF WatchSpec, NoFalseReport
================================================================================
