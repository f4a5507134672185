------------------------------ MODULE TuningProofs ------------------------------
(***************************************************************************)
(* Who wins when hand, browser, scan, pacing and a radio that opens meet,  *)
(* proved for any frequencies, any scanner times, any pacing interval and  *)
(* any number of inputs in a frame.                                        *)
(*                                                                         *)
(* What the frame loop knows of the scan is its baseline, what a listener  *)
(* knows of the radio is what he has heard; the invariant ties both to the *)
(* Scanner's own fields.                                                   *)
(***************************************************************************)
EXTENDS Tuning, TLAPS

Dids == {"tuned", "stayed", "refilled"}

(* A Scanner, whatever it is doing.                                        *)
Scans == [state : {"Idle", "Scanning", "Paused", "Holding"}, plan : RowLists \cup {Range},
          index : Nat, first : BOOLEAN, phase : Nat, listened : 0..Listen,
          wait : {"dwell", "resume"}, did : Dids]
ScanOK(sc) ==
    /\ sc \in Scans /\ sc.index \in DOMAIN sc.plan
    /\ sc.first => sc.state = "Scanning"

(* Types.                                                                  *)
Types ==
    /\ pc \in {"input", "release", "opened"} /\ inputs \in 0..Inputs
    /\ centre \in Int /\ offset \in Offsets /\ held \in {None} \cup Int /\ since \in 0..Interval
    /\ ScanOK(scan) /\ lapse \in Nat
    /\ expected \in {None} \cup Int /\ rows \in RowLists
    /\ aside \in {None} \cup Int /\ opening \in BOOLEAN /\ keep \in {None} \cup Int
    /\ mine \in {None} \cup Int /\ touched \in BOOLEAN /\ asked \in BOOLEAN
    /\ heard \in {None} \cup (0..Listen) /\ quiet \in {None} \cup (0..(Hold + Resume))

(* A scan that has not tuned yet was told to go in this frame, and no      *)
(* other is without a baseline.                                            *)
FirstTune ==
    /\ scan.first => asked /\ pc = "input"
    /\ expected = None <=> ~Active \/ scan.first

(* The baseline is where the scan's last tune left the receiver; a         *)
(* receiver that stands elsewhere was moved, and not by the scan.          *)
Baseline ==
    /\ ~Active => mine = None
    /\ expected # None => mine = expected /\ (Abs # expected => touched)

(* A tune that is held while a scan is under way was tuned past by it.     *)
HeldIsOvertaken == expected # None /\ held # None => overtaken

(* What the listener has heard, in each state of a scan under way.  The    *)
(* budget spent is never more than was heard, and the countdowns never     *)
(* ahead of the quiet.                                                     *)
Heard ==
    /\ scan.state \in {"Paused", "Holding"} => heard # None /\ heard >= scan.listened
    /\ scan.state = "Paused" => quiet = None
    /\ scan.state = "Holding" => quiet # None /\ quiet >= Least(scan.phase, Hold)
    /\ scan.state = "Scanning" /\ ~scan.first /\ heard # None =>
          /\ scan.wait = "resume"
          /\ quiet # None /\ quiet >= Least(Hold + scan.phase, Hold + Resume)

IInv ==
    /\ Types
    /\ LatestTuneWins
    /\ FirstTune
    /\ Baseline
    /\ HeldIsOvertaken
    /\ Heard

-------------------------------------------------------------------------------
(* The Scanner.                                                            *)

LEMMA Constants ==
    /\ Dwell \in Nat /\ Hold \in Nat /\ Resume \in Nat /\ Listen \in Nat
    /\ Interval \in Nat \ {0} /\ None \notin Int
  BY TuningAssumption

(* The stops of a scan are frequencies, and there is one at least. *)
LEMMA PlanType ==
    ASSUME NEW sc, ScanOK(sc)
    PROVE  /\ sc.plan \in Seq(Int) /\ Len(sc.plan) \in Nat \ {0}
           /\ sc.index \in 1..Len(sc.plan) /\ sc.plan[sc.index] \in Int
  <1>1. sc.plan \in Seq(Int) /\ sc.index \in DOMAIN sc.plan
    BY TuningAssumption DEF ScanOK, Scans
  <1>2. DOMAIN sc.plan = 1..Len(sc.plan) /\ Len(sc.plan) \in Nat
    BY <1>1
  <1>3. sc.plan[sc.index] \in Int
    BY <1>1, <1>2
  <1> QED BY <1>1, <1>2, <1>3

LEMMA AdvanceOK ==
    ASSUME NEW sc, ScanOK(sc)
    PROVE  /\ Advance(sc) \in Scans /\ Advance(sc).index \in DOMAIN Advance(sc).plan
           /\ Advance(sc).plan = sc.plan /\ Advance(sc).state = sc.state
           /\ Advance(sc).first = sc.first /\ Advance(sc).listened = sc.listened
  <1>1. sc.plan \in Seq(Int) /\ Len(sc.plan) \in Nat \ {0} /\ sc.index \in 1..Len(sc.plan)
    BY PlanType
  <1> DEFINE i == (sc.index % Len(sc.plan)) + 1
  <1>2. i \in 1..Len(sc.plan) /\ i \in Nat
    BY <1>1
  <1>3. sc \in Scans
    BY DEF ScanOK
  <1>4. DOMAIN sc.plan = 1..Len(sc.plan)
    BY <1>1
  <1>5. Advance(sc) = [sc EXCEPT !.index = i]
    BY DEF Advance
  <1> HIDE DEF i
  <1> QED BY <1>2, <1>3, <1>4, <1>5 DEF Scans

LEMMA StoppedOK ==
    ScanOK(Stopped) /\ Stopped.state = "Idle" /\ Stopped.first = FALSE
  <1>1. Range \in Seq(Int) /\ Range # <<>> /\ Listen \in Nat
    BY TuningAssumption
  <1>2. 1 \in DOMAIN Range
    BY <1>1
  <1> QED BY <1>1, <1>2 DEF ScanOK, Scans, Stopped, Dids

(* A scan that goes afresh tunes first. *)
Going(sc) == ScanOK(sc) /\ sc.state = "Scanning" /\ sc.first

LEMMA FreshGoes ==
    ASSUME NEW sc \in Scans, sc.index \in DOMAIN sc.plan
    PROVE  Going(Fresh(sc)) /\ Fresh(sc).plan = sc.plan
  BY DEF Going, Fresh, ScanOK, Scans

LEMMA ConfigureOK ==
    ASSUME NEW sc, ScanOK(sc), NEW plan \in RowLists \cup {Range}
    PROVE  /\ Configure(sc, plan) \in Scans
           /\ 1 \in DOMAIN Configure(sc, plan).plan
           /\ Configure(sc, plan).index = 1
           /\ sc.state # "Idle" => Going(Configure(sc, plan))
  <1> DEFINE pl == IF plan = <<>> THEN Range ELSE plan
             stored == [sc EXCEPT !.plan = pl, !.index = 1, !.phase = 0]
  <1>1. pl \in RowLists \cup {Range} /\ pl \in Seq(Int) /\ pl # <<>>
    BY TuningAssumption
  <1>2. 1 \in DOMAIN pl
    BY <1>1
  <1> HIDE DEF pl
  <1>3. stored \in Scans /\ stored.plan = pl /\ stored.index = 1 /\ stored.state = sc.state
    BY <1>1 DEF ScanOK, Scans
  <1> HIDE DEF stored
  <1>4. Configure(sc, plan) = IF sc.state = "Idle" THEN stored ELSE Fresh(stored)
    BY DEF Configure, stored, pl
  <1>5. CASE sc.state = "Idle"
    BY <1>2, <1>3, <1>4, <1>5
  <1>6. CASE sc.state # "Idle"
    <2>1. Going(Fresh(stored)) /\ Fresh(stored).plan = pl
      BY <1>2, <1>3, FreshGoes
    <2>2. Fresh(stored).index = 1
      BY <1>3 DEF Fresh, Scans
    <2>3. Fresh(stored) \in Scans
      BY <2>1 DEF Going, ScanOK
    <2> QED BY <1>2, <1>4, <1>6, <2>1, <2>2, <2>3
  <1> QED BY <1>5, <1>6

LEMMA StartGoes ==
    ASSUME NEW sc \in Scans, 1 \in DOMAIN sc.plan, sc.index = 1
    PROVE  Going(Start(sc))
  BY DEF Start, Going, Fresh, ScanOK, Scans

LEMMA SkipGoes ==
    ASSUME NEW sc, ScanOK(sc)
    PROVE  Going(Skip(sc))
  BY AdvanceOK, FreshGoes DEF Skip

(* A tick that tunes. *)
LEMMA EmitOK ==
    ASSUME NEW sc \in Scans, sc.index \in DOMAIN sc.plan
    PROVE  /\ ScanOK(Emit(sc)) /\ Emit(sc).state = "Scanning" /\ Emit(sc).first = FALSE
           /\ Emit(sc).did = "tuned"
  BY DEF Emit, ScanOK, Scans, Dids

LEMMA AdvancedEmits ==
    ASSUME NEW sc, ScanOK(sc)
    PROVE  LET t == Emit(Advance(sc))
           IN ScanOK(t) /\ t.state = "Scanning" /\ t.first = FALSE /\ t.did = "tuned"
  BY AdvanceOK, EmitOK

(* The three states' ticks, for a scan that has tuned.  Only the countdown  *)
(* of a scan, or a listen budget that is spent, moves it on.               *)
LEMMA ScanningTicks ==
    ASSUME NEW sc, ScanOK(sc), sc.state = "Scanning", ~sc.first,
           NEW d \in Nat, NEW open \in BOOLEAN
    PROVE  LET t == Tick(sc, d, open)
           IN /\ ScanOK(t) /\ t.state # "Idle" /\ t.first = FALSE
              /\ open => t.state = "Paused" /\ t.listened = 0 /\ t.did # "tuned"
              /\ ~open /\ t.did = "tuned" =>
                    sc.phase + d >= (IF sc.wait = "resume" THEN Resume ELSE Dwell)
              /\ ~open /\ t.did # "tuned" =>
                    t.state = "Scanning" /\ t.phase = sc.phase + d /\ t.wait = sc.wait
              /\ t.did = "tuned" => t.state = "Scanning"
  <1> DEFINE due == IF sc.wait = "resume" THEN Resume ELSE Dwell
             did == IF sc.wait = "resume" THEN "refilled" ELSE "stayed"
             found == [Stay(sc, "Paused") EXCEPT !.listened = 0, !.did = did]
             rests == [Stay(sc, "Scanning") EXCEPT !.phase = sc.phase + d]
  <1>1. Tick(sc, d, open) = IF open THEN found
                                    ELSE IF sc.phase + d >= due THEN Emit(Advance(sc))
                                    ELSE rests
    BY DEF Tick, ScanningTick
  <1>0. did \in {"refilled", "stayed"} /\ 0 \in 0..Listen /\ sc.phase + d \in Nat
    BY Constants DEF ScanOK, Scans
  <1> HIDE DEF did
  <1>2. CASE open
    <2>1. /\ ScanOK(found) /\ found.state = "Paused" /\ found.listened = 0 /\ found.first = FALSE
          /\ found.did \in {"refilled", "stayed"}
      BY <1>0 DEF Stay, ScanOK, Scans, Dids
    <2> QED BY <1>1, <1>2, <2>1
  <1>3. CASE ~open /\ sc.phase + d >= due
    BY <1>1, <1>3, AdvancedEmits
  <1>4. CASE ~open /\ ~(sc.phase + d >= due)
    <2>1. /\ ScanOK(rests) /\ rests.state = "Scanning" /\ rests.first = FALSE
          /\ rests.phase = sc.phase + d /\ rests.wait = sc.wait /\ rests.did = "stayed"
      BY <1>0 DEF Stay, ScanOK, Scans, Dids
    <2> QED BY <1>1, <1>4, <2>1
  <1> QED BY <1>2, <1>3, <1>4

LEMMA PausedTicks ==
    ASSUME NEW sc, ScanOK(sc), sc.state = "Paused", NEW d \in Nat, NEW open \in BOOLEAN
    PROVE  LET t == Tick(sc, d, open)
           IN /\ ScanOK(t) /\ t.state # "Idle" /\ t.first = FALSE
              /\ t.did = "tuned" =>
                    t.state = "Scanning" /\ Listen > 0 /\ Least(sc.listened + d, Listen) >= Listen
              /\ t.did # "tuned" =>
                    /\ t.listened = Least(sc.listened + d, Listen)
                    /\ open => t.state = "Paused"
                    /\ ~open => t.state = "Holding" /\ t.phase = 0
  <1> DEFINE heardNow == Least(sc.listened + d, Listen)
             told == [sc EXCEPT !.listened = heardNow]
             rests == Stay(told, "Paused")
             holds == [Stay(told, "Holding") EXCEPT !.phase = 0]
  <1>1. heardNow \in 0..Listen
    BY Constants DEF Least, ScanOK, Scans
  <1> HIDE DEF heardNow
  <1>2. ScanOK(told) /\ told.listened = heardNow /\ told.state = "Paused"
    BY <1>1 DEF ScanOK, Scans
  <1>3. Tick(sc, d, open) = IF Listen > 0 /\ heardNow >= Listen THEN Emit(Advance(told))
                                  ELSE IF open THEN rests ELSE holds
    BY DEF Tick, PausedTick, heardNow
  <1>4. /\ ScanOK(rests) /\ rests.state = "Paused" /\ rests.first = FALSE
        /\ rests.listened = heardNow /\ rests.did = "stayed"
    BY <1>2 DEF Stay, ScanOK, Scans, Dids
  <1>5. /\ ScanOK(holds) /\ holds.state = "Holding" /\ holds.first = FALSE
        /\ holds.listened = heardNow /\ holds.did = "stayed" /\ holds.phase = 0
    BY <1>2 DEF Stay, ScanOK, Scans, Dids
  <1> HIDE DEF told, rests, holds
  <1>6. CASE Listen > 0 /\ heardNow >= Listen
    BY <1>2, <1>3, <1>6, AdvancedEmits DEF heardNow
  <1>7. CASE ~(Listen > 0 /\ heardNow >= Listen)
    BY <1>3, <1>4, <1>5, <1>7 DEF heardNow
  <1> QED BY <1>6, <1>7

LEMMA HoldingTicks ==
    ASSUME NEW sc, ScanOK(sc), sc.state = "Holding", NEW d \in Nat, NEW open \in BOOLEAN
    PROVE  LET t == Tick(sc, d, open)
           IN /\ ScanOK(t) /\ t.state # "Idle" /\ t.first = FALSE /\ t.did = "stayed"
              /\ t.listened = Least(sc.listened + d, Listen)
              /\ open => t.state = "Paused"
              /\ ~open /\ sc.phase + d >= Hold =>
                    t.state = "Scanning" /\ t.phase = 0 /\ t.wait = "resume"
              /\ ~open /\ ~(sc.phase + d >= Hold) =>
                    t.state = "Holding" /\ t.phase = sc.phase + d
  <1> DEFINE heardNow == Least(sc.listened + d, Listen)
             told == [sc EXCEPT !.listened = heardNow]
             rests == Stay(told, "Paused")
             over == [Stay(told, "Scanning") EXCEPT !.phase = 0, !.wait = "resume"]
             holds == [Stay(told, "Holding") EXCEPT !.phase = sc.phase + d]
  <1>1. heardNow \in 0..Listen
    BY Constants DEF Least, ScanOK, Scans
  <1>2. Tick(sc, d, open) = IF open THEN rests
                                   ELSE IF sc.phase + d >= Hold THEN over ELSE holds
    BY DEF Tick, HoldingTick, ScanOK, Scans
  <1> HIDE DEF heardNow
  <1>3. ScanOK(told) /\ told.listened = heardNow /\ told.state = "Holding" /\ sc.phase + d \in Nat
    BY <1>1 DEF ScanOK, Scans
  <1>4. /\ ScanOK(rests) /\ rests.state = "Paused" /\ rests.first = FALSE
        /\ rests.listened = heardNow /\ rests.did = "stayed"
    BY <1>3 DEF Stay, ScanOK, Scans, Dids
  <1>5. /\ ScanOK(over) /\ over.state = "Scanning" /\ over.first = FALSE /\ over.wait = "resume"
        /\ over.listened = heardNow /\ over.did = "stayed" /\ over.phase = 0
    BY <1>3 DEF Stay, ScanOK, Scans, Dids
  <1>6. /\ ScanOK(holds) /\ holds.state = "Holding" /\ holds.first = FALSE
        /\ holds.listened = heardNow /\ holds.did = "stayed" /\ holds.phase = sc.phase + d
    BY <1>3 DEF Stay, ScanOK, Scans, Dids
  <1> HIDE DEF told, rests, over, holds
  <1> QED BY <1>2, <1>4, <1>5, <1>6 DEF heardNow

(* A scan that has not tuned tunes; one that has is as its state says.     *)
LEMMA TickOK ==
    ASSUME NEW sc, ScanOK(sc), sc.state # "Idle", NEW d \in Nat, NEW open \in BOOLEAN
    PROVE  LET t == Tick(sc, d, open)
           IN /\ ScanOK(t) /\ t.state # "Idle" /\ t.first = FALSE
              /\ sc.first => t.did = "tuned"
              /\ t.did = "tuned" => t.state = "Scanning"
  <1>1. CASE sc.state = "Scanning" /\ sc.first
    <2>1. Tick(sc, d, open) = Emit(sc)
      BY <1>1 DEF Tick, ScanningTick
    <2> QED BY <1>1, <2>1, EmitOK DEF ScanOK
  <1>2. CASE sc.state = "Scanning" /\ ~sc.first
    BY <1>2, ScanningTicks
  <1>3. CASE sc.state = "Paused"
    <2>1. ~sc.first BY <1>3 DEF ScanOK
    <2> QED BY <1>3, <2>1, PausedTicks
  <1>4. CASE sc.state = "Holding"
    <2>1. ~sc.first BY <1>4 DEF ScanOK
    <2> QED BY <1>4, <2>1, HoldingTicks
  <1> QED BY <1>1, <1>2, <1>3, <1>4 DEF ScanOK, Scans

-------------------------------------------------------------------------------
(* Moving the centre.  While a scan runs a tune leaves what is held where  *)
(* it is, and says so.                                                     *)
LEMMA RetuneKeeps ==
    ASSUME Types, LatestTuneWins, NEW hz \in Int, RetuneSourceHz(hz)
    PROVE  /\ centre' \in Int /\ held' \in {None} \cup Int /\ since' \in 0..Interval
           /\ overtaken' \/ wanted' = Rests'
           /\ Active => held' = held /\ (held # None => overtaken')
  <1> USE Constants DEF Types, RetuneSourceHz
  <1>1. Lands(hz) => centre' \in {hz, centre}
    BY DEF Lands
  <1>2. CASE ~Radio \/ Active
    <2>1. /\ centre' \in {hz, centre} /\ since' = (IF hz = centre THEN since ELSE 0)
          /\ held' = held /\ wanted' = centre' /\ overtaken' = (held # None)
      BY <1>1, <1>2 DEF ApplyRetuneNow
    <2>2. centre' \in Int /\ held' \in {None} \cup Int /\ since' \in 0..Interval
      BY <2>1
    <2> QED BY <2>1, <2>2 DEF Rests
  <1>3. CASE Radio /\ ~Active /\ since < Interval
    BY <1>3 DEF Rests
  <1>4. CASE Radio /\ ~Active /\ ~(since < Interval)
    <2>1. centre' \in {hz, centre} /\ since' = 0 /\ held' = None /\ wanted' = centre'
      BY <1>1, <1>4
    <2> QED BY <1>4, <2>1 DEF Rests
  <1> QED BY <1>2, <1>3, <1>4

LEMMA InitIInv == Init => IInv
  <1> SUFFICES ASSUME Init PROVE IInv
    OBVIOUS
  <1>1. ScanOK(scan) /\ scan.state = "Idle" /\ ~scan.first
    BY StoppedOK DEF Init
  <1>2. 0 \in Offsets /\ Home \in Int /\ Inputs \in Nat
    BY TuningAssumption
  <1>3. Types
    <2>1. pc = "input" /\ inputs \in 0..Inputs /\ lapse \in Nat
      BY <1>2 DEF Init
    <2>2. centre \in Int /\ offset \in Offsets /\ held = None /\ since \in 0..Interval
      BY <1>2, Constants DEF Init
    <2>4. aside = None /\ opening = FALSE /\ keep = None
      BY DEF Init
    <2>3. /\ expected = None /\ rows \in RowLists /\ mine = None /\ touched = FALSE
          /\ asked = FALSE /\ heard = None /\ quiet = None
      BY DEF Init
    <2> QED BY <1>1, <2>1, <2>2, <2>3, <2>4 DEF Types
  <1>4. LatestTuneWins
    BY DEF Init, LatestTuneWins, LatestTuneAlwaysWins
  <1>5. FirstTune /\ Baseline /\ HeldIsOvertaken /\ Heard
    BY <1>1 DEF Init, FirstTune, Baseline, HeldIsOvertaken, Heard, Active
  <1> QED BY <1>3, <1>4, <1>5 DEF IInv

-------------------------------------------------------------------------------
(* The inputs.                                                             *)

LEMMA TurnType == ASSUME Types, Turn PROVE inputs' \in 0..Inputs /\ pc' = pc /\ pc = "input"
  <1>1. Inputs \in Nat
    BY TuningAssumption
  <1> QED BY <1>1 DEF Types, Turn

LEMMA InputsType ==
    ASSUME Types, Input
    PROVE  /\ inputs' \in 0..Inputs /\ pc' = pc /\ pc = "input"
           /\ aside' = aside /\ opening' = opening /\ keep' = keep
  BY TurnType DEF Input, radios

LEMMA UserTuneStep == ASSUME IInv, NEW abs \in Asked, UserTune(abs) PROVE IInv'
  <1> USE DEF IInv, UserTune, Moved
  <1>1. abs - offset \in Int /\ offset \in Int
    BY TuningAssumption DEF Types
  <1>2. /\ centre' \in Int /\ held' \in {None} \cup Int /\ since' \in 0..Interval
        /\ overtaken' \/ wanted' = Rests'
        /\ Active => held' = held /\ (held # None => overtaken')
    BY <1>1, RetuneKeeps
  <1>3. inputs' \in 0..Inputs /\ pc' = pc /\ aside' = aside /\ opening' = opening /\ keep' = keep
    BY InputsType
  <1>4. touched' \in BOOLEAN
    BY DEF Types
  <1>5. Types'
    BY <1>2, <1>3, <1>4 DEF Types, list, ears
  <1>6. FirstTune'
    BY <1>3 DEF FirstTune, Active
  <1>7. Baseline'
    <2>1. expected # None => Active
      BY DEF FirstTune
    <2> QED BY <2>1 DEF Baseline, Active, Abs, source
  <1>8. HeldIsOvertaken'
    BY <1>2 DEF HeldIsOvertaken, FirstTune
  <1>9. Heard'
    BY DEF Heard, ears
  <1>10. LatestTuneWins'
    BY <1>2 DEF LatestTuneWins, LatestTuneAlwaysWins
  <1> QED BY <1>5, <1>6, <1>7, <1>8, <1>9, <1>10

LEMMA UserOffsetStep == ASSUME IInv, NEW o \in Offsets, UserOffset(o) PROVE IInv'
  <1> USE DEF IInv, UserOffset, Moved, pacing
  <1>1. inputs' \in 0..Inputs /\ pc' = pc /\ aside' = aside /\ opening' = opening /\ keep' = keep
    BY InputsType
  <1>2. touched' \in BOOLEAN
    BY DEF Types
  <1>3. Types'
    BY <1>1, <1>2 DEF Types, list, ears
  <1>4. LatestTuneWins'
    BY <1>1 DEF LatestTuneWins, LatestTuneAlwaysWins, Rests
  <1>5. FirstTune'
    BY <1>1 DEF FirstTune, Active
  <1>6. Baseline'
    <2>1. expected # None => Active
      BY DEF FirstTune
    <2> QED BY <2>1 DEF Baseline, Active, Abs, source
  <1>7. HeldIsOvertaken' /\ Heard'
    BY DEF HeldIsOvertaken, Heard, ears
  <1> QED BY <1>3, <1>4, <1>5, <1>6, <1>7

(* A scan told to go.  It has no baseline until it has tuned.              *)
LEMMA ToldStep ==
    ASSUME IInv, Input, NEW sc, Going(sc), Told(sc), lapse' \in Nat
    PROVE  IInv'
  <1> USE DEF IInv, Told, source, pacing
  <1>1. /\ inputs' \in 0..Inputs /\ pc' = pc /\ pc = "input"
        /\ aside' = aside /\ opening' = opening /\ keep' = keep
    BY InputsType
  <1>2. ScanOK(scan') /\ scan'.state = "Scanning" /\ scan'.first
    BY DEF Going, ScanOK, Scans, Dids
  <1>3. Types'
    BY <1>1, <1>2 DEF Types, ears
  <1>4. LatestTuneWins'
    BY <1>1 DEF LatestTuneWins, LatestTuneAlwaysWins, Rests
  <1>5. FirstTune'
    BY <1>1, <1>2 DEF FirstTune, Active
  <1>6. Baseline' /\ HeldIsOvertaken' /\ Heard'
    BY <1>2 DEF Baseline, HeldIsOvertaken, Heard, Active
  <1> QED BY <1>3, <1>4, <1>5, <1>6

(* The plans a scan is given.                                              *)
LEMMA GivenPlans ==
    ASSUME Types
    PROVE  /\ rows \in RowLists \cup {Range} /\ Range \in RowLists \cup {Range}
           /\ (IF ticked THEN rows ELSE Range) \in RowLists \cup {Range}
           /\ ScanOK(scan) /\ 0 \in Nat
  BY DEF Types

LEMMA StartScanStep == ASSUME IInv, StartScan PROVE IInv'
  <1>1. Going(Start(Configure(scan, IF ticked THEN rows ELSE Range)))
    BY GivenPlans, ConfigureOK, StartGoes DEF IInv
  <1> QED BY <1>1, ToldStep, GivenPlans DEF StartScan, IInv

LEMMA WebStartScanStep == ASSUME IInv, WebStartScan PROVE IInv'
  <1>1. Going(Start(Configure(scan, Range)))
    BY GivenPlans, ConfigureOK, StartGoes DEF IInv
  <1> QED BY <1>1, ToldStep, GivenPlans DEF WebStartScan, IInv

LEMMA SkipScanStep == ASSUME IInv, SkipScan PROVE IInv'
  <1>1. Going(Skip(scan)) /\ lapse \in Nat
    BY SkipGoes DEF IInv, Types
  <1> QED BY <1>1, ToldStep DEF SkipScan

LEMMA EditScanStep == ASSUME IInv, EditScan PROVE IInv'
  <1>1. Going(Configure(scan, IF ticked THEN rows ELSE Range))
    BY GivenPlans, ConfigureOK DEF IInv, EditScan, Active
  <1>2. lapse \in Nat
    BY DEF IInv, Types
  <1> QED BY <1>1, <1>2, ToldStep DEF EditScan

(* Scanner::stop() forgets all it knew.                                    *)
LEMMA StopStep ==
    ASSUME IInv, Stop, inputs' \in 0..Inputs,
           pc' \in {"input", "release", "opened"}, rows' \in RowLists,
           UNCHANGED <<source, radios, pacing, wanted, overtaken, asked>>
    PROVE  IInv'
  <1> USE DEF IInv, Stop, source, radios, pacing
  <1>1. ScanOK(scan') /\ scan'.state = "Idle" /\ scan'.first = FALSE
    BY StoppedOK
  <1>2. Types'
    BY <1>1 DEF Types
  <1>3. LatestTuneWins'
    BY DEF LatestTuneWins, LatestTuneAlwaysWins, Rests
  <1>4. FirstTune' /\ Baseline' /\ HeldIsOvertaken' /\ Heard'
    BY <1>1 DEF FirstTune, Baseline, HeldIsOvertaken, Heard, Active
  <1> QED BY <1>2, <1>3, <1>4

LEMMA StopScanStep == ASSUME IInv, StopScan PROVE IInv'
  <1>1. inputs' \in 0..Inputs /\ pc' \in {"input", "release", "opened"} /\ rows' \in RowLists
    BY InputsType DEF IInv, Types, StopScan, list
  <1> QED BY <1>1, StopStep DEF StopScan, Input

LEMMA TickListModeStep == ASSUME IInv, TickListMode PROVE IInv'
  <1>1. inputs' \in 0..Inputs /\ pc' = pc /\ pc' \in {"input", "release", "opened"}
        /\ rows' \in RowLists /\ aside' = aside /\ opening' = opening /\ keep' = keep
    BY InputsType DEF IInv, Types, TickListMode
  <1>2. CASE Active
    BY <1>1, <1>2, StopStep DEF TickListMode, Input
  <1>3. CASE ~Active
    BY <1>1, <1>3 DEF TickListMode, IInv, Types, LatestTuneWins, LatestTuneAlwaysWins, Rests, FirstTune,
       Baseline, HeldIsOvertaken, Heard, Active, Abs, source, pacing, ears
  <1> QED BY <1>2, <1>3

LEMMA EditRowsStep == ASSUME IInv, NEW r \in RowLists, EditRows(r) PROVE IInv'
  <1>1. inputs' \in 0..Inputs /\ pc' = pc /\ aside' = aside /\ opening' = opening /\ keep' = keep
    BY InputsType DEF IInv, EditRows
  <1> QED BY <1>1 DEF EditRows, IInv, Types, LatestTuneWins, LatestTuneAlwaysWins, Rests, FirstTune,
       Baseline, HeldIsOvertaken, Heard, Active, Abs, source, pacing, hands, ears

(* A source that is replaced moves the receiver as a hand does.            *)
LEMMA RadioReplaced ==
    ASSUME IInv, centre' \in Int, held' \in {None} \cup Int, since' \in 0..Interval,
           aside' \in {None} \cup Int, opening' \in BOOLEAN, keep' \in {None} \cup Int,
           inputs' \in 0..Inputs, pc' \in {"input", "release", "opened"}, pc' = pc \/ pc # "input",
           UNCHANGED <<offset, scan, lapse, expected, rows, asked, mine, heard, quiet>>,
           Moved, LatestTuneWins', HeldIsOvertaken'
    PROVE  IInv'
  <1> USE DEF IInv
  <1>1. touched' \in BOOLEAN
    BY DEF Types, Moved
  <1>2. Types'
    BY <1>1 DEF Types
  <1>3. FirstTune'
    BY DEF FirstTune, Active
  <1>4. Baseline'
    <2>1. expected # None => Active
      BY DEF FirstTune
    <2> QED BY <2>1 DEF Baseline, Moved, Active, Abs, source
  <1>5. Heard'
    BY DEF Heard
  <1> QED BY <1>2, <1>3, <1>4, <1>5

LEMMA LeaveTypes ==
    ASSUME Types, LeaveRadio
    PROVE  /\ centre' \in Int /\ held' = held /\ since' = since /\ aside' = None
           /\ UNCHANGED <<offset, scan, lapse, expected, rows, asked, mine, heard, quiet>>
           /\ Moved
  BY DEF Types, LeaveRadio, Radio, pacing, list, ears

LEMMA SelectRadioStep == ASSUME IInv, SelectRadio PROVE IInv'
  <1> USE DEF IInv
  <1>1. /\ ~opening /\ opening' = TRUE /\ keep' = (IF centre > 0 THEN centre ELSE None)
        /\ wanted' = (IF keep' # None THEN keep' ELSE IF held # None THEN wanted ELSE None)
        /\ overtaken' = (overtaken /\ held # None)
    BY DEF SelectRadio
  <1>2. inputs' \in 0..Inputs /\ pc' = pc /\ pc' \in {"input", "release", "opened"}
    BY TurnType DEF SelectRadio, Types
  <1>3. /\ centre' \in Int /\ held' = held /\ since' = since /\ aside' = None
        /\ UNCHANGED <<offset, scan, lapse, expected, rows, asked, mine, heard, quiet>>
        /\ Moved
    BY LeaveTypes DEF SelectRadio
  <1>4. keep' \in {None} \cup Int
    BY <1>1 DEF Types
  <1>5. LatestTuneWins' /\ HeldIsOvertaken'
    BY <1>1, <1>3 DEF LatestTuneWins, LatestTuneAlwaysWins, Rests, HeldIsOvertaken
  <1>6. held' \in {None} \cup Int /\ since' \in 0..Interval
    BY <1>3 DEF Types
  <1> QED BY <1>1, <1>2, <1>3, <1>4, <1>5, <1>6, RadioReplaced

LEMMA SelectGeneratorStep == ASSUME IInv, SelectGenerator PROVE IInv'
  <1> USE DEF IInv
  <1>1. /\ ~opening /\ opening' = opening /\ keep' = keep
        /\ wanted' = (IF held # None THEN wanted ELSE None)
        /\ overtaken' = (overtaken /\ held # None)
    BY DEF SelectGenerator
  <1>2. inputs' \in 0..Inputs /\ pc' = pc /\ pc' \in {"input", "release", "opened"}
    BY TurnType DEF SelectGenerator, Types
  <1>3. /\ centre' \in Int /\ held' = held /\ since' = since /\ aside' = None
        /\ UNCHANGED <<offset, scan, lapse, expected, rows, asked, mine, heard, quiet>>
        /\ Moved
    BY LeaveTypes DEF SelectGenerator
  <1>4. LatestTuneWins' /\ HeldIsOvertaken'
    BY <1>1, <1>3 DEF LatestTuneWins, LatestTuneAlwaysWins, Rests, HeldIsOvertaken
  <1>5. held' \in {None} \cup Int /\ since' \in 0..Interval /\ keep' \in {None} \cup Int
    BY <1>1, <1>3 DEF Types
  <1>6. aside' \in {None} \cup Int /\ opening' \in BOOLEAN
    BY <1>1, <1>3 DEF Types
  <1> QED BY <1>2, <1>3, <1>4, <1>5, <1>6, RadioReplaced

-------------------------------------------------------------------------------
(* The scanner's step of a frame.                                          *)

LEMMA ScannedType ==
    ASSUME Types, Scanned
    PROVE  /\ pc = "input" /\ pc' = "release" /\ inputs' \in 0..Inputs /\ offset' = offset
           /\ rows' = rows /\ ticked' = ticked
           /\ aside' = aside /\ opening' = opening /\ keep' = keep
  <1>1. Inputs \in Nat
    BY TuningAssumption
  <1> QED BY <1>1 DEF Scanned, radios

LEMMA ScannerIdleStep == ASSUME IInv, ScannerIdle PROVE IInv'
  <1>1. pc' = "release" /\ inputs' \in 0..Inputs /\ offset' = offset /\ rows' = rows
        /\ aside' = aside /\ opening' = opening /\ keep' = keep
    BY ScannedType DEF IInv, ScannerIdle
  <1>2. ~scan.first
    BY DEF IInv, Types, ScanOK, ScannerIdle, Active
  <1> QED BY <1>1, <1>2 DEF ScannerIdle, IInv, Types, LatestTuneWins, LatestTuneAlwaysWins, Rests,
       FirstTune, Baseline, HeldIsOvertaken, Heard, Active, Abs, pacing, hands, ears

LEMMA ScannerYieldsStep == ASSUME IInv, ScannerYields PROVE IInv'
  <1>1. pc' = "release" /\ inputs' \in 0..Inputs /\ offset' = offset /\ rows' \in RowLists
    BY ScannedType DEF IInv, Types, ScannerYields
  <1> QED BY <1>1, StopStep DEF ScannerYields, Scanned, source

LEMMA ScannerListEmptiedStep == ASSUME IInv, ScannerListEmptied PROVE IInv'
  <1>1. pc' = "release" /\ inputs' \in 0..Inputs /\ offset' = offset /\ rows' \in RowLists
    BY ScannedType DEF IInv, Types, ScannerListEmptied
  <1> QED BY <1>1, StopStep DEF ScannerListEmptied, Scanned, source

(* What the ears have had, with the state of the scan after the tick.      *)
LEMMA HearsTypes ==
    ASSUME Types, NEW open \in BOOLEAN, NEW tuned \in BOOLEAN, Hears(open, tuned)
    PROVE  heard' \in {None} \cup (0..Listen) /\ quiet' \in {None} \cup (0..(Hold + Resume))
  BY Constants DEF Types, Hears, Least

(* A tick that does not tune leaves a scan that had tuned: the budget and  *)
(* the countdowns go on beside what was heard.                             *)
LEMMA HeardGoesOn ==
    ASSUME Types, Heard, scan.state # "Idle", ~scan.first, NEW open \in BOOLEAN,
           scan' = Tick(scan, lapse, open), scan'.did # "tuned", Hears(open, FALSE)
    PROVE  Heard'
  <1>6. ScanOK(scan) /\ lapse \in Nat
    BY DEF Types
  <1>0. /\ lapse \in Nat /\ scan.phase \in Nat /\ scan.listened \in 0..Listen
        /\ heard \in {None} \cup (0..Listen) /\ quiet \in {None} \cup (0..(Hold + Resume))
        /\ Hold \in Nat /\ Resume \in Nat /\ Listen \in Nat /\ None \notin Int
    BY Constants DEF Types, ScanOK, Scans
  <1>1. /\ heard' = IF heard # None THEN Least(heard + lapse, Listen)
                    ELSE IF open THEN 0 ELSE None
        /\ quiet' = IF open THEN None
                    ELSE IF quiet = None THEN 0 ELSE Least(quiet + lapse, Hold + Resume)
    BY DEF Hears
  <1>2. CASE scan.state = "Scanning" /\ open
    <2>1. scan'.state = "Paused" /\ scan'.listened = 0
      BY <1>6, <1>2, ScanningTicks, Zenon
    <2>2. heard' # None /\ heard' >= 0 /\ quiet' = None
      BY <1>0, <1>1, <1>2 DEF Least
    <2> QED BY <2>1, <2>2 DEF Heard
  <1>3. CASE scan.state = "Scanning" /\ ~open
    <2>1. scan'.state = "Scanning" /\ scan'.phase = scan.phase + lapse /\ scan'.wait = scan.wait
      BY <1>6, <1>3, ScanningTicks, Zenon
    <2>2. CASE heard = None
      BY <1>1, <1>3, <2>1, <2>2 DEF Heard
    <2>3. CASE heard # None
      <3>1. /\ scan.wait = "resume" /\ quiet # None
            /\ quiet >= Least(Hold + scan.phase, Hold + Resume)
        BY <1>3, <2>3 DEF Heard
      <3>2. quiet' = Least(quiet + lapse, Hold + Resume) /\ quiet' # None
        BY <1>0, <1>1, <1>3, <3>1 DEF Least
      <3>3. quiet' >= Least(Hold + (scan.phase + lapse), Hold + Resume)
        BY <1>0, <3>1, <3>2 DEF Least
      <3> QED BY <2>1, <3>1, <3>2, <3>3 DEF Heard
    <2> QED BY <2>2, <2>3
  <1>4. CASE scan.state = "Paused"
    <2>1. /\ scan'.listened = Least(scan.listened + lapse, Listen)
          /\ open => scan'.state = "Paused"
          /\ ~open => scan'.state = "Holding" /\ scan'.phase = 0
      BY <1>6, <1>4, PausedTicks, Zenon
    <2>2. heard # None /\ heard >= scan.listened /\ quiet = None
      BY <1>4 DEF Heard
    <2>3. heard' # None /\ heard' >= scan'.listened
      BY <1>0, <1>1, <2>1, <2>2 DEF Least
    <2>4. CASE open
      BY <1>1, <2>1, <2>3, <2>4 DEF Heard
    <2>5. CASE ~open
      <3>1. quiet' = 0 /\ quiet' # None
        BY <1>0, <1>1, <2>2, <2>5
      <3>2. Least(0, Hold) = 0
        BY <1>0 DEF Least
      <3> QED BY <2>1, <2>3, <2>5, <3>1, <3>2 DEF Heard
    <2> QED BY <2>4, <2>5
  <1>5. CASE scan.state = "Holding"
    <2>1. /\ scan'.listened = Least(scan.listened + lapse, Listen)
          /\ scan'.first = FALSE
          /\ open => scan'.state = "Paused"
          /\ ~open /\ scan.phase + lapse >= Hold =>
                scan'.state = "Scanning" /\ scan'.phase = 0 /\ scan'.wait = "resume"
          /\ ~open /\ ~(scan.phase + lapse >= Hold) =>
                scan'.state = "Holding" /\ scan'.phase = scan.phase + lapse
      BY <1>6, <1>5, HoldingTicks, Zenon
    <2>2. /\ heard # None /\ heard >= scan.listened
          /\ quiet # None /\ quiet >= Least(scan.phase, Hold)
      BY <1>5 DEF Heard
    <2>3. heard' # None /\ heard' >= scan'.listened
      BY <1>0, <1>1, <2>1, <2>2 DEF Least
    <2>4. CASE open
      BY <1>1, <2>1, <2>3, <2>4 DEF Heard
    <2>5. ~open => quiet' # None /\ quiet' >= Least(scan.phase + lapse, Hold)
      BY <1>0, <1>1, <2>2 DEF Least
    <2>6. CASE ~open /\ scan.phase + lapse >= Hold
      <3>1. quiet' >= Least(Hold + 0, Hold + Resume)
        BY <1>0, <2>5, <2>6 DEF Least
      <3> QED BY <2>1, <2>5, <2>6, <3>1 DEF Heard
    <2>7. CASE ~open /\ ~(scan.phase + lapse >= Hold)
      BY <2>1, <2>3, <2>5, <2>7 DEF Heard
    <2> QED BY <2>4, <2>6, <2>7
  <1> QED BY <1>2, <1>3, <1>4, <1>5, <1>6 DEF ScanOK, Scans

(* The tick of a scan that has tuned, with its baseline, or of one that    *)
(* starts afresh.                                                          *)
LEMMA ScannerTickStep ==
    ASSUME IInv, Active, Scanned, NEW before, ScanOK(before), before.state # "Idle",
           NEW baseline, before.first \/ (before = scan /\ baseline = expected),
           NEW open \in BOOLEAN, ScannerTick(before, baseline, open)
    PROVE  IInv'
  <1> DEFINE after == Tick(before, lapse, open)
  <1> USE DEF IInv
  <1>1. /\ pc' = "release" /\ inputs' \in 0..Inputs /\ offset' = offset /\ rows' = rows
        /\ aside' = aside /\ opening' = opening /\ keep' = keep
        /\ lapse \in Nat /\ offset \in Int
    BY ScannedType, TuningAssumption DEF Types
  <1>2. /\ ScanOK(after) /\ after.state # "Idle" /\ after.first = FALSE
        /\ before.first => after.did = "tuned"
        /\ after.did = "tuned" => after.state = "Scanning"
    BY <1>1, TickOK
  <1>3. scan' = after /\ lapse' = 0 /\ Hears(open, after.did = "tuned")
    BY DEF ScannerTick
  <1>4. heard' \in {None} \cup (0..Listen) /\ quiet' \in {None} \cup (0..(Hold + Resume))
    BY <1>3, HearsTypes
  <1>5. CASE after.did = "tuned"
    <2> DEFINE hz == after.plan[after.index] - offset
    <2>1. /\ RetuneSourceHz(hz) /\ expected' = centre' + offset /\ mine' = centre' + offset
          /\ touched' = FALSE /\ asked' = FALSE
      BY <1>5 DEF ScannerTick
    <2>2. hz \in Int
      BY <1>1, <1>2, PlanType
    <2> HIDE DEF after, hz
    <2>3. /\ centre' \in Int /\ held' \in {None} \cup Int /\ since' \in 0..Interval
          /\ overtaken' \/ wanted' = Rests'
          /\ held' = held /\ (held # None => overtaken')
      BY <2>1, <2>2, RetuneKeeps
    <2>4. expected' \in Int /\ expected' # None
      BY <1>1, <2>1, <2>3, Constants
    <2>5. Types'
      BY <1>1, <1>2, <1>3, <1>4, <2>1, <2>3, <2>4 DEF Types
    <2>6. FirstTune' /\ Baseline' /\ HeldIsOvertaken'
      BY <1>1, <1>2, <1>3, <2>1, <2>3, <2>4 DEF FirstTune, Baseline, HeldIsOvertaken, Active, Abs
    <2>7. heard' = None
      BY <1>3, <1>5 DEF Hears
    <2>8. Heard'
      BY <1>2, <1>3, <1>5, <2>7 DEF Heard
    <2>9. LatestTuneWins'
      BY <2>3 DEF LatestTuneWins, LatestTuneAlwaysWins
    <2> QED BY <2>5, <2>6, <2>8, <2>9
  <1>6. CASE after.did # "tuned"
    <2>1. before = scan /\ ~scan.first /\ baseline = expected /\ scan.state # "Idle"
      BY <1>2, <1>6
    <2>2. /\ expected' = expected /\ centre' = centre /\ held' = held /\ since' = since
          /\ wanted' = wanted /\ overtaken' = overtaken
          /\ touched' = touched /\ asked' = asked /\ mine' = mine
      BY <1>6, <2>1 DEF ScannerTick, pacing, hands
    <2>3. Heard'
      <3>1. Hears(open, FALSE)
        BY <1>3, <1>6 DEF Hears
      <3> QED BY <1>3, <1>6, <2>1, <3>1, HeardGoesOn
    <2> HIDE DEF after
    <2>4. Types'
      BY <1>1, <1>2, <1>3, <1>4, <2>2 DEF Types
    <2>5. LatestTuneWins'
      BY <1>1, <2>2 DEF LatestTuneWins, LatestTuneAlwaysWins, Rests
    <2>6. FirstTune' /\ Baseline' /\ HeldIsOvertaken'
      BY <1>1, <1>2, <1>3, <2>1, <2>2 DEF FirstTune, Baseline, HeldIsOvertaken, Active, Abs
    <2> QED BY <2>3, <2>4, <2>5, <2>6
  <1> QED BY <1>5, <1>6

LEMMA ScannerGoesOnStep == ASSUME IInv, ScannerGoesOn PROVE IInv'
  <1>1. PICK open \in BOOLEAN : ScannerTick(scan, expected, open)
    BY DEF ScannerGoesOn
  <1>2. ScanOK(scan) /\ scan.state # "Idle" /\ Active /\ Scanned
    BY DEF IInv, Types, ScannerGoesOn, Active
  <1> QED BY <1>1, <1>2, ScannerTickStep

LEMMA ScannerListReadStep == ASSUME IInv, ScannerListRead PROVE IInv'
  <1>1. PICK open \in BOOLEAN :
          IF rows # listed THEN ScannerTick(Configure(scan, rows), None, open)
                           ELSE ScannerTick(scan, expected, open)
    BY DEF ScannerListRead
  <1>2. ScanOK(scan) /\ scan.state # "Idle" /\ Active /\ Scanned /\ rows \in RowLists \cup {Range}
    BY DEF IInv, Types, ScannerListRead, Active
  <1>3. CASE rows # listed
    <2>1. /\ ScanOK(Configure(scan, rows)) /\ Configure(scan, rows).state # "Idle"
          /\ Configure(scan, rows).first
      BY <1>2, ConfigureOK DEF Going
    <2> QED BY <1>1, <1>2, <1>3, <2>1, ScannerTickStep
  <1>4. CASE rows = listed
    BY <1>1, <1>2, <1>4, ScannerTickStep
  <1> QED BY <1>3, <1>4

-------------------------------------------------------------------------------
(* The rest of the frame.                                                  *)

LEMMA RadioOpenedStep == ASSUME IInv, RadioOpened PROVE IInv'
  <1> USE DEF IInv, RadioOpened, Moved
  <1>0. /\ pc = "release" /\ opening /\ opening' = FALSE /\ keep' = None
        /\ UNCHANGED <<inputs, offset, scan, lapse, expected, rows, asked, mine, heard, quiet>>
    BY DEF Opened, list, ears
  <1>3. /\ pc' = "opened" /\ pc # "input" /\ inputs' \in 0..Inputs /\ aside' \in {None} \cup Int
        /\ opening' \in BOOLEAN /\ keep' \in {None} \cup Int /\ Moved
    BY <1>0 DEF Opened, Types
  <1>1. CASE keep = None
    <2>1. /\ centre' = Default /\ held' = held /\ since' = since /\ wanted' = wanted
          /\ overtaken' = (overtaken \/ (held = None /\ wanted # None))
      BY <1>1 DEF CarryAcross, pacing
    <2>2. centre' \in Int /\ held' \in {None} \cup Int /\ since' \in 0..Interval
      BY <2>1, TuningAssumption DEF Types
    <2>3. LatestTuneWins' /\ HeldIsOvertaken'
      BY <1>0, <1>1, <2>1 DEF LatestTuneWins, LatestTuneAlwaysWins, Rests, HeldIsOvertaken
    <2> QED BY <1>0, <1>3, <2>2, <2>3, RadioReplaced
  <1>2. CASE keep # None
    <2>1. /\ centre' \in {keep, Default} /\ held' = None
          /\ since' = (IF keep = Default THEN since ELSE 0)
          /\ wanted' = (IF wanted = keep THEN centre' ELSE wanted) /\ overtaken' = (wanted # keep)
      BY <1>2 DEF CarryAcross
    <2>2. centre' \in Int /\ held' \in {None} \cup Int /\ since' \in 0..Interval
      BY <1>2, <2>1, TuningAssumption, Constants DEF Types
    <2>3. LatestTuneWins' /\ HeldIsOvertaken'
      BY <2>1 DEF LatestTuneWins, LatestTuneAlwaysWins, Rests, HeldIsOvertaken
    <2> QED BY <1>0, <1>3, <2>2, <2>3, RadioReplaced
  <1> QED BY <1>1, <1>2

LEMMA RadioFailsStep == ASSUME IInv, RadioFails PROVE IInv'
  <1> USE DEF IInv, RadioFails
  <1>0. /\ pc = "release" /\ pc' = "opened" /\ opening /\ opening' = FALSE /\ keep' = None
        /\ UNCHANGED <<inputs, offset, scan, lapse, expected, rows, asked, mine, heard, quiet>>
        /\ UNCHANGED <<aside, centre, held, since, overtaken, touched>>
    BY DEF Opened, list, ears, pacing
  <1>1. Types'
    BY <1>0 DEF Types
  <1>2. LatestTuneWins'
    <2>1. Rests' = Rests
      BY <1>0 DEF Rests
    <2>2. wanted' = (IF wanted = keep /\ wanted # Rests THEN None ELSE wanted)
      OBVIOUS
    <2> QED BY <1>0, <2>1, <2>2 DEF LatestTuneWins, LatestTuneAlwaysWins
  <1>3. FirstTune' /\ Baseline' /\ HeldIsOvertaken' /\ Heard'
    BY <1>0 DEF FirstTune, Baseline, HeldIsOvertaken, Heard, Active, Abs
  <1> QED BY <1>1, <1>2, <1>3

LEMMA ReleaseDueStep == ASSUME IInv, NEW d \in 1..LongFrame, ReleaseDue(d) PROVE IInv'
  <1> USE DEF IInv, ReleaseDue, Passes, Due
  <1>0. d \in Nat /\ lapse' \in Nat /\ since' \in 0..Interval
    BY TuningAssumption, Constants DEF Types, Least
  <1>1. held \in Int /\ held # None /\ held' = None /\ centre' \in Int
    BY DEF Types, Lands
  <1>2. touched' \in BOOLEAN
    BY DEF Types
  <1>3. Types'
    BY <1>0, <1>1, <1>2 DEF Types, list, radios, ears
  <1>4. LatestTuneWins' /\ HeldIsOvertaken'
    BY <1>1 DEF LatestTuneWins, LatestTuneAlwaysWins, Rests, radios, HeldIsOvertaken
  <1>5. FirstTune'
    BY DEF FirstTune, Active
  <1>6. Baseline'
    <2>1. expected # None => Active /\ overtaken
      BY <1>1 DEF FirstTune, HeldIsOvertaken
    <2> QED BY <2>1 DEF Baseline, Active, Abs
  <1>7. Heard'
    BY DEF Heard, ears
  <1> QED BY <1>3, <1>4, <1>5, <1>6, <1>7

LEMMA NothingDueStep == ASSUME IInv, NEW d \in 1..LongFrame, NothingDue(d) PROVE IInv'
  <1> USE DEF IInv, NothingDue, Passes
  <1>0. d \in Nat /\ lapse' \in Nat /\ since' \in 0..Interval
    BY TuningAssumption, Constants DEF Types, Least
  <1>1. Types'
    BY <1>0 DEF Types, list, radios, ears
  <1>2. LatestTuneWins' /\ HeldIsOvertaken'
    BY DEF LatestTuneWins, LatestTuneAlwaysWins, Rests, radios, HeldIsOvertaken
  <1>3. FirstTune' /\ Baseline'
    BY DEF FirstTune, Active, Baseline, Abs
  <1>4. Heard'
    BY DEF Heard, ears
  <1> QED BY <1>1, <1>2, <1>3, <1>4

LEMMA IInvStep == IInv /\ [Next]_vars => IInv'
  <1> SUFFICES ASSUME IInv, [Next]_vars PROVE IInv'
    OBVIOUS
  <1>1. CASE UNCHANGED vars
    BY <1>1 DEF vars, source, radios, Rests, pacing, list, hands, ears, IInv, Types, LatestTuneWins,
       LatestTuneAlwaysWins, FirstTune, Baseline, HeldIsOvertaken, Heard, Active, Abs
  <1>2. CASE Frame
    BY <1>2, ScannerIdleStep, ScannerYieldsStep, ScannerListEmptiedStep, ScannerGoesOnStep,
       ScannerListReadStep, ReleaseDueStep, NothingDueStep DEF Frame
  <1> QED
    BY <1>1, <1>2, UserTuneStep, UserOffsetStep, StartScanStep, WebStartScanStep, SkipScanStep,
       EditScanStep, StopScanStep, TickListModeStep, EditRowsStep, SelectRadioStep,
       SelectGeneratorStep, RadioOpenedStep, RadioFailsStep DEF Next

-------------------------------------------------------------------------------
(* What the frame loop and the Scanner know of each other, for every       *)
(* interleaving of inputs and frames.                                      *)
THEOREM Invariance == Spec => []IInv
<1> QED BY InitIInv, IInvStep, PTL DEF Spec

(* Types, with a scan's index always at one of its stops.                  *)
THEOREM TuningTypes == Spec => []TypeOK
<1>1. IInv => TypeOK
  BY DEF IInv, Types, ScanOK, Scans, TypeOK
<1> QED BY <1>1, Invariance, PTL

(* The newest tune asked for is the one the coalescer holds or the one the *)
(* source was left at, whoever asks, whatever a radio refuses and whichever*)
(* source is chosen meanwhile; but for the two sequences `overtaken' names,*)
(* the coalescer brings back no tune that a newer one has replaced.        *)
THEOREM NewestTuneStays == Spec => []LatestTuneWins
<1>1. IInv => LatestTuneWins
  BY DEF IInv
<1> QED BY <1>1, Invariance, PTL

(* scannerFrame() retunes nothing that was moved since its last tune,      *)
(* unless it was told to go on in the same frame, and never takes its own  *)
(* tune, refused or late as it may be, for a hand's.                       *)
THEOREM HandsWin == Spec => UserWins
<1> DEFINE Emptied == ListChanged /\ rows = <<>>
           Wins == ScannerFrame => /\ scan'.did = "tuned" => mine \in {None, Abs} \/ asked
                                   /\ scan'.state = "Idle" => touched \/ Emptied
<1>1. ASSUME IInv, [Next]_vars
      PROVE  Wins
  <2> SUFFICES ASSUME ScannerFrame
               PROVE  /\ scan'.did = "tuned" => mine \in {None, Abs} \/ asked
                      /\ scan'.state = "Idle" => touched \/ Emptied
    OBVIOUS
  <2> USE <1>1 DEF IInv
  <2>1. pc = "input" /\ pc' = "release" /\ Active
    BY DEF ScannerFrame
  <2>2. ScannerYields \/ ScannerListEmptied \/ ScannerGoesOn \/ ScannerListRead
    BY <2>1 DEF Next, Frame, vars, UserTune, UserOffset, StartScan, WebStartScan, SkipScan,
       EditScan, StopScan, TickListMode, EditRows, Input, Turn, SelectRadio, SelectGenerator,
       RadioOpened, RadioFails, Opened, ScannerIdle, ReleaseDue, NothingDue
  <2>3. ~HandMoved => mine \in {None, Abs} \/ asked
    BY <2>1 DEF HandMoved, FirstTune, Baseline
  <2>4. CASE ScannerYields
    <3>1. scan'.did = "stayed" /\ touched
      BY <2>4 DEF ScannerYields, HandMoved, Baseline, Stop, Stopped
    <3> QED BY <3>1
  <2>5. CASE ScannerListEmptied
    <3>1. scan'.did = "stayed" /\ Emptied
      BY <2>5 DEF ScannerListEmptied, Stop, Stopped
    <3> QED BY <3>1
  <2>6. ASSUME ~HandMoved, NEW before, ScanOK(before), before.state # "Idle", NEW baseline,
               NEW open \in BOOLEAN, ScannerTick(before, baseline, open)
        PROVE  /\ scan'.did = "tuned" => mine \in {None, Abs} \/ asked
               /\ scan'.state = "Idle" => touched \/ Emptied
    <3>1. scan' = Tick(before, lapse, open) /\ lapse \in Nat
      BY <2>6 DEF ScannerTick, Types
    <3>2. scan'.state # "Idle"
      BY <2>6, <3>1, TickOK
    <3> QED BY <2>3, <2>6, <3>2
  <2>7. ScanOK(scan) /\ scan.state # "Idle" /\ rows \in RowLists \cup {Range}
    BY <2>1 DEF Types, Active
  <2>8. CASE ScannerGoesOn
    BY <2>6, <2>7, <2>8 DEF ScannerGoesOn
  <2>9. CASE ScannerListRead
    <3>1. PICK open \in BOOLEAN :
            IF rows # listed THEN ScannerTick(Configure(scan, rows), None, open)
                             ELSE ScannerTick(scan, expected, open)
      BY <2>9 DEF ScannerListRead
    <3>2. ScanOK(Configure(scan, rows)) /\ Configure(scan, rows).state # "Idle"
      BY <2>7, ConfigureOK DEF Going
    <3> QED BY <2>6, <2>7, <2>9, <3>1, <3>2 DEF ScannerListRead
  <2> QED BY <2>2, <2>4, <2>5, <2>8, <2>9
<1> QED BY <1>1, Invariance, PTL DEF Spec, UserWins

(* The whole hold and the whole resume wait, or the whole listen budget:   *)
(* no sequence of gaps and re-triggers lets the scan leave a signal it has *)
(* found any sooner.                                                       *)
THEOREM SignalsAreHeardOut == Spec => StaysUntilQuiet
<1> DEFINE Stays ==
      ScannerFrame /\ scan'.did = "tuned" /\ heard # None /\ ~asked /\ ~ListChanged
        => IF quiet = None THEN Listen > 0 /\ heard + lapse >= Listen
                           ELSE quiet + lapse >= Hold + Resume
<1>1. ASSUME IInv, [Next]_vars
      PROVE  Stays
  <2> SUFFICES ASSUME ScannerFrame, scan'.did = "tuned", heard # None, ~asked, ~ListChanged
               PROVE  IF quiet = None THEN Listen > 0 /\ heard + lapse >= Listen
                                      ELSE quiet + lapse >= Hold + Resume
    OBVIOUS
  <2>1. pc = "input" /\ pc' = "release" /\ Active
    BY DEF ScannerFrame
  <2>2. ScannerYields \/ ScannerListEmptied \/ ScannerGoesOn \/ ScannerListRead
    BY <1>1, <2>1 DEF Next, Frame, vars, UserTune, UserOffset, StartScan, WebStartScan, SkipScan,
       EditScan, StopScan, TickListMode, EditRows, Input, Turn, SelectRadio, SelectGenerator,
       RadioOpened, RadioFails, Opened, ScannerIdle, ReleaseDue, NothingDue
  <2>3. ScannerGoesOn
    BY <2>2 DEF ScannerYields, ScannerListEmptied, ScannerListRead, Stop, Stopped
  <2>4. PICK open \in BOOLEAN : ScannerTick(scan, expected, open)
    BY <2>3 DEF ScannerGoesOn
  <2>5. /\ ScanOK(scan) /\ scan.state # "Idle" /\ lapse \in Nat /\ ~scan.first
        /\ scan' = Tick(scan, lapse, open)
    BY <1>1, <2>1, <2>4 DEF IInv, Types, FirstTune, Active, ScannerTick
  <2>6. /\ scan.phase \in Nat /\ scan.listened \in 0..Listen
        /\ heard \in 0..Listen /\ quiet \in {None} \cup (0..(Hold + Resume))
        /\ Hold \in Nat /\ Resume \in Nat /\ Listen \in Nat
    BY <1>1, Constants DEF IInv, Types, ScanOK, Scans
  <2>7. Heard
    BY <1>1 DEF IInv
  <2>8. CASE scan.state = "Scanning"
    <3>1. /\ scan.wait = "resume"
          /\ quiet # None /\ quiet >= Least(Hold + scan.phase, Hold + Resume)
      BY <2>5, <2>7, <2>8 DEF Heard
    <3>2. ~open /\ scan.phase + lapse >= (IF scan.wait = "resume" THEN Resume ELSE Dwell)
      BY <2>5, <2>8, ScanningTicks, Zenon
    <3> QED BY <2>5, <2>6, <3>1, <3>2 DEF Least
  <2>9. CASE scan.state = "Paused"
    <3>1. quiet = None /\ heard >= scan.listened
      BY <2>7, <2>9 DEF Heard
    <3>2. Listen > 0 /\ Least(scan.listened + lapse, Listen) >= Listen
      BY <2>5, <2>9, PausedTicks, Zenon
    <3> QED BY <2>5, <2>6, <3>1, <3>2 DEF Least
  <2>10. scan.state # "Holding"
    <3>1. ASSUME scan.state = "Holding" PROVE scan'.did = "stayed"
      BY <2>5, <3>1, HoldingTicks, Zenon
    <3> QED BY <3>1
  <2> QED BY <2>5, <2>8, <2>9, <2>10 DEF ScanOK, Scans
<1> QED BY <1>1, Invariance, PTL DEF Spec, StaysUntilQuiet
===============================================================================
