------------------------------ MODULE TakesProofs ------------------------------
(***************************************************************************)
(* A recording, proved for any number of files, any rates and any size     *)
(* limit, whatever start overtakes the DSP thread inside endAtSizeLimit()  *)
(* and whatever finish fails: which files that can cost, and that every    *)
(* other file is in one pair of hands, claims the frames behind it or says *)
(* that it does not, and is at its header's rate.                          *)
(***************************************************************************)
EXTENDS Takes, TLAPS

(* Types: the recorder and its two threads, the start, the files.          *)
RecorderTypes ==
    /\ recording \in BOOLEAN /\ writeFailed \in BOOLEAN /\ sizeLimit \in BOOLEAN
    /\ file \in FileOrNone /\ data \in 0..Limit /\ tap \in BOOLEAN
    /\ gpc \in {"idle", "tap", "collect", "queue", "untap", "finish", "follow", "rateCheck", "dead"}
    /\ after \in {"idle", "follow"}
    /\ dpc \in Ending \cup {"idle", "write", "full", "off", "close", "dead"}
    /\ ending \in FileOrNone
StartTypes ==
    /\ rate \in Rates /\ takeRate \in Rates
    /\ start \in {"none", "opening", "opened", "failed"} /\ opened \in FileOrNone
    /\ cancelled \in BOOLEAN /\ queued \in BOOLEAN /\ slot \in FileOrNone
    /\ wanted \in BOOLEAN /\ overtook \in BOOLEAN /\ hurt \subseteq Files
FileTypes ==
    /\ place \in [Files -> {"closed", "opening", "take", "finishing", "ending", "leaked"}]
    /\ header \in [Files -> Rates] /\ mixed \in [Files -> BOOLEAN]
    /\ written \in [Files -> 0..Limit] /\ claimed \in [Files -> 0..Limit]
    /\ lapse \in [Files -> {"none", "untold", "told", "silent"}]

LEMMA ThreeParts == TypeOK <=> RecorderTypes /\ StartTypes /\ FileTypes
BY DEF TypeOK, RecorderTypes, StartTypes, FileTypes

(* Who has hands on what.  The recorder has a file while it records and    *)
(* while the DSP thread is between clearing recording_ and clearing file_, *)
(* but where a start has overtaken it there; no start is under way while it*)
(* records; and finishTake() runs untapped.                                *)
Hands ==
    /\ recording => file # NoFile \/ overtook
    /\ recording /\ dpc \in Holding => overtook
    /\ file # NoFile => recording \/ dpc \in Holding
    /\ dpc \in {"full", "off", "failed", "detach"} => file # NoFile
    /\ dpc \in {"write", "full", "off"} => recording
    /\ dpc = "clear" /\ ~recording => file = ending
    /\ ending # NoFile <=> dpc \in {"clear", "count", "close"}
    /\ dpc \in {"count", "close"} => file # ending
    /\ opened # NoFile <=> start # "none"
    /\ recording => start = "none"
    /\ gpc = "finish" => ~tap /\ dpc = "idle"
    /\ gpc = "dead" <=> dpc = "dead"
    /\ gpc = "dead" => overtook

(* Each file is where its holder says it is, and the one ticket slot is    *)
(* free for the take that will need it.                                    *)
OnePlace ==
    /\ \A f \in Files :
          /\ place[f] = "take" <=> file = f /\ ending # f
          /\ place[f] = "ending" <=> ending = f
          /\ place[f] = "opening" <=> opened = f /\ start # "failed"
          /\ place[f] = "finishing" => slot = f
          /\ place[f] = "leaked" => f \in hurt
    /\ start = "failed" => place[opened] = "closed"
    /\ start # "none" \/ file # NoFile => ~Finishing
    /\ file # NoFile /\ gpc \notin {"tap", "collect"} => slot = NoFile

(* Whom an overtaking start can have cost something: not the file the next *)
(* block goes to nor the one being opened, but the one it began with.      *)
HurtKnown ==
    /\ file # NoFile /\ dpc \notin Holding => file \notin hurt
    /\ start # "none" => opened \notin hurt
    /\ recording /\ dpc \in Holding => file \in hurt

(* A failed finish is still to be told while its ticket is in the slot.    *)
LapsesKnown ==
    \A f \in Files :
       /\ place[f] # "closed" => lapse[f] = "none"
       /\ lapse[f] = "untold" => slot = f

(* dataBytes_ is what the file in hand holds, and stays below the limit    *)
(* while a block may still be written.                                     *)
Counted ==
    /\ recording /\ dpc \notin {"full", "off"} => data < Limit
    /\ file # NoFile /\ file \notin hurt => written[file] = data
    /\ dpc \in {"clear", "count"} /\ ending \notin hurt => written[ending] = data
    /\ dpc = "close" /\ ending \notin hurt => claimed[ending] = written[ending]
    /\ \A f \in Files \ hurt :
          /\ place[f] = "finishing" => claimed[f] = written[f]
          /\ place[f] = "closed" => /\ claimed[f] \in {0, written[f]}
                                    /\ lapse[f] = "none" => claimed[f] = written[f]
          /\ place[f] = "opening" => claimed[f] = 0 /\ written[f] = 0

(* Whatever may still become a take was asked for, and not stopped since.  *)
Asked ==
    /\ start # "none" /\ ~cancelled => wanted
    /\ queued => wanted
    /\ recording /\ gpc \notin {"untap", "finish", "dead"} => wanted

(* The rate of a take is the one its header was written for, but in the    *)
(* frame that is about to end it for that.                                 *)
AtRate ==
    /\ start # "none" => header[opened] = takeRate
    /\ recording /\ file # NoFile => header[file] = takeRate
    /\ recording /\ gpc \notin {"untap", "finish", "rateCheck", "dead"} => rate = takeRate

IInv ==
    TypeOK /\ Hands /\ OnePlace /\ HurtKnown /\ LapsesKnown /\ Counted /\ Asked /\ AtRate

USE DEF FileOrNone, Ending, Holding, Finishing

LEMMA InitIInv == Init => IInv
<1> SUFFICES ASSUME Init PROVE IInv
  OBVIOUS
<1> USE TakesAssumption DEF Init
<1>1. RecorderTypes
  <2>1. data \in 0..Limit OBVIOUS
  <2> QED BY <2>1 DEF RecorderTypes
<1>2. StartTypes BY DEF StartTypes
<1>3. FileTypes BY DEF FileTypes
<1>4. Hands /\ Asked BY DEF Hands, Asked
<1>5. OnePlace /\ HurtKnown /\ LapsesKnown BY DEF OnePlace, HurtKnown, LapsesKnown
<1>6. Counted BY DEF Counted
<1>7. AtRate BY DEF AtRate
<1> QED BY <1>1, <1>2, <1>3, <1>4, <1>5, <1>6, <1>7, ThreeParts DEF IInv

-------------------------------------------------------------------------------

LEMMA RecorderTypesStep ==
    ASSUME TypeOK, Hands, OnePlace, HurtKnown, Counted, [Next]_vars
    PROVE  RecorderTypes'
<1> USE TakesAssumption DEF TypeOK, RecorderTypes, rec, starting, gui, dsp, files, over
<1>1. CASE Record BY <1>1 DEF Record, StartTake, RequestOpen
<1>2. CASE OpenAnswers BY <1>2 DEF OpenAnswers
<1>3. CASE PollFindsNothing BY <1>3 DEF PollFindsNothing
<1>4. CASE PollDrops BY <1>4 DEF PollDrops, Dropped
<1>5. CASE Begin
  <2>1. data' \in 0..Limit BY <1>5 DEF Begin
  <2> QED BY <1>5, <2>1 DEF Begin, Arm, Dropped
<1>6. CASE SetTap BY <1>6 DEF SetTap
<1>7. CASE Collect BY <1>7 DEF Collect
<1>8. CASE StartQueued BY <1>8 DEF StartQueued, StartTake, RequestOpen
<1>9. CASE Stop BY <1>9 DEF Stop, Stops
<1>10. CASE Untap BY <1>10 DEF Untap
<1>11. CASE FinishTake BY <1>11 DEF FinishTake
<1>12. CASE \E f \in Files : FinishLands(f) BY <1>12 DEF FinishLands, Finished
<1>13. CASE ChangeSource BY <1>13 DEF ChangeSource, Stops
<1>14. CASE \E r \in Rates : FollowInputRate(r) BY <1>14 DEF FollowInputRate
<1>15. CASE RateCheck BY <1>15 DEF RateCheck, Stops
<1>16. CASE BlockBegin BY <1>16 DEF BlockBegin
<1>17. CASE WriteFrame
  <2>1. data' \in 0..Limit BY <1>17 DEF WriteFrame, Hands, Counted
  <2>2. dpc' \in {"full", "idle"} BY <1>17 DEF WriteFrame
  <2> QED BY <1>17, <2>1, <2>2 DEF WriteFrame
<1>18. CASE WriteRefused BY <1>18 DEF WriteRefused
<1>19. CASE WriteNowhere BY <1>19 DEF WriteNowhere
<1>20. CASE LimitReached BY <1>20 DEF LimitReached
<1>21. CASE RecordingOff BY <1>21 DEF RecordingOff
<1>22. CASE FailedOn BY <1>22 DEF FailedOn
<1>23. CASE Detach BY <1>23 DEF Detach
<1>24. CASE Clear BY <1>24 DEF Clear
<1>25. CASE CountFrames BY <1>25 DEF CountFrames
<1>26. CASE CloseFull BY <1>26 DEF CloseFull, Finished
<1>27. CASE UNCHANGED vars BY <1>27 DEF vars
<1> QED
  BY <1>1, <1>2, <1>3, <1>4, <1>5, <1>6, <1>7, <1>8, <1>9, <1>10, <1>11, <1>12, <1>13, <1>14,
     <1>15, <1>16, <1>17, <1>18, <1>19, <1>20, <1>21, <1>22, <1>23, <1>24, <1>25, <1>26, <1>27
  DEF Next, Poll, GuiRuns, GuiCalls, DspRuns, Disk, Over

LEMMA StartTypesStep ==
    ASSUME TypeOK, Hands, [Next]_vars
    PROVE  StartTypes'
<1> USE DEF TypeOK, StartTypes, rec, starting, gui, dsp, files, over
<1>1. CASE Record
  <2>1. hurt' \subseteq Files BY <1>1 DEF Hands, Record, StartTake, RequestOpen
  <2>2. /\ rate' \in Rates /\ takeRate' \in Rates
        /\ start' \in {"none", "opening", "opened", "failed"}
    BY <1>1 DEF Record, StartTake, RequestOpen
  <2>3. opened' \in FileOrNone /\ cancelled' \in BOOLEAN /\ queued' \in BOOLEAN
    BY <1>1, Zenon DEF Record, StartTake, RequestOpen
  <2>4. slot' \in FileOrNone /\ wanted' \in BOOLEAN /\ overtook' \in BOOLEAN
    BY <1>1 DEF Record, StartTake, RequestOpen
  <2> QED BY <2>1, <2>2, <2>3, <2>4
<1>2. CASE OpenAnswers BY <1>2 DEF OpenAnswers
<1>3. CASE PollFindsNothing BY <1>3 DEF PollFindsNothing
<1>4. CASE PollDrops BY <1>4 DEF PollDrops, Dropped
<1>5. CASE Begin
  <2>1. hurt' \subseteq Files BY <1>5 DEF Hands, Begin, Arm, Struck, Dropped
  <2>2. /\ rate' \in Rates /\ takeRate' \in Rates
        /\ start' \in {"none", "opening", "opened", "failed"}
    BY <1>5 DEF Begin, Arm, Struck, Dropped
  <2>3. opened' \in FileOrNone /\ cancelled' \in BOOLEAN /\ queued' \in BOOLEAN
    BY <1>5 DEF Begin, Arm, Struck, Dropped
  <2>4. slot' \in FileOrNone /\ wanted' \in BOOLEAN /\ overtook' \in BOOLEAN
    BY <1>5 DEF Begin, Arm, Struck, Dropped
  <2> QED BY <2>1, <2>2, <2>3, <2>4
<1>6. CASE SetTap BY <1>6 DEF SetTap
<1>7. CASE Collect BY <1>7 DEF Collect
<1>8. CASE StartQueued
  <2>1. hurt' \subseteq Files BY <1>8 DEF Hands, StartQueued, StartTake, RequestOpen
  <2>2. /\ rate' \in Rates /\ takeRate' \in Rates
        /\ start' \in {"none", "opening", "opened", "failed"}
    BY <1>8 DEF StartQueued, StartTake, RequestOpen
  <2>3. opened' \in FileOrNone /\ cancelled' \in BOOLEAN /\ queued' \in BOOLEAN
    BY <1>8, Zenon DEF StartQueued, StartTake, RequestOpen
  <2>4. slot' \in FileOrNone /\ wanted' \in BOOLEAN /\ overtook' \in BOOLEAN
    BY <1>8 DEF StartQueued, StartTake, RequestOpen
  <2> QED BY <2>1, <2>2, <2>3, <2>4
<1>9. CASE Stop BY <1>9 DEF Stop, Stops
<1>10. CASE Untap BY <1>10 DEF Untap
<1>11. CASE FinishTake BY <1>11 DEF FinishTake
<1>12. CASE \E f \in Files : FinishLands(f) BY <1>12 DEF FinishLands, Finished
<1>13. CASE ChangeSource BY <1>13 DEF ChangeSource, Stops
<1>14. CASE \E r \in Rates : FollowInputRate(r) BY <1>14 DEF FollowInputRate
<1>15. CASE RateCheck BY <1>15 DEF RateCheck, Stops
<1>16. CASE BlockBegin BY <1>16 DEF BlockBegin
<1>17. CASE WriteFrame BY <1>17 DEF WriteFrame
<1>18. CASE WriteRefused BY <1>18 DEF WriteRefused
<1>19. CASE WriteNowhere BY <1>19 DEF WriteNowhere
<1>20. CASE LimitReached BY <1>20 DEF LimitReached
<1>21. CASE RecordingOff BY <1>21 DEF RecordingOff
<1>22. CASE FailedOn BY <1>22 DEF FailedOn
<1>23. CASE Detach BY <1>23 DEF Detach
<1>24. CASE Clear BY <1>24 DEF Clear
<1>25. CASE CountFrames BY <1>25 DEF CountFrames
<1>26. CASE CloseFull BY <1>26 DEF CloseFull, Finished
<1>27. CASE UNCHANGED vars BY <1>27 DEF vars
<1> QED
  BY <1>1, <1>2, <1>3, <1>4, <1>5, <1>6, <1>7, <1>8, <1>9, <1>10, <1>11, <1>12, <1>13, <1>14,
     <1>15, <1>16, <1>17, <1>18, <1>19, <1>20, <1>21, <1>22, <1>23, <1>24, <1>25, <1>26, <1>27
  DEF Next, Poll, GuiRuns, GuiCalls, DspRuns, Disk, Over

LEMMA FileTypesStep ==
    ASSUME TypeOK, Hands, OnePlace, HurtKnown, Counted, [Next]_vars
    PROVE  FileTypes'
<1> USE TakesAssumption DEF TypeOK, FileTypes, rec, starting, gui, dsp, files, over
<1>1. CASE Record
  <2>1. UNCHANGED files \/ \E f \in Files : RequestOpen(f) BY <1>1 DEF Record, StartTake
  <2>2. ASSUME NEW f \in Files, RequestOpen(f) PROVE FileTypes'
    <3>1. 0 \in 0..Limit /\ rate \in Rates OBVIOUS
    <3> QED BY <2>2, <3>1 DEF RequestOpen
  <2> QED BY <2>1, <2>2
<1>2. CASE OpenAnswers BY <1>2 DEF OpenAnswers
<1>3. CASE PollFindsNothing BY <1>3 DEF PollFindsNothing
<1>4. CASE PollDrops BY <1>4 DEF PollDrops, Dropped
<1>5. CASE Begin BY <1>5 DEF Begin, Arm, Struck, Dropped
<1>6. CASE SetTap BY <1>6 DEF SetTap
<1>7. CASE Collect BY <1>7 DEF Collect
<1>8. CASE StartQueued
  <2>1. UNCHANGED files \/ \E f \in Files : RequestOpen(f) BY <1>8 DEF StartQueued, StartTake
  <2>2. ASSUME NEW f \in Files, RequestOpen(f) PROVE FileTypes'
    <3>1. 0 \in 0..Limit /\ rate \in Rates OBVIOUS
    <3> QED BY <2>2, <3>1 DEF RequestOpen
  <2> QED BY <2>1, <2>2
<1>9. CASE Stop BY <1>9 DEF Stop, Stops
<1>10. CASE Untap BY <1>10 DEF Untap
<1>11. CASE FinishTake BY <1>11 DEF FinishTake
<1>12. CASE \E f \in Files : FinishLands(f)
  <2>1. 0 \in 0..Limit OBVIOUS
  <2> QED BY <1>12, <2>1 DEF FinishLands, Finished
<1>13. CASE ChangeSource BY <1>13 DEF ChangeSource, Stops
<1>14. CASE \E r \in Rates : FollowInputRate(r) BY <1>14 DEF FollowInputRate
<1>15. CASE RateCheck BY <1>15 DEF RateCheck, Stops
<1>16. CASE BlockBegin BY <1>16 DEF BlockBegin
<1>17. CASE WriteFrame
  <2>1. file \in Files /\ written[file] + 1 \in 0..Limit
    BY <1>17 DEF WriteFrame, Hands, HurtKnown, Counted
  <2>2. (mixed[file] \/ rate # header[file]) \in BOOLEAN OBVIOUS
  <2> QED BY <1>17, <2>1, <2>2 DEF WriteFrame
<1>18. CASE WriteRefused BY <1>18 DEF WriteRefused
<1>19. CASE WriteNowhere BY <1>19 DEF WriteNowhere
<1>20. CASE LimitReached BY <1>20 DEF LimitReached
<1>21. CASE RecordingOff BY <1>21 DEF RecordingOff
<1>22. CASE FailedOn BY <1>22 DEF FailedOn
<1>23. CASE Detach BY <1>23 DEF Detach
<1>24. CASE Clear BY <1>24 DEF Clear
<1>25. CASE CountFrames BY <1>25 DEF CountFrames
<1>26. CASE CloseFull
  <2>1. ending \in Files /\ Finished(ending, "silent") BY <1>26 DEF CloseFull, Hands
  <2>2. place' \in [Files -> {"closed", "opening", "take", "finishing", "ending", "leaked"}]
    BY <2>1 DEF Finished
  <2>3. lapse' \in [Files -> {"none", "untold", "told", "silent"}] BY <2>1 DEF Finished
  <2>4. 0 \in 0..Limit OBVIOUS
  <2>5. claimed' \in [Files -> 0..Limit] BY <2>1, <2>4 DEF Finished
  <2> QED BY <1>26, <2>2, <2>3, <2>5 DEF CloseFull
<1>27. CASE UNCHANGED vars BY <1>27 DEF vars
<1> QED
  BY <1>1, <1>2, <1>3, <1>4, <1>5, <1>6, <1>7, <1>8, <1>9, <1>10, <1>11, <1>12, <1>13, <1>14,
     <1>15, <1>16, <1>17, <1>18, <1>19, <1>20, <1>21, <1>22, <1>23, <1>24, <1>25, <1>26, <1>27
  DEF Next, Poll, GuiRuns, GuiCalls, DspRuns, Disk, Over

LEMMA HandsStep ==
    ASSUME TypeOK, Hands, OnePlace, [Next]_vars
    PROVE  Hands'
<1> USE TakesAssumption DEF TypeOK, Hands, rec, starting, gui, dsp, files, over
<1>1. CASE Record BY <1>1 DEF Record, StartTake, RequestOpen
<1>2. CASE OpenAnswers BY <1>2 DEF OpenAnswers
<1>3. CASE PollFindsNothing BY <1>3 DEF PollFindsNothing
<1>4. CASE PollDrops BY <1>4 DEF PollDrops, Dropped
<1>5. CASE Begin
  <2>1. opened \in Files /\ opened # ending BY <1>5 DEF Begin, Arm, OnePlace
  <2>2. dpc # "clear" \/ file = ending BY <1>5 DEF Begin, Arm
  <2> QED BY <1>5, <2>1, <2>2 DEF Begin, Arm, Dropped
<1>6. CASE SetTap BY <1>6 DEF SetTap
<1>7. CASE Collect BY <1>7 DEF Collect
<1>8. CASE StartQueued BY <1>8 DEF StartQueued, StartTake, RequestOpen
<1>9. CASE Stop BY <1>9 DEF Stop, Stops
<1>10. CASE Untap BY <1>10 DEF Untap
<1>11. CASE FinishTake BY <1>11 DEF FinishTake
<1>12. CASE \E f \in Files : FinishLands(f) BY <1>12 DEF FinishLands, Finished
<1>13. CASE ChangeSource BY <1>13 DEF ChangeSource, Stops
<1>14. CASE \E r \in Rates : FollowInputRate(r) BY <1>14 DEF FollowInputRate
<1>15. CASE RateCheck BY <1>15 DEF RateCheck, Stops
<1>16. CASE BlockBegin BY <1>16 DEF BlockBegin
<1>17. CASE WriteFrame BY <1>17 DEF WriteFrame
<1>18. CASE WriteRefused BY <1>18 DEF WriteRefused
<1>19. CASE WriteNowhere BY <1>19 DEF WriteNowhere
<1>20. CASE LimitReached BY <1>20 DEF LimitReached
<1>21. CASE RecordingOff BY <1>21 DEF RecordingOff
<1>22. CASE FailedOn BY <1>22 DEF FailedOn
<1>23. CASE Detach BY <1>23 DEF Detach
<1>24. CASE Clear BY <1>24 DEF Clear
<1>25. CASE CountFrames BY <1>25 DEF CountFrames
<1>26. CASE CloseFull BY <1>26 DEF CloseFull, Finished
<1>27. CASE UNCHANGED vars BY <1>27 DEF vars
<1> QED
  BY <1>1, <1>2, <1>3, <1>4, <1>5, <1>6, <1>7, <1>8, <1>9, <1>10, <1>11, <1>12, <1>13, <1>14,
     <1>15, <1>16, <1>17, <1>18, <1>19, <1>20, <1>21, <1>22, <1>23, <1>24, <1>25, <1>26, <1>27
  DEF Next, Poll, GuiRuns, GuiCalls, DspRuns, Disk, Over

LEMMA OnePlaceStep ==
    ASSUME TypeOK, Hands, OnePlace, HurtKnown, [Next]_vars
    PROVE  OnePlace'
<1> USE TakesAssumption DEF TypeOK, Hands, OnePlace, HurtKnown, rec, starting, gui, dsp, files, over
<1>1. CASE Record BY <1>1 DEF Record, StartTake, RequestOpen
<1>2. CASE OpenAnswers BY <1>2 DEF OpenAnswers
<1>3. CASE PollFindsNothing BY <1>3 DEF PollFindsNothing
<1>4. CASE PollDrops BY <1>4 DEF PollDrops, Dropped
<1>5. CASE Begin BY <1>5 DEF Begin, Arm, Struck, Dropped
<1>6. CASE SetTap BY <1>6 DEF SetTap
<1>7. CASE Collect BY <1>7 DEF Collect
<1>8. CASE StartQueued BY <1>8 DEF StartQueued, StartTake, RequestOpen
<1>9. CASE Stop BY <1>9 DEF Stop, Stops
<1>10. CASE Untap BY <1>10 DEF Untap
<1>11. CASE FinishTake BY <1>11 DEF FinishTake
<1>12. CASE \E f \in Files : FinishLands(f) BY <1>12 DEF FinishLands, Finished
<1>13. CASE ChangeSource BY <1>13 DEF ChangeSource, Stops
<1>14. CASE \E r \in Rates : FollowInputRate(r) BY <1>14 DEF FollowInputRate
<1>15. CASE RateCheck BY <1>15 DEF RateCheck, Stops
<1>16. CASE BlockBegin BY <1>16 DEF BlockBegin
<1>17. CASE WriteFrame BY <1>17 DEF WriteFrame
<1>18. CASE WriteRefused BY <1>18 DEF WriteRefused
<1>19. CASE WriteNowhere BY <1>19 DEF WriteNowhere
<1>20. CASE LimitReached BY <1>20 DEF LimitReached
<1>21. CASE RecordingOff BY <1>21 DEF RecordingOff
<1>22. CASE FailedOn BY <1>22 DEF FailedOn
<1>23. CASE Detach BY <1>23 DEF Detach
<1>24. CASE Clear
  <2>1. \A f \in Files :
          /\ place'[f] = "take" <=> file' = f /\ ending' # f
          /\ place'[f] = "ending" <=> ending' = f
    BY <1>24 DEF Clear
  <2>2. \A f \in Files :
          /\ place'[f] = "opening" <=> opened' = f /\ start' # "failed"
          /\ place'[f] = "finishing" => slot' = f
    BY <1>24 DEF Clear
  <2>3. \A f \in Files : place'[f] = "leaked" => f \in hurt' BY <1>24 DEF Clear
  <2>4. start' = "failed" => place'[opened'] = "closed" BY <1>24 DEF Clear
  <2>5. start' # "none" \/ file' # NoFile => ~Finishing' BY <1>24 DEF Clear
  <2>6. file' # NoFile /\ gpc' \notin {"tap", "collect"} => slot' = NoFile BY <1>24 DEF Clear
  <2> QED BY <2>1, <2>2, <2>3, <2>4, <2>5, <2>6
<1>25. CASE CountFrames BY <1>25 DEF CountFrames
<1>26. CASE CloseFull
  <2>1. \A f \in Files :
          /\ place'[f] = "take" <=> file' = f /\ ending' # f
          /\ place'[f] = "ending" <=> ending' = f
    BY <1>26 DEF CloseFull, Finished
  <2>2. \A f \in Files :
          /\ place'[f] = "opening" <=> opened' = f /\ start' # "failed"
          /\ place'[f] = "finishing" => slot' = f
    BY <1>26 DEF CloseFull, Finished
  <2>3. \A f \in Files : place'[f] = "leaked" => f \in hurt' BY <1>26 DEF CloseFull, Finished
  <2>4. start' = "failed" => place'[opened'] = "closed" BY <1>26 DEF CloseFull, Finished
  <2>5. start' # "none" \/ file' # NoFile => ~Finishing' BY <1>26 DEF CloseFull, Finished
  <2>6. file' # NoFile /\ gpc' \notin {"tap", "collect"} => slot' = NoFile BY <1>26 DEF CloseFull, Finished
  <2> QED BY <2>1, <2>2, <2>3, <2>4, <2>5, <2>6
<1>27. CASE UNCHANGED vars BY <1>27 DEF vars
<1> QED
  BY <1>1, <1>2, <1>3, <1>4, <1>5, <1>6, <1>7, <1>8, <1>9, <1>10, <1>11, <1>12, <1>13, <1>14,
     <1>15, <1>16, <1>17, <1>18, <1>19, <1>20, <1>21, <1>22, <1>23, <1>24, <1>25, <1>26, <1>27
  DEF Next, Poll, GuiRuns, GuiCalls, DspRuns, Disk, Over

LEMMA HurtKnownStep ==
    ASSUME TypeOK, Hands, OnePlace, HurtKnown, [Next]_vars
    PROVE  HurtKnown'
<1> USE TakesAssumption DEF TypeOK, Hands, OnePlace, HurtKnown, rec, starting, gui, dsp, files, over
<1>1. CASE Record BY <1>1 DEF Record, StartTake, RequestOpen
<1>2. CASE OpenAnswers BY <1>2 DEF OpenAnswers
<1>3. CASE PollFindsNothing BY <1>3 DEF PollFindsNothing
<1>4. CASE PollDrops BY <1>4 DEF PollDrops, Dropped
<1>5. CASE Begin BY <1>5 DEF Begin, Arm, Struck, Dropped
<1>6. CASE SetTap BY <1>6 DEF SetTap
<1>7. CASE Collect BY <1>7 DEF Collect
<1>8. CASE StartQueued BY <1>8 DEF StartQueued, StartTake, RequestOpen
<1>9. CASE Stop BY <1>9 DEF Stop, Stops
<1>10. CASE Untap BY <1>10 DEF Untap
<1>11. CASE FinishTake BY <1>11 DEF FinishTake
<1>12. CASE \E f \in Files : FinishLands(f) BY <1>12 DEF FinishLands, Finished
<1>13. CASE ChangeSource BY <1>13 DEF ChangeSource, Stops
<1>14. CASE \E r \in Rates : FollowInputRate(r) BY <1>14 DEF FollowInputRate
<1>15. CASE RateCheck BY <1>15 DEF RateCheck, Stops
<1>16. CASE BlockBegin BY <1>16 DEF BlockBegin
<1>17. CASE WriteFrame BY <1>17 DEF WriteFrame
<1>18. CASE WriteRefused BY <1>18 DEF WriteRefused
<1>19. CASE WriteNowhere BY <1>19 DEF WriteNowhere
<1>20. CASE LimitReached BY <1>20 DEF LimitReached
<1>21. CASE RecordingOff BY <1>21 DEF RecordingOff
<1>22. CASE FailedOn BY <1>22 DEF FailedOn
<1>23. CASE Detach BY <1>23 DEF Detach
<1>24. CASE Clear BY <1>24 DEF Clear
<1>25. CASE CountFrames BY <1>25 DEF CountFrames
<1>26. CASE CloseFull BY <1>26 DEF CloseFull, Finished
<1>27. CASE UNCHANGED vars BY <1>27 DEF vars
<1> QED
  BY <1>1, <1>2, <1>3, <1>4, <1>5, <1>6, <1>7, <1>8, <1>9, <1>10, <1>11, <1>12, <1>13, <1>14,
     <1>15, <1>16, <1>17, <1>18, <1>19, <1>20, <1>21, <1>22, <1>23, <1>24, <1>25, <1>26, <1>27
  DEF Next, Poll, GuiRuns, GuiCalls, DspRuns, Disk, Over

LEMMA LapsesKnownStep ==
    ASSUME TypeOK, Hands, OnePlace, LapsesKnown, [Next]_vars
    PROVE  LapsesKnown'
<1> USE TakesAssumption DEF TypeOK, Hands, OnePlace, LapsesKnown, rec, starting, gui, dsp, files, over
<1>1. CASE Record BY <1>1 DEF Record, StartTake, RequestOpen
<1>2. CASE OpenAnswers BY <1>2 DEF OpenAnswers
<1>3. CASE PollFindsNothing BY <1>3 DEF PollFindsNothing
<1>4. CASE PollDrops BY <1>4 DEF PollDrops, Dropped
<1>5. CASE Begin BY <1>5 DEF Begin, Arm, Struck, Dropped
<1>6. CASE SetTap BY <1>6 DEF SetTap
<1>7. CASE Collect BY <1>7 DEF Collect
<1>8. CASE StartQueued BY <1>8 DEF StartQueued, StartTake, RequestOpen
<1>9. CASE Stop BY <1>9 DEF Stop, Stops
<1>10. CASE Untap BY <1>10 DEF Untap
<1>11. CASE FinishTake BY <1>11 DEF FinishTake
<1>12. CASE \E f \in Files : FinishLands(f) BY <1>12 DEF FinishLands, Finished
<1>13. CASE ChangeSource BY <1>13 DEF ChangeSource, Stops
<1>14. CASE \E r \in Rates : FollowInputRate(r) BY <1>14 DEF FollowInputRate
<1>15. CASE RateCheck BY <1>15 DEF RateCheck, Stops
<1>16. CASE BlockBegin BY <1>16 DEF BlockBegin
<1>17. CASE WriteFrame BY <1>17 DEF WriteFrame
<1>18. CASE WriteRefused BY <1>18 DEF WriteRefused
<1>19. CASE WriteNowhere BY <1>19 DEF WriteNowhere
<1>20. CASE LimitReached BY <1>20 DEF LimitReached
<1>21. CASE RecordingOff BY <1>21 DEF RecordingOff
<1>22. CASE FailedOn BY <1>22 DEF FailedOn
<1>23. CASE Detach BY <1>23 DEF Detach
<1>24. CASE Clear BY <1>24 DEF Clear
<1>25. CASE CountFrames BY <1>25 DEF CountFrames
<1>26. CASE CloseFull BY <1>26 DEF CloseFull, Finished
<1>27. CASE UNCHANGED vars BY <1>27 DEF vars
<1> QED
  BY <1>1, <1>2, <1>3, <1>4, <1>5, <1>6, <1>7, <1>8, <1>9, <1>10, <1>11, <1>12, <1>13, <1>14,
     <1>15, <1>16, <1>17, <1>18, <1>19, <1>20, <1>21, <1>22, <1>23, <1>24, <1>25, <1>26, <1>27
  DEF Next, Poll, GuiRuns, GuiCalls, DspRuns, Disk, Over

LEMMA CountedStep ==
    ASSUME TypeOK, Hands, OnePlace, HurtKnown, LapsesKnown, Counted, [Next]_vars
    PROVE  Counted'
<1> USE TakesAssumption DEF TypeOK, Hands, OnePlace, HurtKnown, LapsesKnown, Counted,
           rec, starting, gui, dsp, files, over
<1>1. CASE Record BY <1>1 DEF Record, StartTake, RequestOpen
<1>2. CASE OpenAnswers BY <1>2 DEF OpenAnswers
<1>3. CASE PollFindsNothing BY <1>3 DEF PollFindsNothing
<1>4. CASE PollDrops BY <1>4 DEF PollDrops, Dropped
<1>5. CASE Begin BY <1>5 DEF Begin, Arm, Struck, Dropped
<1>6. CASE SetTap BY <1>6 DEF SetTap
<1>7. CASE Collect BY <1>7 DEF Collect
<1>8. CASE StartQueued BY <1>8 DEF StartQueued, StartTake, RequestOpen
<1>9. CASE Stop BY <1>9 DEF Stop, Stops
<1>10. CASE Untap BY <1>10 DEF Untap
<1>11. CASE FinishTake BY <1>11 DEF FinishTake
<1>12. CASE \E f \in Files : FinishLands(f) BY <1>12 DEF FinishLands, Finished
<1>13. CASE ChangeSource BY <1>13 DEF ChangeSource, Stops
<1>14. CASE \E r \in Rates : FollowInputRate(r) BY <1>14 DEF FollowInputRate
<1>15. CASE RateCheck BY <1>15 DEF RateCheck, Stops
<1>16. CASE BlockBegin BY <1>16 DEF BlockBegin
<1>17. CASE WriteFrame BY <1>17 DEF WriteFrame
<1>18. CASE WriteRefused BY <1>18 DEF WriteRefused
<1>19. CASE WriteNowhere BY <1>19 DEF WriteNowhere
<1>20. CASE LimitReached BY <1>20 DEF LimitReached
<1>21. CASE RecordingOff BY <1>21 DEF RecordingOff
<1>22. CASE FailedOn BY <1>22 DEF FailedOn
<1>23. CASE Detach BY <1>23 DEF Detach
<1>24. CASE Clear BY <1>24 DEF Clear
<1>25. CASE CountFrames BY <1>25 DEF CountFrames
<1>26. CASE CloseFull BY <1>26 DEF CloseFull, Finished
<1>27. CASE UNCHANGED vars BY <1>27 DEF vars
<1> QED
  BY <1>1, <1>2, <1>3, <1>4, <1>5, <1>6, <1>7, <1>8, <1>9, <1>10, <1>11, <1>12, <1>13, <1>14,
     <1>15, <1>16, <1>17, <1>18, <1>19, <1>20, <1>21, <1>22, <1>23, <1>24, <1>25, <1>26, <1>27
  DEF Next, Poll, GuiRuns, GuiCalls, DspRuns, Disk, Over

LEMMA AskedStep ==
    ASSUME TypeOK, Hands, Asked, [Next]_vars
    PROVE  Asked'
<1> USE DEF TypeOK, Hands, Asked, rec, starting, gui, dsp, files, over
<1>1. CASE Record BY <1>1 DEF Record, StartTake, RequestOpen
<1>2. CASE OpenAnswers BY <1>2 DEF OpenAnswers
<1>3. CASE PollFindsNothing BY <1>3 DEF PollFindsNothing
<1>4. CASE PollDrops BY <1>4 DEF PollDrops, Dropped
<1>5. CASE Begin BY <1>5 DEF Begin, Arm, Struck, Dropped
<1>6. CASE SetTap BY <1>6 DEF SetTap
<1>7. CASE Collect BY <1>7 DEF Collect
<1>8. CASE StartQueued BY <1>8 DEF StartQueued, StartTake, RequestOpen
<1>9. CASE Stop BY <1>9 DEF Stop, Stops
<1>10. CASE Untap BY <1>10 DEF Untap
<1>11. CASE FinishTake BY <1>11 DEF FinishTake
<1>12. CASE \E f \in Files : FinishLands(f) BY <1>12 DEF FinishLands, Finished
<1>13. CASE ChangeSource BY <1>13 DEF ChangeSource, Stops
<1>14. CASE \E r \in Rates : FollowInputRate(r) BY <1>14 DEF FollowInputRate
<1>15. CASE RateCheck BY <1>15 DEF RateCheck, Stops
<1>16. CASE BlockBegin BY <1>16 DEF BlockBegin
<1>17. CASE WriteFrame BY <1>17 DEF WriteFrame
<1>18. CASE WriteRefused BY <1>18 DEF WriteRefused
<1>19. CASE WriteNowhere BY <1>19 DEF WriteNowhere
<1>20. CASE LimitReached BY <1>20 DEF LimitReached
<1>21. CASE RecordingOff BY <1>21 DEF RecordingOff
<1>22. CASE FailedOn BY <1>22 DEF FailedOn
<1>23. CASE Detach BY <1>23 DEF Detach
<1>24. CASE Clear BY <1>24 DEF Clear
<1>25. CASE CountFrames BY <1>25 DEF CountFrames
<1>26. CASE CloseFull BY <1>26 DEF CloseFull, Finished
<1>27. CASE UNCHANGED vars BY <1>27 DEF vars
<1> QED
  BY <1>1, <1>2, <1>3, <1>4, <1>5, <1>6, <1>7, <1>8, <1>9, <1>10, <1>11, <1>12, <1>13, <1>14,
     <1>15, <1>16, <1>17, <1>18, <1>19, <1>20, <1>21, <1>22, <1>23, <1>24, <1>25, <1>26, <1>27
  DEF Next, Poll, GuiRuns, GuiCalls, DspRuns, Disk, Over

LEMMA AtRateStep ==
    ASSUME TypeOK, Hands, OnePlace, AtRate, [Next]_vars
    PROVE  AtRate'
<1> USE TakesAssumption DEF TypeOK, Hands, OnePlace, AtRate, rec, starting, gui, dsp, files, over
<1>1. CASE Record BY <1>1 DEF Record, StartTake, RequestOpen
<1>2. CASE OpenAnswers BY <1>2 DEF OpenAnswers
<1>3. CASE PollFindsNothing BY <1>3 DEF PollFindsNothing
<1>4. CASE PollDrops BY <1>4 DEF PollDrops, Dropped
<1>5. CASE Begin BY <1>5 DEF Begin, Arm, Struck, Dropped
<1>6. CASE SetTap BY <1>6 DEF SetTap
<1>7. CASE Collect BY <1>7 DEF Collect
<1>8. CASE StartQueued BY <1>8 DEF StartQueued, StartTake, RequestOpen
<1>9. CASE Stop BY <1>9 DEF Stop, Stops
<1>10. CASE Untap BY <1>10 DEF Untap
<1>11. CASE FinishTake BY <1>11 DEF FinishTake
<1>12. CASE \E f \in Files : FinishLands(f) BY <1>12 DEF FinishLands, Finished
<1>13. CASE ChangeSource BY <1>13 DEF ChangeSource, Stops
<1>14. CASE \E r \in Rates : FollowInputRate(r) BY <1>14 DEF FollowInputRate
<1>15. CASE RateCheck BY <1>15 DEF RateCheck, Stops
<1>16. CASE BlockBegin BY <1>16 DEF BlockBegin
<1>17. CASE WriteFrame BY <1>17 DEF WriteFrame
<1>18. CASE WriteRefused BY <1>18 DEF WriteRefused
<1>19. CASE WriteNowhere BY <1>19 DEF WriteNowhere
<1>20. CASE LimitReached BY <1>20 DEF LimitReached
<1>21. CASE RecordingOff BY <1>21 DEF RecordingOff
<1>22. CASE FailedOn BY <1>22 DEF FailedOn
<1>23. CASE Detach BY <1>23 DEF Detach
<1>24. CASE Clear BY <1>24 DEF Clear
<1>25. CASE CountFrames BY <1>25 DEF CountFrames
<1>26. CASE CloseFull BY <1>26 DEF CloseFull, Finished
<1>27. CASE UNCHANGED vars BY <1>27 DEF vars
<1> QED
  BY <1>1, <1>2, <1>3, <1>4, <1>5, <1>6, <1>7, <1>8, <1>9, <1>10, <1>11, <1>12, <1>13, <1>14,
     <1>15, <1>16, <1>17, <1>18, <1>19, <1>20, <1>21, <1>22, <1>23, <1>24, <1>25, <1>26, <1>27
  DEF Next, Poll, GuiRuns, GuiCalls, DspRuns, Disk, Over

LEMMA IInvStep ==
    ASSUME IInv, [Next]_vars
    PROVE  IInv'
BY RecorderTypesStep, StartTypesStep, FileTypesStep, HandsStep, OnePlaceStep, HurtKnownStep,
   LapsesKnownStep, CountedStep, AskedStep, AtRateStep
   DEF IInv, TypeOK, RecorderTypes, StartTypes, FileTypes

LEMMA Invariance == Spec => []IInv
<1>1. IInv /\ [Next]_vars => IInv' BY IInvStep
<1> QED BY InitIInv, <1>1, PTL DEF Spec

(* Every open file is in exactly the hands its place names, through        *)
(* opening, taking, finishing and the DSP thread's end at the limit, and a *)
(* recorder that records has one.  What a start between two stores of      *)
(* endAtSizeLimit() can cost is the file of the take that was ending and   *)
(* the file of the take it begins, and never another.                      *)
THEOREM NoFileIsLost == Spec => []NoFileLost
<1>1. IInv => NoFileLost BY DEF IInv, TypeOK, Hands, OnePlace, NoFileLost
<1> QED BY <1>1, Invariance, PTL

(* A Stop is final: no start still opening and no queued Record makes a    *)
(* take after it (stopIqRecording() cancels the one and drops the other).  *)
THEOREM TakesAreAskedFor == Spec => []NoTakeUnasked
<1>1. IInv => NoTakeUnasked BY DEF IInv, Asked, NoTakeUnasked
<1> QED BY <1>1, Invariance, PTL

(* Whoever closes a file, a finishing worker or the DSP thread at the size *)
(* limit, its header claims as many frames as were written into it, or its *)
(* finish failed: then it may claim none, and a worker's failure is told.  *)
THEOREM HeadersAreTrue == Spec => []HeaderClaimsFrames
<1>1. IInv => HeaderClaimsFrames BY DEF IInv, LapsesKnown, Counted, HeaderClaimsFrames
<1> QED BY <1>1, Invariance, PTL

(* Between frames a running take is at the rate its header was written     *)
(* for, however often followInputRate() moves the rate and whenever.       *)
THEOREM TakesKeepTheirRate == Spec => []TakeIsAtRate
<1>1. IInv => TakeIsAtRate BY DEF IInv, AtRate, TakeIsAtRate
<1> QED BY <1>1, Invariance, PTL
===============================================================================
