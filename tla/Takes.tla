--------------------------------- MODULE Takes ---------------------------------
(***************************************************************************)
(* One recording path, from the Record button to a closed WAV file:        *)
(* gui/app_window.cpp (start, stop, the frame's poll), gui/record_start.hpp*)
(* (the file is opened on a worker), core/recorder.cpp (begin, the DSP     *)
(* thread's writes, the size limit) and core/record_finish.cpp (the file is*)
(* closed on a worker).                                                    *)
(*                                                                         *)
(* It is the I/Q path: the audio path is the same without the rate.  The   *)
(* GUI thread stops between the calls that wait for a DSP block; the DSP   *)
(* thread's place is "idle" when it is outside a block, and then audioMutex*)
(* is free.  A file is an identity, in use again once closed or lost; the  *)
(* stdio buffer that goes with it is left out.                             *)
(***************************************************************************)
EXTENDS Naturals

CONSTANTS
    Files, NoFile, Rates,
    Limit           \* frames until a file is full: maxDataBytes_

ASSUME TakesAssumption ==
    /\ NoFile \notin Files /\ Limit \in Nat \ {0} /\ Rates # {}

VARIABLES
    recording, writeFailed, sizeLimit, file, data,  \* the Recorder; data is dataBytes_
    tap,            \* the pipeline has been given the recorder
    rate, takeRate, \* the input rate; iqRecordRateHz_
    start, opened, cancelled,   \* RecordStart: its worker, the worker's file, cancelled_
    queued, slot,   \* iqStartQueued_; the file of iqFinish_'s ticket
    gpc, after,     \* the GUI thread's place, and where it goes after a stop
    dpc, ending,    \* the DSP thread's place, and the file it is closing
    place, header, mixed, written, claimed,  \* each file: who has it; its header's rate,
                    \* whether a frame is at another, frames in it, frames its header claims,
                    \* or is to claim once it is finished
    lapse,          \* each file: what became of a finish that failed
    wanted,         \* history: a Record was accepted, and has not failed, ended or been
                    \* stopped since
    overtook, hurt  \* history: this take began over one that was still ending; the files
                    \* that may have suffered by it

rec == <<recording, writeFailed, sizeLimit, file, data>>
starting == <<start, opened, cancelled>>
gui == <<gpc, after>>
dsp == <<dpc, ending>>
files == <<place, header, mixed, written, claimed, lapse>>
over == <<overtook, hurt>>
vars == <<rec, tap, rate, takeRate, starting, queued, slot, gui, dsp, files, wanted, over>>

Init ==
    /\ recording = FALSE /\ writeFailed = FALSE /\ sizeLimit = FALSE /\ file = NoFile /\ data = 0
    /\ tap = FALSE /\ rate \in Rates /\ takeRate = rate
    /\ start = "none" /\ opened = NoFile /\ cancelled = FALSE
    /\ queued = FALSE /\ slot = NoFile
    /\ gpc = "idle" /\ after = "idle" /\ dpc = "idle" /\ ending = NoFile
    /\ place = [f \in Files |-> "closed"] /\ header = [f \in Files |-> rate]
    /\ mixed = [f \in Files |-> FALSE]
    /\ written = [f \in Files |-> 0] /\ claimed = [f \in Files |-> 0]
    /\ lapse = [f \in Files |-> "none"]
    /\ wanted = FALSE /\ overtook = FALSE /\ hurt = {}

-------------------------------------------------------------------------------
(* startIqRecording(): the Record button, the browser, or the frame's poll *)
(* for a Record that was queued.  An operator whose name adds a mistake to *)
(* another's is that operator with the mistake seeded in it.               *)

Finishing == slot # NoFile /\ place[slot] = "finishing"

RequestOpen(f) ==
    /\ place[f] \in {"closed", "leaked"} /\ f # slot
    /\ start' = "opening" /\ opened' = f /\ cancelled' = FALSE /\ takeRate' = rate
    /\ place' = [place EXCEPT ![f] = "opening"] /\ header' = [header EXCEPT ![f] = rate]
    /\ mixed' = [mixed EXCEPT ![f] = FALSE]
    /\ written' = [written EXCEPT ![f] = 0] /\ claimed' = [claimed EXCEPT ![f] = 0]
    /\ lapse' = [lapse EXCEPT ![f] = "none"] /\ hurt' = hurt \ {f}

StartTake(q) ==
    IF recording \/ start # "none"
    THEN queued' = q /\ UNCHANGED <<starting, takeRate, files, hurt>>
    ELSE IF Finishing
    THEN queued' = TRUE /\ UNCHANGED <<starting, takeRate, files, hurt>>
    ELSE queued' = q /\ \E f \in Files : RequestOpen(f)

Record ==
    /\ gpc = "idle"
    /\ StartTake(queued)
    /\ wanted' = (wanted \/ (~recording /\ start = "none"))
    /\ UNCHANGED <<rec, tap, rate, slot, gui, dsp, overtook>>

(* The worker, inside the filesystem: it answers with a file or a refusal. *)
OpenAnswers ==
    /\ start = "opening" /\ gpc # "dead"
    /\ \/ start' = "opened" /\ UNCHANGED place
       \/ start' = "failed" /\ place' = [place EXCEPT ![opened] = "closed"]
    /\ UNCHANGED <<rec, tap, rate, takeRate, opened, cancelled, queued, slot, gui, dsp,
                   header, mixed, written, claimed, lapse, wanted, over>>

-------------------------------------------------------------------------------
(* The frame's poll: pollRecordStarts(), then pollRecordFinishes().        *)

DroppedWithoutRate == cancelled \/ start = "failed" \/ recording
Dropped == cancelled \/ start = "failed" \/ rate # takeRate \/ recording

PollFindsNothing ==
    /\ gpc = "idle" /\ start \in {"none", "opening"}
    /\ gpc' = "collect"
    /\ UNCHANGED <<rec, tap, rate, takeRate, starting, queued, slot, after, dsp, files, wanted, over>>

(* finishRecordStart()'s refusals: the file, if any, is closed unused.     *)
PollDrops ==
    /\ gpc = "idle" /\ start \in {"opened", "failed"} /\ Dropped
    /\ start' = "none" /\ opened' = NoFile /\ cancelled' = FALSE
    /\ place' = [place EXCEPT ![opened] = "closed"]
    /\ wanted' = (wanted /\ (recording \/ queued)) /\ gpc' = "collect"
    /\ UNCHANGED <<rec, tap, rate, takeRate, queued, slot, after, dsp,
                   header, mixed, written, claimed, lapse, over>>

(* The places between endAtSizeLimit()'s clearing of recording_ and the    *)
(* moment file_ and the count are out of the recorder; begin() may come at *)
(* each of them, for nothing but recording_ keeps it away.                 *)
Holding == {"failed", "detach", "clear"}
Ending == Holding \cup {"count"}

Struck ==
    (IF dpc \in Ending THEN {file, ending} \ {NoFile} ELSE {})
        \cup (IF dpc \in Holding THEN {opened} ELSE {})

(* Recorder::begin() but for its count.  A file that file_ still named is  *)
(* nobody's from then on.                                                  *)
Arm ==
    /\ gpc = "idle" /\ start = "opened" /\ ~Dropped
    /\ recording' = TRUE /\ writeFailed' = FALSE /\ sizeLimit' = FALSE
    /\ file' = opened
    /\ place' = [f \in Files |-> IF f = opened THEN "take"
                                 ELSE IF f = file /\ f # ending THEN "leaked" ELSE place[f]]
    /\ overtook' = (dpc \in Holding)
    /\ hurt' = hurt \cup Struck
    /\ start' = "none" /\ opened' = NoFile /\ cancelled' = FALSE
    /\ gpc' = "tap"
    /\ UNCHANGED <<tap, rate, takeRate, queued, slot, after, dsp,
                   header, mixed, written, claimed, lapse, wanted>>

BeginKeepsCount == Arm /\ UNCHANGED data

(* Recorder::begin(): the file is armed, and only then tapped.             *)
Begin == Arm /\ data' = 0

SetTap ==
    /\ gpc = "tap" /\ dpc = "idle"
    /\ tap' = TRUE /\ gpc' = "collect"
    /\ UNCHANGED <<rec, rate, takeRate, starting, queued, slot, after, dsp, files, wanted, over>>

CollectUntold ==
    /\ gpc = "collect" /\ gpc' = "queue"
    /\ slot' = IF Finishing THEN slot ELSE NoFile
    /\ UNCHANGED <<rec, tap, rate, takeRate, starting, queued, after, dsp, files, wanted, over>>

(* collectFinish(): a ticket that is done is taken, and a finish that      *)
(* failed is said.                                                         *)
Collect ==
    /\ gpc = "collect" /\ gpc' = "queue"
    /\ slot' = IF Finishing THEN slot ELSE NoFile
    /\ lapse' = [f \in Files |-> IF f = slot /\ ~Finishing /\ lapse[f] = "untold"
                                 THEN "told" ELSE lapse[f]]
    /\ UNCHANGED <<rec, tap, rate, takeRate, starting, queued, after, dsp,
                   place, header, mixed, written, claimed, wanted, over>>

QueueDropped ==
    /\ gpc = "queue" /\ gpc' = "idle" /\ queued' = FALSE
    /\ UNCHANGED <<rec, tap, rate, takeRate, starting, slot, after, dsp, files, wanted, over>>

(* The Record that was queued behind that finish; done is looked at again. *)
StartQueued ==
    /\ gpc = "queue" /\ gpc' = "idle"
    /\ IF queued /\ ~Finishing THEN StartTake(FALSE)
       ELSE UNCHANGED <<queued, starting, takeRate, files, hurt>>
    /\ UNCHANGED <<rec, tap, rate, slot, after, dsp, wanted, overtook>>

-------------------------------------------------------------------------------
(* stopIqRecording(), from the button, a fault, a stop of the receiver, the*)
(* end of the program, a source change or a rate change.                   *)

StopsKeepingQueue(next) ==
    /\ cancelled' = (start # "none") /\ UNCHANGED queued /\ wanted' = FALSE
    /\ gpc' = "untap" /\ after' = next
    /\ UNCHANGED <<rec, tap, rate, takeRate, start, opened, slot, dsp, files, over>>

Stops(next) ==
    /\ cancelled' = (start # "none") /\ queued' = FALSE /\ wanted' = FALSE
    /\ gpc' = "untap" /\ after' = next
    /\ UNCHANGED <<rec, tap, rate, takeRate, start, opened, slot, dsp, files, over>>

Stop == gpc = "idle" /\ Stops("idle")

(* setIqRecorder(nullptr) waits for the block in progress.                 *)
Untap ==
    /\ gpc = "untap" /\ dpc = "idle"
    /\ tap' = FALSE /\ gpc' = "finish"
    /\ UNCHANGED <<rec, rate, takeRate, starting, queued, slot, after, dsp, files, wanted, over>>

FinishTakeForgetsFile ==
    /\ gpc = "finish"
    /\ recording' = FALSE /\ file' = NoFile
    /\ gpc' = after /\ after' = "idle"
    /\ UNCHANGED <<writeFailed, sizeLimit, data, tap, rate, takeRate, starting, queued, slot, dsp,
                   files, wanted, over>>

(* finishTake(): the file is detached and handed to a worker.              *)
FinishTake ==
    /\ gpc = "finish"
    /\ recording' = FALSE /\ file' = NoFile
    /\ IF file = NoFile THEN UNCHANGED <<slot, place, claimed>>
       ELSE /\ slot' = file
            /\ place' = [place EXCEPT ![file] = "finishing"]
            /\ claimed' = [claimed EXCEPT ![file] = data]
    /\ gpc' = after /\ after' = "idle"
    /\ UNCHANGED <<writeFailed, sizeLimit, data, tap, rate, takeRate, starting, queued, dsp,
                   header, mixed, written, lapse, wanted, over>>

(* finishFile(), on a worker or on the DSP thread.  It fails in the flush, *)
(* a seek, a write or the close: the header then is the one the file was   *)
(* opened with, or counts what did not reach the disk.                     *)
Finished(f, failure) ==
    /\ place' = [place EXCEPT ![f] = "closed"]
    /\ \/ UNCHANGED <<claimed, lapse>>
       \/ /\ lapse' = [lapse EXCEPT ![f] = failure]
          /\ claimed' \in {claimed, [claimed EXCEPT ![f] = 0]}

FinishLands(f) ==
    /\ place[f] = "finishing" /\ gpc # "dead" /\ Finished(f, "untold")
    /\ UNCHANGED <<rec, tap, rate, takeRate, starting, queued, slot, gui, dsp,
                   header, mixed, written, wanted, over>>

(* installSource() ends a take before it swaps the source;                 *)
(* followInputRate(), on its own or after a swap, changes the rate, with   *)
(* the DSP thread joined and spawned again, and then looks at the take.    *)
ChangeSource == gpc = "idle" /\ recording /\ Stops("follow")

FollowInputRate(r) ==
    /\ gpc \in {"idle", "follow"} /\ dpc = "idle"
    /\ rate' = r /\ gpc' = "rateCheck"
    /\ UNCHANGED <<rec, tap, takeRate, starting, queued, slot, after, dsp, files, wanted, over>>

RateCheck ==
    /\ gpc = "rateCheck"
    /\ IF recording /\ rate # takeRate THEN Stops("idle")
       ELSE /\ gpc' = "idle"
            /\ UNCHANGED <<rec, tap, rate, takeRate, starting, queued, slot, after, dsp, files,
                           wanted, over>>

-------------------------------------------------------------------------------
(* The DSP thread: writeIq() on a block of one frame, and endAtSizeLimit().*)

BlockBegin ==
    /\ dpc = "idle" /\ tap /\ recording /\ ~writeFailed
    /\ dpc' = "write"
    /\ UNCHANGED <<rec, tap, rate, takeRate, starting, queued, slot, gui, ending, files, wanted, over>>

WriteFrame ==
    /\ dpc = "write" /\ file # NoFile
    /\ data' = data + 1
    /\ written' = [written EXCEPT ![file] = @ + 1]
    /\ mixed' = [mixed EXCEPT ![file] = @ \/ rate # header[file]]
    /\ dpc' = IF data + 1 = Limit THEN "full" ELSE "idle"
    /\ UNCHANGED <<recording, writeFailed, sizeLimit, file, tap, rate, takeRate, starting, queued,
                   slot, gui, ending, place, header, claimed, lapse, wanted, over>>

(* fwrite() to no file ends the program, or is refused like a full disk's. *)
WriteNowhere ==
    /\ dpc = "write" /\ file = NoFile
    /\ dpc' = "dead" /\ gpc' = "dead"
    /\ UNCHANGED <<rec, tap, rate, takeRate, starting, queued, slot, after, ending, files, wanted,
                   over>>

WriteRefused ==
    /\ dpc = "write"
    /\ writeFailed' = TRUE /\ dpc' = "idle"
    /\ UNCHANGED <<recording, sizeLimit, file, data, tap, rate, takeRate, starting, queued, slot,
                   gui, ending, files, wanted, over>>

LimitReached ==
    /\ dpc = "full"
    /\ sizeLimit' = TRUE /\ dpc' = "off"
    /\ UNCHANGED <<recording, writeFailed, file, data, tap, rate, takeRate, starting, queued, slot,
                   gui, ending, files, wanted, over>>

RecordingOff ==
    /\ dpc = "off"
    /\ recording' = FALSE /\ dpc' = "failed" /\ wanted' = (wanted /\ queued)
    /\ UNCHANGED <<writeFailed, sizeLimit, file, data, tap, rate, takeRate, starting, queued, slot,
                   gui, ending, files, over>>

FailedOn ==
    /\ dpc = "failed"
    /\ writeFailed' = TRUE /\ dpc' = "detach"
    /\ UNCHANGED <<recording, sizeLimit, file, data, tap, rate, takeRate, starting, queued, slot,
                   gui, ending, files, wanted, over>>

(* detachFile(): file_ is read, then cleared, and then the count is taken. *)
Detach ==
    /\ dpc = "detach"
    /\ ending' = file /\ dpc' = IF file = NoFile THEN "idle" ELSE "clear"
    /\ place' = [f \in Files |-> IF f = file THEN "ending" ELSE place[f]]
    /\ UNCHANGED <<rec, tap, rate, takeRate, starting, queued, slot, gui, header, mixed, written,
                   claimed, lapse, wanted, over>>

Clear ==
    /\ dpc = "clear"
    /\ file' = NoFile /\ dpc' = "count"
    /\ place' = [f \in Files |-> IF f = file /\ f # ending THEN "leaked" ELSE place[f]]
    /\ UNCHANGED <<recording, writeFailed, sizeLimit, data, tap, rate, takeRate, starting, queued,
                   slot, gui, ending, header, mixed, written, claimed, lapse, wanted, over>>

CountFrames ==
    /\ dpc = "count"
    /\ claimed' = [claimed EXCEPT ![ending] = data] /\ dpc' = "close"
    /\ UNCHANGED <<rec, tap, rate, takeRate, starting, queued, slot, gui, ending,
                   place, header, mixed, written, lapse, wanted, over>>

(* finalizeFile() asks nobody how its finish went.                         *)
CloseFull ==
    /\ dpc = "close" /\ Finished(ending, "silent")
    /\ ending' = NoFile /\ dpc' = "idle"
    /\ UNCHANGED <<rec, tap, rate, takeRate, starting, queued, slot, gui, header, mixed, written,
                   wanted, over>>

-------------------------------------------------------------------------------
Poll == PollFindsNothing \/ PollDrops \/ Begin
GuiRuns == SetTap \/ Collect \/ StartQueued \/ Untap \/ FinishTake \/ RateCheck
           \/ (gpc = "follow" /\ \E r \in Rates : FollowInputRate(r))
GuiCalls == Record \/ Stop \/ ChangeSource \/ \E r \in Rates : FollowInputRate(r)
DspRuns == \/ WriteFrame \/ WriteRefused \/ WriteNowhere
           \/ LimitReached \/ RecordingOff \/ FailedOn
           \/ Detach \/ Clear \/ CountFrames \/ CloseFull
Disk == OpenAnswers \/ \E f \in Files : FinishLands(f)
Over == gpc = "dead" /\ UNCHANGED vars

Next == Poll \/ GuiRuns \/ GuiCalls \/ BlockBegin \/ DspRuns \/ Disk \/ Over

(* A frame is drawn again and again and polls; the GUI thread gets the lock*)
(* between blocks; the disk answers in the end.                            *)
Fairness ==
    /\ SF_vars(Poll) /\ SF_vars(GuiRuns)
    /\ WF_vars(DspRuns) /\ WF_vars(OpenAnswers) /\ \A f \in Files : WF_vars(FinishLands(f))

Spec == Init /\ [][Next]_vars /\ Fairness

-------------------------------------------------------------------------------
FileOrNone == Files \cup {NoFile}

TypeOK ==
    /\ recording \in BOOLEAN /\ writeFailed \in BOOLEAN /\ sizeLimit \in BOOLEAN
    /\ file \in FileOrNone /\ data \in 0..Limit /\ tap \in BOOLEAN
    /\ rate \in Rates /\ takeRate \in Rates
    /\ start \in {"none", "opening", "opened", "failed"} /\ opened \in FileOrNone
    /\ cancelled \in BOOLEAN /\ queued \in BOOLEAN /\ slot \in FileOrNone
    /\ gpc \in {"idle", "tap", "collect", "queue", "untap", "finish", "follow", "rateCheck", "dead"}
    /\ after \in {"idle", "follow"}
    /\ dpc \in Ending \cup {"idle", "write", "full", "off", "close", "dead"}
    /\ ending \in FileOrNone
    /\ place \in [Files -> {"closed", "opening", "take", "finishing", "ending", "leaked"}]
    /\ header \in [Files -> Rates] /\ mixed \in [Files -> BOOLEAN]
    /\ written \in [Files -> 0..Limit] /\ claimed \in [Files -> 0..Limit]
    /\ lapse \in [Files -> {"none", "untold", "told", "silent"}]
    /\ wanted \in BOOLEAN /\ overtook \in BOOLEAN /\ hurt \subseteq Files

(* No file is lost: an open file is always in the hands of the worker      *)
(* opening it, of the recorder, of the worker finishing it or of the DSP   *)
(* thread ending it, and each of them has the file it thinks it has; a     *)
(* recorder that says recording, or that the DSP thread is inside, has one *)
(* to write to (recorder.hpp:56-62).  One thing alone breaks that: a       *)
(* begin() between two stores of endAtSizeLimit(), which recorder.cpp:223  *)
(* and recorder.hpp:61 take to be impossible.                              *)
NoFileLost ==
    /\ recording \/ dpc = "write" => file # NoFile \/ overtook
    /\ gpc = "dead" => overtook
    /\ \A f \in Files :
          /\ place[f] = "take" <=> file = f /\ ending # f
          /\ place[f] = "ending" <=> ending = f
          /\ place[f] = "opening" <=> opened = f /\ start # "failed"
          /\ place[f] = "finishing" => slot = f
          /\ place[f] = "leaked" => f \in hurt

(* Stop means stop: no start still opening, and no Record queued behind a  *)
(* finish, makes a take after it unless Record is pressed again.           *)
NoTakeUnasked == gpc = "idle" /\ recording => wanted

(* The WAV header says what is in the file: every frame the disk accepted. *)
(* Where a finish failed it may claim none, and then the program has said  *)
(* so or is about to, but for the close at the size limit, which asks      *)
(* nobody.  A begin() in the middle of that close can cost it the count.   *)
HeaderClaimsFrames ==
    \A f \in Files \ hurt : place[f] = "closed" =>
        /\ lapse[f] = "none" => claimed[f] = written[f]
        /\ claimed[f] \in {0, written[f]}
        /\ lapse[f] = "untold" => slot = f

(* A take runs on at the rate its header was written for, the rate moving  *)
(* while its file was opened included.                                     *)
TakeIsAtRate == gpc = "idle" /\ recording /\ file # NoFile => header[file] = rate

(* A Record that was accepted is answered: a take runs, or it was stopped, *)
(* or the refusal is said.  Queued behind a finish included.               *)
RecordIsAnswered == wanted ~> (recording \/ ~wanted)

(* app_window.cpp:28628: a take is one rate.                               *)
TakeIsOneRate == \A f \in Files : ~mixed[f]

(* recorder.cpp:223: as recording_ is false, the previous take's file is   *)
(* closed when the next begins.                                            *)
BeginsOnClosed == [][file' # file /\ file' # NoFile => file = NoFile /\ dpc \notin Ending]_vars
===============================================================================
