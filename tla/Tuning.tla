--------------------------------- MODULE Tuning ---------------------------------
(***************************************************************************)
(* Everything that moves the receiver's centre frequency: the user's hands,*)
(* the scanner (core/scanner.hpp), the pacing of hardware retunes          *)
(* (core/retune_coalescer.hpp) and the frame loop of gui/app_window.cpp    *)
(* that runs the three in a fixed order.                                   *)
(*                                                                         *)
(* One thread does it all; what is hard is the order.  A frame is the      *)
(* user's input (from the window, from the browser), the scanner's step,   *)
(* a radio that has finished opening, the release of a held retune, and    *)
(* the time until the next frame.  The source is a radio or the built-in   *)
(* generator, which stands in while a radio opens.  A frequency is a       *)
(* number on a small lattice.  An operator whose name adds a mistake to    *)
(* another's is that operator with the mistake seeded in it.               *)
(***************************************************************************)
EXTENDS Integers, Sequences

CONSTANTS
    None,
    Asked,          \* the absolute frequencies a hand asks for
    Offsets,        \* where the VFO may stand beside the centre
    Home, Default,  \* where the generator stands at first, and a freshly opened radio
    Range,          \* the scan range, as the sequence of its lattice points
    RowLists,       \* the ticked rows of the frequency list, as the user may leave them
    Interval,       \* the coalescer's interval
    Dwell, Hold, Resume, Listen,    \* the scanner's times; a Listen of 0 is no limit
    LongFrame,      \* the longest time between two frames
    Inputs          \* the most inputs handled in one frame

ASSUME TuningAssumption ==
    /\ Asked \subseteq Int /\ Offsets \subseteq Int /\ 0 \in Offsets
    /\ {Home, Default} \subseteq Int
    /\ {Dwell, Hold, Resume, Listen} \subseteq Nat
    /\ {Interval, LongFrame, Inputs} \subseteq Nat \ {0}
    /\ Range \in Seq(Int) \ {<<>>} /\ RowLists \subseteq Seq(Int) /\ None \notin Int

VARIABLES
    pc, inputs,     \* the place in the frame; what the user has done in it
    centre, offset, \* the source's centre, read back; the VFO's offset
    aside,          \* where a radio's opening left the generator; None: no radio is installed
    opening, keep,  \* deviceOpenPending_; the request's keepCenterHz
    held, since,    \* the coalescer: the value held; the time since the last apply
    scan,           \* the Scanner
    lapse,          \* the time since its last tick
    expected,       \* scannerExpectedAbsHz_, None without scannerHasExpected_
    ticked, rows,   \* scanTicked_, the ticked rows
    listed, edited, \* scanList_; freqMgr_'s version is not scanListVersion_
    wanted,         \* history: where the newest tune asked for leaves the centre, None if the
                    \* source was asked for none
    overtaken,      \* history: an older tune was put, or will be, over the newest
    touched,        \* history: the frequency was moved since the scan's last tune, not by it
    asked,          \* history: in this frame the user also told the scan to move
    mine,           \* history: where the scan's last tune left the receiver
    heard, quiet    \* history: how long ago the scan found a signal here, and saw it quiet

source == <<centre, offset>>
radios == <<aside, opening, keep>>
pacing == <<held, since>>
list == <<ticked, rows, listed, edited>>
hands == <<touched, asked, mine>>
ears == <<heard, quiet>>
vars == <<pc, inputs, source, radios, pacing, scan, lapse, expected, list, wanted, overtaken,
          hands, ears>>

Least(a, b) == IF a < b THEN a ELSE b
Abs == centre + offset
Active == scan.state # "Idle"
Radio == aside # None
Rests == IF held = None THEN centre ELSE held

(* The Scanner at rest.  Nothing reads what the last scan left in it, or   *)
(* its baseline, before a start resets them: they are cleared here.        *)
Stopped == [state |-> "Idle", plan |-> Range, index |-> 1, first |-> FALSE,
            phase |-> 0, listened |-> 0, wait |-> "dwell", did |-> "stayed"]

Init ==
    /\ pc = "input" /\ inputs = 0
    /\ centre = Home /\ offset = 0 /\ held = None /\ since = Interval
    /\ aside = None /\ opening = FALSE /\ keep = None
    /\ scan = Stopped
    /\ lapse = 0 /\ expected = None
    /\ ticked = FALSE /\ rows \in RowLists /\ listed = <<>> /\ edited = TRUE
    /\ wanted = None /\ overtaken = FALSE
    /\ touched = FALSE /\ asked = FALSE /\ mine = None /\ heard = None /\ quiet = None

-------------------------------------------------------------------------------
(* The Scanner.                                                            *)

Fresh(sc) == [sc EXCEPT !.state = "Scanning", !.first = TRUE, !.phase = 0, !.wait = "dwell"]

(* A list that is empty falls back to the range.                           *)
Configure(sc, plan) ==
    LET stored == [sc EXCEPT !.plan = IF plan = <<>> THEN Range ELSE plan,
                             !.index = 1, !.phase = 0]
    IN IF sc.state = "Idle" THEN stored ELSE Fresh(stored)

Start(sc) == [Fresh(sc) EXCEPT !.index = 1]
Advance(sc) == [sc EXCEPT !.index = (@ % Len(sc.plan)) + 1]
SkipForgetsFirstTune(sc) == [Fresh(Advance(sc)) EXCEPT !.first = FALSE]
Skip(sc) == Fresh(Advance(sc))

(* A tick that returns a frequency: the phase starts afresh from it.       *)
Emit(sc) == [sc EXCEPT !.state = "Scanning", !.first = FALSE, !.phase = 0,
                       !.wait = "dwell", !.did = "tuned"]
Stay(sc, state) == [sc EXCEPT !.state = state, !.did = "stayed"]

(* Scanning.  The first tune ignores the squelch, a signal outranks a due  *)
(* advance.                                                                *)
ScanningTick(sc, d, open) ==
    LET elapsed == sc.phase + d
    IN IF sc.first THEN Emit(sc)
       ELSE IF open
       THEN [Stay(sc, "Paused") EXCEPT !.listened = 0,
                                       !.did = IF sc.wait = "resume" THEN "refilled" ELSE "stayed"]
       ELSE IF elapsed >= (IF sc.wait = "resume" THEN Resume ELSE Dwell)
       THEN Emit(Advance(sc))
       ELSE [Stay(sc, "Scanning") EXCEPT !.phase = elapsed]

(* Paused: the listen budget is spent here only; quiet starts the hold.    *)
PausedTick(sc, d, open) ==
    LET listened == Least(sc.listened + d, Listen)
        told == [sc EXCEPT !.listened = listened]
    IN IF Listen > 0 /\ listened >= Listen THEN Emit(Advance(told))
       ELSE IF open THEN Stay(told, "Paused")
       ELSE [Stay(told, "Holding") EXCEPT !.phase = 0]

HoldingRidesOverSignal(sc, d, open) ==
    LET told == [sc EXCEPT !.listened = Least(@ + d, Listen)]
        elapsed == sc.phase + d
    IN IF elapsed >= Hold
       THEN [Stay(told, "Scanning") EXCEPT !.phase = 0, !.wait = "resume"]
       ELSE [Stay(told, "Holding") EXCEPT !.phase = elapsed]

HoldingRefills(sc, d, open) ==
    IF open THEN [Stay(sc, "Paused") EXCEPT !.listened = 0]
    ELSE IF sc.phase + d >= Hold
    THEN [Stay(sc, "Scanning") EXCEPT !.phase = 0, !.wait = "resume"]
    ELSE [Stay(sc, "Holding") EXCEPT !.phase = @ + d]

(* Holding: a re-trigger abandons the countdown and refills nothing.       *)
HoldingTick(sc, d, open) ==
    LET told == [sc EXCEPT !.listened = Least(@ + d, Listen)]
        elapsed == sc.phase + d
    IN IF open THEN Stay(told, "Paused")
       ELSE IF elapsed >= Hold
       THEN [Stay(told, "Scanning") EXCEPT !.phase = 0, !.wait = "resume"]
       ELSE [Stay(told, "Holding") EXCEPT !.phase = elapsed]

Tick(sc, d, open) ==
    CASE sc.state = "Scanning" -> ScanningTick(sc, d, open)
      [] sc.state = "Paused"   -> PausedTick(sc, d, open)
      [] sc.state = "Holding"  -> HoldingTick(sc, d, open)

-------------------------------------------------------------------------------
(* Moving the centre.  A tune a radio refuses leaves the readback where it *)
(* was, the generator refuses none; one that asks for where the source     *)
(* stands reaches nothing.                                                 *)

Lands(hz) == centre' \in (IF Radio THEN {hz, centre} ELSE {hz})

ApplyRetuneNow(hz) ==
    /\ Lands(hz)
    /\ since' = IF hz = centre THEN since ELSE 0

(* Without a radio, and while a scan runs, every tune is applied at once   *)
(* and the value held, if there is one, stays held; otherwise it goes      *)
(* through the coalescer.                                                  *)
RetuneSourceHz(hz) ==
    IF ~Radio \/ Active
    THEN /\ ApplyRetuneNow(hz) /\ UNCHANGED held
         /\ wanted' = centre' /\ overtaken' = (held # None)
    ELSE IF since < Interval
    THEN /\ held' = hz /\ wanted' = hz /\ overtaken' = FALSE /\ UNCHANGED <<centre, since>>
    ELSE /\ Lands(hz) /\ since' = 0 /\ held' = None
         /\ wanted' = centre' /\ overtaken' = FALSE

-------------------------------------------------------------------------------
(* What the user does in a frame, with the window or from a browser.       *)

Turn == pc = "input" /\ inputs < Inputs /\ inputs' = inputs + 1 /\ UNCHANGED pc
Input == Turn /\ UNCHANGED radios

Moved == touched' = (touched \/ (Active /\ source' # source))

(* tuneAbsoluteHz(): the counter's digits, a click, a bookmark.            *)
UserTune(abs) ==
    /\ Input /\ RetuneSourceHz(abs - offset) /\ UNCHANGED offset /\ Moved
    /\ UNCHANGED <<scan, lapse, expected, list, asked, mine, ears>>

(* The VFO's marker dragged: nothing reaches the source.                   *)
UserOffset(o) ==
    /\ Input /\ o # offset /\ offset' = o /\ UNCHANGED centre /\ Moved
    /\ UNCHANGED <<pacing, scan, lapse, expected, list, wanted, overtaken, asked, mine, ears>>

(* A scan told to go, to start again or to go on: its baseline is forgotten*)
(* until its next tune.                                                    *)
Told(sc) ==
    /\ scan' = [sc EXCEPT !.did = "stayed"] /\ expected' = None /\ asked' = TRUE
    /\ UNCHANGED <<source, pacing, wanted, overtaken, touched, mine, ears, ticked, rows>>

TickedRead == listed' = rows /\ edited' = FALSE

(* START SCAN, over the range or, in list mode, over the ticked rows.      *)
StartScan ==
    /\ Input /\ ~Active /\ lapse' = 0
    /\ IF ticked THEN rows # <<>> /\ TickedRead ELSE UNCHANGED <<listed, edited>>
    /\ Told(Start(Configure(scan, IF ticked THEN rows ELSE Range)))

(* The browser's start: always the range, and also while a scan runs.      *)
WebStartScan ==
    /\ Input /\ lapse' = 0 /\ UNCHANGED <<listed, edited>>
    /\ Told(Start(Configure(scan, Range)))

SkipScan == Input /\ Active /\ Told(Skip(scan)) /\ UNCHANGED <<lapse, listed, edited>>

(* A scan parameter edited while the scan runs.                            *)
EditScan ==
    /\ Input /\ Active /\ UNCHANGED lapse
    /\ IF ticked THEN TickedRead ELSE UNCHANGED <<listed, edited>>
    /\ Told(Configure(scan, IF ticked THEN rows ELSE Range))

(* Scanner::stop().                                                        *)
Stop ==
    /\ scan' = Stopped /\ lapse' = 0 /\ expected' = None
    /\ mine' = None /\ touched' = FALSE /\ heard' = None /\ quiet' = None

StopScan ==
    /\ Input /\ Active /\ Stop
    /\ UNCHANGED <<source, pacing, list, wanted, overtaken, asked>>

(* The list-mode box stops a running scan.                                 *)
TickListMode ==
    /\ Input /\ ticked' = ~ticked
    /\ IF Active THEN Stop ELSE UNCHANGED <<scan, lapse, expected, mine, touched, ears>>
    /\ UNCHANGED <<source, pacing, rows, listed, edited, wanted, overtaken, asked>>

(* A row ticked or unticked, or another edit of the list.                  *)
EditRows(r) ==
    /\ Input /\ rows' = r /\ edited' = TRUE
    /\ UNCHANGED <<source, pacing, scan, lapse, expected, ticked, listed, wanted, overtaken,
                   hands, ears>>

(* The source let go of: the generator stands where it was left, and the   *)
(* coalescer keeps what it holds.                                          *)
LeaveRadio ==
    /\ centre' = (IF Radio THEN aside ELSE centre) /\ aside' = None
    /\ UNCHANGED <<offset, pacing, scan, lapse, expected, list, asked, mine, ears>> /\ Moved

(* selectSource() of a device row: the frequency to carry is read, if the  *)
(* source has one, the radio there was is closed, and the new one opens on *)
(* a worker.  No source is chosen while one opens.                         *)
SelectRadio ==
    /\ Turn /\ ~opening /\ opening' = TRUE
    /\ keep' = (IF centre > 0 THEN centre ELSE None)
    /\ LeaveRadio
    /\ wanted' = (IF keep' # None THEN keep' ELSE IF held # None THEN wanted ELSE None)
    /\ overtaken' = (overtaken /\ held # None)

(* selectSource() of the generator's row.                                  *)
SelectGenerator ==
    /\ Turn /\ ~opening /\ Radio /\ LeaveRadio /\ UNCHANGED <<opening, keep>>
    /\ wanted' = (IF held # None THEN wanted ELSE None)
    /\ overtaken' = (overtaken /\ held # None)

-------------------------------------------------------------------------------
(* scannerFrame(): a frequency that is not where the scan's last tune left *)
(* it is the user's, and the scan stops; a list that was edited is read    *)
(* again; then the tick, and the retune it may ask for.                    *)

HandMoved == expected # None /\ Abs # expected
ListChanged == ticked /\ edited

Scanned ==
    /\ pc = "input" /\ pc' = "release" /\ inputs' = 0
    /\ UNCHANGED <<offset, radios, ticked, rows>>

ScannerIdle ==
    /\ Scanned /\ ~Active
    /\ UNCHANGED <<centre, pacing, scan, lapse, expected, listed, edited, wanted, overtaken,
                   hands, ears>>

ScannerYields ==
    /\ Scanned /\ Active /\ HandMoved /\ Stop
    /\ UNCHANGED <<centre, pacing, listed, edited, wanted, overtaken, asked>>

ScannerListEmptied ==
    /\ Scanned /\ Active /\ ~HandMoved /\ ListChanged /\ rows = <<>>
    /\ edited' = FALSE /\ Stop
    /\ UNCHANGED <<centre, pacing, listed, wanted, overtaken, asked>>

(* What the ears of a listener at the receiver have had since the scan last*)
(* moved it: a signal found, and the quiet since.                          *)
Hears(open, tuned) ==
    /\ heard' = IF tuned THEN None
                ELSE IF heard # None THEN Least(heard + lapse, Listen)
                ELSE IF open THEN 0 ELSE None
    /\ quiet' = IF tuned \/ open THEN None
                ELSE IF quiet = None THEN 0 ELSE Least(quiet + lapse, Hold + Resume)

(* The tick, with the meter's reading; before is the scan it is given.     *)
ScannerTick(before, baseline, open) ==
    LET after == Tick(before, lapse, open)
    IN /\ scan' = after /\ lapse' = 0
       /\ Hears(open, after.did = "tuned")
       /\ IF after.did = "tuned"
          THEN /\ RetuneSourceHz(after.plan[after.index] - offset)
               /\ expected' = centre' + offset /\ mine' = centre' + offset
               /\ touched' = FALSE /\ asked' = FALSE
          ELSE /\ expected' = baseline
               /\ UNCHANGED <<centre, pacing, wanted, overtaken, hands>>

ScannerGoesOn ==
    /\ Scanned /\ Active /\ ~HandMoved /\ ~ListChanged
    /\ UNCHANGED <<listed, edited>>
    /\ \E open \in BOOLEAN : ScannerTick(scan, expected, open)

(* startTickedScan() when the rows differ from those it runs over.         *)
ScannerListRead ==
    /\ Scanned /\ Active /\ ~HandMoved /\ ListChanged /\ rows # <<>>
    /\ TickedRead
    /\ \E open \in BOOLEAN :
          IF rows # listed THEN ScannerTick(Configure(scan, rows), None, open)
                           ELSE ScannerTick(scan, expected, open)

-------------------------------------------------------------------------------
(* The rest of the frame: finishDeviceOpen(), the release, the time.       *)

Opened ==
    /\ pc = "release" /\ opening /\ pc' = "opened" /\ opening' = FALSE /\ keep' = None
    /\ UNCHANGED <<inputs, offset, scan, lapse, expected, list, asked, mine, ears>>

(* A frequency that is carried across supersedes a held tune, aimed at the *)
(* source before; without one the radio stands at its default, and what is *)
(* held stays.                                                             *)
CarryAcrossKeepsHeld ==
    IF keep = None
    THEN /\ centre' = Default /\ UNCHANGED <<pacing, wanted>>
         /\ overtaken' = (overtaken \/ (held = None /\ wanted # None))
    ELSE /\ centre' \in {keep, Default} /\ UNCHANGED held
         /\ since' = (IF keep = Default THEN since ELSE 0)
         /\ wanted' = (IF wanted = keep THEN centre' ELSE wanted) /\ overtaken' = (wanted # keep)

CarryAcross ==
    IF keep = None
    THEN /\ centre' = Default /\ UNCHANGED <<pacing, wanted>>
         /\ overtaken' = (overtaken \/ (held = None /\ wanted # None))
    ELSE /\ centre' \in {keep, Default} /\ held' = None
         /\ since' = (IF keep = Default THEN since ELSE 0)
         /\ wanted' = (IF wanted = keep THEN centre' ELSE wanted) /\ overtaken' = (wanted # keep)

RadioOpened == Opened /\ aside' = centre /\ CarryAcross /\ Moved

(* The generator stays, and the frequency that was to be carried is gone.  *)
RadioFails ==
    /\ Opened
    /\ wanted' = (IF wanted = keep /\ wanted # Rests THEN None ELSE wanted)
    /\ UNCHANGED <<aside, centre, pacing, overtaken, touched>>

(* The time until the next frame.                                          *)
Passes(d, applied) ==
    /\ pc' = "input" /\ asked' = FALSE
    /\ since' = Least(applied + d, Interval)
    /\ lapse' = IF Active THEN lapse + d ELSE 0
    /\ UNCHANGED <<inputs, offset, radios, scan, expected, list, overtaken, mine, ears>>

Due == held # None /\ since >= Interval

(* pollPendingRetune(): the held tune, released once the interval is over. *)
(* One released while a scan runs is a hand's, from before the scan.       *)
ReleaseDue(d) ==
    /\ pc # "input" /\ Due /\ held' = None
    /\ Lands(held) /\ wanted' = (IF held = wanted THEN centre' ELSE wanted)
    /\ touched' = (touched \/ (Active /\ overtaken /\ centre' # centre))
    /\ Passes(d, 0)

NothingDue(d) ==
    /\ pc # "input" /\ ~Due /\ UNCHANGED <<centre, held, wanted, touched>>
    /\ Passes(d, since)

Frame ==
    \/ ScannerIdle \/ ScannerYields \/ ScannerListEmptied
    \/ ScannerGoesOn \/ ScannerListRead
    \/ \E d \in 1..LongFrame : ReleaseDue(d) \/ NothingDue(d)

Next ==
    \/ \E f \in Asked : UserTune(f)
    \/ \E o \in Offsets : UserOffset(o)
    \/ StartScan \/ WebStartScan \/ SkipScan \/ EditScan \/ StopScan
    \/ TickListMode \/ \E r \in RowLists : EditRows(r)
    \/ SelectRadio \/ SelectGenerator \/ RadioOpened \/ RadioFails
    \/ Frame

(* The frame loop goes round; nothing says that the user does anything.    *)
Spec == Init /\ [][Next]_vars /\ WF_vars(Frame)

-------------------------------------------------------------------------------
TypeOK ==
    /\ pc \in {"input", "release", "opened"} /\ inputs \in 0..Inputs
    /\ centre \in Int /\ offset \in Offsets /\ held \in {None} \cup Int /\ since \in 0..Interval
    /\ scan.state \in {"Idle", "Scanning", "Paused", "Holding"}
    /\ scan.plan \in RowLists \cup {Range} /\ scan.index \in DOMAIN scan.plan
    /\ scan.listened \in 0..Listen /\ scan.first \in BOOLEAN
    /\ expected \in {None} \cup Int /\ rows \in RowLists
    /\ (scan.first => scan.state = "Scanning")

ScannerFrame == pc = "input" /\ pc' = "release" /\ Active

(* The newest tune asked for, by a hand or by the scan, is where the       *)
(* receiver ends: it is the one the coalescer holds, or it has been        *)
(* applied and the source is still where it left it; the frequency a new   *)
(* radio is chosen with is the newest until it has opened.  (Two sequences *)
(* of the code break this, LatestTuneAlwaysWins: a scan or a source that   *)
(* is no radio tunes past a held tune, which comes back later; a source    *)
(* tuned while a radio opens is replaced by the radio, which stands where  *)
(* the older tune was.)  retune_coalescer.hpp, "latest value winning".     *)
LatestTuneAlwaysWins ==
    \/ wanted \in {None, Rests}
    \/ opening /\ wanted = keep
LatestTuneWins == overtaken \/ LatestTuneAlwaysWins

(* User wins, and nobody else: the scan never retunes a receiver that was  *)
(* moved since its last retune, unless the user told it to go on in the    *)
(* same frame; and it stops for nothing but a move that was not its own or *)
(* a list that was emptied, never for its own retune, refused or landed    *)
(* late (scannerFrame(); retuneSourceHz(), why the scanner bypasses the    *)
(* pacing).                                                                *)
UserWins ==
    [][ScannerFrame => /\ scan'.did = "tuned" => mine \in {None, Abs} \/ asked
                       /\ scan'.state = "Idle" => touched \/ (ListChanged /\ rows = <<>>)]_vars

(* A signal the scan has found is left by hand, or while it is heard when  *)
(* the listen budget is spent, or once it is quiet when the whole hold and *)
(* the whole resume wait have passed since, whatever it did before: a gap  *)
(* of a conversation counts for nothing later (scanner.hpp, state rules).  *)
StaysUntilQuiet ==
    [][ScannerFrame /\ scan'.did = "tuned" /\ heard # None /\ ~asked /\ ~ListChanged
         => IF quiet = None THEN Listen > 0 /\ heard + lapse >= Listen
                            ELSE quiet + lapse >= Hold + Resume]_vars

(* With a listen budget an unattended scan keeps moving whatever the       *)
(* squelch does, unless signals go on coming back inside the resume wait,  *)
(* which starts the budget afresh (scanner.hpp, listenMs).                 *)
ScanMovesOn ==
    Listen > 0 => []<>(Active => scan.did \in {"tuned", "refilled"})
=============================================================================
