-------------------------------- MODULE AudioOut --------------------------------
(***************************************************************************)
(* The sound card's side of the program: sink/audio_out.cpp (the ring, the *)
(* card's callback, an open that may take for ever), gui/audio_open.hpp    *)
(* (the open on a worker, one at a time), the frame's two polls of         *)
(* gui/app_window.cpp and the DSP thread's writes of core/pipeline.cpp.    *)
(*                                                                         *)
(* Four threads meet here: the window asks and collects, a worker is inside*)
(* the driver, the card calls back, the DSP thread writes.  The ring is its*)
(* fill in samples (its own algorithm is SpscRing's); a sample's value is  *)
(* left out.  An operator whose name adds a mistake to another's is that   *)
(* operator with the mistake seeded in it.                                 *)
(***************************************************************************)
EXTENDS Integers

CONSTANTS
    None, SystemDefault,
    Devices,        \* the output devices of this computer
    Stereo,         \* those of them that have two channels
    First,          \* the device the Pipeline's constructor opened
    Capacity,       \* the ring's, in samples
    LeadMin, LeadMax,   \* kPrimeFrames, kMaxLeadFrames
    Margin,         \* kTargetMarginFrames
    Block,          \* the most frames the DSP thread writes at once
    MaxPicks,       \* bound: picks of a device and of a lead by the user
    MaxFaults       \* bound: unplugged devices, refusals, aborts that fail

Streams == [device : Devices, width : {1, 2}, active : BOOLEAN]

ASSUME AudioOutAssumption ==
    /\ Stereo \subseteq Devices /\ First \in Devices /\ None \notin Streams
    /\ None \notin Devices /\ SystemDefault \notin Devices /\ None # SystemDefault
    /\ {LeadMin, LeadMax, Block, Margin} \subseteq Nat \ {0} /\ LeadMin <= LeadMax
    /\ {MaxPicks, MaxFaults} \subseteq Nat
    /\ Capacity \in Nat /\ 2 * (LeadMax + Margin + Block) <= Capacity

VARIABLES
    present,        \* the devices plugged in
    stream,         \* stream_: the device and the width it was opened with and
                    \* whether the card still calls it back, or None
    stuck,          \* the width of a stream that would not abort, 0 without one
    card, stuckCard,    \* their callbacks: 0 outside, else the width this call reads
    channels,       \* channels_
    layout,         \* the pipeline's audioChannels_
    opened,         \* openedRequested_ and, by it, openedName_
    job,            \* AudioOpen's worker: its place, the target, the width it tries
    queued,         \* AudioOpen's queued_, None without hasQueued_
    fill, primed, lead, trim,   \* ring_, primed_, leadFrames_, trimPending_
    picks, faults,  \* the bounds' counts
    asked, lost,      \* history: the user's last pick; it was refused or has gone since
    played          \* history: the last callback took sound from the ring

sound == <<fill, primed, trim>>
cards == <<stream, stuck, card, stuckCard, channels>>
gate == <<job, queued>>
bounds == <<picks, faults>>
history == <<asked, lost, played>>
audioVars == <<present, cards, layout, opened, gate, sound, lead, bounds, history>>

Fewer(a, b) == IF a < b THEN a ELSE b
More(a, b) == IF a < b THEN b ELSE a
WidthOf(d) == IF d \in Stereo THEN 2 ELSE 1
Targets == Devices \cup {SystemDefault}
NoJob == [pc |-> "none", target |-> None, width |-> 2, ok |-> FALSE]
InFlight == job.pc # "none"

(* streamAlive(): what Pa_IsStreamActive() says.  A stream whose device    *)
(* went has been left by its driver, and stays left when the device is     *)
(* there again: only another open makes a stream that lives.               *)
Alive == stream # None /\ stream.active
Started(device, width) == [device |-> device, width |-> width, active |-> TRUE]

AudioInit ==
    /\ present = Devices
    /\ stream = Started(First, WidthOf(First))
    /\ stuck = 0 /\ card = 0 /\ stuckCard = 0
    /\ channels = WidthOf(First) /\ layout = WidthOf(First) /\ opened = First
    /\ job = NoJob /\ queued = None
    /\ fill = 0 /\ primed = FALSE /\ lead = LeadMin /\ trim = FALSE
    /\ picks = 0 /\ faults = 0
    /\ asked = First /\ lost = FALSE /\ played = FALSE

-------------------------------------------------------------------------------
(* The window.  AudioOpen::request(): one open at a time, and behind it    *)
(* the last one asked for.  The bounded wait of the frame that asks is a   *)
(* poll that comes at once.                                                *)

StartOpen(target) == [NoJob EXCEPT !.pc = "close", !.target = target]

Request(target) ==
    IF InFlight THEN queued' = target /\ UNCHANGED job
                ELSE job' = StartOpen(target) /\ UNCHANGED queued

(* The Sinks panel.                                                        *)
PickDevice(target) ==
    /\ picks < MaxPicks /\ picks' = picks + 1
    /\ Request(target) /\ asked' = target /\ lost' = FALSE
    /\ UNCHANGED <<present, cards, layout, opened, sound, lead, faults, played>>

PickLeadUnclamped(frames) ==
    /\ picks < MaxPicks /\ picks' = picks + 1 /\ lead' = frames
    /\ trim' = (trim \/ frames < lead)
    /\ UNCHANGED <<present, cards, layout, opened, gate, fill, primed, faults, history>>

(* setLeadFrames(), from the panel or from the minute's count of starved   *)
(* callbacks.                                                              *)
PickLead(frames) ==
    LET clamped == Fewer(More(frames, LeadMin), LeadMax)
    IN /\ picks < MaxPicks /\ picks' = picks + 1 /\ lead' = clamped
       /\ trim' = (trim \/ clamped < lead)
       /\ UNCHANGED <<present, cards, layout, opened, gate, fill, primed, faults, history>>

(* recoveryDeviceIndex(): the device last opened, by its name; the default *)
(* when it was that or when it is gone.                                    *)
RecoveryTarget == IF opened \in present THEN opened ELSE SystemDefault

RecoverWhileOpening ==
    /\ ~Alive /\ Request(RecoveryTarget)
    /\ UNCHANGED <<present, cards, layout, opened, sound, lead, bounds, history>>

RecoverClosedOnly ==
    /\ ~InFlight /\ stream = None /\ Request(RecoveryTarget)
    /\ UNCHANGED <<present, cards, layout, opened, sound, lead, bounds, history>>

(* pollAudioHealth(), once a second: a dead stream is opened again, unless *)
(* an open is in flight.                                                   *)
Recover ==
    /\ ~InFlight /\ ~Alive /\ Request(RecoveryTarget)
    /\ UNCHANGED <<present, cards, layout, opened, sound, lead, bounds, history>>

(* pollAudioOpen(): the answer is collected, the open queued behind it is  *)
(* started, the pipeline is given the layout.                              *)
Collect ==
    /\ job.pc = "done" /\ queued' = None
    /\ job' = (IF queued # None THEN StartOpen(queued) ELSE NoJob)
    /\ layout' = (IF job.ok THEN channels ELSE 1)
    /\ lost' = (lost \/ (~job.ok /\ queued = None))
    /\ UNCHANGED <<present, cards, opened, sound, lead, bounds, asked, played>>

-------------------------------------------------------------------------------
(* The worker, audioOpener(): AudioOut::open() as stereo, then as mono.    *)

Step(pc) == job' = [job EXCEPT !.pc = pc]

(* One open() is refused: the next width is tried, or there is no sound.   *)
Refused ==
    job' = IF job.width = 2 THEN [job EXCEPT !.pc = "close", !.width = 1]
                            ELSE [job EXCEPT !.pc = "done", !.ok = FALSE]

CloseUnwaited ==
    /\ job.pc = "close" /\ Step("check") /\ stream' = None
    /\ UNCHANGED <<present, stuck, card, stuckCard, channels, layout, opened, queued,
                   sound, lead, bounds, history>>

(* closeLocked(): Pa_AbortStream() waits for the callback that is out.     *)
Close ==
    /\ job.pc = "close" /\ card = 0 /\ Step("check") /\ stream' = None
    /\ UNCHANGED <<present, stuck, card, stuckCard, channels, layout, opened, queued,
                   sound, lead, bounds, history>>

(* A stream that would not abort is left open, its callback running.       *)
CloseFails ==
    /\ job.pc = "close" /\ stream # None /\ stuck = 0
    /\ faults < MaxFaults /\ faults' = faults + 1
    /\ Step("check") /\ stream' = None
    /\ stuck' = stream.width /\ stuckCard' = card /\ card' = 0
    /\ UNCHANGED <<present, channels, layout, opened, queued, sound, lead, picks, history>>

(* The device the target names now: the system default is any of those     *)
(* present.                                                                *)
Resolved == {d \in present : job.target \in {d, SystemDefault}}

(* No such device, or none with so many channels.                          *)
Refuse ==
    /\ job.pc = "check" /\ \A d \in Resolved : WidthOf(d) < job.width
    /\ Refused
    /\ UNCHANGED <<present, cards, layout, opened, queued, sound, lead, bounds, history>>

Usable ==
    /\ job.pc = "check" /\ \E d \in Resolved : WidthOf(d) >= job.width
    /\ Step("drain")
    /\ UNCHANGED <<present, cards, layout, opened, queued, sound, lead, bounds, history>>

(* The ring is read until it is empty; the DSP thread may write meanwhile. *)
Drain ==
    /\ job.pc = "drain" /\ fill' = 0 /\ Step("start")
    /\ UNCHANGED <<present, cards, layout, opened, queued, primed, trim, lead, bounds, history>>

(* Pa_OpenStream() and Pa_StartStream(): the callback may come from here   *)
(* on.                                                                     *)
StartStream(device) ==
    /\ job.pc = "start" /\ device \in Resolved /\ WidthOf(device) >= job.width
    /\ stream' = Started(device, job.width) /\ Step("started")
    /\ UNCHANGED <<present, stuck, card, stuckCard, channels, layout, opened, queued,
                   sound, lead, bounds, history>>

(* The device went since the check, or its driver refuses the stream.      *)
DriverRefuses ==
    /\ job.pc = "start" /\ Refused
    /\ \/ Resolved = {} /\ UNCHANGED faults
       \/ faults < MaxFaults /\ faults' = faults + 1
    /\ UNCHANGED <<present, cards, layout, opened, queued, sound, lead, picks, history>>

PublishLayout ==
    /\ job.pc = "started"
    /\ channels' = job.width /\ opened' = job.target
    /\ job' = [job EXCEPT !.pc = "done", !.ok = TRUE]
    /\ UNCHANGED <<present, stream, stuck, card, stuckCard, layout, queued, sound, lead,
                   bounds, history>>

-------------------------------------------------------------------------------
(* The card: pullBlock(), one frame a call.  `width` is the channels_ it   *)
(* read as it began.                                                       *)

Discarded(width) ==
    LET target == (lead + Margin) * width
        over == IF trim /\ fill > target THEN fill - target ELSE 0
    IN over - (over % width)

(* What is played, and whether the next call plays on.                     *)
Pull(width) ==
    LET discard == Discarded(width)
        held == fill - discard
        ready == (primed /\ discard = 0) \/ held >= lead * width
        got == IF ready THEN Fewer(held, width) ELSE 0
    IN /\ trim' = FALSE /\ fill' = held - got
       /\ primed' = (ready /\ got = width)
       /\ played' = (got > 0)

CardBegin ==
    /\ card = 0 /\ Alive /\ card' = channels
    /\ UNCHANGED <<present, stream, stuck, stuckCard, channels, layout, opened, gate,
                   sound, lead, bounds, history>>

CardEnd ==
    /\ card # 0 /\ Pull(card) /\ card' = 0
    /\ UNCHANGED <<present, stream, stuck, stuckCard, channels, layout, opened, gate,
                   lead, bounds, asked, lost>>

(* The callback of the stream that would not abort.                        *)
StuckBegin ==
    /\ stuck # 0 /\ stuckCard = 0 /\ stuckCard' = channels
    /\ UNCHANGED <<present, stream, stuck, card, channels, layout, opened, gate, sound,
                   lead, bounds, history>>

StuckEnd ==
    /\ stuckCard # 0 /\ Pull(stuckCard) /\ stuckCard' = 0
    /\ UNCHANGED <<present, stream, stuck, card, channels, layout, opened, gate, lead,
                   bounds, asked, lost>>

(* The DSP thread: a block of 1..Block frames in the pipeline's layout; a  *)
(* stereo write takes whole frames, a mono one what fits.                  *)
WriteBlock(frames) ==
    LET room == (Capacity - fill) \div layout
    IN /\ fill' = fill + layout * Fewer(frames, room)
       /\ UNCHANGED <<present, cards, layout, opened, gate, primed, trim, lead, bounds,
                      history>>

(* A device goes, and takes with it the stream that was opened on it.      *)
Unplug(device) ==
    /\ device \in present /\ faults < MaxFaults /\ faults' = faults + 1
    /\ present' = present \ {device} /\ lost' = (lost \/ asked = device)
    /\ stream' = IF stream # None /\ stream.device = device
                 THEN [stream EXCEPT !.active = FALSE] ELSE stream
    /\ UNCHANGED <<stuck, card, stuckCard, channels, layout, opened, gate, sound, lead,
                   picks, asked, played>>

(* It is there again; the stream it took is not.                           *)
Plug ==
    /\ present # Devices /\ present' = Devices
    /\ UNCHANGED <<cards, layout, opened, gate, sound, lead, bounds, history>>

-------------------------------------------------------------------------------
Window ==
    \/ \E target \in Targets : PickDevice(target)
    \/ \E frames \in 0..Capacity : PickLead(frames)
    \/ Recover
    \/ Collect
Worker ==
    \/ Close \/ CloseFails \/ Refuse \/ Usable \/ Drain
    \/ \E device \in Devices : StartStream(device)
    \/ DriverRefuses
    \/ PublishLayout
Card == CardBegin \/ CardEnd
StuckStream == StuckBegin \/ StuckEnd
Dsp == \E frames \in 1..Block : WriteBlock(frames)
World == Plug \/ \E device \in Devices : Unplug(device)

AudioNext == Window \/ Worker \/ Card \/ StuckStream \/ Dsp \/ World

(* Frames come, a driver answers in the end, a stream that runs is called  *)
(* back, a receiver that runs writes, and some device is there in the end. *)
Fairness ==
    /\ WF_audioVars(Recover \/ Collect) /\ WF_audioVars(Worker) /\ WF_audioVars(Card)
    /\ WF_audioVars(Dsp) /\ WF_audioVars(Plug)
AudioSpec == AudioInit /\ [][AudioNext]_audioVars /\ Fairness

-------------------------------------------------------------------------------
AudioTypeOK ==
    /\ present \subseteq Devices
    /\ stream \in {None} \cup Streams
    /\ {stuck, card, stuckCard} \subseteq 0..2 /\ {channels, layout} \subseteq {1, 2}
    /\ opened \in Targets /\ asked \in Targets /\ queued \in Targets \cup {None}
    /\ job \in [pc : {"none", "close", "check", "drain", "start", "started", "done"},
                target : Targets \cup {None}, width : {1, 2}, ok : BOOLEAN]
    /\ fill \in 0..Capacity /\ lead \in LeadMin..LeadMax
    /\ {primed, trim, lost, played} \subseteq BOOLEAN
    /\ picks \in 0..MaxPicks /\ faults \in 0..MaxFaults

(* The ring has one reader, the callback or the worker's drain, as         *)
(* SpscRing requires of its consumer's end (and as the drain's comment     *)
(* says), whatever the driver, the window and the card do; but for a       *)
(* stream that would not abort, which keeps its callback.                  *)
OneReader == stuck = 0 => (job.pc = "drain" => card = 0) /\ stuckCard = 0

(* A callback's buffer holds its frames at the stream's width, and it is   *)
(* filled at channels_: audio_out.hpp:223 says that the two are the same.  *)
(* They are not between a stream's start and its publication.              *)
BlockFitsDevice == card # 0 /\ stream # None => card <= stream.width

(* However the user's picks, the health poll's own opens and the driver's  *)
(* answers interleave, once no open is out a stream that lives is on the   *)
(* device the user asked for last, unless that was refused or has gone.    *)
AskedDeviceWins == ~InFlight /\ Alive /\ ~lost => opened = asked

(* Sound comes back: after the last pick and the last fault the card       *)
(* always plays from the ring again, whatever stopped it: a stream that    *)
(* died with its device is nothing until the health poll opens another.    *)
SoundComesBack == []<>played
=============================================================================
