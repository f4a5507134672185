# FoxSDR: a verification project

TLA+ models of the parts of FoxSDR in which threads, timeouts and slow devices
meet, the TLC configurations that check them on small instances, and theorems
about them checked by TLAPS.  Source paths are those of the repository with
`src/` in front (`src/src/core/pipeline.cpp` is the repository's
`src/core/pipeline.cpp`).

## Contents

1. The system: its parts, their state, how they interact
2. What is hard in it
3. The modules and the code they stand for
4. What the runs check
5. Bounds
6. Fairness
7. What is proved
8. Where the code and its own words disagree
9. What is not modelled
10. Plan

## 1. The system

FoxSDR is one process.  Its GUI thread draws frames and, in each of them, polls
everything it started earlier; it must never wait for a disk, a driver or a
network.  The work is done by a few long-lived threads and many short ones:

    radio driver ──read()──> source thread ──SpscRing──> DSP thread ──SpscRing──> sound card callback
                                  │                       │  │  │
                                  │                       │  │  └── Recorder (WAV file)
                             Pipeline (start, stop,       │  └───── ScopeTap ──> GUI
                             setSource, setInputRateHz)   └──────── patch Runner (decoder sets) <── GUI
    GUI, web, CAT ──setters──> command queue ─────────────┘
    GUI frame ──tick()──> Transmitter ──> TX thread ──> TX sink
    GUI frame ──scannerFrame(), retuneSourceHz()──> source's centre frequency
    GUI frame ──ConfigWriter──> worker ──rename──> settings file
    browser ──queue──> GUI frame

| Part | State it keeps | Operations | What makes it correct |
|---|---|---|---|
| `SpscRing` (dsp/spsc_ring.hpp) | a buffer, two free-running counters | `write`, `read`, `size`, `freeSpace` | a bounded FIFO for one producer and one consumer, with no lock and no race on an element |
| Pipeline control and workers (core/pipeline.cpp) | run flags, source thread, DSP thread, owned source, ring, fault latch, abandon token | `start`, `stop`, `setSource`, `setInputRateHz`, the two thread bodies, `noteThreadFault` | a driver that never returns cannot wedge a control call, and an abandoned thread cannot hurt what comes after it |
| Setter queue (core/pipeline.cpp) | queue, scratch, pending flag, mirrors | some forty setters, `post`, `drainCommandsLocked`, getters | a setter never waits for a block; what is posted takes effect once, in order, between blocks |
| Patch runner (core/patch_runner.hpp) | pending, active and retired sets, two handshake flags | `publish`, `clear`, `reap`, `flushNow`; `process`, `adopt`, `pullAudio` | a set is destroyed once, on the GUI thread, never while the DSP thread runs it |
| Scope tap (core/scope_tap.hpp) | a ring and two counters | `push`, `snapshot` | a snapshot is of one moment although the writer never waits |
| Recordings (gui/app_window.cpp, gui/record_start.hpp, core/recorder.cpp, core/record_finish.cpp) | the recorder, a start being opened, a finish being closed, a queued Record | record, stop, frame poll, rate and source change, write, size limit | no file is lost, no take runs unasked, a header tells the truth |
| Transmitter (core/transmitter.cpp, gui/transmit_page.hpp, gui/app_window.cpp) | four keys with deadlines, TX thread, arming window, fault latch | the frame's steps in order, `tick`, key down and up, the TX thread's loop | nothing stays on the air unasked, whoever stops doing his part |
| Tuning (core/scanner.hpp, core/retune_coalescer.hpp, gui/app_window.cpp) | scan state and phase, a retune held back, where the scan expects the radio, the frequency an opening radio is to carry on | scan start, stop, skip and edit, source choice, frame, retune | the radio ends at the last frequency asked for; a scan yields to a hand and to nothing else |
| Audio output (sink/audio_out.cpp, gui/audio_open.hpp) | a stream, its ring, the layout both ends read, an open in flight and one behind it | pick, open on a worker, health poll, write, callback | one reader of the ring; the device picked last plays |
| Plugin runner (core/plugin_runner.cpp) | plugin instances under a lock, a pending centre | rebuild, remove, retune, block | plugins see the centre the radio is at |
| Patch radios (core/patch_radio.cpp) | a reader thread, a runner and flags shared with it | start, stop with a bounded wait | a reader let go keeps nothing of an unloaded plugin |
| Settings (gui/config_writer.hpp, core/config.cpp, gui/app_window.cpp) | one write out, the newest held behind it, what was last booked as saved, a clean-exit marker | launch, change, debounced save, poll, the exit's two saves and drain | the newest state reaches the disk; a crash is told from an exit; a damaged file is kept |
| GPS reader, CAT server (core/gps_reader.cpp, net/cat_server.cpp) | a worker each may have to be abandoned | start, stop | as for patch radios |
| Hang watchdog and sentinel (core/hang_watchdog.cpp, core/sentinel.cpp) | pauses, budgets, beats; one page shared with a second process | pause, resume, beat, poll | a real hang is reported and a long legal wait is not |
| Sources, USB, signal processing, plugin host, web server, updater, reports, views | see section 9 | | |

How they interact:

- **Locks.** Within `Pipeline` the order is `controlMutex_`, then `audioMutex_`,
  then `cmdMutex_`; the tap, frame, fault and RDS mutexes are leaves.  A control
  call holds `controlMutex_` throughout and joins workers under it.
- **Queues.** Source to DSP thread and DSP thread to sound card are `SpscRing`s.
  Setters go through the command queue.  A browser's or a CAT client's request
  is queued and applied by the next frame.
- **Handshakes without a lock.** `PatchRunner::flushNow()` against the DSP
  thread's entry points (two flags), `ScopeTap` (two counters and fences), the
  abandon token of a source thread, the TX thread's dead-man stamp.
- **Workers.** A file to record to is opened on one worker and closed on
  another, each polled by the frame; a worker inside the filesystem cannot be
  interrupted.

## 2. What is hard in it

`PROJECT.json` lists each hazard at its line, with the property that covers it
or the reason none does.  In short:

- *Drivers that do not return.*  A bounded join gives up on a thread inside a
  vendor's `read()`; the thread may answer in the middle of any later session.
- *Memory handed between threads without a lock*: the rings, the scope, the
  decoder sets; plugin code is unloaded after a flush that must leave nothing.
- *State read and used later*: mirrors published while a setter posts, the rate
  a header was written for, the frequency a scan believes the radio is at, the
  age of a browser's request.
- *A frame loop that stalls anywhere*, with a transmitter keyed.
- *Order within a frame*: a hand, a browser, the scanner, a radio that opens and a held
  retune all move the centre in one frame.
- *Partial failure*: one worker faults and the other lives on; a disk refuses one
  write of two; a sound card will not abort; a sink faults in the middle of a
  transmission.
- *A process that dies between two saves*, whose next launch must say so.
- *Boundaries*: a counter that wraps, a ring that is full, a take at its limit.

## 3. The modules and the code they stand for

Every definition that models code is listed with its lines in `PROJECT.json`.
Every module has an `MC` module that extends it and one or more `.cfg` files.
The names of variables and actions are those of the code, or what they do.

A convention runs through all modules: *an operator whose name adds a mistake to
another's is that operator with the mistake seeded in it*
(`BeginKeepsCount` is `Begin` without the reset of `dataBytes_`).  It is not
part of any specification.  Each property has one, named under `mutants` in
`PROJECT.json`: put in place of the right operator, it makes TLC find that
property violated.  A property no mistake can break would say nothing.

### `SpscRing`, `StreamFifo`, `BufferProofs`

`SpscRing` is `dsp/spsc_ring.hpp` with its atomic operations as steps.  A write
is `WriteBegin` (the load of `tail_` and the sum that follows), one `WriteCopy`
per element in any order, since `memcpy` promises none, and `WritePublish` (the
release store of `head_`); a read likewise.  `head` and `tail` are free-running
and reduced modulo `Wrap`, which is 2^64 in the build; full and empty differ only
in the counters.  `StreamFifo` is what the ring promises, a bounded FIFO in
which a prefix of each batch offered is accepted; `IsFifo` is the refinement,
with the queue mapped to the elements between `tail` and `head`.
`size()` and `freeSpace()` are the two operators the first load of each call
uses; a thread of neither side that calls them gets a value that was once true
of each counter, which no property speaks of.

### `PipelineThreads`, `PipelineThreadsProofs`

The threads of `core/pipeline.cpp`.  `controlMutex_` makes the control side one
process: `op` is the call, `cpc` where it is.  `start()` is
`StartCall, Quiesce, JoinSource | Abandon, JoinDsp, Refuse | Drain, LockAudio,
UnlockAudio, StartSource, Resize, Raise, SpawnSource, SpawnDsp`; `setSource()`
and `setInputRateHz()` take their own subset in their own order, and `stop()`
ends at `JoinDsp`.  Source threads have identities, because a bounded join
(`joinOrAbandonSourceThreadLocked`, 3 s) may let one go with `Abandon`: it is
detached, its token lowered, and it lives on.  A source thread's loop is
`LoopTop, ReadReturns | ReadThrows, TokenTest, RingWrite, FaultPoll`, and
`noteThreadFault()` is four stores, one per step (`StoreFault`).  The DSP thread
is always joined and has no identity.  A driver's `read()` may return, return
nothing, throw, or take no step ever again.

### `PipelineSetters`, `PipelineSettersProofs`

The command queue between any number of calling threads and whoever holds
`audioMutex_` next.  `Post` is a setter's critical section under `cmdMutex_`
(queue the command, raise the flag, store the mirror if it is *verbatim*);
`TryLock` its attempt to drain at once; `DrainLook` and `DrainRun` are
`drainCommandsLocked()`, which publishes the mirrors under `cmdMutex_` and only on
an empty queue.  The DSP thread drains before each block
(`BlockBegin, BlockDrained, BlockReadsParams, BlockEnd`); `start()` and `setInputRateHz()`
drain too, the latter after joining the DSP thread and before it rebuilds the
chain and publishes the mirrors itself (`RatePublishes`).  The forty parameters
are two kinds: those whose mirror is the argument as given (`Verbatim`), and
those the live object clamps (`Top`), whose mirror is what it made of it.

### `PatchRunner`, `PatchRadio`, `PatchRunnerProofs`

`PatchRunner` is `core/patch_runner.hpp`: a set of decoders is an identity that
travels from `publish` to `pending`, from there to `active` (`AdoptLock`,
`Install`), to `retired`, and back to be destroyed.  The two handshake flags are
each a step to store and a step to load: `FlushFreeze` then `FlushWait` on one
side, `Enter` then `Refused`, `Process` or `PullAudio` on the other.  `ring` and
`reports` remember whose audio the ring holds and whose squelch the report slots
show.  The flags are sequentially consistent in the source, which is what the
model's interleaving means.

`PatchRadio` says where a runner lives.  In the receiver (`host = "receiver"`)
its DSP side is the pipeline's and it is never let go.  In a patch radio
(`core/patch_radio.cpp`) its DSP side is the radio's reader thread, whose places
are `top, read, back, block, exit, gone`: it may be inside the driver for ever
and ends with the driver's fault.  `stop()` is `StopBegin`, then `StopJoins` (the
reader left in time; the runner goes with the radio), or `StopExpires` (the
bounded wait is over: flush first) and `StopReleases` (reader and runner are let
go together).  A radio is stopped once and forgotten.

### `ScopeTap`, `BufferProofs`

`core/scope_tap.hpp`, element by element: `push()` announces how far it will
write (`begun_`), stores, and then publishes (`written_`); `snapshot()` reads
`written_`, copies, and looks at `begun_` last.  A sample is its own number, so
what a snapshot returns says by itself when each element was written.  Its names
differ from the ring's, and so do those of `AudioOut`, because one module proves
all three.

### `Takes`, `TakesProofs`

One recording path from button to closed file, over five threads' worth of
code: the GUI thread's calls (`Record`, `Stop`, `ChangeSource`,
`FollowInputRate`), its poll of starts and finishes (`PollFindsNothing`,
`PollDrops`, `Begin`, `SetTap`, `Collect`, `StartQueued`), the opening worker
(`OpenAnswers`), the closing worker (`FinishLands`), and the DSP thread's write of
a block with the sequence of stores of `endAtSizeLimit()` (`WriteFrame,
LimitReached, RecordingOff, FailedOn, Detach, Clear, CountFrames, CloseFull`).
`setIqRecorder()` waits for a block in progress; that is the guard `dpc = "idle"`
of `SetTap` and `Untap`.  `Begin` has no such guard, so a start may come between
any two of those stores (section 8).  A file is in one of six places, one of them
nobody's (`leaked`), with the rate in its header, the frames in it, and the frames
its header claims.  Either finish can fail (`Finished`): the header then is the
one the file was opened with, or counts what did not reach the disk, and `lapse`
says whether the failure is still to be told, told, or told to nobody.

### `Transmitter`, `StallProofs`

`core/transmitter.cpp` with the frame loop that drives it.  The GUI thread's
frame is a cycle of named places: `FrameWeb` (`applyWebControls`), the page
(`OpenRadio, CloseRadio, Arm, Disarm, PageDrawn`), `HandKeys` (`txPageKey`,
`setLatched`, `setPttHeld`), `PluginKey` (`applyPluginTransmitKey`),
`TickDeadlines` and one of `KeyDown, KeyRefused, KeyUpBegins, NothingToDo,
LetGoSeen` (`tick`), the tail, and `AfterTick`.  It may stall at any of them.  The
TX thread is `Look, Block, Silence, Exit`.  Keys are a set (`ptt`, `latch`,
`remote`, `plugin`), the timed ones with time left.  There is no clock: `Passes`
lets one unit of time go by for every timer at once, and only the TX thread's
own step is bounded (`Cycle`: a block, or a sink's own timeout).  The waits in
`keyUpLocked()` that run out at a fixed time are taken to run out at any time.

### `Tuning`, `TuningProofs`

Everything that moves the centre frequency, on the one thread that does it.  A
frame is `pc = "input"` (up to `Inputs` things a hand or a browser does:
`UserTune, UserOffset, StartScan, WebStartScan, SkipScan, EditScan, StopScan,
TickListMode, EditRows, SelectRadio, SelectGenerator`), then `scannerFrame()` (`ScannerIdle, ScannerYields,
ScannerListEmptied, ScannerListRead, ScannerGoesOn`), a radio that has finished
opening (`RadioOpened, RadioFails`), and `pollPendingRetune()` with the time until the next
frame (`ReleaseDue, NothingDue`).  The `Scanner` is a record and its `tick()` the
operators `ScanningTick, PausedTick, HoldingTick`.  A browser's start takes the
range also in list mode and while a scan runs; `scanTicked_` stays as it was, and
so an edit of the list later turns that scan into one over the list.

The source is a radio (`device_`) or the generator, which keeps its own centre
(`aside`, while a radio is installed) and stands in from the moment a radio is
chosen until it has opened.  `retuneSourceHz()` paces a radio only: on the generator,
and while a scan runs, it tunes at once and leaves alone what the coalescer holds,
and `pollPendingRetune()` releases that onto whichever source there is.
`SelectRadio` reads the frequency to carry (`keep`, `None` where the source stands
at 0 or below); `RadioOpened` drops what is held and tunes to it, or, with nothing
to carry, stands at its default and leaves the held tune (`CarryAcross`).  A radio
may refuse a tune, and then reads back where it was; the generator refuses none.

### `AudioOut`, `BufferProofs`

Four threads: the window's picks and polls (`PickDevice, PickLead, Recover,
Collect`), the worker inside the driver (`Close | CloseFails, Refuse | Usable,
Drain, StartStream | DriverRefuses, Publish`, as stereo and then as mono), the
card (`CardBegin` reads `channels_`, `CardEnd` is `pullBlock()`), and the DSP
thread (`Write`).  A stream that would not abort keeps its callback
(`StuckBegin, StuckEnd`).  The ring is its fill in samples; what `SpscRing` shows
of it is not shown again.  Devices come and go (`Unplug, Plug`); a stream whose
device went is dead (`Alive`, what `Pa_IsStreamActive()` says) and stays so when
the device is there again, until an open makes another.

### `Settings`, `SettingsProofs`

The settings file over launches: `Launch` reads it (a damaged one is renamed
aside, or nothing is written this session), `OpeningSave` forces the marker
"running" to disk, `Change` and `ChangeSaved` are the user's, `SaveClean,
SaveWatch, SaveDue` are `maybeSaveConfig()`, `PollConfigWriter` books what has
landed, `FramesEnd`, `WriteMarker` and `Drain, Drained | Abandon` are the exit's
final save, its clean marker and its bounded drain, and `Crash` may come
anywhere.  The worker's rename is one step (`Land`) or the file stays as it was
(`Refuse`).  `Begin, RequestAsync` and `Collect` are `ConfigWriter`: one write
out, the newest held.

### `HangWatchdog`, `StallProofs`

Two threads that share atomics and no lock; each load and store is a step.  The
GUI thread starts up, beats (`Heartbeat, Count`), takes and releases pauses of
three kinds, nested (`Pause("grace")` is the display's, the only one held across
frames; `Pause("app")` any other of the application's; `PauseUser`), is away in
a loop of the window manager's or in win32u.dll (`Enter, Handler, LeaveLoop`),
or just slow, and shuts down (`BeginShutdown, ShutdownBegun, Stop, StopReturns`).  The
poll is `WakeUp`, then one step for each thing it reads, to `Rearm`, `Recover`,
`Excuse`, `Report` or `Leave`.  A time stamp is its age; `TimePasses` and `Sleeps` (the
machine's, for any time in `Rests`) make all of them older.  What a hang *is* is defined apart from the
watchdog's variables, from how long the GUI thread has owed a sign of life, and
from the pauses it really holds (`Hang`).  The poll is assumed to be shorter than
the budgets, than the cap and than Windows' patience (the code's 500 ms against
5, 27, 30, 30 and 5 s): with a cap or a patience no longer than a poll, what ran
out between two polls would be blamed a poll too early.

## 4. What the runs check

States are distinct states of a complete search, unless the run ends in a
counterexample.

**`spsc_ring`** (11 466).  *Does the ring lose, double, reorder or invent an
element, or let the two `memcpy`s meet?*  `NoSlotRace`: the slots still to be
written by the write in progress and those still to be read by the read in
progress are disjoint.  `IsFifo`: every behaviour is one of `StreamFifo`.

**`pipeline_threads`** (355 905).  *What can a driver that never returns, or
returns late, do?*  `NoUseAfterFree`: no source is destroyed while a thread is
inside its code.  `OneThreadPerDriver`: two threads are never in one external
source, whichever calls follow a wedge.  `RingEndpointsExclusive`: the ring has
at most one producer and one consumer, none while it is replaced, and an
abandoned thread never writes it.  `NoHandleOverwritten`: no thread is assigned
over a joinable handle (that would end the process).  `ControlReturns`: every
control call returns.

**`setter_queue`** (68 336).  *Do setters keep their promises against blocks,
starts, stops and rate changes?*  `PostsTakeEffectInOrder`: for each
parameter the last command running, waiting or applied is the one last asked for.  `NoTornBlock`: no
parameter changes under a block.  `QuietGettersShowLive`: with nothing queued a
getter shows what the chain uses.  `OnlyRateSwitchForgets`: a getter that agreed
with its last setter goes on agreeing, but for the one publish of section 8 (D).
`PostsReachTheChain`: what is posted runs while the DSP thread does.

**`patch_radio`** (86 425).  *Is plugin code gone when the flush says so, and
when a radio's reader is given up?*  `FlushExcludesDsp`: a flush past its
handshake and a DSP entry point exclude each other.  `NothingLeftBehind`: when a
flush comes to destroy it holds every live set, and a reader that is let go,
however late its driver answers, finds none.  `LeftoversAreOfActive`: no audio
and no report of a set that is gone.  `SetsAreTaken`: a published set is
adopted, replaced, flushed or gone with its radio, unless the radio's driver
gives no block.

**`scope_tap`** (513 477).  `SnapshotIsOneMoment`: what is returned is
the run of consecutive samples that ended at the counter it read.

**`takes`** (270 460).  `NoFileLost` (each open file is in exactly one pair of
hands, and a recorder that says recording has one, but for what a start between
two stores of `endAtSizeLimit()` costs), `NoTakeUnasked` (stop means stop, also
for a start still opening and a Record still queued), `HeaderClaimsFrames` (a
closed file's header counts the frames written to it; where the finish failed it
may count none, and then that is said or about to be, but for the end at the size
limit; files such a start hurt are excepted),
`TakeIsAtRate` (between calls, the take runs at its header's rate),
`RecordIsAnswered` (an accepted Record becomes a take, a stop or a refusal).

**`transmitter`** (1 196 391).  `FrozenWindowUnkeys`: the dead-man's
handle, with a bound.  `OnlyWhileAsked`: on the air with no hand on a key and no
timed key in date for at most `Overhang` = 3 alive waits + 7 steps.  That bound
is tight: one less and TLC finds the frame that had seen the key, the one
after, and the one letting go, each stalling for as long as the handle lets it.
`MicNeverUnkeyed`: no block of microphone or tone in a transmission no hand
asked for.  `CutPluginStaysCut`: a plugin whose key was cut does not key again
before a new arming.

**`tuning`** (1 131 440).  *Who wins when hand, browser, scan, pacing and a radio
that opens meet?*  `LatestTuneWins`: the newest tune asked for is the one held
or the one the source was left at, through every change of source, but for the two
sequences of section 8, K, which `overtaken` marks; a radio that is chosen counts as
a tune to the frequency it carries on, and a source that was asked for none claims
none (`wanted = None`).
`UserWins`: a scan never retunes a receiver that was moved since its own last
tune, and stops for nothing but a move that was not its own or a list that was
emptied.  `StaysUntilQuiet`:
a signal found is left by hand, when the listen budget is spent, or after the
whole hold and resume waits of quiet, whatever happened before.  `ScanMovesOn`:
with a budget an unattended scan keeps moving.  It excepts a signal that goes
on coming back inside the resume wait: scanner.hpp:44-47 says that a re-trigger
does not refill the budget, and it does not from the hold, but the
resume wait is a fresh scan whose next find starts a new budget.

**`audio_out`** (656 684).  *Do opener, card, DSP thread and window agree?*
`OneReader`: callback and drain never read the ring together, but for a stream
that would not abort.  `AskedDeviceWins`: once no open is out, a living stream
is on the device picked last, unless that was refused or has gone.
`SoundComesBack`: after the last pick and fault the card plays again, whatever
stopped it and whatever the lead; a health poll that asked `running_` instead of
the stream (the mistake audio_out.hpp:120-136 warns of) would break it, and so
would a lead the ring cannot hold.

**`settings`** (266 930).  *What is on disk after refusals, coalescing, an
abandoned drain or a crash?*  `ExitSavesAll`: a drain that says it landed has
left the final settings, marked clean.  `CrashIsCounted`: the next launch counts
a run that died with its plugins up, and does not count one that drained.
`DamagedIsKept`: a damaged file is never written over before it is kept aside.
`SavedUnlessSplit`: with nothing out, `savedCfg_` is what the file holds, but for
section 8 (B).  `SettingsLand`: while the window is up, what the user set is on
disk again and again.

**`hang_watchdog`** (5 123 732).  *Is what the watchdog reports a hang, and every
hang reported?*  `NoFalseReport`: a report is of a budget that had run out in a GUI
thread nothing excused, whatever the poll read between whichever stores, but for a
thread that has just come out of an excuse (section 8, C) and for a machine that
slept no longer than a poll and a budget (section 8, I).  `HangIsReported`: a
hang is reported within a poll of its budget, the second like the first, and
under an excuse too once that has run out.

The last, `audio_block`, ends in the counterexample to one statement of the
source: section 8, A.

## 5. Bounds

| Run | Constants | Why they are enough |
|---|---|---|
| `spsc_ring` | 2 slots, counters modulo 6, batches up to 3, two values | a batch longer than the ring, a full ring, and counters that wrap after three laps of the ring; the proof covers all values |
| `pipeline_threads` | two source threads, two external sources beside the generator, one of which needs the larger ring | one thread abandoned beside one live; a third could only be abandoned after a `setSource()` had forgotten the first, which is again this state.  `Free # {}` guards the calls that spawn |
| `setter_queue` | two callers, one verbatim and one clamped parameter, two values, at most two commands waiting (`MaxQueue`) | a post during a drain, behind another caller's; the clamp brings everything to 0, so a mirror and an argument can always be told apart |
| `patch_radio` | four sets | one active, one pending, one taken, one retired or in the GUI thread's hands; the proof covers any number.  A stopped radio takes no further step, so `CHECK_DEADLOCK FALSE` |
| `scope_tap` | 4 slots, pushes and requests up to 5, two attempts, 10 samples (`MaxWritten`) | a push and a request longer than the tap, and the writer lapping the reader twice.  The writer stops at the bound, so `CHECK_DEADLOCK FALSE` |
| `takes` | two files, two rates, a limit of 2 frames | no more than two are ever in use: none opens while another finishes, and none opens while a take holds one but at the size limit; a closed or lost one is used again.  A rate that moves and moves back |
| `transmitter` | alive wait 1, latch 2, remote hold 1, step 1 | every order in which two timers can run out, including the alive wait against the remote hold.  Ages stop growing one past the largest value a guard or property compares them with |
| `tuning` | one frequency a hand asks for, a generator that starts at 1 and a radio at 0, which is nothing to carry; two offsets, a range of one point, ticked rows two or none, interval 3, dwell 1, hold 2, resume 2, listen 2, frames 1 or 2 apart, one input a frame | hold plus resume is longer than the budget and a frame can step over a whole wait; the interval is long enough to choose a source and tune again while a tune is held, so each sequence of section 8, K, happens; a radio opens with and without a frequency to carry.  With two inputs a frame (a hand's tune and a skip, say) the three safety properties hold too (4 803 752 states), but the liveness check takes too long; the theorems hold for any number |
| `audio_out` | two devices, one of them mono; a ring of 8 samples; lead 1 or 2 frames, margin 1, blocks of 1; two picks, two faults (`MaxPicks`, `MaxFaults`) | stereo to mono and back, an open behind an open, a refusal or an unplugged device in the middle of either, a lead the stereo ring just holds |
| `settings` | three configurations; three changes, two refused writes, two launches, one damage | there and back again and a third; a write refused in front of and behind another; the second launch judges the first.  After the last launch nothing need happen, so `CHECK_DEADLOCK FALSE` |
| `hang_watchdog` | a poll is 1; budgets 3, 4 (teardown), 5 (start-up), cap 5, Windows' patience 3; two start-up frames; pauses nested once; sleeps of 1 and of 7 | the order of the code's 5, 27, 30, 30 and 5 s, and several polls in each; a countdown that is not its own last frame; a person's pause inside or outside the application's, the only nesting in which the kinds differ.  A sleep of 7 is told under every budget; sleeps of 1 add up to any length that is not.  Ages stop at the largest value anything compares them with |

## 6. Fairness

- `PipelineThreads`: weak fairness of each worker's own steps and of the control
  call in progress, `Abandon` included: the 3 s wait expires if the driver does
  not return.  *No* fairness of an external driver's `read()`.  The wait is taken to expire
  only on a thread inside a driver: any other stretch of the loop is microseconds.
  `LockAudio` is strongly fair: the DSP thread lets go of `audioMutex_`
  between blocks for as long as a ring read takes, and a waiter gets it.
- `PipelineSetters`: the same for `BlockBegin` and `ControlLocks`.  Callers may
  post for ever, so a drain could in principle go round for ever:
  `PostsOutrunDrain` names that case and the module's `ControlReturns`, which no
  run checks, excepts it; the code has no bound there either.
- `PatchRadio`: strong fairness of `Process` on either host and of `FlushWait`.
  A receiver runs blocks for as long as it runs and each calls `process()`; the
  flush polls `inDsp_`, which is down between blocks.  The reader's own steps and
  the stop are weakly fair (its wait is bounded), and the frame that stops a
  radio that reports a fault is strongly fair: every frame looks.  *No* fairness
  of a driver's `read()`.
- `Takes`: strong fairness of the frame's poll and of the GUI thread's steps that
  wait for a block to end; weak fairness of the disk, so that a worker answers
  in the end, without which an accepted Record is answered by nobody.
- `Tuning`: the frame loop goes round (`WF(Frame)`); nothing is assumed of the
  user.
- `AudioOut`: weak fairness of the frame's two polls, of the worker (a driver
  answers in the end; one that does not leaves no sound, and the code can do
  nothing about it), of the card's callback while its stream lives, of the DSP
  thread's writes, and of a device being plugged in in the end.  None of a
  stream that would not abort.
- `Settings`: weak fairness of the opening save, of the frame's poll and
  debounce, and of the disk's answer, which may be a refusal.
- `SpscRing`, `ScopeTap`, `Transmitter`, `HangWatchdog`: none.  The promises of
  the last two are bounds on time, and so are safety: nobody is assumed to do
  anything, only that a step of the TX thread takes at most `Cycle`, and that the
  watchdog polls once per interval unless the machine sleeps.  The GUI thread's
  few stores within one call, and a poll, are taken to need no time.

## 7. What is proved

For every value of the constants, from the named assumptions of each module.

**`BufferProofs`, the ring** (on its first lemmas, which are about remainders).
`IInv` says that `head` is `tail` plus at most `Cap` modulo `Wrap`, that the write
in progress fits in what is free, the read in progress in what is there, and that what has
been copied is what was in the buffer.  Neither counter's type nor `NoSlotRace`
is inductive without it: the slots of a window of at most `Cap` consecutive
counters are distinct (`WindowDistinct`), which needs `Cap` to divide `Wrap`, the
reason the constructor insists on a power of two.  From it `RingRaceFree`,
`RingClaims`, and `RingIsFifo`, which maps each publish to a `Put` or `Take` and
all other steps to an `Offer` or a stutter.

**`BufferProofs`, the tap**, for any capacity and any lengths of push and request.
`TapInv` has four parts beside the types: how much is stored (`Stored`), that
`begun_` is ahead of every store (`Announced`), that the tap holds the newest
`TapCap` samples stored (`HoldsTheNewest`), and that what a reader has copied is
true or has been overrun by a store that `begun_` now announces
(`CopyTrueOrOverrun`).  The last is why `snapshot()` may look at `begun_` after the
copy and need not look before.  From it `TapTypes` and `TapSnapshots`.

**`BufferProofs`, the sound card's end**, for any devices, ring, leads and
blocks.  `AudioInv` ties the card to the opener's place (`CardNeedsStream`: from a
close to the next start there is no stream, and without one no callback is out),
and the books to the user (`AnswerKnows`, `PickIsFurthest`: the last pick is the open
furthest behind, or what the last open was for; `PickIsPresent`: unless it is known to
be gone it is there, so that the health poll, which opens what was opened last,
opens the pick).  From it `AudioTypes`, `SoundRingHasOneReader` and
`LastPickPlays`.  The first of the two is what the ring's theorems presuppose.

**`PipelineThreadsProofs`**, for any number of source threads and drivers.  `IInv`
says what the call in progress still knows at each of its places (`CallKnows`,
`Joined`: past the join no thread of the session is left), which threads are
joinable and which were let go (`Handles`, `Abandoned`: a thread let go is
detached, has its token down and is inside a driver or on its way out), that
each thread's source is one the pipeline still keeps (`InUse`, `Incoming`), and
that there is one thread to a driver (`OneEach`).  None of the run's four
invariants is inductive alone: that no source is freed under a thread needs to
know who was abandoned in it.  From it `SourcesOutliveTheirThreads`,
`DriversHaveOneThread`, `RingHasItsEndpoints` and `HandlesAreFreeWhenAssigned`.

**`TakesProofs`**, for any files, rates and size limit.  The invariant says what
each of the hands on a file knows (`Hands`, `OnePlace`), how the frames in it, in
its header and in the recorder's count go together at each store of
`endAtSizeLimit()` (`Counted`), that whatever is opening, queued or running was
asked for (`Asked`), and whose rate the take runs at (`AtRate`).  `HurtKnown` says
which files a start inside `endAtSizeLimit()` can have cost something, never the
file the next block goes to; `LapsesKnown` that a failed finish is still to be told
as long as its ticket is in the slot.  No interleaving and no failure is assumed
away: the theorems say what those can cost, and that nothing else is lost.

**`PatchRunnerProofs`** is about `HostedSpec`, a runner in either host.  `IInv`
adds to the run's invariants what each program counter still knows (`DspKnows`,
`GuiKnows`): at the lock there is something to adopt, a taken set meets an
emptied `active_`, a flush past its middle has an empty runner.  Its `Hosting`
part ties the radio's stop to them: past the flush no set is held and none can
come.  `HostedStepIsRunners` says that every step is a step of the runner or the
joined stop, so that the runner's invariants are proved once for both hosts.
From it `RunnerTypes`, `RunnerExclusion`, `RunnerHeldOnce`, `RunnerOwnership`,
`RunnerFlush` and `RunnerLeftovers`, for any number of sets.

**`PipelineSettersProofs`**.  Lock ownership (`Locks`: who holds `audioMutex_` is
where a holder can be, and only a holder that came to drain is draining) is proved first, the
data over it.  From it `QueueTypes`, `QueueFlag`, `QueueBlocks`,
`QueueGetters` and `QueueOrder`, for any callers, parameters, values and queue length.  The last
is by the last command for each parameter: the one in the queue, else the one
being run, else what is live.  `GettersForgetOnlyInRateSwitch` is the
action property of the same run, from the same invariant.

**`StallProofs`, the transmitter**.  `TransmitterTypes` carries the link between thread and
flags: there is a thread to join exactly while `transmitting_` is up.  `FrozenWindow`
rests on `Ages`, a bound on the stamp for each place of the TX
thread: one `Cycle` more for each step between the look and the silence, hence the three
in the bound.  `MicrophoneIsKeyed` rests on `HandsAreSeen`, and
`CutPluginWaits` on `CutIsLatched`: a cut has latched the fault, and a key that
reaches `tick()` was granted by a frame that found none latched.  `KeyIsLetGo`
(`OnlyWhileAsked`) counts a chain of stalls: the frame that still saw the key, the
one after, and the one letting go, each as long as the dead-man's handle allows.
Its invariant (`NobodyAsking`) bounds `unasked` by the rounds that may lie behind
at each place of the frame (`Rounds`, from `StillSeen` and `LettingGo`) and the
one under way, which the stamp measures (`Late`); the sum is `Overhang`, for any
values of the timers.

**`StallProofs`, the watchdog**, for any poll, budgets, cap, patience and number of
nested pauses.  Three invariants, each proved over the one before.

- `Places`: the two counters are the pauses held, and a person's among them, up to
  the store a call has yet to make (`PausesCounted`), and where the GUI thread can
  be in each phase and under which threshold (`PhaseKnown`).  After it nothing
  looks at the sequence of pauses again (`Told`).
- `Reporting`: a stall is on its way to a report.  The two stamps bound each other
  (`Stamps`), no time passes inside a poll (`PollAges`), the clock is at least as
  old as what is owed (`BeatOld`), a poll re-arms only what was excused in it
  (`PollPermits`), and what has been owed for the budget and the poll's own age is
  latched (`StallLatched, HandlerLatched, DriverLatched`).  From it
  `HangsAreReported`.
- `Founded`, the converse: unless the machine has slept for too short a time to be
  told (`dozed`), the clock is no older than what is owed, than the time
  without a message and than the driver's excuse (`OwedKnown, MuteKnown,
  PumpKnown`), or an excuse younger than the poll, or ahead of it, is about to
  re-arm it.  So a poll that finds the clock over the budget with no hang to report
  still has an excuse to read (`SuspectsExcused`), and none reaches the report
  (`ReportsAreDue`).  From it `ReportsAreOfHangs`.

Neither property is inductive, nor is the poll's program counter enough: which
excuse counts depends on how old it is against the last poll, and a pause may
begin, end and nest between any two of the poll's loads.  Each part of the
invariants was an invariant of a run with two sets of waits before it was proved.

**`SettingsProofs`**, for any configurations and any number of launches,
changes, refusals and damages.  `IInv` has a part for each thing a phase of a run
still knows: `WriterKnows` (what waits behind a write is the newest request, and
a write that has landed is the file), `DamagedKnows` (nothing is on its way to a
damaged file), `MarkerKnows` (before its plugins are down a run writes nothing
marked clean; after `OpeningSave` one landed write is the marker), `ExitKnows`
(the exit asks for the settings as they are and for nothing after it) and
`BooksKnow` (what is booked is what is in the file, also under a write that is
out, unless it is behind one that landed).  From it `SettingsCountCrashes`,
`SettingsExitSaves`, `SettingsKeepDamaged` and `SettingsBooked`.

**`TuningProofs`**, for any ranges, lists, timings and inputs.  Beside
`LatestTuneWins` itself `IInv` has: a scan that has not tuned yet expects nothing and
will tune first (`FirstTune`), what a scan expects is where its own last
tune left the source, and one that stands elsewhere was touched (`Baseline`), a tune held while
a scan is under way was tuned past by it (`HeldIsOvertaken`), and the scan's
countdowns are never ahead of what was heard and of the quiet since (`Heard`).  From it `TuningTypes`,
`NewestTuneStays`, and the action properties `HandsWin` and `SignalsAreHeardOut`.

Some invariants are proved and in no run, because what they say is part of a run's
property or of no interest on a small instance: the `TypeOK`s, `FlagCoversQueue`
of `PipelineSetters`, `HeldOnce` and `OnlyGuiDestroys` of `PatchRunner`.

Only model-checked: liveness (`ControlReturns`, `PostsReachTheChain`, `SetsAreTaken`,
`RecordIsAnswered`, `ScanMovesOn`, `SoundComesBack`, `SettingsLand`), as TLAPS does
not reason about fairness or ENABLED.  Every invariant, and every safety property
of the passing runs, is the subject of a theorem.

A set that joins `None` to integers is written `None` first (`{None} \cup Int`).
The SMT translation of this version of the prover types a union by its left operand, and with
the integers there it would take `None` for one of them.

## 8. Where the code and its own words disagree

One disagreement is a run.

A. **A callback fills a mono buffer as stereo** (`audio_block`,
`BlockFitsDevice`).  `openLocked()` starts the stream (audio_out.cpp:274) and
stores the new `channels_` at audio_out.cpp:292.  A callback between the two,
when a mono output replaces a stereo one, reads `channels_ = 2`
(audio_out.cpp:460) and `pullBlock()` fills `2 * frames` floats of a buffer of
`frames`.  audio_out.hpp:223 and audio_out.cpp:457 say that the buffer holds
`frames * channels()`.

The next ten are definitions of their modules and in no cfg; named there as an
invariant or a property, TLC refutes each.

B. **`savedCfg_` older than the file** (`Settings.SavedCfgIsTheFile`).  A
write that lands with another behind it is not booked; if the one behind it is
refused, `savedCfg_` stays what it was before both.  A user who then goes back to
those settings is found clean, and the file keeps what was undone until the next
change or the exit.  app_window.hpp:3606 calls `savedCfg_` "what the config file
holds now".

C. **A long drag can end in a hang report** (`HangWatchdog.ExcuseOutlivesWait`).
While the window is dragged, `excuse()` answers `Standing` at each poll past the
threshold, and the poll goes on without re-arming the clock
(hang_watchdog.cpp:873).  When the drag ends the excuse ends with it, and the last
heartbeat is still the one before the drag; a poll that comes before the next
heartbeat, that is, in the rest of that frame, reports a hang of the drag's whole
length.  The same holds for a wait inside win32u.dll.  A pause has no such
window: its polls re-arm, and `resume()` restarts the clock.
docs/DIAGNOSTICS.md:3542 says of a drag that "this excuse has no limit".

D. **A getter forgets what was just set, during a rate change**
(`PipelineSetters.ReadYourWrites`, with `Values = {0, 1, 2}` and `Top = 1`).
`setInputRateHz()` publishes all mirrors from the chain at pipeline.cpp:1451
without `cmdMutex_` and without looking at the queue, over a verbatim mirror a
setter stored during the rebuild.  pipeline.hpp:118 promises a getter the value
just set, and pipeline.hpp:903 says mirrors are published under `cmdMutex_` and
on an empty queue only.  The setting itself is not lost; the getter is right
again once the queue has run.

E. **An abandoned thread can fault a later session**
(`PipelineThreads.AbandonedThreadIsSilent`).  The `catch` blocks of
`sourceThreadMain()` call `noteThreadFault()` (pipeline.cpp:1620) without testing
the token.  The comment at pipeline.cpp:1704 says exactly that must not happen.

F. **A fresh run can start faulted** (`PipelineThreads.FreshRunIsUnfaulted`).
`start()` clears the fault (pipeline.cpp:809) before it joins the workers the last
fault left; one of them may fault while it is joined.  pipeline.cpp:806 says a
fresh run clears any previous fault.

G. **A take at two rates** (`Takes.TakeIsOneRate`).  `followInputRate()` lets the
DSP thread run at the new rate before it ends the take (app_window.cpp:13442);
app_window.cpp:28628 says "a take is one rate".

H. **A queued request keys the transmitter** (`Transmitter.NoQueuedKey`).  A
browser's assertion waits in the frame's queue through a stall and is applied
whatever its age.  docs/TRANSMITTING.md:172 says no queued request can close the
key.

I. **A short sleep is reported as a hang** (`HangWatchdog.SleepIsNoHang`).
hang_watchdog.hpp:171-174 says that nothing is reported if the 500 ms poll took
longer than the threshold, for the machine slept. The code asks whether the poll
took longer than 500 ms *and* the threshold together (hang_watchdog.cpp:811),
and the clock it then compares has run through the sleep. So a sleep as long as
the budget, and less than half a second longer, is reported though nobody hangs;
so is a shorter one behind a stall shorter than the budget. `dozed` names the
machine that has slept, since the beat, for so short a time that no poll told
it; `NoFalseReport` excepts it, and a sleep that line 811 does catch is not
excepted.

J. **A start inside `endAtSizeLimit()`** (`Takes.BeginsOnClosed`).
`Recorder::endAtSizeLimit()` clears `recording_` (recorder.cpp:383) before it
detaches the file, and `begin()` asks nothing but `recording_`. A start that had
its file open can begin between those stores: recorder.cpp:223 and
recorder.hpp:60-62 take that to be impossible, and the definition says so. It
takes a whole frame of the GUI thread within a few stores of the DSP thread. The
take that was ending, or the new one, is then lost unclosed (`leaked`) or its
header left at 0, or the next block is written to no file, which ends the
program (`WriteNowhere`). `overtook` and `hurt` name that case and no other;
`begin()` is one step there, and the stdio buffer it shares is left out.

K. **A newer tune can lose to an older one** (`Tuning.LatestTuneAlwaysWins`).
retune_coalescer.hpp:1-2 has the latest value win.  Two sequences of the
frame loop end otherwise.  A tune made at once, by a scan that starts or on a source
without a radio, leaves the value the coalescer holds (app_window.cpp:30312), and
`pollPendingRetune()` then puts that older value over it; behind a scan, the scan
yields to it as to a hand.  And while a radio opens the generator can be tuned: the
opened radio goes to the frequency read when it was chosen (app_window.cpp:12368,
:11816), or stands at its default.  A tune still held when a radio is chosen is
given up for the carried frequency too; app_window.cpp:11816-11817 says so, and the
choice counts as the newer wish.  After a radio that failed to open, the carried
frequency is gone with it.

Smaller observations, each named where a property has to except it:

- A finish that fails at the size limit is told to nobody: `finalizeFile()` drops
  `finishFile()`'s answer (recorder.cpp:449-452).  A worker's is told, in the words
  "it keeps the header it was opened with", though after a failed flush the header
  may count frames the disk lost.
- `CutPluginStaysCut` counts the cuts `tick()` makes.  If the dead-man's handle
  lets go while the frame is stalled and the plugin withdraws its key in the next
  frame before `tick()` sees that the thread is gone (transmitter.cpp:560 against
  :582), no fault is latched.
- A switch from mono to stereo can leave an odd number of mono samples in the ring
  (pipeline.hpp:568-573); left and right stay exchanged until the next underrun.
- A disk that takes longer than the debounce to answer is never idle while the
  settings differ from `savedCfg_`: each save is requested behind the last and
  none is booked.  The file is right (`SettingsLand`), the writing does not stop.
- `resume()` lowers the count before it restarts the clock: a poll between the two
  sees no pause and the old beat.  Every poll inside the pause re-armed that beat, so
  it is old only if none came or the cap had run out.
- A sleep that the watchdog tells re-arms the clock under a hang that continues,
  which is then reported a second time.
- An opening save that was refused is not tried again until something changes, so
  that a crash of such a run reads as a clean exit: hence `wrote` in
  `CrashIsCounted`.  An exit whose drain was abandoned reads as a crash, as the
  source says.

## 9. What is not modelled

`PROJECT.json` lists every part with its reason.  Beside the parts of the plan:

- *Inside the modelled parts.*  The pipeline's destructor and its audio-device
  opener; what a decoder set computes; a patch radio's retunes, converter,
  spectrum and the opening of its device; the bounded drain of recordings at
  exit; the transmitter's modulators, rate matching, power and frequency, and a
  shutdown in the middle of a transmission; the airband monitor's tunes,
  converters, ppm retunes, sound cards and I/Q files as sources, a radio's automatic
  reopen, and radios that land beside the frequency asked for;
  volume, the count of starved callbacks, the driver library's start and
  shutdown; bookmarks and markers, which use the settings' writer; of the hang
  watchdog the capture and its report file, a debugger, the worst frame gap, the
  classification of a stall in a display driver, and the build for Linux.
- *Signal processing, drift matching*: floating-point arithmetic on one thread.
- *Vendor drivers, USB transports, serial ports*: the other side is not in the
  repository.  What the pipeline relies on is in `PipelineThreads`.
- *Plugin loading, the plugin store, the updater, crash and problem reports,
  telemetry, the HTTP library*: I/O and formats.
- *Frequency lists, patch graphs*: data of the GUI thread; the plan from a
  patch graph is a pure algorithm and a candidate for a bounded check.
- *Views and generated tables.*
- *Weak memory.*  A release/acquire pair, and a fence, is modelled as what it guarantees:
  steps in program order.  Where the code uses relaxed operations between them
  (`ScopeTap`, the slots) the element-wise steps stand for them.

## 10. Plan

Done: the modules above, the core first: what a sample passes through
(`SpscRing`, `PipelineThreads`, `PipelineSetters`), what hangs off the DSP thread
(`PatchRunner`, `PatchRadio`, `ScopeTap`, `Takes`, `AudioOut`), the part with a
duty to the outside (`Transmitter`), what the frame loop drives (`Tuning`,
`Settings`), and what watches that loop (`HangWatchdog`).

Next, in this order.  The set of runs is kept small: a new run asks
a question of its own, and where a composition asks a stronger one it
replaces the run of its part.

1. **`Sentinel`** on what the heartbeat writes: one page shared with a second
   process, which must tell an exit, a crash and a freeze apart.
2. **`PluginRunner`**: the lock dropped around `destroy()`, a retune that only
   tries for it, the centre a rebuild stores (plugin_runner.cpp:157).
3. **Abandoned workers**, one module for GPS reader and CAT server: stopping flag,
   bounded wait, and what a restart does to a worker let go (cat_server.cpp:253).
4. **Patch graph**: the plan as a pure algorithm against a reference definition.

Theorems next: those of the modules above as they come.
