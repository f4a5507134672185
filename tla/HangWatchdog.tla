------------------------------ MODULE HangWatchdog ------------------------------
(***************************************************************************)
(* core/hang_watchdog.cpp: a thread that polls whether the GUI thread has  *)
(* come round its loop, with the excuses the GUI thread takes out before it*)
(* blocks knowingly, the budgets of start-up and teardown, the frames of   *)
(* gui/app_window.cpp that beat, and gui/present_grace.hpp's one pause.    *)
(*                                                                         *)
(* The two threads share atomics and no lock, so each load and each store  *)
(* is a step.  A time stamp is kept as its age; TimePasses makes all of    *)
(* them older, and stops counting where nothing compares any more.  Time   *)
(* passes between the calls the GUI thread makes and between polls; inside *)
(* a call and inside a poll the other thread's steps come in any order, but*)
(* none is slow.  The build is the one for Windows, with no debugger       *)
(* attached.                                                               *)
(* An operator whose name adds a mistake to another's is that operator with*)
(* the mistake seeded in it.                                               *)
(***************************************************************************)
EXTENDS Integers, Sequences

CONSTANTS
    None,
    Poll,           \* kPollMs
    Steady, Startup, Shutdown,  \* the three budgets
    Frames,         \* kStartupFrames
    Cap,            \* kExcuseCapMs
    HungAfter,      \* how long a thread takes no message before Windows calls it hung
    Rests,          \* how long the machine may sleep at a time
    MaxHeld         \* bound: pauses held at once

ASSUME HangWatchdogAssumption ==
    /\ {Poll, Steady, Startup, Shutdown, Frames, Cap, HungAfter, MaxHeld} \subseteq Nat \ {0}
    /\ Poll < Steady /\ Steady < Startup /\ Steady < Shutdown
    /\ Poll < Cap /\ Poll < HungAfter /\ None \notin Int
    /\ Rests \subseteq Nat \ {0}

VARIABLES
    gpc, phase,     \* the GUI thread: its place in a call, and in run()
    held,           \* the pauses it has taken and not released, the oldest first
    loop,           \* what it is parked in: "none", "modal", "handler", "person", "win32u"
    threshold, framesLeft,      \* thresholdMs_, startupFramesLeft_
    beat,           \* lastBeatMs_'s age
    paused, user,   \* paused_, userPaused_
    since,          \* pausedSinceMs_'s age
    stop,           \* stop_
    wpc,            \* the watchdog thread's place
    limit,          \* the threshold its poll has read
    pollAge,        \* lastPoll's age
    pumped,         \* pumpExcusedSinceMs's age, None for 0
    reported,       \* reported_
    mute,           \* how long the GUI thread has taken no message
    idle,           \* history: how long, awake, it has been where it is in loop
    stuck,          \* history: how long it has owed a sign of life
    own,            \* history: how long its own code, and no person, has set a pause's pace
    late,           \* history: it has left an excuse and not come round since
    dozed,          \* history: the machine has slept since beat was stored, and no poll could tell
    due             \* history: since this poll began there was a hang to report, or one of those

guiPlace == <<gpc, phase, held, loop>>
clocks == <<beat, since, pollAge, pumped, mute, idle, stuck, own>>
budget == <<threshold, framesLeft>>
counts == <<paused, user>>
poll == <<wpc, limit, pumped, reported>>
watchVars == <<guiPlace, clocks, budget, counts, stop, poll, late, dozed, due>>

(* What the GUI thread's and what the watchdog's steps leave alone.        *)
watchdogs == <<poll, pollAge>>
guis == <<guiPlace, budget, counts, since, stop, mute, idle, stuck, own, late>>

Least(a, b) == IF a < b THEN a ELSE b
Most(a, b) == IF a < b THEN b ELSE a

(* start(), called by run() just before the frame loop.                    *)
WatchInit ==
    /\ gpc = "run" /\ phase = "starting" /\ held = <<>> /\ loop = "none"
    /\ threshold = Steady /\ framesLeft = 0
    /\ beat = 0 /\ paused = 0 /\ user = 0 /\ since = 0 /\ stop = FALSE
    /\ wpc = "wait" /\ limit = Steady /\ pollAge = 0 /\ pumped = None /\ reported = FALSE
    /\ mute = 0 /\ idle = 0 /\ stuck = 0 /\ own = 0
    /\ late = FALSE /\ dozed = FALSE /\ due = FALSE

-------------------------------------------------------------------------------
(* The GUI thread.                                                         *)

UserHeld == gpc = "userUp" \/ \E i \in DOMAIN held : held[i] = "user"
InFrame == gpc = "run" /\ phase = "frames" /\ loop = "none"
Top == held[Len(held)]
Popped == SubSeq(held, 1, Len(held) - 1)

(* The last step of a call in which lastBeatMs_ is stored.                 *)
ComesRound == beat' = 0 /\ stuck' = 0 /\ late' = FALSE /\ dozed' = FALSE
Silent == UNCHANGED <<beat, stuck, late, dozed>>

(* A pause that changes what excuses the thread is measured from here.     *)
Begins(anew) == stuck' = (IF anew THEN 0 ELSE stuck) /\ UNCHANGED <<beat, late, dozed>>

BeginStartup ==
    /\ gpc = "run" /\ phase = "starting" /\ phase' = "frames"
    /\ threshold' = Startup /\ framesLeft' = Frames
    /\ Silent
    /\ UNCHANGED <<gpc, held, loop, counts, since, stop, mute, idle, own, watchdogs>>

(* heartbeat(), at the top of a frame, which takes messages next.  Only    *)
(* the display's pause is held across frames.                              *)
Heartbeat ==
    /\ InFrame /\ held \in {<<>>, <<"grace">>}
    /\ ComesRound /\ mute' = 0 /\ gpc' = "count"
    /\ UNCHANGED <<phase, held, loop, budget, counts, since, stop, idle, own, watchdogs>>

(* The frames of the start-up budget are counted down, and the last lowers *)
(* the threshold.                                                          *)
Count ==
    /\ gpc = "count" /\ gpc' = "run" /\ framesLeft' = Most(framesLeft - 1, 0)
    /\ threshold' = IF framesLeft = 1 /\ threshold = Startup THEN Steady ELSE threshold
    /\ Silent
    /\ UNCHANGED <<phase, held, loop, counts, since, stop, mute, idle, own, watchdogs>>

(* pause(): the instant a continuous pause begins, then the count.         *)
Pause(kind) ==
    /\ InFrame /\ Len(held) < MaxHeld
    /\ kind = "grace" => held = <<>>
    /\ since' = IF paused = 0 THEN 0 ELSE since
    /\ gpc' = kind /\ Silent
    /\ UNCHANGED <<phase, held, loop, budget, counts, stop, mute, idle, own, watchdogs>>

Paused ==
    /\ gpc \in {"grace", "app"} /\ gpc' = "run"
    /\ paused' = paused + 1 /\ held' = Append(held, gpc)
    /\ own' = (IF held = <<>> THEN 0 ELSE own) /\ Begins(held = <<>>)
    /\ UNCHANGED <<phase, loop, budget, user, since, stop, mute, idle, watchdogs>>

PauseUser ==
    /\ InFrame /\ Len(held) < MaxHeld /\ user' = user + 1 /\ gpc' = "userUp" /\ Silent
    /\ UNCHANGED <<phase, held, loop, budget, paused, since, stop, mute, idle, own, watchdogs>>

PausedUser ==
    /\ gpc = "userUp" /\ gpc' = "run"
    /\ paused' = paused + 1 /\ held' = Append(held, "user") /\ Begins(TRUE)
    /\ UNCHANGED <<phase, loop, budget, user, since, stop, mute, idle, own, watchdogs>>

(* resumeUser(): a pause of the application's that is still held is        *)
(* measured from here.                                                     *)
ResumeUserKeepsStamp ==
    /\ InFrame /\ held # <<>> /\ Top = "user" /\ gpc' = "userDown" /\ Silent
    /\ UNCHANGED <<phase, held, loop, budget, counts, since, stop, mute, idle, own, watchdogs>>

ResumeUser ==
    /\ InFrame /\ held # <<>> /\ Top = "user" /\ gpc' = "userDown" /\ Silent
    /\ since' = IF user <= 1 THEN 0 ELSE since
    /\ UNCHANGED <<phase, held, loop, budget, counts, stop, mute, idle, own, watchdogs>>

UserDown ==
    /\ gpc = "userDown" /\ user' = user - 1 /\ gpc' = "resume" /\ Silent
    /\ own' = IF user <= 1 THEN 0 ELSE own
    /\ UNCHANGED <<phase, held, loop, budget, paused, since, stop, mute, idle, watchdogs>>

(* resume(): the count, then, by the last, the clock.                      *)
Resume ==
    /\ \/ gpc = "resume"
       \/ InFrame /\ held # <<>> /\ Top # "user"
    /\ paused' = paused - 1 /\ held' = Popped
    /\ gpc' = (IF paused = 1 THEN "rearm" ELSE "run")
    /\ late' = (late \/ paused = 1) /\ UNCHANGED <<beat, stuck, dozed>>
    /\ UNCHANGED <<phase, loop, budget, user, since, stop, mute, idle, own, watchdogs>>

Resumed ==
    /\ gpc = "rearm" /\ gpc' = "run" /\ ComesRound
    /\ UNCHANGED <<phase, held, loop, budget, counts, since, stop, mute, idle, own, watchdogs>>

(* A nested loop of the window manager's, or a wait in the user-mode end   *)
(* of the graphics driver: the GUI thread is somewhere else until it is    *)
(* let out of it.  A person reading a prompt is waited for taking messages;*)
(* a modal loop may call a handler that stays away.                        *)
Enter(l) ==
    /\ gpc = "run" /\ loop = "none" /\ phase \in {"frames", "teardown"}
    /\ \/ l = "win32u"
       \/ l = "person" /\ UserHeld
       \/ l = "modal" /\ phase = "frames" /\ held \in {<<>>, <<"grace">>}
    /\ loop' = l /\ idle' = 0 /\ mute' = (IF l = "win32u" THEN mute ELSE 0)
    /\ stuck' = 0 /\ UNCHANGED <<beat, late, dozed>>
    /\ UNCHANGED <<gpc, phase, held, budget, counts, since, stop, own, watchdogs>>

Handler ==
    /\ \/ loop = "modal" /\ loop' = "handler"
       \/ loop = "handler" /\ loop' = "modal"
    /\ mute' = 0 /\ idle' = 0 /\ Silent
    /\ UNCHANGED <<gpc, phase, held, budget, counts, since, stop, own, watchdogs>>

LeaveLoop ==
    /\ loop # "none" /\ loop' = "none"
    /\ stuck' = 0 /\ late' = (late \/ loop # "person") /\ UNCHANGED <<beat, dozed>>
    /\ UNCHANGED <<gpc, phase, held, budget, counts, since, stop, mute, idle, own, watchdogs>>

(* beginShutdown(), with the display's pause released: the budget is raised*)
(* before the clock is restarted.                                          *)
BeginShutdown ==
    /\ InFrame /\ held = <<>> /\ phase' = "teardown" /\ gpc' = "restart"
    /\ framesLeft' = 0 /\ threshold' = Shutdown /\ Silent
    /\ UNCHANGED <<held, loop, counts, since, stop, mute, idle, own, watchdogs>>

ShutdownBegun ==
    /\ gpc = "restart" /\ gpc' = "run" /\ ComesRound
    /\ UNCHANGED <<phase, held, loop, budget, counts, since, stop, mute, idle, own, watchdogs>>

(* stop(), the last of the teardown, which joins the watchdog's thread.    *)
Stop ==
    /\ gpc = "run" /\ phase = "teardown" /\ loop = "none" /\ phase' = "joining"
    /\ stop' = TRUE /\ Silent
    /\ UNCHANGED <<gpc, held, loop, budget, counts, since, mute, idle, own, watchdogs>>

StopReturns ==
    /\ phase = "joining" /\ wpc = "gone" /\ phase' = "off" /\ Silent
    /\ UNCHANGED <<gpc, held, loop, budget, counts, since, stop, mute, idle, own, watchdogs>>

GuiSteps ==
    \/ BeginStartup \/ Heartbeat \/ Count
    \/ Pause("grace") \/ Pause("app") \/ Paused \/ PauseUser \/ PausedUser
    \/ ResumeUser \/ UserDown \/ Resume \/ Resumed
    \/ \E l \in {"modal", "person", "win32u"} : Enter(l)
    \/ Handler \/ LeaveLoop
    \/ BeginShutdown \/ ShutdownBegun \/ Stop \/ StopReturns

-------------------------------------------------------------------------------
(* What a hang is: the GUI thread owes a sign of life for longer than the  *)
(* budget of the phase it is in, and nothing excuses it.  An excuse that   *)
(* runs out is looked at once a poll.                                      *)

Budget ==
    IF phase \in {"teardown", "joining"} THEN Shutdown
    ELSE IF framesLeft > 0 THEN Startup ELSE Steady

Hung == mute >= HungAfter

Excused ==
    \/ loop \in {"modal", "person"}
    \/ UserHeld /\ ~Hung
    \/ held # <<>> /\ ~UserHeld /\ own < Cap

Hang ==
    \/ loop = "handler" /\ Hung
    \/ loop = "win32u" /\ idle >= Cap
    \/ loop = "none" /\ UserHeld /\ Hung /\ mute >= Budget
    \/ loop = "none" /\ ~UserHeld /\ stuck + (IF held = <<>> THEN 0 ELSE Poll) >= Budget

(* What a step of the GUI thread's makes a hang in the middle of a poll    *)
(* counts for that poll.                                                   *)
Gui == GuiSteps /\ due' = (due \/ late' \/ Hang')

-------------------------------------------------------------------------------
(* threadMain(), the watchdog's thread.                                    *)

Goto(place) == wpc' = place
Steps == UNCHANGED <<guis, beat, dozed, due>>

WakeUpUntold ==
    /\ wpc = "wait" /\ ~stop /\ pollAge >= Poll
    /\ limit' = threshold /\ pollAge' = 0 /\ Goto("user")
    /\ dozed' = (dozed /\ pollAge <= Poll + threshold)
    /\ due' = (Hang \/ late \/ dozed')
    /\ UNCHANGED <<guis, beat, pumped, reported>>

(* The poll interval is over: the time and the threshold are read.  A poll *)
(* so long that the machine must have slept re-arms and says nothing.      *)
WakeUp ==
    /\ wpc = "wait" /\ ~stop /\ pollAge >= Poll
    /\ limit' = threshold /\ pollAge' = 0
    /\ Goto(IF pollAge > Poll + threshold THEN "rearm" ELSE "user")
    /\ dozed' = (dozed /\ pollAge <= Poll + threshold)
    /\ due' = (Hang \/ late \/ dozed')
    /\ UNCHANGED <<guis, beat, pumped, reported>>

ReadUser ==
    /\ wpc = "user" /\ Goto(IF user > 0 THEN "verdict" ELSE "paused")
    /\ Steps /\ UNCHANGED <<limit, pollAge, pumped, reported>>

(* A person's pause excuses for as long as it is held, unless Windows calls*)
(* the window hung.                                                        *)
Verdict ==
    /\ wpc = "verdict" /\ Goto(IF Hung THEN "beat" ELSE "rearm")
    /\ pumped' = IF Hung THEN pumped ELSE None
    /\ Steps /\ UNCHANGED <<limit, pollAge, reported>>

ReadPaused ==
    /\ wpc = "paused" /\ Goto(IF paused > 0 THEN "since" ELSE "beat")
    /\ Steps /\ UNCHANGED <<limit, pollAge, pumped, reported>>

ReadSinceUncapped ==
    /\ wpc = "since" /\ Goto("rearm") /\ pumped' = None
    /\ Steps /\ UNCHANGED <<limit, pollAge, reported>>

(* The application's own excuses for at most the cap.                      *)
ReadSince ==
    /\ wpc = "since" /\ Goto(IF since < Cap THEN "rearm" ELSE "beat")
    /\ pumped' = IF since < Cap THEN None ELSE pumped
    /\ Steps /\ UNCHANGED <<limit, pollAge, reported>>

Rearm ==
    /\ wpc = "rearm" /\ Goto("wait") /\ beat' = 0 /\ dozed' = FALSE
    /\ UNCHANGED <<guis, due, limit, pollAge, pumped, reported>>

(* The stall, and with it a recovery: what was reported is over.           *)
Recover ==
    /\ wpc = "beat" /\ beat < limit /\ Goto("wait")
    /\ pumped' = None /\ reported' = FALSE
    /\ Steps /\ UNCHANGED <<limit, pollAge>>

ReadBeat ==
    /\ wpc = "beat" /\ beat >= limit /\ Goto(IF reported THEN "wait" ELSE "excuse")
    /\ Steps /\ UNCHANGED <<limit, pollAge, pumped, reported>>

(* excuse(): a modal loop that takes messages for as long as it lasts; a   *)
(* wait in win32u.dll, where a person's may be too, for at most the cap,   *)
(* from the poll that granted it.                                          *)
Excuse ==
    /\ wpc = "excuse" /\ Steps /\ UNCHANGED <<limit, pollAge, reported>>
    /\ \/ /\ loop = "modal" \/ (loop = "handler" /\ ~Hung)
          /\ pumped' = None /\ Goto("wait")
       \/ /\ loop \in {"win32u", "person"}
          /\ pumped' = IF pumped = None THEN 0 ELSE pumped
          /\ Goto(IF pumped' < Cap THEN "wait" ELSE "check")
       \/ /\ loop \in {"none", "person"} \/ (loop = "handler" /\ Hung)
          /\ pumped' = None /\ Goto("check")

(* Asked to stop is not stalled.  Otherwise the report is latched, and the *)
(* capture, which changes nothing here, follows.                           *)
Report ==
    /\ wpc = "check" /\ ~stop /\ reported' = TRUE /\ Goto("wait")
    /\ Steps /\ UNCHANGED <<limit, pollAge, pumped>>

Leave ==
    /\ wpc \in {"wait", "check"} /\ stop /\ Goto("gone")
    /\ Steps /\ UNCHANGED <<limit, pollAge, pumped, reported>>

Watchdog ==
    \/ WakeUp \/ ReadUser \/ Verdict \/ ReadPaused \/ ReadSince \/ Rearm
    \/ Recover \/ ReadBeat \/ Excuse \/ Report \/ Leave

-------------------------------------------------------------------------------
(* Time.  Bounds: past these ages nothing changes any more.                *)

Longest == Most(Startup, Shutdown)
AwayTop == Longest + Most(HungAfter, Cap) + 2 * Poll
Older(age, n, top) == Least(age + n, top)

(* What every step of time does, with the GUI thread running or not.       *)
AllAge(n) ==
    /\ gpc = "run" /\ wpc \in {"wait", "gone"}
    /\ beat' = Older(beat, n, Longest) /\ since' = Older(since, n, Cap)
    /\ pollAge' = Older(pollAge, n, Poll + Longest + 1)
    /\ pumped' = IF pumped = None THEN None ELSE Older(pumped, n, Cap)
    /\ mute' = IF loop \in {"modal", "person"} THEN 0 ELSE Older(mute, n, Most(HungAfter, Longest))
    /\ own' = Older(own, n, Cap)
    /\ UNCHANGED <<guiPlace, budget, counts, stop, wpc, limit, reported, late, due>>

TimePasses ==
    /\ wpc = "wait" => pollAge < Poll /\ ~stop
    /\ AllAge(1)
    /\ stuck' = IF Excused THEN 0 ELSE Older(stuck, 1, Longest + Poll)
    /\ idle' = IF loop = "none" THEN 0 ELSE Older(idle, 1, AwayTop)
    /\ UNCHANGED dozed

(* The machine sleeps, and the clock goes on: what is owed is measured from*)
(* where it wakes.                                                         *)
Sleeps == \E n \in Rests : AllAge(n) /\ stuck' = 0 /\ idle' = 0 /\ dozed' = TRUE

WatchNext == Gui \/ Watchdog \/ TimePasses \/ Sleeps
WatchSpec == WatchInit /\ [][WatchNext]_watchVars

-------------------------------------------------------------------------------
WatchTypeOK ==
    /\ gpc \in {"run", "count", "grace", "app", "userUp", "userDown", "resume", "rearm", "restart"}
    /\ phase \in {"starting", "frames", "teardown", "joining", "off"}
    /\ loop \in {"none", "modal", "handler", "person", "win32u"}
    /\ held \in Seq({"grace", "app", "user"}) /\ Len(held) <= MaxHeld
    /\ {threshold, limit} \subseteq {Steady, Startup, Shutdown} /\ framesLeft \in 0..Frames
    /\ {paused, user} \subseteq 0..MaxHeld /\ user <= paused + 1
    /\ wpc \in {"wait", "user", "verdict", "paused", "since", "rearm", "beat", "excuse", "check",
                "gone"}

(* A report is of a hang: of a budget that ran out by the time of the poll *)
(* that reports it, in a GUI thread that nothing excused, whatever pauses, *)
(* nested and released in whatever order of stores, and whatever budgets   *)
(* the poll read one atomic at a time, and though the machine slept for    *)
(* longer than that (hang_watchdog.hpp, false positives 2-4).  Two cases   *)
(* are excepted: a thread that has just left an excuse and not come round  *)
(* since, and a machine that has slept since the beat for no longer than a *)
(* poll and a budget.  See ExcuseOutlivesWait and SleepIsNoHang.           *)
NoFalseReport == [][reported' /\ ~reported => due]_watchVars

(* docs/DIAGNOSTICS.md:3542: a drag can last minutes and the excuse has no *)
(* limit.  It ends with the drag, the stall is measured from before it, and*)
(* the frame has yet to come round.                                        *)
ExcuseOutlivesWait == [][reported' /\ ~reported => ~late]_watchVars

(* hang_watchdog.hpp:171: a machine that slept is not a GUI thread that    *)
(* hangs.  The poll tells a sleep by the budget and a poll beside it, and a*)
(* shorter one counts against the GUI thread.                              *)
SleepIsNoHang == [][reported' /\ ~reported => ~dozed]_watchVars

(* Every hang is reported within a poll of its budget, the second like the *)
(* first, and inside an excuse too once that has run out.                  *)
HangIsReported ==
    /\ gpc = "run" /\ ~stop /\ loop = "none" /\ stuck >= Budget + Poll => reported
    /\ loop = "handler" /\ held = <<>> /\ idle >= Most(HungAfter, Budget) + Poll => reported
    /\ loop = "win32u" /\ held = <<>> /\ idle >= Budget + Cap + 2 * Poll => reported
=============================================================================
