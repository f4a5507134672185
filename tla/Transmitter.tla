------------------------------ MODULE Transmitter ------------------------------
(***************************************************************************)
(* core/transmitter.cpp and the frame loop that drives it: who may key the *)
(* transmitter, and who lets go of it when somebody stops doing his part.  *)
(*                                                                         *)
(* The GUI thread goes round its frame one step at a time and may stall at *)
(* any of them; the TX thread looks, sends a block, and silences the radio *)
(* on its way out.  A step under stateMutex_ is one action.  There is no   *)
(* clock: Passes moves every timer at once.                                *)
(***************************************************************************)
EXTENDS Naturals

CONSTANTS
    AliveWait,      \* kKeyAliveWait
    LatchTimeout,   \* kLatchTimeout, the latch's and a plugin's
    RemoteHold,     \* kRemotePttHoldMs
    Cycle           \* bound on a step of the TX thread: a block, a sink's own wait

(* Every wait of the code is bounded and positive.                         *)
ASSUME TransmitterAssumption ==
    {AliveWait, LatchTimeout, RemoteHold, Cycle} \subseteq Nat \ {0}

VARIABLES
    down,           \* the keys asked for: pttHeld_, latched_, remoteKeyed_, pluginKey_
    left,           \* what is left of the minute or of the hold of each timed key
    transmitting, run, source, keyed,   \* transmitting_, run_, sourceIsPlugin_, modulator_'s key
    sink, onAir,    \* the radio, and whether it is started
    tx, txAge,      \* the TX thread, and how long it has been at that step
    alive,          \* how long ago tick() stamped lastTickMs_
    pluginFault,    \* pluginFault_
    faults,         \* faults_ has moved since the frame loop last looked
    armed,          \* txArming_'s window is open
    gui, page,      \* the place in the frame, and the TRANSMIT page in it
    ptt, press,     \* what the page saw: the key held, LATCH pressed
    hand,           \* a hand really holds the PTT
    post, postAge,  \* the last key request queued by the browser, and its age
    unasked,        \* history: how long it has been on the air with nobody asking
    handed,         \* history: a hand's key was down in this transmission
    cut             \* history: a plugin's key was cut and nobody has armed since

Timed == {"latch", "remote", "plugin"}
Hands == {"ptt", "latch", "remote"}
Running == {"look", "block", "silence", "exit"}

keys == <<down, left>>
radio == <<transmitting, run, source, keyed, sink, onAir>>
thread == <<tx, txAge>>
guard == <<pluginFault, faults, armed>>
frame == <<gui, page, ptt, press>>
env == <<hand, post, postAge>>
seen == <<handed, cut>>
vars == <<keys, radio, thread, alive, guard, frame, env, unasked, seen>>

Init ==
    /\ down = {} /\ left = [k \in Timed |-> 0]
    /\ transmitting = FALSE /\ run = FALSE /\ source = FALSE /\ keyed = FALSE
    /\ sink = "none" /\ onAir = FALSE /\ tx = "off" /\ txAge = 0 /\ alive = 0
    /\ pluginFault = FALSE /\ faults = FALSE /\ armed = FALSE
    /\ gui = "web" /\ page = "shut" /\ ptt = FALSE /\ press = FALSE
    /\ hand = FALSE /\ post = "none" /\ postAge = 0
    /\ unasked = 0 /\ handed = FALSE /\ cut = FALSE

(* The keys down and what each timed one has left, in one step.            *)
Keys(d, l) == down' = d /\ left' = [k \in Timed |-> IF k \in d THEN l[k] ELSE 0]

-------------------------------------------------------------------------------
(* The frame.  applyWebControls(): of the requests queued since the last   *)
(* one the last decides, and a shut page or a stopped server releases.     *)

FrameWeb(p, served) ==
    /\ gui = "web"
    /\ page' = p /\ gui' = "draw" /\ post' = "none" /\ postAge' = 0
    /\ IF post = "assert" /\ p # "shut" /\ sink # "none" /\ served
       THEN /\ Keys(down \cup {"remote"}, [left EXCEPT !["remote"] = RemoteHold])
            /\ handed' = TRUE
       ELSE /\ Keys(IF post # "none" \/ p = "shut" \/ ~served THEN down \ {"remote"} ELSE down,
                    left)
            /\ UNCHANGED handed
    /\ UNCHANGED <<radio, thread, alive, guard, ptt, press, hand, cut>>

(* drawTransmitPage(): its buttons, then the state of its key.  Close is   *)
(* greyed while the radio is keyed, so Transmitter::stop() meets no thread.*)
Pressable == gui = "draw" /\ page = "live"

OpenRadio ==
    /\ Pressable /\ sink = "none"
    /\ sink' = "ok" /\ Keys({}, left)
    /\ UNCHANGED <<transmitting, run, source, keyed, onAir, thread, alive, guard, frame, env, seen>>

CloseRadio ==
    /\ Pressable /\ sink # "none" /\ ~transmitting
    /\ sink' = "none" /\ armed' = FALSE /\ Keys({}, left)
    /\ UNCHANGED <<transmitting, run, source, keyed, onAir, thread, alive, pluginFault, faults,
                   frame, env, seen>>

Arm ==
    /\ Pressable /\ sink = "ok"
    /\ armed' = TRUE /\ pluginFault' = FALSE /\ faults' = FALSE /\ cut' = FALSE
    /\ UNCHANGED <<keys, radio, thread, alive, frame, env, handed>>

Disarm ==
    /\ Pressable /\ armed
    /\ armed' = FALSE
    /\ UNCHANGED <<keys, radio, thread, alive, pluginFault, faults, frame, env, seen>>

PageDrawn(pressed) ==
    /\ gui = "draw" /\ gui' = "hand"
    /\ ptt' = (page = "live" /\ sink # "none" /\ hand)
    /\ press' = (page = "live" /\ sink # "none" /\ pressed)
    /\ UNCHANGED <<keys, radio, thread, alive, guard, page, env, seen>>

(* txPageKey(), setLatched(), setPttHeld(): the page's keys, rebuilt.      *)
Asked(k) == page = "live" /\ IF k = "ptt" THEN ptt ELSE press # ("latch" \in down)

HandKeys ==
    /\ gui = "hand" /\ gui' = "plugin"
    /\ Keys((down \ {"ptt", "latch"}) \cup {k \in {"ptt", "latch"} : Asked(k)},
            IF "latch" \in down THEN left ELSE [left EXCEPT !["latch"] = LatchTimeout])
    /\ handed' = (handed \/ down' \cap Hands # {})
    /\ UNCHANGED <<radio, thread, alive, guard, page, ptt, press, env, cut>>

(* applyPluginTransmitKey(): what closes the window, then pluginMayKey()   *)
(* and setPluginKey().  A plugin wants the key while its active() says so. *)
WindowHolds(expired, granted) ==
    /\ armed /\ ~expired /\ granted
    /\ sink = "ok" /\ ~faults /\ ~pluginFault /\ page = "live" /\ alive <= AliveWait

PluginKey(expired, granted, wants) ==
    /\ gui = "plugin" /\ gui' = "tick"
    /\ armed' = WindowHolds(expired, granted) /\ faults' = FALSE
    /\ IF armed' /\ wants /\ down \cap Hands = {}
       THEN Keys(down \cup {"plugin"},
                 IF "plugin" \in down THEN left ELSE [left EXCEPT !["plugin"] = LatchTimeout])
       ELSE Keys(down \ {"plugin"}, left)
    /\ UNCHANGED <<radio, thread, alive, pluginFault, page, ptt, press, env, seen>>

(* cutPluginKey(): a plugin's key among those lost latches the fault.      *)
CutPluginOnce(lost) == pluginFault' = pluginFault /\ cut' = (cut \/ "plugin" \in lost)
CutPlugin(lost) ==
    pluginFault' = (pluginFault \/ "plugin" \in lost) /\ cut' = (cut \/ "plugin" \in lost)

(* tick(): the stamp and the three deadlines ...                           *)
ExpiredButRemote == {k \in down \cap {"latch", "plugin"} : left[k] = 0}
Expired == {k \in down \cap Timed : left[k] = 0}

TickDeadlines ==
    /\ gui = "tick" /\ gui' = "decide"
    /\ alive' = 0
    /\ Keys(down \ Expired, left) /\ CutPlugin(Expired)
    /\ UNCHANGED <<radio, thread, faults, armed, page, ptt, press, env, handed>>

(* ... and the key itself.  A transmitter that cannot be keyed, or that let *)
(* go by itself, drops every request; a plugin's, with its fault latched.  *)
LetGo == faults' = TRUE /\ Keys({}, left) /\ CutPlugin(down)

KeyDown ==
    /\ gui = "decide" /\ down # {} /\ ~transmitting /\ sink = "ok"
    /\ gui' = "after"
    /\ transmitting' = TRUE /\ run' = TRUE /\ keyed' = TRUE /\ onAir' = TRUE /\ alive' = 0
    /\ source' = (down = {"plugin"}) /\ handed' = (down \cap Hands # {})
    /\ tx' = "look" /\ txAge' = 0
    /\ UNCHANGED <<keys, sink, guard, page, ptt, press, env, cut>>

KeyRefused ==
    /\ gui = "decide" /\ down # {} /\ ~transmitting
    /\ gui' = "after"
    /\ LetGo
    /\ UNCHANGED <<radio, thread, alive, armed, page, ptt, press, env, handed>>

KeyUpBegins ==
    /\ gui = "decide" /\ down = {} /\ transmitting
    /\ gui' = "tail" /\ keyed' = FALSE
    /\ UNCHANGED <<keys, transmitting, run, source, sink, onAir, thread, alive, guard, page, ptt,
                   press, env, seen>>

NothingToDo ==
    /\ gui = "decide" /\ IF down = {} THEN ~transmitting ELSE transmitting /\ run
    /\ gui' = "after"
    /\ UNCHANGED <<keys, radio, thread, alive, guard, page, ptt, press, env, seen>>

(* The join of stopThread() and keyUpLocked().                             *)
Joined ==
    /\ tx = "gone" /\ tx' = "off" /\ txAge' = 0
    /\ transmitting' = FALSE /\ run' = FALSE /\ source' = FALSE
    /\ keyed' = FALSE /\ onAir' = FALSE

LetGoSeen ==
    /\ gui = "decide" /\ down # {} /\ transmitting /\ ~run
    /\ gui' = "after"
    /\ Joined /\ LetGo
    /\ UNCHANGED <<sink, alive, armed, page, ptt, press, env, handed>>

TailTimesOut ==
    /\ gui = "tail" /\ tx # "gone" /\ run
    /\ run' = FALSE
    /\ UNCHANGED <<keys, transmitting, source, keyed, sink, onAir, thread, alive, guard, frame, env,
                   seen>>

TailPlayed ==
    /\ gui = "tail" /\ gui' = "after"
    /\ Joined
    /\ UNCHANGED <<keys, sink, alive, guard, page, ptt, press, env, seen>>

(* afterTransmitTick() closes the window over a latched fault.             *)
AfterTick ==
    /\ gui = "after" /\ gui' = "web"
    /\ armed' = (armed /\ ~pluginFault)
    /\ UNCHANGED <<keys, radio, thread, alive, pluginFault, faults, page, ptt, press, env, seen>>

Frame ==
    \/ \E p \in {"live", "hidden", "shut"}, served \in BOOLEAN : FrameWeb(p, served)
    \/ OpenRadio \/ CloseRadio \/ Arm \/ Disarm
    \/ \E pressed \in BOOLEAN : PageDrawn(pressed)
    \/ HandKeys
    \/ \E expired, granted, wants \in BOOLEAN : PluginKey(expired, granted, wants)
    \/ TickDeadlines \/ KeyDown \/ KeyRefused \/ KeyUpBegins \/ NothingToDo \/ LetGoSeen
    \/ TailTimesOut \/ TailPlayed \/ AfterTick

-------------------------------------------------------------------------------
(* threadBody().                                                           *)

LookTrustsTheFrame ==
    /\ tx = "look" /\ txAge' = 0
    /\ tx' = IF run THEN "block" ELSE "silence"
    /\ UNCHANGED <<keys, radio, alive, guard, frame, env, seen>>

Look ==
    /\ tx = "look" /\ txAge' = 0
    /\ tx' = IF run /\ alive <= AliveWait THEN "block" ELSE "silence"
    /\ UNCHANGED <<keys, radio, alive, guard, frame, env, seen>>

(* Whose audio the block is: a plugin's while no hand is on a key.         *)
FromPluginAsking == down \cap Hands = {} /\ "plugin" \in down
FromPlugin == down \cap Hands = {} /\ ("plugin" \in down \/ source)

(* One block made and written; a lowered key is one block's ramp.          *)
Block ==
    /\ tx = "block" /\ txAge' = 0
    /\ source' = FromPlugin
    /\ tx' = IF sink = "faulted" \/ ~keyed THEN "silence" ELSE "look"
    /\ UNCHANGED <<keys, transmitting, run, keyed, sink, onAir, alive, guard, frame, env, seen>>

Silence ==
    /\ tx = "silence" /\ tx' = "exit" /\ txAge' = 0
    /\ onAir' = FALSE
    /\ UNCHANGED <<keys, transmitting, run, source, keyed, sink, alive, guard, frame, env, seen>>

(* transmitting_ stays up: it is how tick() finds a thread to join.        *)
Exit ==
    /\ tx = "exit" /\ tx' = "gone" /\ txAge' = 0
    /\ run' = FALSE
    /\ UNCHANGED <<keys, transmitting, source, keyed, sink, onAir, alive, guard, frame, env, seen>>

ThreadBody == Look \/ Block \/ Silence \/ Exit

-------------------------------------------------------------------------------
(* The hand, the browser (which the server answers only while the page is  *)
(* open and a radio is), the board, and time.                              *)

HandMoves ==
    /\ hand' = ~hand
    /\ UNCHANGED <<keys, radio, thread, alive, guard, frame, post, postAge, handed, cut>>

Browser(p) ==
    /\ p = "assert" => page # "shut" /\ sink # "none"
    /\ post' = p /\ postAge' = 0
    /\ UNCHANGED <<keys, radio, thread, alive, guard, frame, hand, handed, cut>>

RadioFaults ==
    /\ sink = "ok" /\ onAir
    /\ sink' = "faulted"
    /\ UNCHANGED <<keys, transmitting, run, source, keyed, onAir, thread, alive, guard, frame, env,
                   seen>>

Upto(n, top) == IF n < top THEN n + 1 ELSE top
Asking == hand \/ \E k \in down \cap Timed : left[k] > 0

(* Bounds: past these ages nothing changes any more.                       *)
AliveTop == AliveWait + 3 * Cycle + 1
Overhang == 3 * AliveWait + 7 * Cycle

Passes ==
    /\ tx \in Running => txAge < Cycle
    /\ txAge' = IF tx \in Running THEN txAge + 1 ELSE 0
    /\ alive' = Upto(alive, AliveTop)
    /\ left' = [k \in Timed |-> IF left[k] > 0 THEN left[k] - 1 ELSE 0]
    /\ postAge' = IF post = "assert" THEN Upto(postAge, RemoteHold + 1) ELSE 0
    /\ unasked' = IF onAir /\ ~Asking THEN Upto(unasked, Overhang + 1) ELSE 0
    /\ UNCHANGED <<down, radio, tx, guard, frame, hand, post, handed, cut>>

(* Only time that passes on the air with nobody asking counts.             *)
Watched == unasked' = IF ~onAir \/ Asking \/ Asking' THEN 0 ELSE unasked

Outside == HandMoves \/ (\E p \in {"assert", "release"} : Browser(p)) \/ RadioFaults

Next ==
    \/ (Frame \/ ThreadBody \/ Outside) /\ Watched
    \/ Passes

Spec == Init /\ [][Next]_vars

-------------------------------------------------------------------------------
(* Types; a thread is there to be joined exactly while transmitting_ is up, *)
(* and only a thread that has yet to silence it leaves the radio on the air.*)
TypeOK ==
    /\ (tx = "off" <=> ~transmitting) /\ (onAir => tx \in Running \ {"exit"})
    /\ (keyed => transmitting)
    /\ down \subseteq Hands \cup {"plugin"} /\ left \in [Timed -> Nat]
    /\ {transmitting, run, source, keyed, onAir} \subseteq BOOLEAN
    /\ sink \in {"none", "ok", "faulted"}
    /\ tx \in Running \cup {"off", "gone"} /\ {txAge, alive, postAge, unasked} \subseteq Nat
    /\ {pluginFault, faults, armed, ptt, press, hand, handed, cut} \subseteq BOOLEAN
    /\ gui \in {"web", "draw", "hand", "plugin", "tick", "decide", "tail", "after"}
    /\ page \in {"live", "hidden", "shut"}
    /\ post \in {"none", "assert", "release"}

(* The dead-man's handle (transmitter.hpp:28): however the GUI thread       *)
(* stalls, the TX thread has the radio silent three of its own steps after  *)
(* the stamp is too old.                                                    *)
FrozenWindowUnkeys == onAir => alive <= AliveWait + 3 * Cycle

(* "Every one of them opens the key inside two seconds": once no hand is on *)
(* the key and no timed key has time left, the radio is off within the      *)
(* longest stall the handle allows, three times over: in the frame that had *)
(* already seen the key, in the next one, and in the one letting go.        *)
OnlyWhileAsked == onAir => unasked <= Overhang

(* A block of the hand's input, the microphone or the tone, is made only in *)
(* a transmission a hand asked for; the tail of a plugin's stays the        *)
(* plugin's.                                                                *)
MicNeverUnkeyed == [][Block /\ ~source' => handed]_vars

(* A plugin whose key tick() has cut, by the minute, a refusal or a fault,  *)
(* does not key the radio again until the operator arms a new window.       *)
CutPluginStaysCut == [][KeyDown /\ source' => ~cut]_vars

(* docs/TRANSMITTING.md:172: no queued request closes the key.  A browser's *)
(* assertion is worth its hold from the moment it was made.                 *)
NoQueuedKey == [][("remote" \in down' \ down) => postAge <= RemoteHold]_vars
===============================================================================
