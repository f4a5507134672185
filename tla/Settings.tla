-------------------------------- MODULE Settings --------------------------------
(***************************************************************************)
(* The settings file: gui/config_writer.hpp (one write out at a time, the  *)
(* last request behind it), core/config.cpp's writeFile(), the debounced   *)
(* save, the opening save and the two saves of the exit in                 *)
(* gui/app_window.cpp, and what the next launch reads back, over crashes,  *)
(* a disk that refuses or does not answer, and a damaged file.             *)
(*                                                                         *)
(* A configuration is a model value: the fields configsEqual() compares.   *)
(* The marker telemetryCleanExit rides along with it.  The debounce's two  *)
(* seconds and the wait after a failure are delays of any length; a file   *)
(* that is not there is one that holds the defaults.  An operator whose    *)
(* name adds a mistake to another's is that operator with the mistake      *)
(* seeded in it.                                                           *)
(***************************************************************************)
EXTENDS Integers

CONSTANTS
    None, Damaged,
    Configs,        \* the configurations the user moves between
    Default,        \* the one of a first run
    MaxChanges,     \* bound: changes of the settings by the user
    MaxRefusals,    \* bound: writes the disk refuses
    MaxLaunches,    \* bound: launches
    MaxDamage       \* bound: times the file is damaged while nothing runs

Texts == [cfg : Configs, clean : BOOLEAN]
Writes == [text : Texts, answer : {"out", "ok", "failed"}, behind : BOOLEAN]

ASSUME SettingsAssumption ==
    /\ Default \in Configs /\ Damaged \notin Configs \cup Texts
    /\ None \notin Configs \cup Texts \cup Writes
    /\ {MaxChanges, MaxRefusals, MaxLaunches, MaxDamage} \subseteq Nat

VARIABLES
    phase,          \* where run() is: "off", "loaded", "up", "stopping", "draining", "left"
    file,           \* the settings file: a text, or Damaged
    cur,            \* the live settings, currentConfig()
    savedCfg,       \* savedCfg_
    pendingCfg,     \* pendingCfg_, None with lastChangeTimeS_ < 0
    requested,      \* lastRequestedConfig_ with its marker
    flight,         \* ConfigWriter's worker: its text and its answer, or None
    queued,         \* queuedText_, None without hasQueued_
    lastOk, forbidden,  \* lastOk_, forbidden_
    abandoned,      \* the write left to a thread of its own at the exit
    counted,        \* this launch counted the run before as a crash
    died,           \* history: the last run ended before its plugins were down
    wrote,          \* history: a write of this run has landed
    drained,        \* history: the exit's drain collected all of this run's writes
    split,          \* history: a write failed behind one that landed, nothing since
    aside,          \* history: the damaged file was kept aside
    changes, refusals, launches, damage     \* the bounds' counts

writer == <<requested, flight, queued, lastOk>>
settings == <<cur, savedCfg, pendingCfg>>
history == <<died, wrote, drained, split, aside>>
bounds == <<changes, refusals, launches, damage>>
vars == <<phase, file, settings, writer, forbidden, abandoned, counted, history, bounds>>

Text(cfg, clean) == [cfg |-> cfg, clean |-> clean]

Init ==
    /\ phase = "off" /\ file = Text(Default, TRUE)
    /\ cur = Default /\ savedCfg = Default /\ pendingCfg = None
    /\ requested = Text(Default, FALSE) /\ flight = None /\ queued = None
    /\ lastOk = FALSE /\ forbidden = FALSE /\ abandoned = None /\ counted = FALSE
    /\ died = FALSE /\ wrote = FALSE /\ drained = FALSE /\ split = FALSE /\ aside = FALSE
    /\ changes = 0 /\ refusals = 0 /\ launches = 0 /\ damage = 0

-------------------------------------------------------------------------------
(* ConfigWriter.  `behind` says that the write was held behind one that    *)
(* landed: nothing of the code, it is what split is told by.               *)

Begin(text, behind) == [text |-> text, answer |-> "out", behind |-> behind]

RequestAsyncForbidden(text) ==
    IF flight # None THEN queued' = text /\ UNCHANGED flight
                     ELSE flight' = Begin(text, FALSE) /\ UNCHANGED queued

RequestAsync(text) ==
    IF forbidden THEN UNCHANGED <<flight, queued>>
    ELSE IF flight # None THEN queued' = text /\ UNCHANGED flight
    ELSE flight' = Begin(text, FALSE) /\ UNCHANGED queued

RequestConfigSave(text) ==
    /\ requested' = text /\ RequestAsync(text) /\ UNCHANGED lastOk

Answered == flight # None /\ flight.answer # "out"
Ok == flight.answer = "ok"

(* collect(), and the start of what was coalesced behind it.               *)
Collect ==
    /\ lastOk' = Ok /\ queued' = None
    /\ flight' = (IF queued # None THEN Begin(queued, Ok) ELSE None)
    /\ UNCHANGED requested

(* The worker, writeFile(): the text reaches the file by a rename, or the  *)
(* file is as it was.                                                      *)
Land ==
    /\ flight # None /\ flight.answer = "out"
    /\ file' = flight.text /\ flight' = [flight EXCEPT !.answer = "ok"] /\ wrote' = TRUE
    /\ UNCHANGED <<phase, settings, requested, queued, lastOk, forbidden, abandoned,
                   counted, died, drained, split, aside, bounds>>

Refuse ==
    /\ flight # None /\ flight.answer = "out"
    /\ refusals < MaxRefusals /\ refusals' = refusals + 1
    /\ flight' = [flight EXCEPT !.answer = "failed"]
    /\ UNCHANGED <<phase, file, settings, requested, queued, lastOk, forbidden, abandoned,
                   counted, history, changes, launches, damage>>

(* An abandoned write may still land while the process lives.              *)
LandAbandoned ==
    /\ abandoned # None /\ file' = abandoned /\ abandoned' = None /\ wrote' = TRUE
    /\ UNCHANGED <<phase, settings, writer, forbidden, counted, died, drained, split, aside,
                   bounds>>

-------------------------------------------------------------------------------
(* A launch: the constructor's load.  A damaged file is renamed aside, or, *)
(* when it cannot be, nothing is written this session.                     *)
Launch(kept) ==
    LET loaded == IF file = Damaged THEN Default ELSE file.cfg
    IN /\ phase = "off" /\ launches < MaxLaunches /\ launches' = launches + 1
       /\ phase' = "loaded"
       /\ cur' = loaded /\ savedCfg' = loaded /\ pendingCfg' = None
       /\ counted' = (file # Damaged /\ ~file.clean)
       /\ forbidden' = (file = Damaged /\ ~kept)
       /\ aside' = (file = Damaged /\ kept)
       /\ file' = (IF file = Damaged /\ kept THEN Text(Default, TRUE) ELSE file)
       /\ requested' = Text(Default, FALSE) /\ lastOk' = FALSE
       /\ died' = FALSE /\ wrote' = FALSE /\ drained' = FALSE /\ split' = FALSE
       /\ UNCHANGED <<flight, queued, abandoned, changes, refusals, damage>>

(* run(): the marker is forced to disk as the frames begin.                *)
OpeningSave ==
    /\ phase = "loaded" /\ phase' = "up" /\ RequestConfigSave(Text(cur, FALSE))
    /\ UNCHANGED <<file, settings, forbidden, abandoned, counted, history, bounds>>

Change(cfg) ==
    /\ phase = "up" /\ cfg # cur /\ changes < MaxChanges /\ changes' = changes + 1
    /\ cur' = cfg
    /\ UNCHANGED <<phase, file, savedCfg, pendingCfg, writer, forbidden, abandoned, counted,
                   history, refusals, launches, damage>>

(* A message marked as seen is a change saved at once: saveConfigNow().    *)
ChangeSaved(cfg) ==
    /\ phase = "up" /\ cfg # cur /\ changes < MaxChanges /\ changes' = changes + 1
    /\ cur' = cfg /\ RequestConfigSave(Text(cfg, FALSE))
    /\ UNCHANGED <<phase, file, savedCfg, pendingCfg, forbidden, abandoned, counted, history,
                   refusals, launches, damage>>

(* maybeSaveConfig(): clean again; a difference first seen, or moved; a    *)
(* difference that has stood for the window and the wait after a failure.  *)
SaveClean ==
    /\ phase = "up" /\ ~forbidden /\ cur = savedCfg /\ pendingCfg # None
    /\ pendingCfg' = None
    /\ UNCHANGED <<phase, file, cur, savedCfg, writer, forbidden, abandoned, counted,
                   history, bounds>>

SaveWatch ==
    /\ phase = "up" /\ ~forbidden /\ cur # savedCfg /\ pendingCfg # cur
    /\ pendingCfg' = cur
    /\ UNCHANGED <<phase, file, cur, savedCfg, writer, forbidden, abandoned, counted,
                   history, bounds>>

SaveDue ==
    /\ phase = "up" /\ ~forbidden /\ cur # savedCfg /\ pendingCfg = cur
    /\ pendingCfg' = None /\ RequestConfigSave(Text(cur, FALSE))
    /\ UNCHANGED <<phase, file, cur, savedCfg, forbidden, abandoned, counted, history, bounds>>

PollBooksFailure ==
    /\ phase = "up" /\ Answered /\ Collect
    /\ savedCfg' = (IF queued = None THEN requested.cfg ELSE savedCfg)
    /\ split' = IF Ok THEN split /\ queued # None ELSE split \/ flight.behind
    /\ UNCHANGED <<phase, file, cur, pendingCfg, forbidden, abandoned, counted, died, wrote,
                   drained, aside, bounds>>

PollBooksLive ==
    /\ phase = "up" /\ Answered /\ Collect
    /\ savedCfg' = (IF Ok /\ queued = None THEN cur ELSE savedCfg)
    /\ split' = IF Ok THEN split /\ queued # None ELSE split \/ flight.behind
    /\ UNCHANGED <<phase, file, cur, pendingCfg, forbidden, abandoned, counted, died, wrote,
                   drained, aside, bounds>>

(* pollConfigWriter(): what was last asked for is booked as saved once a   *)
(* write has landed with none behind it.                                   *)
PollConfigWriter ==
    /\ phase = "up" /\ Answered /\ Collect
    /\ savedCfg' = (IF Ok /\ queued = None THEN requested.cfg ELSE savedCfg)
    /\ split' = IF Ok THEN split /\ queued # None ELSE split \/ flight.behind
    /\ UNCHANGED <<phase, file, cur, pendingCfg, forbidden, abandoned, counted, died, wrote,
                   drained, aside, bounds>>

-------------------------------------------------------------------------------
(* The exit of run().                                                      *)

FramesEndMarked ==
    /\ phase = "up" /\ phase' = "stopping" /\ RequestConfigSave(Text(cur, TRUE))
    /\ UNCHANGED <<file, settings, forbidden, abandoned, counted, history, bounds>>

(* The final state's save, the marker still FALSE; then the pipeline is    *)
(* stopped and the plugins come down, and no frame polls the writer.       *)
FramesEnd ==
    /\ phase = "up" /\ phase' = "stopping" /\ RequestConfigSave(Text(cur, FALSE))
    /\ UNCHANGED <<file, settings, forbidden, abandoned, counted, history, bounds>>

WriteMarkerOnSaved ==
    /\ phase = "stopping" /\ phase' = "draining"
    /\ RequestConfigSave(Text(savedCfg, TRUE))
    /\ UNCHANGED <<file, settings, forbidden, abandoned, counted, history, bounds>>

(* After the last of the plugins' code: the snapshot just queued, marked.  *)
WriteMarker ==
    /\ phase = "stopping" /\ phase' = "draining"
    /\ RequestConfigSave(Text(requested.cfg, TRUE))
    /\ UNCHANGED <<file, settings, forbidden, abandoned, counted, history, bounds>>

(* finishOrAbandon(): what is out is waited for, then what is behind it;   *)
Drain ==
    /\ phase = "draining" /\ Answered /\ Collect
    /\ UNCHANGED <<phase, file, settings, forbidden, abandoned, counted, history, bounds>>

Drained ==
    /\ phase = "draining" /\ flight = None /\ phase' = "left" /\ drained' = TRUE
    /\ savedCfg' = (IF lastOk THEN requested.cfg ELSE savedCfg)
    /\ UNCHANGED <<file, cur, pendingCfg, writer, forbidden, abandoned, counted, died, wrote,
                   split, aside, bounds>>

(* past the bound what is out is left to itself, and what is behind it is  *)
(* dropped.                                                                *)
Abandon ==
    /\ phase = "draining" /\ flight # None /\ flight.answer = "out" /\ phase' = "left"
    /\ abandoned' = flight.text /\ flight' = None /\ queued' = None
    /\ UNCHANGED <<file, settings, requested, lastOk, forbidden, counted, history, bounds>>

(* The process ends: after the drain, or anywhere by a crash or a kill.    *)
End ==
    /\ phase' = "off" /\ flight' = None /\ queued' = None /\ abandoned' = None
    /\ UNCHANGED <<file, settings, requested, lastOk, forbidden, counted, wrote, drained,
                   split, aside, bounds>>

Leave == phase = "left" /\ End /\ UNCHANGED died
Crash == phase # "off" /\ End /\ died' = (phase \in {"loaded", "up", "stopping"})

Damage ==
    /\ phase = "off" /\ damage < MaxDamage /\ damage' = damage + 1 /\ file' = Damaged
    /\ died' = FALSE /\ drained' = FALSE
    /\ UNCHANGED <<phase, settings, writer, forbidden, abandoned, counted, wrote, split,
                   aside, changes, refusals, launches>>

-------------------------------------------------------------------------------
Disk == Land \/ Refuse \/ LandAbandoned
MaybeSaveConfig == SaveClean \/ SaveWatch \/ SaveDue
Drainage == Drain \/ Drained \/ Abandon

Next ==
    \/ \E kept \in BOOLEAN : Launch(kept)
    \/ OpeningSave
    \/ \E cfg \in Configs : Change(cfg) \/ ChangeSaved(cfg)
    \/ PollConfigWriter \/ MaybeSaveConfig
    \/ FramesEnd \/ WriteMarker \/ Drainage \/ Leave
    \/ Disk
    \/ Crash
    \/ Damage

(* Frames come while the window is up, and a write is answered in the end. *)
Fairness ==
    /\ WF_vars(OpeningSave) /\ WF_vars(PollConfigWriter) /\ WF_vars(MaybeSaveConfig)
    /\ WF_vars(Land \/ Refuse)
Spec == Init /\ [][Next]_vars /\ Fairness

-------------------------------------------------------------------------------
TypeOK ==
    /\ phase \in {"off", "loaded", "up", "stopping", "draining", "left"}
    /\ file \in Texts \cup {Damaged} /\ requested \in Texts
    /\ cur \in Configs /\ savedCfg \in Configs /\ pendingCfg \in Configs \cup {None}
    /\ flight \in Writes \cup {None}
    /\ queued \in Texts \cup {None} /\ abandoned \in Texts \cup {None}
    /\ lastOk \in BOOLEAN /\ forbidden \in BOOLEAN /\ counted \in BOOLEAN
    /\ died \in BOOLEAN /\ wrote \in BOOLEAN /\ drained \in BOOLEAN
    /\ split \in BOOLEAN /\ aside \in BOOLEAN

(* A run that dies before its last plugin is down, its writes landed,      *)
(* refused, coalesced or still out in whatever order, is counted as a      *)
(* crash by the next launch as soon as one write of it had landed; a run   *)
(* whose exit drained its writes is not.                                   *)
CrashIsCounted ==
    [][phase = "off" /\ phase' = "loaded" =>
          /\ died /\ wrote => counted'
          /\ drained /\ lastOk => ~counted']_vars

(* When the exit's drain says that the last write landed, the file is the  *)
(* settings as they were when the window closed, marked clean.             *)
ExitSavesAll ==
    phase = "left" /\ drained /\ lastOk => file = Text(cur, TRUE)

(* A damaged file is the only copy of what the user had: none of the five  *)
(* places that save may write over it before it has been kept aside.       *)
DamagedIsKept == [][file = Damaged /\ file' # Damaged => aside']_vars

(* savedCfg_ is "what the config file holds now", as its declaration says, *)
(* whenever nothing is being written.                                      *)
SavedCfgIsTheFile ==
    phase = "up" /\ flight = None /\ wrote => file.cfg = savedCfg

(* The same, but for a write that failed behind one that had landed.       *)
SavedUnlessSplit == split \/ SavedCfgIsTheFile

(* While the window stays up and the disk is the one to blame, what the    *)
(* user has set is on disk in the end, however the writes were coalesced   *)
(* and refused; but for the case above, and for a file that is never to be *)
(* written over.                                                           *)
SettingsLand ==
    []<>(phase # "up" \/ forbidden \/ split \/ file.cfg = cur)
=============================================================================
