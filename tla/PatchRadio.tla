------------------------------- MODULE PatchRadio -------------------------------
(***************************************************************************)
(* Where a patch Runner lives (PatchRunner has its own steps): in the      *)
(* receiver, whose DSP thread is always there and whose runner is never    *)
(* let go, or in a patch radio (core/patch_radio.cpp), whose reader thread *)
(* is its DSP thread: it may be inside the driver for ever, ends with the  *)
(* driver's fault, and is given up after a bounded wait when the radio is  *)
(* stopped.                                                                *)
(*                                                                         *)
(* A radio starts with its reader and is stopped once: the frame that      *)
(* stops it forgets it (gui/app_window_patch_radios.cpp).                  *)
(***************************************************************************)
EXTENDS PatchRunner

VARIABLES
    host,           \* who holds the runner: "receiver" or "radio"
    life,           \* the radio's control side: where its stop() is, and what came of it
    run,            \* Shared::run
    reader          \* readerBody(); "gone" is Shared::done

radio == <<host, life, run, reader>>
hosted == <<vars, radio>>

HostedInit ==
    /\ Init /\ life = "on"
    /\ \/ host = "receiver" /\ run = FALSE /\ reader = "none"
       \/ host = "radio" /\ run = TRUE /\ reader = "top"

-------------------------------------------------------------------------------
(* The reader thread.                                                      *)

Reads(from, to) == reader = from /\ reader' = to /\ UNCHANGED <<vars, host, life, run>>

ReaderTop == Reads("top", IF run THEN "read" ELSE "exit")
ReadReturns == Reads("read", "back")

(* read() is back: after a stop nothing of it is used; else the driver has *)
(* faulted, has nothing, or has a block.                                   *)
ReaderBack ==
    IF run THEN \E to \in {"exit", "top", "block"} : Reads("back", to)
           ELSE Reads("back", "exit")

(* Runner::process(), of one block.                                        *)
ReaderProcesses ==
    /\ reader = "block" /\ UNCHANGED radio
    /\ Enter \/ Refused \/ Process \/ Look \/ AdoptLock \/ Install \/ Body
ReaderProcessed == reader = "block" /\ Leave /\ reader' = "top" /\ UNCHANGED <<host, life, run>>

ReaderEnds == Reads("exit", "gone")

-------------------------------------------------------------------------------
(* The GUI thread.                                                         *)

Calls == life = "on" /\ GuiCalls /\ UNCHANGED radio
Returns == (GuiRuns \/ FlushWait) /\ UNCHANGED radio

Faulted == run /\ reader \in {"exit", "gone"}

StopBegin ==
    /\ host = "radio" /\ life = "on" /\ gpc = "idle"
    /\ run' = FALSE /\ life' = "waiting" /\ UNCHANGED <<vars, host, reader>>

(* The reader has left in time: it is joined, and the radio's runner goes  *)
(* with the radio, and with it what it holds, destroyed here.              *)
StopJoins ==
    /\ life = "waiting" /\ reader = "gone"
    /\ reader' = "none" /\ life' = "joined" /\ UNCHANGED <<host, run>>
    /\ hand' = Holding(pending) \cup Holding(active) \cup retired /\ gpc' = "destroy"
    /\ pending' = NoSet /\ stopPending' = FALSE /\ hasPending' = FALSE /\ retired' = {}
    /\ active' = NoSet /\ ring' = NoSet /\ reports' = NoSet
    /\ UNCHANGED <<frozen, inDsp, dsp, alive, dspDestroyed>>

StopJustLetsGo ==
    /\ life = "waiting" /\ reader # "gone"
    /\ life' = "released" /\ UNCHANGED <<vars, host, run, reader>>

(* It has not, within kStopWaitMs: the runner is flushed first,            *)
StopExpires ==
    /\ life = "waiting" /\ reader # "gone" /\ FlushFreeze
    /\ life' = "flushing" /\ UNCHANGED <<host, run, reader>>

(* and then reader and runner are let go together.                         *)
StopReleases ==
    /\ life = "flushing" /\ gpc = "idle"
    /\ life' = "released" /\ UNCHANGED <<vars, host, run, reader>>

-------------------------------------------------------------------------------
Receiver == host = "receiver" /\ DspStep /\ UNCHANGED radio
Reader == ReaderTop \/ ReaderBack \/ ReaderProcesses \/ ReaderProcessed \/ ReaderEnds
Stops == StopJoins \/ StopExpires \/ StopReleases

HostedNext ==
    \/ Calls \/ Returns
    \/ Receiver
    \/ Reader \/ ReadReturns
    \/ StopBegin \/ Stops

(* As in PatchRunner, on either thread; the bounded wait ends, and a frame *)
(* comes round to stop a radio that reports a fault, whatever else it      *)
(* calls.  No fairness of a driver's read().                               *)
HostedFairness ==
    /\ WF_hosted(GuiRuns /\ UNCHANGED radio) /\ SF_hosted(FlushWait /\ UNCHANGED radio)
    /\ WF_hosted(Receiver) /\ SF_hosted(Receiver /\ Process)
    /\ WF_hosted(Reader) /\ SF_hosted(ReaderProcesses /\ Process)
    /\ SF_hosted(Faulted /\ StopBegin) /\ WF_hosted(Stops)

HostedSpec == HostedInit /\ [][HostedNext]_hosted /\ HostedFairness

-------------------------------------------------------------------------------
HostedTypeOK ==
    /\ TypeOK
    /\ host \in {"receiver", "radio"}
    /\ life \in {"on", "waiting", "joined", "flushing", "released"}
    /\ run \in BOOLEAN
    /\ reader \in {"none", "top", "read", "back", "block", "exit", "gone"}
    /\ host = "receiver" => life = "on" /\ reader = "none"
    /\ host = "radio" /\ reader # "block" => dpc = "out"
    /\ host = "radio" /\ life # "on" => ~run

(* Nothing of a plugin is left behind: when the flush before an unload     *)
(* comes to destroy it holds every set there is, and a reader let go with  *)
(* its runner, to come back from the driver at any later time, holds none  *)
(* (patch_radio.cpp, "its decoders are not left with it").                 *)
NothingLeftBehind ==
    FlushTakesAll /\ (life = "released" => alive = {})

(* A published set does not wait for ever: it is adopted, superseded,      *)
(* flushed or gone with its radio, whatever the radio's driver does, but   *)
(* while that driver gives the reader no block.                            *)
SetsAreTaken ==
    \A s \in Sets :
        <>[](pending = s) => <>[](host = "radio" /\ reader \in {"top", "read", "back"})
===============================================================================
