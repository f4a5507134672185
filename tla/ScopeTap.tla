-------------------------------- MODULE ScopeTap --------------------------------
(***************************************************************************)
(* core/scope_tap.hpp: the oscilloscope's tap.  The DSP thread pushes and  *)
(* never waits; a reader copies the newest samples and afterwards decides  *)
(* from begun_ whether the writer reached back into what it copied.        *)
(*                                                                         *)
(* Elements are copied one per step, and a sample is named by its number:  *)
(* the k-th ever pushed is k.  The release and acquire fences order the    *)
(* steps as they are written here.  What the ring's module also has is     *)
(* named Tap here, for the module in which both are proved.                *)
(***************************************************************************)
EXTENDS Integers, Sequences

CONSTANTS
    TapCap,     \* capacity, a power of two
    MaxPush,    \* bound on one push
    MaxAsk,     \* bound on one snapshot's n
    Attempts,   \* snapshot()'s attempts
    MaxWritten  \* bound on the samples pushed

ASSUME ScopeAssumption ==
    /\ TapCap \in Nat \ {0} /\ MaxPush \in Nat \ {0} /\ MaxAsk \in Nat \ {0}
    /\ Attempts \in Nat \ {0} /\ MaxWritten \in Nat

VARIABLES
    cells, written, begun,      \* the tap: buf_, written_, begun_
    wpc, put, upto,             \* push(): place, next element to store, where it ends
    rpc, ask, attempt,          \* snapshot(): place, its n, attempts made
    end, copied,                \* written_ as it read it, and what it has copied
    result                      \* what the last snapshot copied, with its end and n

writer == <<wpc, put, upto>>
tap == <<cells, written, begun>>
reader == <<rpc, ask, attempt, end, copied, result>>
tapVars == <<tap, writer, reader>>

Clamp(n) == IF n > TapCap THEN TapCap ELSE n
Slot(k) == k % TapCap

NoResult == [got |-> <<>>, end |-> 0, ask |-> 0]

TapInit ==
    /\ cells = [i \in 0..TapCap - 1 |-> -1] /\ written = 0 /\ begun = 0
    /\ wpc = "idle" /\ put = 0 /\ upto = 0
    /\ rpc = "idle" /\ ask = 0 /\ attempt = 0 /\ end = 0 /\ copied = <<>>
    /\ result = NoResult

-------------------------------------------------------------------------------
(* push(): a push longer than the buffer keeps its last TapCap elements,   *)
(* and the counter moves by what is kept.  An operator whose name adds a   *)
(* mistake to another's is that operator with the mistake seeded in it.    *)
Push(n) ==
    /\ wpc = "idle" /\ written + Clamp(n) <= MaxWritten
    /\ begun' = written + Clamp(n) /\ put' = written /\ upto' = written + Clamp(n) /\ wpc' = "store"
    /\ UNCHANGED <<cells, written, reader>>

Store ==
    /\ wpc = "store" /\ put < upto
    /\ cells' = [cells EXCEPT ![Slot(put)] = put] /\ put' = put + 1
    /\ UNCHANGED <<written, begun, wpc, upto, reader>>

Publish ==
    /\ wpc = "store" /\ put = upto
    /\ written' = upto /\ wpc' = "idle" /\ put' = 0 /\ upto' = 0
    /\ UNCHANGED <<cells, begun, reader>>

-------------------------------------------------------------------------------
(* snapshot(): up to Attempts copies of the newest min(n, TapCap, written).*)
Snapshot(n) ==
    /\ rpc = "idle"
    /\ ask' = Clamp(n) /\ attempt' = 0 /\ rpc' = "look"
    /\ UNCHANGED <<tap, writer, end, copied, result>>

Return(r) ==
    /\ rpc' = "idle" /\ result' = r
    /\ ask' = 0 /\ attempt' = 0 /\ end' = 0 /\ copied' = <<>>

Avail == IF end < ask THEN end ELSE ask
Start == end - Avail

Look ==
    /\ rpc = "look"
    /\ IF attempt = Attempts \/ written = 0
       THEN Return(NoResult)
       ELSE /\ end' = written /\ attempt' = attempt + 1 /\ copied' = <<>> /\ rpc' = "copy"
            /\ UNCHANGED <<ask, result>>
    /\ UNCHANGED <<tap, writer>>

Copy ==
    /\ rpc = "copy" /\ Len(copied) < Avail
    /\ copied' = Append(copied, cells[Slot(Start + Len(copied))])
    /\ UNCHANGED <<tap, writer, rpc, ask, attempt, end, result>>

OverrunByWritten == written - Start > TapCap
Overrun == begun - Start > TapCap

Judge ==
    /\ rpc = "copy" /\ Len(copied) = Avail
    /\ IF Overrun
       THEN rpc' = "look" /\ UNCHANGED <<ask, attempt, end, copied, result>>
       ELSE Return([got |-> copied, end |-> end, ask |-> ask])
    /\ UNCHANGED <<tap, writer>>

TapNext ==
    \/ \E n \in 1..MaxPush : Push(n)
    \/ Store \/ Publish
    \/ \E n \in 1..MaxAsk : Snapshot(n)
    \/ Look \/ Copy \/ Judge

TapSpec == TapInit /\ [][TapNext]_tapVars

-------------------------------------------------------------------------------
Samples == 0..MaxWritten
(* Types; a push announces itself before it publishes, and one push never  *)
(* covers more than the buffer.                                            *)
TapTypeOK ==
    /\ cells \in [0..TapCap - 1 -> Samples \cup {-1}] /\ written \in Samples /\ begun \in Samples
    /\ wpc \in {"idle", "store"} /\ put \in Samples /\ upto \in Samples
    /\ rpc \in {"idle", "look", "copy"} /\ ask \in 0..TapCap /\ attempt \in 0..Attempts
    /\ end \in Samples /\ copied \in Seq(Samples \cup {-1})
    /\ result \in [got : Seq(Samples \cup {-1}), end : Samples, ask : 0..TapCap]
    /\ begun >= written /\ begun - written <= TapCap

(* What a snapshot returns is the newest run of samples as of one moment:  *)
(* consecutive, oldest first, none overwritten while it was copied, and as *)
(* many as were asked for or had been written.                             *)
SnapshotIsOneMoment ==
    LET n == IF result.end < result.ask THEN result.end ELSE result.ask IN
    result.got = [i \in 1..n |-> result.end - n + i - 1]
===============================================================================
