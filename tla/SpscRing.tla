------------------------------- MODULE SpscRing -------------------------------
(***************************************************************************)
(* dsp/spsc_ring.hpp: the lock-free ring between one producer thread and   *)
(* one consumer thread.                                                    *)
(*                                                                         *)
(* head and tail are the code's free-running counters, reduced modulo Wrap *)
(* (2^64 in the build, a small multiple of Cap here): a slot is a counter  *)
(* reduced modulo Cap, and head - tail is taken modulo Wrap as size_t      *)
(* arithmetic does.  A call is three kinds of step: the load of the other  *)
(* side's counter, one step per element that memcpy moves (in any order,   *)
(* memcpy promises none), and the release store of the caller's own        *)
(* counter.  The acquire/release pairs of the source are what makes a step *)
(* here see every earlier step of the other thread.                        *)
(***************************************************************************)
EXTENDS Integers, Sequences

CONSTANTS
    Data,       \* element values
    Zero,       \* what the vector's slots hold before the first write
    Cap,        \* buf_.size()
    Wrap,       \* the counters' modulus: 2^64 in the build
    MaxBatch    \* longest batch a caller passes

(* The constructor refuses a capacity that is not a power of two, which is *)
(* what makes it divide the modulus of the counters.                       *)
ASSUME CapAssumption ==
    /\ Cap \in Nat \ {0}
    /\ Wrap \in Nat
    /\ \E k \in 2..Wrap : Wrap = k * Cap
ASSUME BatchAssumption == MaxBatch \in Nat \ {0}
ASSUME ZeroAssumption == Zero \in Data

VARIABLES
    buf,        \* buf_
    head,       \* head_, stored by the producer only
    tail,       \* tail_, stored by the consumer only
    wsrc,       \* producer: the batch of the write in progress
    wn,         \* producer: elements it will accept, 0 outside a write
    wleft,      \* producer: offsets memcpy has still to store
    rn,         \* consumer: elements the read in progress takes, 0 outside
    rleft,      \* consumer: offsets memcpy has still to load
    dst,        \* consumer: what it has copied out
    taken       \* the last batch a read returned

producer == <<head, wsrc, wn, wleft>>
consumer == <<tail, rn, rleft, dst, taken>>
vars == <<buf, producer, consumer>>

Batches == UNION {[1..n -> Data] : n \in 1..MaxBatch}
Least(a, b) == IF a < b THEN a ELSE b

(* counter & mask_ *)
Mask(c) == c % Cap

(* head - tail in size_t arithmetic: the fill level *)
Fill == (head - tail) % Wrap

(* freeSpace(), and the space write() computes for itself *)
FreeSpaceOffByOne == (Cap - Fill) + 1
FreeSpace == Cap - Fill

(* Where offset i of an n-element copy from counter c lands: the first     *)
(* segment runs to the end of the array, the second restarts at slot 0.    *)
SlotAtLateRestart(c, n, i) ==
    LET first == Least(Cap - Mask(c), n)
    IN  IF i < first THEN Mask(c) + i ELSE (i - first) + 1

SlotAt(c, n, i) ==
    LET idx == Mask(c)
        first == Least(Cap - idx, n)
    IN  IF i < first THEN idx + i ELSE i - first

(* store(counter + n): size_t addition *)
Advance(c, n) == (c + n) % Wrap

Init ==
    /\ buf = [s \in 0..(Cap - 1) |-> Zero]
    /\ head \in 0..(Wrap - 1) /\ tail = head
    /\ wsrc = <<>> /\ wn = 0 /\ wleft = {}
    /\ rn = 0 /\ rleft = {} /\ dst = <<>> /\ taken = <<>>

-------------------------------------------------------------------------------
(* The producer thread: write(src, n). An operator whose name adds a       *)
(* mistake to another's is that operator with the mistake seeded in it.    *)

(* Load tail and clamp to the free space.  A full ring returns 0 and       *)
(* leaves no trace, so only the calls that accept something are steps.     *)
WriteBegin(batch) ==
    /\ wn = 0
    /\ LET n == Least(Len(batch), FreeSpace)
       IN  /\ n > 0
           /\ wn' = n
           /\ wleft' = 0..(n - 1)
    /\ wsrc' = batch
    /\ UNCHANGED <<buf, head, consumer>>

WriteCopy(i) ==
    /\ i \in wleft
    /\ buf' = [buf EXCEPT ![SlotAt(head, wn, i)] = wsrc[i + 1]]
    /\ wleft' = wleft \ {i}
    /\ UNCHANGED <<head, wsrc, wn, consumer>>

WritePublishOvertakesData ==
    /\ wn > 0
    /\ head' = Advance(head, wn)
    /\ wn' = 0 /\ wsrc' = <<>> /\ wleft' = {}
    /\ UNCHANGED <<buf, consumer>>

WritePublish ==
    /\ wn > 0 /\ wleft = {}
    /\ head' = Advance(head, wn)
    /\ wn' = 0 /\ wsrc' = <<>>
    /\ UNCHANGED <<buf, wleft, consumer>>

(* The consumer thread: read(dst, n). *)

ReadBegin(want) ==
    /\ rn = 0
    /\ LET n == Least(want, Fill)
       IN  /\ n > 0
           /\ rn' = n
           /\ rleft' = 0..(n - 1)
           /\ dst' = [i \in 1..n |-> Zero]
    /\ UNCHANGED <<buf, producer, tail, taken>>

ReadCopy(i) ==
    /\ i \in rleft
    /\ dst' = [dst EXCEPT ![i + 1] = buf[SlotAt(tail, rn, i)]]
    /\ rleft' = rleft \ {i}
    /\ UNCHANGED <<buf, producer, tail, rn, taken>>

ReadPublish ==
    /\ rn > 0 /\ rleft = {}
    /\ tail' = Advance(tail, rn)
    /\ taken' = dst
    /\ rn' = 0 /\ dst' = <<>>
    /\ UNCHANGED <<buf, producer, rleft>>

Write == (\E batch \in Batches : WriteBegin(batch)) \/ (\E i \in wleft : WriteCopy(i)) \/ WritePublish
Read == (\E want \in 1..MaxBatch : ReadBegin(want)) \/ (\E i \in rleft : ReadCopy(i)) \/ ReadPublish

Next == Write \/ Read

Spec == Init /\ [][Next]_vars

-------------------------------------------------------------------------------
(* Every variable has the type of the member or local it stands for. *)
TypeOK ==
    /\ buf \in [0..(Cap - 1) -> Data]
    /\ head \in 0..(Wrap - 1) /\ tail \in 0..(Wrap - 1)
    /\ wn \in 0..Cap /\ wleft \subseteq 0..(wn - 1)
    /\ wsrc \in Seq(Data) /\ wn <= Len(wsrc)
    /\ rn \in 0..Cap /\ rn <= MaxBatch /\ rleft \subseteq 0..(rn - 1)
    /\ dst \in [1..rn -> Data]
    /\ taken \in Seq(Data)

(* "Unread data is never overwritten" (spsc_ring.hpp:56): the elements a   *)
(* write in progress is storing still fit beside the unread ones, and a    *)
(* read in progress takes only elements already published, although each   *)
(* side decided from a counter that has moved since.                       *)
ClaimsStayValid == Fill + wn <= Cap /\ rn <= Fill

(* No data race: while a write and a read are both in progress, no slot    *)
(* belongs to both, so memcpy never touches a slot the other thread's      *)
(* memcpy touches.                                                         *)
SlotsOf(c, n) == {SlotAt(c, n, i) : i \in 0..(n - 1)}
NoSlotRace == SlotsOf(head, wn) \cap SlotsOf(tail, rn) = {}

(* What memcpy has moved so far is what its source held, on both sides,    *)
(* however the two copies interleave: a write in progress has stored its   *)
(* batch's elements, a read in progress holds what the slots still hold.   *)
CopiesAreFaithful ==
    /\ IF wn = 0 THEN wsrc = <<>> ELSE wsrc \in Batches
    /\ \A i \in (0..(wn - 1)) \ wleft : buf[SlotAt(head, wn, i)] = wsrc[i + 1]
    /\ \A i \in (0..(rn - 1)) \ rleft : dst[i + 1] = buf[SlotAt(tail, rn, i)]

(* The inductive invariant of the proofs. *)
IInv == TypeOK /\ ClaimsStayValid /\ CopiesAreFaithful

(* The ring is a bounded FIFO of everything accepted: the queue is what    *)
(* lies between the two counters, whatever the counters' wrap.             *)
Contents == [i \in 1..Fill |-> buf[((tail + i) - 1) % Cap]]
Fifo == INSTANCE StreamFifo WITH offered <- wsrc, queue <- Contents
IsFifo == Fifo!Spec
===============================================================================
