------------------------------ MODULE StreamFifo ------------------------------
(***************************************************************************)
(* What dsp/spsc_ring.hpp promises its two threads: a bounded first-in     *)
(* first-out stream. Of every batch the producer offers a prefix is        *)
(* accepted, accepted elements are taken in batches, and none is lost,     *)
(* duplicated, reordered or invented in between.                           *)
(***************************************************************************)
EXTENDS Naturals, Sequences

CONSTANTS
    Data,       \* the elements of the stream
    Cap,        \* most elements the stream holds
    MaxBatch    \* longest batch a caller passes

VARIABLES
    offered,    \* the batch of the write in progress, <<>> outside one
    queue,      \* accepted and not yet taken, oldest first
    taken       \* the batch most recently handed to the consumer

vars == <<offered, queue, taken>>

Batches == UNION {[1..n -> Data] : n \in 1..MaxBatch}

Init == offered = <<>> /\ queue = <<>> /\ taken = <<>>

Offer(batch) ==
    /\ offered = <<>>
    /\ offered' = batch
    /\ UNCHANGED <<queue, taken>>

(* The first n offered elements go in; the producer is told n. *)
Put(n) ==
    /\ n <= Len(offered)
    /\ Len(queue) + n <= Cap
    /\ queue' = queue \o SubSeq(offered, 1, n)
    /\ offered' = <<>>
    /\ UNCHANGED taken

(* The n oldest elements come out, in order. *)
Take(n) ==
    /\ n <= Len(queue)
    /\ taken' = SubSeq(queue, 1, n)
    /\ queue' = SubSeq(queue, n + 1, Len(queue))
    /\ UNCHANGED offered

Next ==
    \/ \E batch \in Batches : Offer(batch)
    \/ \E n \in 1..MaxBatch : Put(n) \/ Take(n)

Spec == Init /\ [][Next]_vars
===============================================================================
