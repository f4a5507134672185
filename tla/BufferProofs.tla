---------------------------- MODULE BufferProofs ----------------------------
(***************************************************************************)
(* The buffers samples go through between threads: two on the same         *)
(* arithmetic of slots, and who reads the one before the sound card.       *)
(*                                                                         *)
(* SpscRing, for every capacity, counter modulus and batch length: the     *)
(* ring never overwrites what is unread, its two memcpys never meet in a   *)
(* slot, and it implements the bounded FIFO of StreamFifo.                 *)
(*                                                                         *)
(* ScopeTap, for every capacity and every length of push and request: what *)
(* a snapshot returns are the newest samples as of one moment.  Its writer *)
(* waits for nobody, so what the reader copies may be overwritten under it;*)
(* the proof is that whenever this happened, begun_ says so by the time the*)
(* copy is judged.                                                         *)
(*                                                                         *)
(* AudioOut, for every computer's devices, ring and lead: the ring before  *)
(* the card has the one reader SpscRing needs although an opener drains it,*)
(* and the device picked last is the one that plays.                       *)
(***************************************************************************)
EXTENDS SpscRing, ScopeTap, AudioOut, SequenceTheorems, TLAPS

-------------------------------------------------------------------------------
(* The arithmetic a ring buffer rests on: what a free-running counter      *)
(* reduced to a slot index, and a difference of two wrapped counters, are  *)
(* worth.                                                                  *)

(* Division with remainder. *)
LEMMA DivisionWithRemainder ==
    ASSUME NEW c \in Nat \ {0}, NEW a \in Int
    PROVE  /\ a % c \in 0..(c - 1)
           /\ a = (c * (a \div c)) + (a % c)
           /\ a \div c \in Int
  OBVIOUS

(* The remainder of such a decomposition is unique. *)
LEMMA RemainderUnique ==
    ASSUME NEW c \in Nat \ {0}, NEW q \in Int, NEW r \in 0..(c - 1)
    PROVE  ((c * q) + r) % c = r
  OBVIOUS

(* Adding multiples of the modulus does not matter. *)
LEMMA AddMultiple ==
    ASSUME NEW c \in Nat \ {0}, NEW q \in Int, NEW a \in Int
    PROVE  ((c * q) + a) % c = a % c
  <1> DEFINE p == a \div c
             r == a % c
  <1>1. r \in 0..(c - 1) /\ a = (c * p) + r /\ p \in Int
    BY DivisionWithRemainder
  <1> HIDE DEF p, r
  <1>2. (c * q) + a = (c * (q + p)) + r
    BY <1>1
  <1>3. ((c * (q + p)) + r) % c = r
    <2>1. q + p \in Int BY <1>1
    <2> QED BY <1>1, <2>1, RemainderUnique
  <1> QED BY <1>2, <1>3 DEF r

(* A number below the modulus is its own remainder. *)
LEMMA SmallRemainder ==
    ASSUME NEW c \in Nat \ {0}, NEW a \in 0..(c - 1)
    PROVE  a % c = a
  OBVIOUS

(* Reducing a summand first does not change the remainder. *)
LEMMA ReduceSummand ==
    ASSUME NEW c \in Nat \ {0}, NEW a \in Int, NEW b \in Int
    PROVE  ((a % c) + b) % c = (a + b) % c
  <1> DEFINE p == a \div c
             r == a % c
  <1>1. r \in 0..(c - 1) /\ a = (c * p) + r /\ p \in Int
    BY DivisionWithRemainder
  <1> HIDE DEF p, r
  <1>2. a + b = (c * p) + (r + b)
    BY <1>1
  <1>3. ((c * p) + (r + b)) % c = (r + b) % c
    <2>1. r + b \in Int BY <1>1
    <2> QED BY <1>1, <2>1, AddMultiple
  <1> QED BY <1>2, <1>3 DEF r

(* Counters that wrap at a multiple of the capacity keep their slots. *)
LEMMA ReduceByMultiple ==
    ASSUME NEW c \in Nat \ {0}, NEW k \in Nat \ {0}, NEW a \in Int
    PROVE  (a % (k * c)) % c = a % c
  <1> DEFINE m == k * c
             q == a \div m
             r == a % m
  <1>0. m \in Nat \ {0}
    OBVIOUS
  <1> HIDE DEF m
  <1>1. r \in 0..(m - 1) /\ a = (m * q) + r /\ q \in Int
    BY <1>0, DivisionWithRemainder
  <1> HIDE DEF q, r
  <1>2. a = (c * (k * q)) + r
    BY <1>0, <1>1 DEF m
  <1>3. ((c * (k * q)) + r) % c = r % c
    <2>1. k * q \in Int /\ r \in Int BY <1>0, <1>1
    <2> QED BY <2>1, AddMultiple
  <1> QED BY <1>0, <1>1, <1>2, <1>3 DEF r, m

(* One reduction at most when the offset is at most the modulus. *)
LEMMA OneReduction ==
    ASSUME NEW c \in Nat \ {0}, NEW a \in Int, NEW i \in 0..c
    PROVE  (a + i) % c = IF (a % c) + i < c THEN (a % c) + i ELSE ((a % c) + i) - c
  <1> DEFINE r == a % c
  <1>1. r \in 0..(c - 1)
    BY DivisionWithRemainder
  <1>2. (a + i) % c = (r + i) % c
    <2>1. i \in Int OBVIOUS
    <2> QED BY <2>1, ReduceSummand
  <1> HIDE DEF r
  <1>3. CASE r + i < c
    <2>1. r + i \in 0..(c - 1) BY <1>1, <1>3
    <2>2. (r + i) % c = r + i BY <2>1, SmallRemainder
    <2> QED BY <1>2, <1>3, <2>2 DEF r
  <1>4. CASE ~(r + i < c)
    <2>1. (r + i) - c \in 0..(c - 1) BY <1>1, <1>4
    <2>2. r + i = (c * 1) + ((r + i) - c) BY <1>1
    <2>3. ((c * 1) + ((r + i) - c)) % c = (r + i) - c BY <2>1, RemainderUnique
    <2> QED BY <1>2, <1>4, <2>2, <2>3 DEF r
  <1> QED BY <1>3, <1>4

(* Within a window of c consecutive counters, slots are distinct. *)
LEMMA WindowDistinct ==
    ASSUME NEW c \in Nat \ {0}, NEW a \in Int,
           NEW i \in 0..(c - 1), NEW j \in 0..(c - 1), i # j
    PROVE  (a + i) % c # (a + j) % c
  <1> DEFINE r == a % c
  <1>1. r \in 0..(c - 1)
    BY DivisionWithRemainder
  <1>0. i \in 0..c /\ j \in 0..c
    OBVIOUS
  <1>2. (a + i) % c = IF r + i < c THEN r + i ELSE (r + i) - c
    BY <1>0, OneReduction
  <1>3. (a + j) % c = IF r + j < c THEN r + j ELSE (r + j) - c
    BY <1>0, OneReduction
  <1> HIDE DEF r
  <1> QED BY <1>1, <1>2, <1>3

-------------------------------------------------------------------------------
(* The modulus of the counters is larger than the capacity. *)
LEMMA WrapFact == Wrap \in Nat \ {0} /\ Cap < Wrap /\ Cap \in Nat \ {0}
  <1>1. PICK k \in 2..Wrap : Wrap = k * Cap
    BY CapAssumption
  <1> QED BY <1>1, CapAssumption

(* Reducing a counter at Wrap does not move its slot. *)
LEMMA WrapKeepsSlot ==
    ASSUME NEW a \in Int
    PROVE  (a % Wrap) % Cap = a % Cap
  <1>1. PICK k \in 2..Wrap : Wrap = k * Cap
    BY CapAssumption
  <1>2. k \in Nat \ {0}
    BY <1>1, CapAssumption
  <1> QED BY <1>1, <1>2, CapAssumption, ReduceByMultiple

(* The two segments of a copy are the consecutive slots of the ring. *)
LEMMA SlotIsModulo ==
    ASSUME NEW c \in Int, NEW n \in 0..Cap, NEW i \in 0..(n - 1)
    PROVE  /\ SlotAt(c, n, i) = (c + i) % Cap
           /\ SlotAt(c, n, i) \in 0..(Cap - 1)
  <1> DEFINE r == c % Cap
  <1>1. Cap \in Nat \ {0} /\ i \in 0..Cap
    BY CapAssumption
  <1>2. r \in 0..(Cap - 1)
    BY <1>1, DivisionWithRemainder
  <1>3. (c + i) % Cap = IF r + i < Cap THEN r + i ELSE (r + i) - Cap
    BY <1>1, OneReduction
  <1>4. SlotAt(c, n, i) = IF i < Least(Cap - r, n) THEN r + i ELSE i - Least(Cap - r, n)
    BY DEF SlotAt, Mask
  <1> HIDE DEF r
  <1>5. Least(Cap - r, n) = IF Cap - r < n THEN Cap - r ELSE n
    BY DEF Least
  <1> QED BY <1>1, <1>2, <1>3, <1>4, <1>5

(* head is tail plus the fill level, in the counters' arithmetic. *)
LEMMA HeadFromTail ==
    ASSUME head \in 0..(Wrap - 1), tail \in 0..(Wrap - 1)
    PROVE  /\ Fill \in 0..(Wrap - 1)
           /\ head = (tail + Fill) % Wrap
           /\ \A i \in Int : (head + i) % Cap = ((tail + Fill) + i) % Cap
  <1>1. Wrap \in Nat \ {0} /\ Cap \in Nat \ {0}
    BY WrapFact
  <1>2. head - tail \in Int /\ head \in Int /\ tail \in Int
    BY <1>1
  <1>3. Fill \in 0..(Wrap - 1)
    BY <1>1, <1>2, DivisionWithRemainder DEF Fill
  <1>4. (Fill + tail) % Wrap = ((head - tail) + tail) % Wrap
    BY <1>1, <1>2, ReduceSummand DEF Fill
  <1>5. (head - tail) + tail = head /\ Fill + tail = tail + Fill
    BY <1>2, <1>3, <1>1
  <1>6. head % Wrap = head
    BY <1>1, SmallRemainder
  <1>7. head = (tail + Fill) % Wrap
    BY <1>4, <1>5, <1>6
  <1>8. ASSUME NEW i \in Int
        PROVE  (head + i) % Cap = ((tail + Fill) + i) % Cap
    <2>1. tail + Fill \in Int
      BY <1>1, <1>2, <1>3
    <2>2. head % Cap = (tail + Fill) % Cap
      BY <1>7, <2>1, WrapKeepsSlot
    <2>3. (head + i) % Cap = ((head % Cap) + i) % Cap
      BY <1>1, <1>2, ReduceSummand
    <2>4. ((tail + Fill) + i) % Cap = (((tail + Fill) % Cap) + i) % Cap
      BY <1>1, <2>1, ReduceSummand
    <2> QED BY <2>2, <2>3, <2>4
  <1> QED BY <1>3, <1>7, <1>8

(* A write in progress stays clear of every unread slot. *)
LEMMA WriteClearOfUnread ==
    ASSUME TypeOK, ClaimsStayValid,
           NEW i \in 0..(wn - 1), NEW j \in 0..(Fill - 1)
    PROVE  SlotAt(head, wn, i) # (tail + j) % Cap
  <1>1. /\ Cap \in Nat \ {0} /\ Wrap \in Nat \ {0}
        /\ head \in 0..(Wrap - 1) /\ tail \in 0..(Wrap - 1) /\ wn \in 0..Cap
    BY WrapFact DEF TypeOK
  <1>2. Fill \in 0..(Wrap - 1) /\ (head + i) % Cap = ((tail + Fill) + i) % Cap
    BY <1>1, HeadFromTail
  <1>3. SlotAt(head, wn, i) = (head + i) % Cap
    BY <1>1, SlotIsModulo
  <1>4. Fill + wn <= Cap
    BY DEF ClaimsStayValid
  <1> HIDE DEF Fill
  <1>5. /\ Fill + i \in 0..(Cap - 1) /\ j \in 0..(Cap - 1) /\ Fill + i # j
        /\ (tail + Fill) + i = tail + (Fill + i) /\ tail \in Int
    BY <1>1, <1>2, <1>4
  <1>6. (tail + (Fill + i)) % Cap # (tail + j) % Cap
    BY <1>1, <1>5, WindowDistinct
  <1> QED BY <1>2, <1>3, <1>5, <1>6

-------------------------------------------------------------------------------
(* The inductive invariant. *)

LEMMA InitIInv == Init => IInv
  <1> SUFFICES ASSUME Init PROVE IInv
    OBVIOUS
  <1>1. Cap \in Nat \ {0} /\ Wrap \in Nat \ {0}
    BY WrapFact
  <1>2. TypeOK
    BY <1>1, ZeroAssumption, BatchAssumption DEF Init, TypeOK
  <1>3. Fill = 0
    BY <1>1, SmallRemainder DEF Init, Fill
  <1> QED BY <1>1, <1>2, <1>3 DEF Init, IInv, ClaimsStayValid, CopiesAreFaithful

LEMMA StepWriteBegin ==
    ASSUME IInv, NEW batch \in Batches, WriteBegin(batch)
    PROVE  IInv'
  <1> DEFINE n == Least(Len(batch), Cap - Fill)
  <1>1. /\ wn = 0 /\ n > 0 /\ wn' = n /\ wleft' = 0..(n - 1) /\ wsrc' = batch
        /\ UNCHANGED <<buf, head, tail, rn, rleft, dst, taken>>
    BY DEF WriteBegin, consumer, FreeSpace
  <1>2. batch \in Seq(Data) /\ Len(batch) \in Nat
    BY BatchAssumption DEF Batches
  <1>3. Fill' = Fill /\ Fill \in 0..(Wrap - 1)
    BY <1>1, HeadFromTail DEF Fill, IInv, TypeOK
  <1>4. n = IF Len(batch) < Cap - Fill THEN Len(batch) ELSE Cap - Fill
    BY DEF Least
  <1> HIDE DEF n
  <1>5. n \in 0..Cap /\ n <= Len(batch) /\ Fill + n <= Cap
    BY <1>1, <1>2, <1>3, <1>4, WrapFact DEF IInv, ClaimsStayValid
  <1>6. TypeOK'
    BY <1>1, <1>2, <1>5, WrapFact DEF IInv, TypeOK
  <1>7. ClaimsStayValid'
    BY <1>1, <1>3, <1>5 DEF IInv, ClaimsStayValid
  <1>8. CopiesAreFaithful'
    BY <1>1, WrapFact DEF IInv, CopiesAreFaithful, SlotAt, Mask
  <1> QED BY <1>6, <1>7, <1>8 DEF IInv

LEMMA StepWriteCopy ==
    ASSUME IInv, NEW i \in wleft, WriteCopy(i)
    PROVE  IInv'
  <1> DEFINE s == SlotAt(head, wn, i)
  <1>1. /\ buf' = [buf EXCEPT ![s] = wsrc[i + 1]]
        /\ wleft' = wleft \ {i}
        /\ UNCHANGED <<head, wsrc, wn, tail, rn, rleft, dst, taken>>
    BY DEF WriteCopy, consumer
  <1>2. TypeOK /\ ClaimsStayValid /\ CopiesAreFaithful
    BY DEF IInv
  <1>3. i \in 0..(wn - 1) /\ wn \in 0..Cap /\ head \in Int /\ tail \in Int /\ rn \in 0..Cap
    BY <1>2, WrapFact DEF TypeOK
  <1>4. s \in 0..(Cap - 1) /\ s = (head + i) % Cap
    BY <1>3, SlotIsModulo
  <1>5. wsrc[i + 1] \in Data
    BY <1>2, <1>3 DEF TypeOK
  <1>6. Fill' = Fill /\ Fill \in 0..(Wrap - 1)
    BY <1>1, <1>2, HeadFromTail DEF Fill, TypeOK
  <1>7. TypeOK'
    BY <1>1, <1>2, <1>4, <1>5 DEF TypeOK
  <1>8. ClaimsStayValid'
    BY <1>1, <1>2, <1>6 DEF ClaimsStayValid
  <1>9. ASSUME NEW j \in (0..(wn - 1)) \ wleft'
        PROVE  buf'[SlotAt(head, wn, j)] = wsrc[j + 1]
    <2>1. CASE j = i
      BY <1>1, <1>2, <1>4, <2>1 DEF TypeOK
    <2>2. CASE j # i
      <3>1. j \in (0..(wn - 1)) \ wleft
        BY <1>1, <2>2
      <3>2. SlotAt(head, wn, j) = (head + j) % Cap
        BY <1>3, <3>1, SlotIsModulo
      <3>3. i \in 0..(Cap - 1) /\ j \in 0..(Cap - 1)
        BY <1>3, <3>1, WrapFact
      <3>4. SlotAt(head, wn, j) # s
        BY <1>3, <1>4, <2>2, <3>2, <3>3, WindowDistinct, WrapFact
      <3> QED BY <1>1, <1>2, <3>1, <3>4 DEF CopiesAreFaithful
    <2> QED BY <2>1, <2>2
  <1>10. ASSUME NEW j \in (0..(rn - 1)) \ rleft
         PROVE  dst[j + 1] = buf'[SlotAt(tail, rn, j)]
    <2>1. SlotAt(tail, rn, j) = (tail + j) % Cap /\ SlotAt(tail, rn, j) \in 0..(Cap - 1)
      BY <1>3, SlotIsModulo
    <2>2. j \in 0..(Fill - 1)
      BY <1>2, <1>3, <1>6, WrapFact DEF ClaimsStayValid
    <2>3. s # (tail + j) % Cap
      BY <1>2, <1>3, <2>2, WriteClearOfUnread
    <2> QED BY <1>1, <1>2, <2>1, <2>3 DEF CopiesAreFaithful, TypeOK
  <1>11. CopiesAreFaithful'
    BY <1>1, <1>2, <1>9, <1>10 DEF CopiesAreFaithful
  <1> QED BY <1>7, <1>8, <1>11 DEF IInv

(* Advancing one of two wrapped counters moves their difference by as much. *)
LEMMA AdvanceHead ==
    ASSUME NEW h \in 0..(Wrap - 1), NEW t \in 0..(Wrap - 1), NEW n \in Nat,
           ((h - t) % Wrap) + n < Wrap
    PROVE  /\ Advance(h, n) \in 0..(Wrap - 1)
           /\ (Advance(h, n) - t) % Wrap = ((h - t) % Wrap) + n
  <1>1. Wrap \in Nat \ {0}
    BY WrapFact
  <1>2. h + n \in Int /\ h - t \in Int /\ n \in Int /\ (0 - t) \in Int
    BY <1>1
  <1>3. Advance(h, n) \in 0..(Wrap - 1)
    BY <1>1, <1>2, DivisionWithRemainder DEF Advance
  <1>4. (((h + n) % Wrap) + (0 - t)) % Wrap = ((h + n) + (0 - t)) % Wrap
    BY <1>1, <1>2, ReduceSummand
  <1>5. (((h - t) % Wrap) + n) % Wrap = ((h - t) + n) % Wrap
    BY <1>1, <1>2, ReduceSummand
  <1>6. (h - t) % Wrap \in 0..(Wrap - 1)
    BY <1>1, <1>2, DivisionWithRemainder
  <1>7. (((h - t) % Wrap) + n) % Wrap = ((h - t) % Wrap) + n
    <2>1. ((h - t) % Wrap) + n \in 0..(Wrap - 1)
      BY <1>1, <1>6
    <2> QED BY <1>1, <2>1, SmallRemainder
  <1>8. (h + n) + (0 - t) = (h - t) + n
    BY <1>1
  <1>9. Advance(h, n) - t = ((h + n) % Wrap) + (0 - t)
    BY <1>1, <1>3 DEF Advance
  <1> QED BY <1>3, <1>4, <1>5, <1>7, <1>8, <1>9

LEMMA AdvanceTail ==
    ASSUME NEW h \in 0..(Wrap - 1), NEW t \in 0..(Wrap - 1), NEW n \in Nat,
           n <= (h - t) % Wrap
    PROVE  /\ Advance(t, n) \in 0..(Wrap - 1)
           /\ (h - Advance(t, n)) % Wrap = ((h - t) % Wrap) - n
  <1> DEFINE f == (h - t) % Wrap
             u == (t + n) % Wrap
             p == (t + n) \div Wrap
  <1>1. Wrap \in Nat \ {0}
    BY WrapFact
  <1>2. t + n \in Int /\ h - t \in Int
    BY <1>1
  <1>3. u \in 0..(Wrap - 1) /\ t + n = (Wrap * p) + u /\ p \in Int
    BY <1>1, <1>2, DivisionWithRemainder
  <1>4. f \in 0..(Wrap - 1) /\ n <= f
    BY <1>1, <1>2, DivisionWithRemainder
  <1>5. (f + (0 - n)) % Wrap = ((h - t) + (0 - n)) % Wrap
    <2>1. (0 - n) \in Int
      OBVIOUS
    <2> QED BY <1>1, <1>2, <2>1, ReduceSummand
  <1>6. Advance(t, n) = u
    BY DEF Advance
  <1> HIDE DEF f, u, p
  <1>7. (f + (0 - n)) % Wrap = f - n
    <2>1. f + (0 - n) \in 0..(Wrap - 1) /\ f + (0 - n) = f - n
      BY <1>1, <1>4
    <2> QED BY <1>1, <2>1, SmallRemainder
  <1>8. h - u = (Wrap * p) + ((h - t) + (0 - n))
    BY <1>1, <1>2, <1>3
  <1>9. ((Wrap * p) + ((h - t) + (0 - n))) % Wrap = ((h - t) + (0 - n)) % Wrap
    <2>1. (h - t) + (0 - n) \in Int
      BY <1>2
    <2> QED BY <1>1, <1>3, <2>1, AddMultiple
  <1> QED BY <1>3, <1>5, <1>6, <1>7, <1>8, <1>9 DEF f

LEMMA StepWritePublish ==
    ASSUME IInv, WritePublish
    PROVE  IInv' /\ Fill' = Fill + wn
  <1>1. /\ wn > 0 /\ wleft = {} /\ head' = Advance(head, wn) /\ wn' = 0 /\ wsrc' = <<>>
        /\ UNCHANGED <<buf, wleft, tail, rn, rleft, dst, taken>>
    BY DEF WritePublish, consumer
  <1>2. /\ head \in 0..(Wrap - 1) /\ tail \in 0..(Wrap - 1) /\ wn \in Nat
        /\ Fill + wn <= Cap /\ Fill \in 0..(Wrap - 1)
    BY HeadFromTail, WrapFact DEF IInv, TypeOK, ClaimsStayValid
  <1>3. Fill + wn < Wrap
    BY <1>2, WrapFact
  <1>4. head' \in 0..(Wrap - 1) /\ Fill' = Fill + wn
    BY <1>1, <1>2, <1>3, AdvanceHead DEF Fill
  <1>5. TypeOK'
    BY <1>1, <1>4, WrapFact DEF IInv, TypeOK
  <1>6. ClaimsStayValid'
    BY <1>1, <1>2, <1>4, WrapFact DEF IInv, ClaimsStayValid, TypeOK
  <1>7. CopiesAreFaithful'
    BY <1>1, WrapFact DEF IInv, CopiesAreFaithful, SlotAt, Mask, TypeOK
  <1> QED BY <1>4, <1>5, <1>6, <1>7 DEF IInv

LEMMA StepReadBegin ==
    ASSUME IInv, NEW want \in 1..MaxBatch, ReadBegin(want)
    PROVE  IInv'
  <1> DEFINE n == Least(want, Fill)
  <1>1. /\ rn = 0 /\ n > 0 /\ rn' = n /\ rleft' = 0..(n - 1)
        /\ dst' = [i \in 1..n |-> Zero]
        /\ UNCHANGED <<buf, head, wsrc, wn, wleft, tail, taken>>
    BY DEF ReadBegin, producer
  <1>2. Fill' = Fill /\ Fill \in 0..(Wrap - 1)
    BY <1>1, HeadFromTail DEF Fill, IInv, TypeOK
  <1>3. n = IF want < Fill THEN want ELSE Fill
    BY DEF Least
  <1> HIDE DEF n
  <1>4. n \in 1..Cap /\ n <= Fill /\ n <= MaxBatch
    BY <1>1, <1>2, <1>3, WrapFact, BatchAssumption DEF IInv, ClaimsStayValid, TypeOK
  <1>5. TypeOK'
    BY <1>1, <1>4, WrapFact, ZeroAssumption, BatchAssumption DEF IInv, TypeOK
  <1>6. ClaimsStayValid'
    BY <1>1, <1>2, <1>4 DEF IInv, ClaimsStayValid
  <1>7. CopiesAreFaithful'
    BY <1>1 DEF IInv, CopiesAreFaithful, SlotAt, Mask
  <1> QED BY <1>5, <1>6, <1>7 DEF IInv

LEMMA StepReadCopy ==
    ASSUME IInv, NEW i \in rleft, ReadCopy(i)
    PROVE  IInv'
  <1> DEFINE s == SlotAt(tail, rn, i)
  <1>1. /\ dst' = [dst EXCEPT ![i + 1] = buf[s]] /\ rleft' = rleft \ {i}
        /\ UNCHANGED <<buf, head, wsrc, wn, wleft, tail, rn, taken>>
    BY DEF ReadCopy, producer
  <1>2. TypeOK /\ ClaimsStayValid /\ CopiesAreFaithful
    BY DEF IInv
  <1>3. tail \in Int /\ rn \in 0..Cap /\ i \in 0..(rn - 1)
    BY <1>2, WrapFact DEF TypeOK
  <1>4. /\ s \in 0..(Cap - 1) /\ buf[s] \in Data
        /\ i \in Int /\ i + 1 \in 1..rn /\ rn \in Nat
    <2>1. s \in 0..(Cap - 1)
      BY <1>3, SlotIsModulo
    <2> QED BY <1>2, <1>3, <2>1, WrapFact DEF TypeOK
  <1> HIDE DEF s
  <1>5. /\ dst' \in [1..rn -> Data] /\ dst'[i + 1] = buf[s]
        /\ \A k \in 1..rn : k # i + 1 => dst'[k] = dst[k]
    <2>1. dst \in [1..rn -> Data]
      BY <1>2 DEF TypeOK
    <2> QED BY <1>1, <1>4, <2>1
  <1>6. TypeOK'
    BY <1>1, <1>2, <1>5 DEF TypeOK
  <1>7. ClaimsStayValid'
    BY <1>1, <1>2 DEF ClaimsStayValid, Fill
  <1>8. ASSUME NEW j \in (0..(rn - 1)) \ rleft'
        PROVE  dst'[j + 1] = buf[SlotAt(tail, rn, j)]
    <2>1. CASE j = i
      BY <1>5, <2>1 DEF s
    <2>2. CASE j # i
      <3>1. j \in (0..(rn - 1)) \ rleft /\ j + 1 \in 1..rn /\ j + 1 # i + 1
        BY <1>1, <1>4, <2>2
      <3>2. dst'[j + 1] = dst[j + 1]
        BY <1>5, <3>1
      <3> QED BY <1>2, <3>1, <3>2 DEF CopiesAreFaithful
    <2> QED BY <2>1, <2>2
  <1>9. CopiesAreFaithful'
    BY <1>1, <1>2, <1>8 DEF CopiesAreFaithful, SlotAt, Mask
  <1> QED BY <1>6, <1>7, <1>9 DEF IInv

LEMMA StepReadPublish ==
    ASSUME IInv, ReadPublish
    PROVE  IInv' /\ Fill' = Fill - rn
  <1>1. /\ rn > 0 /\ rleft = {} /\ tail' = Advance(tail, rn) /\ taken' = dst
        /\ rn' = 0 /\ dst' = <<>>
        /\ UNCHANGED <<buf, head, wsrc, wn, wleft, rleft>>
    BY DEF ReadPublish, producer
  <1>2. /\ head \in 0..(Wrap - 1) /\ tail \in 0..(Wrap - 1) /\ rn \in Nat
        /\ rn <= Fill /\ Fill \in 0..(Wrap - 1) /\ Fill + wn <= Cap
    BY HeadFromTail, WrapFact DEF IInv, TypeOK, ClaimsStayValid
  <1>3. tail' \in 0..(Wrap - 1) /\ Fill' = Fill - rn
    BY <1>1, <1>2, AdvanceTail DEF Fill
  <1>4. TypeOK'
    BY <1>1, <1>2, <1>3, WrapFact, BatchAssumption DEF IInv, TypeOK
  <1>5. ClaimsStayValid'
    BY <1>1, <1>2, <1>3, WrapFact DEF IInv, ClaimsStayValid, TypeOK
  <1>6. CopiesAreFaithful'
    BY <1>1 DEF IInv, CopiesAreFaithful, SlotAt, Mask
  <1> QED BY <1>3, <1>4, <1>5, <1>6 DEF IInv

LEMMA NextIInv == IInv /\ [Next]_vars => IInv'
  <1> SUFFICES ASSUME IInv, [Next]_vars PROVE IInv'
    OBVIOUS
  <1>1. ASSUME Write PROVE IInv'
    BY <1>1, StepWriteBegin, StepWriteCopy, StepWritePublish DEF Write
  <1>2. ASSUME Read PROVE IInv'
    BY <1>2, StepReadBegin, StepReadCopy, StepReadPublish DEF Read
  <1>3. ASSUME UNCHANGED vars PROVE IInv'
    BY <1>3 DEF IInv, TypeOK, ClaimsStayValid, CopiesAreFaithful, Fill, SlotAt, Mask,
                vars, producer, consumer
  <1> QED BY <1>1, <1>2, <1>3 DEF Next

(* The ring never overwrites unread data and never reads unpublished data  *)
(* (spsc_ring.hpp:56 and :90), whatever the capacity and the counter width.*)
THEOREM RingInvariant == Spec => []IInv
  <1> QED BY InitIInv, NextIInv, PTL DEF Spec

(* Types: the two counters stay below the width they wrap at               *)
(* (spsc_ring.hpp:56).                                                     *)
THEOREM RingTypes == Spec => []TypeOK
  <1>1. IInv => TypeOK
    BY DEF IInv
  <1> QED BY <1>1, RingInvariant, PTL

(* What a side claimed before its memcpy is still there for it to use after *)
(* the other side's steps.                                                 *)
THEOREM RingClaims == Spec => []ClaimsStayValid
  <1>1. IInv => ClaimsStayValid
    BY DEF IInv
  <1> QED BY <1>1, RingInvariant, PTL

(* The two memcpys never touch the same slot: a write is clear of every    *)
(* unread slot, and a read stays within the unread ones.                   *)
THEOREM RingRaceFree == Spec => []NoSlotRace
  <1>1. IInv => NoSlotRace
    <2> SUFFICES ASSUME IInv, NEW i \in 0..(wn - 1), NEW j \in 0..(rn - 1)
                 PROVE  SlotAt(head, wn, i) # SlotAt(tail, rn, j)
      BY DEF NoSlotRace, SlotsOf
    <2>1. TypeOK /\ ClaimsStayValid /\ tail \in Int /\ rn \in 0..Cap
      BY WrapFact DEF IInv, TypeOK
    <2>2. SlotAt(tail, rn, j) = (tail + j) % Cap
      BY <2>1, SlotIsModulo
    <2>3. j \in 0..(Fill - 1)
      <3>1. Fill \in 0..(Wrap - 1)
        BY <2>1, HeadFromTail DEF TypeOK
      <3> QED BY <2>1, <3>1, WrapFact DEF ClaimsStayValid
    <2> QED BY <2>1, <2>2, <2>3, WriteClearOfUnread
  <1> QED BY <1>1, RingInvariant, PTL

-------------------------------------------------------------------------------
(* Refinement of StreamFifo. *)

(* A window of n slots of a buffer, read from counter t on, is a sequence. *)
WindowOf(b, t, n) == [i \in 1..n |-> b[((t + i) - 1) % Cap]]

LEMMA WindowIsSeq ==
    ASSUME NEW b \in [0..(Cap - 1) -> Data], NEW t \in Int, NEW n \in Nat
    PROVE  /\ WindowOf(b, t, n) \in Seq(Data) /\ Len(WindowOf(b, t, n)) = n
           /\ \A k \in 1..n : WindowOf(b, t, n)[k] = b[((t + k) - 1) % Cap]
  <1>1. ASSUME NEW k \in 1..n
        PROVE  b[((t + k) - 1) % Cap] \in Data
    <2>1. (t + k) - 1 \in Int
      OBVIOUS
    <2>2. ((t + k) - 1) % Cap \in 0..(Cap - 1)
      BY <2>1, WrapFact, DivisionWithRemainder
    <2> QED BY <2>2
  <1>2. WindowOf(b, t, n) \in [1..n -> Data]
    BY <1>1 DEF WindowOf
  <1>3. \A k \in 1..n : WindowOf(b, t, n)[k] = b[((t + k) - 1) % Cap]
    BY DEF WindowOf
  <1>4. WindowOf(b, t, n) \in Seq(Data)
    BY <1>2, SeqDef
  <1>5. Len(WindowOf(b, t, n)) = n
    BY <1>2, <1>4, LenProperties
  <1> QED BY <1>3, <1>4, <1>5

LEMMA FillBound == IInv => Fill \in 0..Cap /\ tail \in Int /\ buf \in [0..(Cap - 1) -> Data]
  <1> SUFFICES ASSUME IInv PROVE Fill \in 0..Cap /\ tail \in Int /\ buf \in [0..(Cap - 1) -> Data]
    OBVIOUS
  <1>1. /\ head \in 0..(Wrap - 1) /\ tail \in 0..(Wrap - 1) /\ wn \in 0..Cap
        /\ buf \in [0..(Cap - 1) -> Data]
    BY DEF IInv, TypeOK
  <1>2. Fill \in 0..(Wrap - 1) /\ Fill + wn <= Cap
    BY <1>1, HeadFromTail DEF IInv, ClaimsStayValid
  <1> QED BY <1>1, <1>2, WrapFact

(* The unread slots, read from tail, are a sequence as long as the fill.   *)
LEMMA ContentsFact ==
    ASSUME IInv
    PROVE  /\ Fill \in 0..Cap
           /\ Contents \in Seq(Data) /\ Len(Contents) = Fill
           /\ \A k \in 1..Fill : Contents[k] = buf[((tail + k) - 1) % Cap]
  <1>1. Fill \in 0..Cap /\ Fill \in Nat /\ tail \in Int /\ buf \in [0..(Cap - 1) -> Data]
    BY FillBound, WrapFact
  <1>2. Contents = WindowOf(buf, tail, Fill)
    BY DEF Contents, WindowOf
  <1> QED BY <1>1, <1>2, WindowIsSeq

LEMMA InitFifo == Init => Fifo!Init
  <1> SUFFICES ASSUME Init PROVE Contents = <<>> /\ wsrc = <<>> /\ taken = <<>>
    BY DEF Fifo!Init
  <1>1. Fill = 0
    BY WrapFact, SmallRemainder DEF Init, Fill
  <1> QED BY <1>1 DEF Init, Contents

(* Before its publication a write is invisible. *)
LEMMA WriteCopyHidden ==
    ASSUME IInv, NEW i \in wleft, WriteCopy(i)
    PROVE  Contents' = Contents /\ taken' = taken /\ wsrc' = wsrc
  <1> DEFINE s == SlotAt(head, wn, i)
  <1>1. /\ buf' = [buf EXCEPT ![s] = wsrc[i + 1]]
        /\ UNCHANGED <<head, tail, taken, wsrc>>
    BY DEF WriteCopy, consumer
  <1>2. TypeOK /\ ClaimsStayValid /\ i \in 0..(wn - 1) /\ tail \in Int /\ Fill \in 0..Cap
    BY ContentsFact, WrapFact DEF IInv, TypeOK
  <1>3. ASSUME NEW k \in 1..Fill
        PROVE  buf'[((tail + k) - 1) % Cap] = buf[((tail + k) - 1) % Cap]
    <2>1. k - 1 \in 0..(Fill - 1) /\ (tail + k) - 1 = tail + (k - 1) /\ (tail + k) - 1 \in Int
      BY <1>2
    <2>2. s # (tail + (k - 1)) % Cap
      BY <1>2, <2>1, WriteClearOfUnread
    <2>3. ((tail + k) - 1) % Cap \in 0..(Cap - 1)
      BY <2>1, WrapFact, DivisionWithRemainder
    <2> QED BY <1>1, <1>2, <2>1, <2>2, <2>3 DEF TypeOK
  <1>4. Fill' = Fill /\ tail' = tail
    BY <1>1 DEF Fill
  <1>5. Contents' = [k \in 1..Fill |-> buf'[((tail + k) - 1) % Cap]]
    BY <1>4 DEF Contents
  <1>6. Contents = [k \in 1..Fill |-> buf[((tail + k) - 1) % Cap]]
    BY DEF Contents
  <1> QED BY <1>1, <1>3, <1>5, <1>6

(* Publishing appends exactly the accepted prefix of the batch. *)
LEMMA WritePublishPuts ==
    ASSUME IInv, WritePublish
    PROVE  \E n \in 1..MaxBatch : Fifo!Put(n)
  <1> DEFINE batch == SubSeq(wsrc, 1, wn)
  <1>1. /\ wn > 0 /\ wleft = {} /\ head' = Advance(head, wn) /\ wsrc' = <<>>
        /\ UNCHANGED <<buf, tail, taken>>
    BY DEF WritePublish, consumer
  <1>2. IInv' /\ Fill' = Fill + wn
    BY StepWritePublish
  <1>3. /\ wn \in 1..Cap /\ wsrc \in Batches /\ wsrc \in Seq(Data) /\ wn <= Len(wsrc)
        /\ head \in Int /\ head \in 0..(Wrap - 1) /\ tail \in 0..(Wrap - 1) /\ tail \in Int
        /\ \A i \in 0..(wn - 1) : buf[SlotAt(head, wn, i)] = wsrc[i + 1]
    BY <1>1, WrapFact DEF IInv, TypeOK, CopiesAreFaithful
  <1>4. /\ batch \in [1..wn -> Data] /\ batch \in Seq(Data) /\ Len(batch) = wn
        /\ \A k \in 1..wn : batch[k] = wsrc[k]
    <2>1. \A k \in 1..wn : wsrc[k] \in Data
      BY <1>3
    <2>2. 1 \in Int /\ wn \in Int /\ 1 <= wn /\ (wn - 1) + 1 = wn
      BY <1>3, WrapFact
    <2>3. /\ SubSeq(wsrc, 1, wn) \in Seq(Data) /\ Len(SubSeq(wsrc, 1, wn)) = (wn - 1) + 1
          /\ \A k \in 1..((wn - 1) + 1) : SubSeq(wsrc, 1, wn)[k] = wsrc[(1 + k) - 1]
      BY <2>1, <2>2, SubSeqProperties
    <2>4. SubSeq(wsrc, 1, wn) \in [1..wn -> Data]
      BY <2>2, <2>3, LenProperties
    <2> QED BY <2>2, <2>3, <2>4
  <1>5. wn \in 1..MaxBatch
    <2>1. PICK n \in 1..MaxBatch : wsrc \in [1..n -> Data]
      BY <1>3 DEF Batches
    <2>2. Len(wsrc) = n
      BY <2>1
    <2> QED BY <1>3, <2>1, <2>2, BatchAssumption
  <1> HIDE DEF batch
  <1>6. /\ Fill \in 0..Cap /\ Contents \in Seq(Data) /\ Len(Contents) = Fill
        /\ \A k \in 1..Fill : Contents[k] = buf[((tail + k) - 1) % Cap]
    BY ContentsFact
  <1>7. /\ Contents' \in Seq(Data) /\ Len(Contents') = Fill + wn
        /\ \A k \in 1..(Fill + wn) : Contents'[k] = buf[((tail + k) - 1) % Cap]
    <2>1. Contents' = WindowOf(buf', tail', Fill')
      BY DEF Contents, WindowOf
    <2>2. Fill + wn \in Nat /\ tail \in Int /\ buf \in [0..(Cap - 1) -> Data]
      BY <1>3, <1>6, FillBound, WrapFact
    <2> QED BY <1>1, <1>2, <2>1, <2>2, WindowIsSeq
  <1>8. ASSUME NEW k \in 1..(Fill + wn)
        PROVE  buf[((tail + k) - 1) % Cap] = IF k <= Fill THEN Contents[k] ELSE batch[k - Fill]
    <2>1. CASE k <= Fill
      BY <1>6, <2>1
    <2>2. CASE ~(k <= Fill)
      <3> DEFINE i == (k - Fill) - 1
      <3>1. /\ i \in 0..(wn - 1) /\ (tail + Fill) + i = (tail + k) - 1 /\ i + 1 = k - Fill
            /\ i \in Int /\ wn \in 0..Cap
        BY <1>3, <1>6, <2>2
      <3> HIDE DEF i
      <3>2. SlotAt(head, wn, i) = (head + i) % Cap
        BY <1>3, <3>1, SlotIsModulo
      <3>3. (head + i) % Cap = ((tail + Fill) + i) % Cap
        BY <1>3, <3>1, HeadFromTail
      <3>4. i + 1 \in 1..wn
        BY <1>3, <3>1
      <3> QED BY <1>3, <1>4, <2>2, <3>1, <3>2, <3>3, <3>4
    <2> QED BY <2>1, <2>2
  <1>9. Contents' = Contents \o batch
    <2>1. /\ Contents \o batch \in Seq(Data) /\ Len(Contents \o batch) = Fill + wn
          /\ \A k \in 1..(Fill + wn) :
                (Contents \o batch)[k] = IF k <= Fill THEN Contents[k] ELSE batch[k - Fill]
      BY <1>4, <1>6, ConcatProperties, Zenon
    <2>2. \A k \in 1..(Fill + wn) : Contents'[k] = (Contents \o batch)[k]
      BY <1>7, <1>8, <2>1
    <2> QED BY <1>7, <2>1, <2>2, SeqEqual
  <1>10. Len(Contents) + wn <= Cap
    BY <1>6 DEF IInv, ClaimsStayValid
  <1>11. Fifo!Put(wn)
    BY <1>1, <1>3, <1>9, <1>10 DEF Fifo!Put, batch
  <1> QED BY <1>5, <1>11

(* Publishing a read hands over exactly the oldest elements. *)
LEMMA ReadPublishTakes ==
    ASSUME IInv, ReadPublish
    PROVE  \E n \in 1..MaxBatch : Fifo!Take(n)
  <1>1. /\ rn > 0 /\ rleft = {} /\ tail' = Advance(tail, rn) /\ taken' = dst
        /\ UNCHANGED <<buf, head, wsrc>>
    BY DEF ReadPublish, producer
  <1>2. IInv' /\ Fill' = Fill - rn
    BY StepReadPublish
  <1>3. /\ rn \in 1..Cap /\ rn <= Fill /\ tail \in Int /\ dst \in [1..rn -> Data]
        /\ \A i \in 0..(rn - 1) : dst[i + 1] = buf[SlotAt(tail, rn, i)]
    BY <1>1, WrapFact DEF IInv, TypeOK, ClaimsStayValid, CopiesAreFaithful
  <1>4. /\ Fill \in 0..Cap /\ Contents \in Seq(Data) /\ Len(Contents) = Fill
        /\ \A k \in 1..Fill : Contents[k] = buf[((tail + k) - 1) % Cap]
    BY ContentsFact
  <1>5. ASSUME NEW k \in 1..rn
        PROVE  dst[k] = Contents[k]
    <2>1. k - 1 \in 0..(rn - 1) /\ (k - 1) + 1 = k /\ rn \in 0..Cap /\ k \in 1..Fill
          /\ tail + (k - 1) = (tail + k) - 1
      BY <1>3, <1>4
    <2>2. SlotAt(tail, rn, k - 1) = (tail + (k - 1)) % Cap
      BY <1>3, <2>1, SlotIsModulo
    <2>3. dst[(k - 1) + 1] = buf[SlotAt(tail, rn, k - 1)]
      BY <1>3, <2>1
    <2> QED BY <1>4, <2>1, <2>2, <2>3
  <1>6. taken' = SubSeq(Contents, 1, rn)
    <2>1. \A k \in 1..rn : Contents[k] \in Data
      BY <1>3, <1>5
    <2>2. /\ SubSeq(Contents, 1, rn) \in Seq(Data) /\ Len(SubSeq(Contents, 1, rn)) = rn
          /\ \A k \in 1..rn : SubSeq(Contents, 1, rn)[k] = Contents[k]
      <3>1. 1 \in Int /\ rn \in Int /\ 1 <= rn /\ (rn - 1) + 1 = rn
        BY <1>3, WrapFact
      <3>2. /\ SubSeq(Contents, 1, rn) \in Seq(Data) /\ Len(SubSeq(Contents, 1, rn)) = (rn - 1) + 1
            /\ \A k \in 1..((rn - 1) + 1) : SubSeq(Contents, 1, rn)[k] = Contents[(1 + k) - 1]
        BY <2>1, <3>1, SubSeqProperties
      <3> QED BY <3>1, <3>2
    <2>3. dst \in Seq(Data) /\ Len(dst) = rn
      BY <1>3, WrapFact
    <2> QED BY <1>1, <1>5, <2>2, <2>3, SeqEqual
  <1>7. /\ Contents' \in Seq(Data) /\ Len(Contents') = Fill - rn
        /\ \A k \in 1..(Fill - rn) : Contents'[k] = buf'[((tail' + k) - 1) % Cap]
    <2>1. Contents' = WindowOf(buf', tail', Fill')
      BY DEF Contents, WindowOf
    <2>2. tail' \in Int /\ buf' \in [0..(Cap - 1) -> Data]
      <3>1. TypeOK'
        BY <1>2 DEF IInv
      <3> QED BY <3>1, WrapFact DEF TypeOK
    <2>3. Fill - rn \in Nat
      BY <1>3, <1>4, WrapFact
    <2> QED BY <1>2, <2>1, <2>2, <2>3, WindowIsSeq
  <1>8. ASSUME NEW k \in 1..(Fill - rn)
        PROVE  buf'[((tail' + k) - 1) % Cap] = Contents[rn + k]
    <2>1. /\ tail + rn \in Int /\ k - 1 \in Int /\ (tail + rn) % Wrap \in Int
          /\ rn + k \in 1..Fill
      BY <1>3, <1>4, WrapFact, DivisionWithRemainder
    <2>2. tail' = (tail + rn) % Wrap
      BY <1>1 DEF Advance
    <2>3. (tail' + k) - 1 = tail' + (k - 1) /\ tail' \in Int
      BY <2>1, <2>2
    <2>4. (tail' + (k - 1)) % Cap = ((tail' % Cap) + (k - 1)) % Cap
      BY <2>1, <2>3, ReduceSummand, WrapFact
    <2>5. ((tail + rn) + (k - 1)) % Cap = (((tail + rn) % Cap) + (k - 1)) % Cap
      BY <2>1, ReduceSummand, WrapFact
    <2>6. tail' % Cap = (tail + rn) % Cap
      BY <2>1, <2>2, WrapKeepsSlot
    <2>7. (tail + rn) + (k - 1) = (tail + (rn + k)) - 1
      BY <1>3
    <2>8. Contents[rn + k] = buf[((tail + (rn + k)) - 1) % Cap]
      BY <1>4, <2>1
    <2> QED BY <1>1, <2>3, <2>4, <2>5, <2>6, <2>7, <2>8
  <1>9. Contents' = SubSeq(Contents, rn + 1, Fill)
    <2>1. rn + 1 \in Int /\ Fill \in Int /\ (Fill - (rn + 1)) + 1 = Fill - rn
      BY <1>3, <1>4, WrapFact
    <2>2. \A k \in (rn + 1)..Fill : Contents[k] \in Data
      BY <1>3, <1>4, WrapFact
    <2>3. /\ SubSeq(Contents, rn + 1, Fill) \in Seq(Data)
          /\ Len(SubSeq(Contents, rn + 1, Fill)) = IF rn + 1 <= Fill THEN (Fill - (rn + 1)) + 1 ELSE 0
          /\ \A k \in 1..((Fill - (rn + 1)) + 1) :
                SubSeq(Contents, rn + 1, Fill)[k] = Contents[((rn + 1) + k) - 1]
      BY <2>1, <2>2, SubSeqProperties
    <2>4. Len(SubSeq(Contents, rn + 1, Fill)) = Fill - rn
      BY <1>3, <1>4, <2>1, <2>3, WrapFact
    <2>5. ASSUME NEW k \in 1..(Fill - rn)
          PROVE  SubSeq(Contents, rn + 1, Fill)[k] = Contents'[k]
      <3>1. ((rn + 1) + k) - 1 = rn + k
        BY <1>3, WrapFact
      <3> QED BY <1>7, <1>8, <2>1, <2>3, <3>1
    <2> QED BY <1>7, <2>3, <2>4, <2>5, SeqEqual
  <1>10. Fifo!Take(rn)
    BY <1>1, <1>3, <1>4, <1>6, <1>9 DEF Fifo!Take
  <1>11. rn \in 1..MaxBatch
    BY <1>3, WrapFact, BatchAssumption DEF IInv, TypeOK
  <1> QED BY <1>10, <1>11

(* Loading tail fixes the batch on offer and nothing else. *)
LEMMA WriteBeginOffers ==
    ASSUME IInv, NEW batch \in Batches, WriteBegin(batch)
    PROVE  batch \in Fifo!Batches /\ Fifo!Offer(batch)
  <1>1. wsrc = <<>> /\ wsrc' = batch /\ UNCHANGED <<buf, head, tail, taken>>
    BY DEF WriteBegin, consumer, IInv, CopiesAreFaithful
  <1>2. Contents' = Contents
    BY <1>1 DEF Contents, Fill
  <1> QED BY <1>1, <1>2 DEF Fifo!Offer, Fifo!Batches, Batches

(* Loading head and copying out of the ring show nothing. *)
LEMMA OthersHidden ==
    ASSUME \/ \E want \in 1..MaxBatch : ReadBegin(want)
           \/ \E i \in rleft : ReadCopy(i)
           \/ UNCHANGED vars
    PROVE  UNCHANGED Fifo!vars
  <1>1. UNCHANGED <<buf, head, tail, taken, wsrc>>
    BY DEF ReadBegin, ReadCopy, vars, producer, consumer
  <1>2. Contents' = Contents
    BY <1>1 DEF Contents, Fill
  <1> QED BY <1>1, <1>2 DEF Fifo!vars

(* The ring implements the bounded FIFO: nothing accepted is lost,         *)
(* duplicated or reordered, through any number of counter wraps.           *)
THEOREM RingIsFifo == Spec => IsFifo
  <1>1. Init => Fifo!Init
    BY InitFifo
  <1>2. IInv /\ [Next]_vars => [Fifo!Next]_(Fifo!vars)
    <2> SUFFICES ASSUME IInv, [Next]_vars PROVE [Fifo!Next]_(Fifo!vars)
      OBVIOUS
    <2>1. ASSUME NEW i \in wleft, WriteCopy(i) PROVE UNCHANGED Fifo!vars
      BY <2>1, WriteCopyHidden DEF Fifo!vars
    <2>2. ASSUME WritePublish PROVE Fifo!Next
      BY <2>2, WritePublishPuts DEF Fifo!Next
    <2>3. ASSUME ReadPublish PROVE Fifo!Next
      BY <2>3, ReadPublishTakes DEF Fifo!Next
    <2>4. ASSUME NEW batch \in Batches, WriteBegin(batch) PROVE Fifo!Next
      BY <2>4, WriteBeginOffers DEF Fifo!Next
    <2> QED BY <2>1, <2>2, <2>3, <2>4, OthersHidden DEF Next, Write, Read
  <1> QED BY <1>1, <1>2, RingInvariant, PTL DEF Spec, IsFifo, Fifo!Spec

-------------------------------------------------------------------------------
(* The oscilloscope's tap.                                                 *)

(* The samples stored so far are those numbered below Stored: a push that  *)
(* is half done has stored as far as put.                                  *)
Stored == IF wpc = "store" THEN put ELSE written

(* begun_ covers whatever is being stored, before it is.                   *)
Announced ==
    /\ wpc = "idle" => begun = written
    /\ wpc = "store" => begun = upto /\ written <= put /\ put <= upto

(* The buffer holds the last TapCap samples stored, each in its slot.      *)
HoldsTheNewest ==
    \A k \in 0..MaxWritten : k < Stored /\ Stored <= k + TapCap => cells[Slot(k)] = k

(* A copy in progress never runs past what had been published.             *)
CopyWithin == rpc = "copy" => end <= written /\ Len(copied) <= Avail

(* What has been copied is right, or begun_ already tells that it may not  *)
(* be.                                                                     *)
CopyTrueOrOverrun ==
    rpc = "copy" => Overrun \/ \A i \in 1..Len(copied) : copied[i] = Start + i - 1

(* The tap's inductive invariant.                                         *)
TapInv ==
    /\ TapTypeOK
    /\ Announced
    /\ HoldsTheNewest
    /\ CopyWithin
    /\ CopyTrueOrOverrun
    /\ SnapshotIsOneMoment

-------------------------------------------------------------------------------
(* A slot is one of the buffer's. *)
LEMMA SlotType == ASSUME NEW k \in Nat PROVE Slot(k) \in 0..TapCap - 1
  BY ScopeAssumption DEF Slot

(* Fewer than TapCap numbers apart, two samples have slots of their own. *)
LEMMA SlotsApart ==
    ASSUME NEW k \in Nat, NEW m \in Nat, k < m, m < k + TapCap
    PROVE  Slot(k) # Slot(m)
  <1> DEFINE i == 0
             j == m - k
  <1>1. /\ TapCap \in Nat \ {0} /\ k \in Int
        /\ i \in 0..(TapCap - 1) /\ j \in 0..(TapCap - 1) /\ i # j
    BY ScopeAssumption
  <1>2. k + i = k /\ k + j = m
    OBVIOUS
  <1> HIDE DEF i, j
  <1>3. (k + i) % TapCap # (k + j) % TapCap
    BY <1>1, WindowDistinct
  <1> QED BY <1>2, <1>3 DEF Slot

(* What is asked for is never more than the tap holds. *)
LEMMA ClampType == ASSUME NEW n \in Nat PROVE Clamp(n) \in 0..TapCap
  BY ScopeAssumption DEF Clamp

LEMMA InitTapInv == TapInit => TapInv
  BY ScopeAssumption DEF TapInit, TapInv, TapTypeOK, Announced, HoldsTheNewest, CopyWithin,
     CopyTrueOrOverrun, SnapshotIsOneMoment, NoResult, Samples, Stored

LEMMA AvailType ==
    ASSUME TapTypeOK
    PROVE  Avail \in Nat /\ Start \in Nat /\ Start + Avail = end /\ Avail <= TapCap
  BY ScopeAssumption DEF TapTypeOK, Samples, Avail, Start

-------------------------------------------------------------------------------
(* The writer's steps.  The reader's variables stand still, begun_ only    *)
(* grows, and with it the doubt about a copy in progress.                  *)
LEMMA PushStep ==
    ASSUME TapInv, NEW n \in 1..MaxPush, Push(n)
    PROVE  TapInv'
  <1> USE ScopeAssumption DEF TapInv, Push, tap, reader
  <1>0. Clamp(n) \in 0..TapCap
    BY ClampType
  <1>1. TapTypeOK'
    BY <1>0 DEF TapTypeOK, Announced, Samples
  <1>2. Announced'
    BY <1>0 DEF Announced, TapTypeOK, Samples
  <1>3. HoldsTheNewest'
    BY DEF HoldsTheNewest, Stored, Slot
  <1>4. CopyWithin'
    BY DEF CopyWithin, Avail
  <1>5. CopyTrueOrOverrun'
    <2>0. Start \in Nat
      <3>1. TapTypeOK BY DEF TapInv
      <3> QED BY <3>1, AvailType
    <2>1. begun' \in Nat /\ begun \in Nat /\ begun' >= begun
      BY <1>0 DEF Announced, TapTypeOK, Samples
    <2> QED BY <2>0, <2>1 DEF CopyTrueOrOverrun, Overrun, Start, Avail
  <1>6. SnapshotIsOneMoment'
    BY DEF SnapshotIsOneMoment
  <1> QED BY <1>1, <1>2, <1>3, <1>4, <1>5, <1>6

LEMMA StoreStep ==
    ASSUME TapInv, Store
    PROVE  TapInv'
  <1> USE ScopeAssumption DEF TapInv, Store, reader
  <1>0. put \in Nat /\ put \in Samples /\ Slot(put) \in 0..TapCap - 1
    <2>1. put \in Nat /\ put \in Samples BY DEF TapTypeOK, Samples
    <2> QED BY <2>1, SlotType
  <1>1. TapTypeOK'
    BY <1>0 DEF TapTypeOK, Samples
  <1>2. Announced'
    BY DEF Announced, TapTypeOK, Samples
  <1>3. HoldsTheNewest'
    <2> SUFFICES ASSUME NEW k \in 0..MaxWritten, k < put + 1, put + 1 <= k + TapCap
                 PROVE  cells'[Slot(k)] = k
      BY DEF HoldsTheNewest, Stored, Slot
    <2>1. k \in Nat /\ Slot(k) \in 0..TapCap - 1
      <3>1. k \in Nat BY DEF TapTypeOK, Samples
      <3> QED BY <3>1, SlotType
    <2>2. CASE k = put
      BY <1>0, <2>1, <2>2 DEF TapTypeOK
    <2>3. CASE k < put
      <3>1. Slot(k) # Slot(put)
        <4>1. put < k + TapCap BY <1>0, <2>1
        <4> QED BY <1>0, <2>1, <2>3, <4>1, SlotsApart
      <3>2. cells[Slot(k)] = k
        BY <1>0, <2>1, <2>3 DEF HoldsTheNewest, Stored
      <3> QED BY <1>0, <2>1, <3>1, <3>2 DEF TapTypeOK
    <2> QED BY <1>0, <2>1, <2>2, <2>3
  <1>4. CopyWithin'
    BY DEF CopyWithin, Avail
  <1>5. CopyTrueOrOverrun'
    BY DEF CopyTrueOrOverrun, Overrun, Start, Avail
  <1>6. SnapshotIsOneMoment'
    BY DEF SnapshotIsOneMoment
  <1> QED BY <1>1, <1>2, <1>3, <1>4, <1>5, <1>6

LEMMA PublishStep ==
    ASSUME TapInv, Publish
    PROVE  TapInv'
  <1> USE ScopeAssumption DEF TapInv, Publish, reader
  <1>1. TapTypeOK'
    BY DEF TapTypeOK, Announced, Samples
  <1>2. Announced'
    BY DEF Announced
  <1>3. HoldsTheNewest'
    BY DEF HoldsTheNewest, Stored, Slot
  <1>4. CopyWithin'
    BY DEF CopyWithin, Avail, Announced, TapTypeOK, Samples
  <1>5. CopyTrueOrOverrun'
    BY DEF CopyTrueOrOverrun, Overrun, Start, Avail
  <1>6. SnapshotIsOneMoment'
    BY DEF SnapshotIsOneMoment
  <1> QED BY <1>1, <1>2, <1>3, <1>4, <1>5, <1>6

-------------------------------------------------------------------------------
(* The reader's steps.  The tap stands still.                              *)
LEMMA SnapshotStep ==
    ASSUME TapInv, NEW n \in 1..MaxAsk, Snapshot(n)
    PROVE  TapInv'
  <1> USE ScopeAssumption DEF TapInv, Snapshot, tap, writer
  <1>1. TapTypeOK'
    BY ClampType DEF TapTypeOK
  <1>2. Announced' /\ HoldsTheNewest'
    BY DEF Announced, HoldsTheNewest, Stored, Slot
  <1>3. CopyWithin' /\ CopyTrueOrOverrun'
    BY DEF CopyWithin, CopyTrueOrOverrun
  <1>4. SnapshotIsOneMoment'
    BY DEF SnapshotIsOneMoment
  <1> QED BY <1>1, <1>2, <1>3, <1>4

LEMMA LookStep ==
    ASSUME TapInv, Look
    PROVE  TapInv'
  <1> USE ScopeAssumption DEF TapInv, Look, tap, writer
  <1>1. CASE attempt = Attempts \/ written = 0
    <2>1. TapTypeOK'
      <3>1. NoResult \in [got : Seq(Samples \cup {-1}), end : Samples, ask : 0..TapCap]
        BY DEF NoResult, Samples
      <3> HIDE DEF NoResult
      <3>2. /\ rpc' = "idle" /\ result' = NoResult /\ ask' = 0 /\ attempt' = 0 /\ end' = 0
            /\ copied' = <<>> /\ cells' = cells /\ written' = written /\ begun' = begun
            /\ wpc' = wpc /\ put' = put /\ upto' = upto
        BY <1>1 DEF Return
      <3>3. copied' \in Seq(Samples \cup {-1})
        BY <3>2
      <3> QED BY <3>1, <3>2, <3>3 DEF TapTypeOK, Samples
    <2>2. Announced' /\ HoldsTheNewest'
      BY <1>1 DEF Announced, HoldsTheNewest, Stored, Slot
    <2>3. CopyWithin' /\ CopyTrueOrOverrun'
      BY <1>1 DEF CopyWithin, CopyTrueOrOverrun, Return
    <2>4. SnapshotIsOneMoment'
      BY <1>1 DEF SnapshotIsOneMoment, Return, NoResult
    <2> QED BY <2>1, <2>2, <2>3, <2>4
  <1>2. CASE ~(attempt = Attempts \/ written = 0)
    <2>1. TapTypeOK'
      BY <1>2 DEF TapTypeOK, Samples
    <2>2. Announced' /\ HoldsTheNewest'
      BY <1>2 DEF Announced, HoldsTheNewest, Stored, Slot
    <2>3. CopyWithin' /\ CopyTrueOrOverrun'
      BY <1>2, <2>1, AvailType DEF CopyWithin, CopyTrueOrOverrun, TapTypeOK, Samples, Avail
    <2>4. SnapshotIsOneMoment'
      BY <1>2 DEF SnapshotIsOneMoment
    <2> QED BY <2>1, <2>2, <2>3, <2>4
  <1> QED BY <1>1, <1>2

(* The element copied is still the sample meant, or it has been stored     *)
(* over: then TapCap newer ones have been announced.                       *)
LEMMA CopyStep ==
    ASSUME TapInv, Copy
    PROVE  TapInv'
  <1> USE ScopeAssumption DEF TapInv, Copy, tap, writer
  <1> DEFINE k == Start + Len(copied)
  <1>0. /\ Avail \in Nat /\ Start \in Nat /\ Start + Avail = end
        /\ Len(copied) \in Nat /\ k \in Nat /\ k < end /\ end <= written
        /\ Slot(k) \in 0..TapCap - 1
    <2>1. TapTypeOK BY DEF TapInv
    <2>2. Avail \in Nat /\ Start \in Nat /\ Start + Avail = end
      BY <2>1, AvailType
    <2>3. Len(copied) \in Nat /\ k \in Nat /\ k < end /\ end <= written
      BY <2>1, <2>2 DEF CopyWithin, TapTypeOK
    <2>4. Slot(k) \in 0..TapCap - 1
      BY <2>3, SlotType
    <2> QED BY <2>2, <2>3, <2>4
  <1>1. TapTypeOK'
    BY <1>0 DEF TapTypeOK
  <1>2. Announced' /\ HoldsTheNewest'
    BY DEF Announced, HoldsTheNewest, Stored, Slot
  <1>3. Avail' = Avail /\ Start' = Start /\ Overrun' = Overrun
    BY DEF Avail, Start, Overrun
  <1>4. CopyWithin'
    BY <1>0, <1>3 DEF CopyWithin, TapTypeOK
  <1>5. CopyTrueOrOverrun'
    <2> SUFFICES ASSUME ~Overrun
                 PROVE  \A i \in 1..Len(copied') : copied'[i] = Start + i - 1
      BY <1>3 DEF CopyTrueOrOverrun
    <2>1. Stored \in Nat /\ written <= Stored /\ Stored <= begun
      BY DEF Stored, Announced, TapTypeOK, Samples
    <2>2. Stored <= k + TapCap /\ k < Stored /\ k \in 0..MaxWritten
      BY <1>0, <2>1 DEF Overrun, TapTypeOK, Samples
    <2>3. cells[Slot(k)] = k
      BY <2>2 DEF HoldsTheNewest
    <2>4. \A i \in 1..Len(copied) : copied[i] = Start + i - 1
      BY DEF CopyTrueOrOverrun
    <2>5. TAKE i \in 1..Len(copied')
    <2>6. copied \in Seq(Samples \cup {-1}) /\ copied' = Append(copied, k)
      BY <2>3 DEF TapTypeOK
    <2>7. CASE i = Len(copied) + 1
      BY <1>0, <2>6, <2>7
    <2>8. CASE i # Len(copied) + 1
      <3>1. i \in 1..Len(copied) /\ copied'[i] = copied[i] BY <1>0, <2>6, <2>8
      <3> QED BY <2>4, <3>1
    <2> QED BY <2>7, <2>8
  <1>6. SnapshotIsOneMoment'
    BY DEF SnapshotIsOneMoment
  <1> QED BY <1>1, <1>2, <1>4, <1>5, <1>6

LEMMA JudgeStep ==
    ASSUME TapInv, Judge
    PROVE  TapInv'
  <1> USE ScopeAssumption DEF TapInv, Judge, tap, writer
  <1>1. Announced' /\ HoldsTheNewest'
    BY DEF Announced, HoldsTheNewest, Stored, Slot
  <1>2. CASE Overrun
    <2>1. TapTypeOK'
      BY <1>2 DEF TapTypeOK
    <2>2. CopyWithin' /\ CopyTrueOrOverrun'
      BY <1>2 DEF CopyWithin, CopyTrueOrOverrun
    <2>3. SnapshotIsOneMoment'
      BY <1>2 DEF SnapshotIsOneMoment
    <2> QED BY <1>1, <2>1, <2>2, <2>3
  <1>3. CASE ~Overrun
    <2>1. TapTypeOK'
      BY <1>3 DEF TapTypeOK, Return, Samples
    <2>2. CopyWithin' /\ CopyTrueOrOverrun'
      BY <1>3 DEF CopyWithin, CopyTrueOrOverrun, Return
    <2>3. SnapshotIsOneMoment'
      <3>1. Avail \in Nat /\ Start \in Nat /\ Start + Avail = end
        BY AvailType
      <3>2. copied = [i \in 1..Avail |-> end - Avail + i - 1]
        BY <1>3, <3>1 DEF CopyTrueOrOverrun, TapTypeOK
      <3>3. result' = [got |-> copied, end |-> end, ask |-> ask]
        BY <1>3 DEF Return
      <3> QED BY <3>2, <3>3 DEF SnapshotIsOneMoment, Avail
    <2> QED BY <1>1, <2>1, <2>2, <2>3
  <1> QED BY <1>2, <1>3

LEMMA TapStep == TapInv /\ [TapNext]_tapVars => TapInv'
  <1> SUFFICES ASSUME TapInv, [TapNext]_tapVars PROVE TapInv'
    OBVIOUS
  <1>1. CASE UNCHANGED tapVars
    BY <1>1 DEF tapVars, tap, writer, reader, TapInv, TapTypeOK, Announced, HoldsTheNewest, Stored,
       Slot, CopyWithin, CopyTrueOrOverrun, Overrun, Avail, Start, SnapshotIsOneMoment
  <1> QED
    BY <1>1, PushStep, StoreStep, PublishStep, SnapshotStep, LookStep, CopyStep, JudgeStep
    DEF TapNext

-------------------------------------------------------------------------------
(* The tap's invariant: what the buffer holds and what begun_ announces,   *)
(* whatever the DSP thread and the reader interleave.                      *)
THEOREM TapInvariant == TapSpec => []TapInv
  BY InitTapInv, TapStep, PTL DEF TapSpec

(* The counters keep their types, and a push is announced before it is     *)
(* published and never announces more than the buffer.                     *)
THEOREM TapTypes == TapSpec => []TapTypeOK
  BY TapInvariant, PTL DEF TapInv

(* A snapshot that is returned is one run of consecutive samples, the      *)
(* newest at one moment, none overwritten while it was copied: the check   *)
(* of begun_ after the copy catches every push that could have reached it. *)
THEOREM TapSnapshots == TapSpec => []SnapshotIsOneMoment
  BY TapInvariant, PTL DEF TapInv
-------------------------------------------------------------------------------
(* AudioOut.  Whom the ring's other end belongs to is a matter of the      *)
(* opener's place: between a close and the next start there is no stream,  *)
(* and without a stream no callback is out.                                *)
CardNeedsStream ==
    /\ stream = None => card = 0
    /\ job.pc \in {"check", "drain", "start"} => stream = None
    /\ stuck = 0 => stuckCard = 0

(* What an open in flight, its answer and the open behind it still know.   *)
AnswerKnows ==
    /\ job.ok => job.pc = "done" /\ opened = job.target
    /\ queued # None => InFlight
    /\ InFlight => job.target # None

(* The user's last pick is the open furthest behind, or what the last open *)
(* asked for, the health poll's included, unless it was refused or has     *)
(* gone.                                                                   *)
PickIsFurthest ==
    ~lost => asked = IF queued # None THEN queued ELSE IF InFlight THEN job.target ELSE opened

(* A pick whose stream was started is plugged in, or it is known to have   *)
(* gone: so the health poll, which opens what was opened last, opens that. *)
PickIsPresent ==
    ~lost /\ queued = None /\ (job.pc \in {"none", "started"} \/ job.ok)
        => asked \in present \cup {SystemDefault}

AudioInv ==
    AudioTypeOK /\ CardNeedsStream /\ AnswerKnows /\ PickIsFurthest /\ PickIsPresent

Widths == {1, 2}

LEMMA AudioConstants ==
    /\ None \notin Targets
    /\ First \in Targets
    /\ LeadMin \in Nat /\ LeadMax \in Nat /\ LeadMin <= LeadMax /\ Margin \in Nat
    /\ Capacity \in Nat /\ MaxPicks \in Nat /\ MaxFaults \in Nat
  BY AudioOutAssumption DEF Targets

LEMMA WidthTypes == \A d \in Devices : WidthOf(d) \in Widths
  BY DEF WidthOf, Widths

LEMMA NoJobType == NoJob.pc = "none" /\ NoJob.ok = FALSE
  BY DEF NoJob

(* What AudioTypeOK says of a worker's state, for the steps that build one.*)
Jobs == [pc : {"none", "close", "check", "drain", "start", "started", "done"},
         target : Targets \cup {None}, width : {1, 2}, ok : BOOLEAN]

LEMMA JobTypes ==
    /\ NoJob \in Jobs
    /\ \A target \in Targets : /\ StartOpen(target) \in Jobs
                               /\ StartOpen(target).pc = "close" /\ ~StartOpen(target).ok
                               /\ StartOpen(target).target = target
  BY DEF NoJob, Jobs, StartOpen

LEMMA InitAudioInv == AudioInit => AudioInv
  <1> SUFFICES ASSUME AudioInit PROVE AudioInv
    OBVIOUS
  <1> USE AudioOutAssumption DEF AudioInit
  <1>1. AudioTypeOK
    <2>1. WidthOf(First) \in {1, 2} /\ First \in Devices
      BY WidthTypes DEF Widths
    <2>2. stream \in Streams
      BY <2>1 DEF Started, Streams
    <2>3. fill \in 0..Capacity /\ lead \in LeadMin..LeadMax /\ picks \in 0..MaxPicks
          /\ faults \in 0..MaxFaults
      BY AudioConstants
    <2>4. job \in Jobs
      BY JobTypes
    <2>5. opened \in Targets /\ asked \in Targets /\ queued \in Targets \cup {None}
      BY AudioConstants
    <2>6. {stuck, card, stuckCard} \subseteq 0..2 /\ {channels, layout} \subseteq {1, 2}
      BY <2>1
    <2>7. {primed, trim, lost, played} \subseteq BOOLEAN
      OBVIOUS
    <2> HIDE DEF AudioInit
    <2>8. present \subseteq Devices
      BY DEF AudioInit
    <2> QED BY <2>2, <2>3, <2>4, <2>5, <2>6, <2>7, <2>8 DEF AudioTypeOK, Jobs
  <1>2. CardNeedsStream /\ AnswerKnows /\ PickIsFurthest /\ PickIsPresent
    BY DEF CardNeedsStream, AnswerKnows, PickIsFurthest, PickIsPresent, InFlight, NoJob, Targets
  <1> QED BY <1>1, <1>2 DEF AudioInv

(* request(): the open asked for is in flight, or the one furthest behind. *)
LEMMA RequestAsks ==
    ASSUME AudioInv, NEW target \in Targets, Request(target)
    PROVE  /\ job' \in Jobs
           /\ queued' \in Targets \cup {None}
           /\ job'.pc # "none" /\ job'.target # None
           /\ target = IF queued' # None THEN queued' ELSE job'.target
           /\ ~InFlight => job'.pc = "close" /\ ~job'.ok
           /\ InFlight => job' = job /\ queued' = target
  <1> USE AudioConstants DEF AudioInv, AudioTypeOK, AnswerKnows
  <1>1. CASE InFlight
    BY <1>1 DEF Request, InFlight, Jobs
  <1>2. CASE ~InFlight
    <2>1. job' = StartOpen(target) /\ queued' = None /\ queued = None
      BY <1>2 DEF Request, InFlight
    <2> QED BY <1>2, <2>1, JobTypes DEF InFlight
  <1> QED BY <1>1, <1>2

LEMMA PickDeviceStep ==
    ASSUME AudioInv, NEW target \in Targets, PickDevice(target) PROVE AudioInv'
  <1> USE DEF AudioInv, PickDevice, cards, sound
  <1>1. Request(target)
    OBVIOUS
  <1>2. AudioTypeOK'
    <2>1. picks' \in 0..MaxPicks /\ job' \in Jobs /\ queued' \in Targets \cup {None}
      BY <1>1, RequestAsks, AudioConstants DEF AudioTypeOK
    <2> QED BY <2>1 DEF AudioTypeOK, Jobs
  <1>3. CardNeedsStream' /\ AnswerKnows'
    BY <1>1, RequestAsks DEF CardNeedsStream, AnswerKnows, InFlight
  <1>4. PickIsFurthest'
    BY <1>1, RequestAsks DEF PickIsFurthest, InFlight
  <1>5. PickIsPresent'
    BY <1>1, RequestAsks, AudioConstants DEF PickIsPresent, InFlight
  <1> QED BY <1>2, <1>3, <1>4, <1>5

LEMMA PickLeadStep ==
    ASSUME AudioInv, NEW frames \in 0..Capacity, PickLead(frames) PROVE AudioInv'
  <1> USE DEF AudioInv, PickLead, cards, gate, history
  <1>1. lead' \in LeadMin..LeadMax
    BY AudioConstants DEF Fewer, More
  <1>2. AudioTypeOK'
    BY <1>1, AudioConstants DEF AudioTypeOK
  <1>3. CardNeedsStream' /\ AnswerKnows' /\ PickIsFurthest' /\ PickIsPresent'
    BY DEF CardNeedsStream, AnswerKnows, PickIsFurthest, PickIsPresent, InFlight
  <1> QED BY <1>2, <1>3

(* What the health poll opens is what was picked last, as far as that is   *)
(* still there.                                                            *)
LEMMA RecoverStep == ASSUME AudioInv, Recover PROVE AudioInv'
  <1> USE DEF AudioInv, Recover, cards, sound, bounds, history
  <1>1. RecoveryTarget \in Targets /\ Request(RecoveryTarget)
    BY DEF RecoveryTarget, AudioTypeOK, Targets
  <1>2. AudioTypeOK'
    BY <1>1, RequestAsks DEF AudioTypeOK, Jobs
  <1>3. CardNeedsStream' /\ AnswerKnows'
    BY <1>1, RequestAsks DEF CardNeedsStream, AnswerKnows, InFlight
  <1>4. ~lost => asked = RecoveryTarget
    BY DEF PickIsFurthest, PickIsPresent, AnswerKnows, InFlight, RecoveryTarget
  <1>5. PickIsFurthest'
    BY <1>1, <1>4, RequestAsks DEF PickIsFurthest, InFlight
  <1>6. PickIsPresent'
    BY <1>1, RequestAsks DEF PickIsPresent, InFlight
  <1> QED BY <1>2, <1>3, <1>5, <1>6

LEMMA CollectStep == ASSUME AudioInv, Collect PROVE AudioInv'
  <1> USE DEF AudioInv, Collect, cards, sound, bounds
  <1>1. CASE queued = None
    <2>1. job' = NoJob /\ queued' = None
      BY <1>1
    <2>2. AudioTypeOK'
      <3>1. layout' \in {1, 2} /\ lost' \in BOOLEAN /\ job' \in Jobs
        BY <2>1, JobTypes DEF AudioTypeOK
      <3> QED BY <2>1, <3>1 DEF AudioTypeOK, Jobs
    <2>3. CardNeedsStream' /\ AnswerKnows'
      BY <2>1, NoJobType DEF CardNeedsStream, AnswerKnows, InFlight
    <2>4. ~lost' => ~lost /\ job.ok
      BY <1>1 DEF AudioTypeOK
    <2>5. PickIsFurthest' /\ PickIsPresent'
      BY <1>1, <2>1, <2>4, NoJobType DEF PickIsFurthest, PickIsPresent, AnswerKnows, InFlight
    <2> QED BY <2>2, <2>3, <2>5
  <1>2. CASE queued # None
    <2>1. /\ job' = [NoJob EXCEPT !.pc = "close", !.target = queued] /\ queued' = None
          /\ lost' = lost
      BY <1>2 DEF StartOpen, AudioTypeOK
    <2>2. AudioTypeOK'
      <3>1. layout' \in {1, 2} /\ lost' \in BOOLEAN /\ job' \in Jobs
        BY <1>2, JobTypes DEF AudioTypeOK
      <3> QED BY <2>1, <3>1 DEF AudioTypeOK, Jobs
    <2>3. CardNeedsStream' /\ AnswerKnows'
      BY <1>2, <2>1 DEF CardNeedsStream, AnswerKnows, InFlight, NoJob
    <2>4. PickIsFurthest' /\ PickIsPresent'
      BY <1>2, <2>1 DEF PickIsFurthest, PickIsPresent, InFlight, NoJob
    <2> QED BY <2>2, <2>3, <2>4
  <1> QED BY <1>1, <1>2

(* A step of the opener that only moves it, or has an open refused.        *)
LEMMA OpenerMoves ==
    ASSUME AudioInv, InFlight, ~job.ok,
           job' \in [pc : {"close", "check", "drain", "start", "done"}, target : {job.target},
                     width : {1, 2}, ok : {FALSE}],
           job'.pc \in {"check", "drain", "start"} => stream' = None,
           UNCHANGED <<present, opened, queued, asked, lost>>
    PROVE  AnswerKnows' /\ PickIsFurthest' /\ PickIsPresent'
  BY DEF AudioInv, AnswerKnows, PickIsFurthest, PickIsPresent, InFlight

LEMMA StepMoves ==
    ASSUME AudioTypeOK, ~job.ok, NEW place \in {"close", "check", "drain", "start", "done"},
           Step(place)
    PROVE  /\ job' \in [pc : {place}, target : {job.target}, width : {1, 2}, ok : {FALSE}]
           /\ job'.target \in Targets \cup {None}
  BY DEF Step, AudioTypeOK

LEMMA RefusedMoves ==
    ASSUME AudioTypeOK, ~job.ok, Refused
    PROVE  /\ job' \in [pc : {"close", "done"}, target : {job.target}, width : {1, 2},
                        ok : {FALSE}]
           /\ job'.target \in Targets \cup {None}
  BY DEF Refused, AudioTypeOK

LEMMA CloseSteps == ASSUME AudioInv, Close \/ CloseFails PROVE AudioInv'
  <1> USE DEF AudioInv, sound, bounds, history
  <1>1. InFlight /\ ~job.ok
    BY DEF Close, CloseFails, InFlight, AnswerKnows
  <1>2. Step("check") /\ stream' = None /\ card' = 0
        /\ UNCHANGED <<present, opened, queued, asked, lost>>
    BY DEF Close, CloseFails
  <1>3. /\ job' \in [pc : {"check"}, target : {job.target}, width : {1, 2}, ok : {FALSE}]
        /\ job'.target \in Targets \cup {None}
    BY <1>1, <1>2, StepMoves
  <1>4. AudioTypeOK'
    <2>1. CASE Close
      BY <1>2, <1>3, <2>1 DEF Close, AudioTypeOK
    <2>2. CASE CloseFails
      <3>1. stuck' \in 0..2 /\ stuckCard' \in 0..2 /\ faults' \in 0..MaxFaults
        BY <2>2, AudioConstants DEF CloseFails, AudioTypeOK, Streams
      <3> QED BY <1>2, <1>3, <2>2, <3>1 DEF CloseFails, AudioTypeOK
    <2> QED BY <2>1, <2>2
  <1>5. CardNeedsStream'
    <2>1. CASE Close
      BY <1>2, <2>1 DEF Close, CardNeedsStream
    <2>2. CASE CloseFails
      BY <1>2, <2>2 DEF CloseFails, CardNeedsStream, AudioTypeOK, Streams
    <2> QED BY <2>1, <2>2
  <1>6. AnswerKnows' /\ PickIsFurthest' /\ PickIsPresent'
    BY <1>1, <1>2, <1>3, OpenerMoves
  <1> QED BY <1>4, <1>5, <1>6

LEMMA CheckSteps == ASSUME AudioInv, Refuse \/ Usable \/ Drain \/ DriverRefuses PROVE AudioInv'
  <1> USE DEF AudioInv, cards, sound, bounds, history
  <1>1. InFlight /\ ~job.ok /\ stream = None
    BY DEF Refuse, Usable, Drain, DriverRefuses, InFlight, AnswerKnows, CardNeedsStream
  <1>2. UNCHANGED <<present, cards, layout, opened, queued, lead, primed, trim, asked, lost,
                    played, picks>>
    BY DEF Refuse, Usable, Drain, DriverRefuses
  <1>3. /\ job' \in [pc : {"close", "drain", "start", "done"}, target : {job.target},
                     width : {1, 2}, ok : {FALSE}]
        /\ job'.target \in Targets \cup {None}
    <2>1. CASE Step("drain") \/ Step("start")
      BY <1>1, <2>1, StepMoves
    <2>2. CASE Refused
      BY <1>1, <2>2, RefusedMoves
    <2> QED BY <2>1, <2>2 DEF Refuse, Usable, Drain, DriverRefuses
  <1>4. fill' \in 0..Capacity /\ faults' \in 0..MaxFaults
    BY AudioConstants DEF Refuse, Usable, Drain, DriverRefuses, AudioTypeOK
  <1>5. AudioTypeOK'
    BY <1>2, <1>3, <1>4 DEF AudioTypeOK
  <1>6. CardNeedsStream'
    BY <1>1, <1>2, <1>3 DEF CardNeedsStream
  <1>7. AnswerKnows' /\ PickIsFurthest' /\ PickIsPresent'
    BY <1>1, <1>2, <1>3, OpenerMoves
  <1> QED BY <1>5, <1>6, <1>7

(* The device a stream was started on is there.                            *)
LEMMA StartStreamStep ==
    ASSUME AudioInv, NEW device \in Devices, StartStream(device) PROVE AudioInv'
  <1> USE DEF AudioInv, StartStream, Started, Streams, Step, sound, bounds, history
  <1>1. AudioTypeOK'
    BY DEF AudioTypeOK
  <1>2. job'.pc = "started" /\ job'.ok = job.ok /\ job'.target = job.target /\ ~job.ok
    BY DEF AudioTypeOK, AnswerKnows
  <1>3. CardNeedsStream' /\ AnswerKnows'
    BY <1>2 DEF CardNeedsStream, AnswerKnows, InFlight
  <1>4. PickIsFurthest'
    BY <1>2 DEF PickIsFurthest, InFlight
  <1>5. PickIsPresent'
    BY <1>2 DEF PickIsPresent, PickIsFurthest, InFlight, Resolved
  <1> QED BY <1>1, <1>3, <1>4, <1>5

LEMMA PublishLayoutStep == ASSUME AudioInv, PublishLayout PROVE AudioInv'
  <1> USE DEF AudioInv, PublishLayout, sound, bounds, history
  <1>1. InFlight /\ job.target \in Targets
    BY DEF InFlight, AnswerKnows, AudioTypeOK
  <1>2. AudioTypeOK'
    BY <1>1 DEF AudioTypeOK
  <1>3. job'.pc = "done" /\ job'.ok /\ job'.target = job.target /\ opened' = job.target
    BY DEF AudioTypeOK
  <1>4. CardNeedsStream' /\ AnswerKnows'
    BY <1>1, <1>3 DEF CardNeedsStream, AnswerKnows, InFlight
  <1>5. PickIsFurthest' /\ PickIsPresent'
    BY <1>1, <1>3 DEF PickIsFurthest, PickIsPresent, InFlight
  <1> QED BY <1>2, <1>4, <1>5

(* A callback takes from the ring what is in it.                           *)
LEMMA PullTypes ==
    ASSUME AudioTypeOK, NEW width \in Widths, Pull(width)
    PROVE  fill' \in 0..Capacity /\ {primed', trim', played'} \subseteq BOOLEAN
  <1> DEFINE target == (lead + Margin) * width
             over == IF trim /\ fill > target THEN fill - target ELSE 0
             discard == Discarded(width)
             held == fill - discard
             ready == (primed /\ discard = 0) \/ held >= lead * width
             got == IF ready THEN Fewer(held, width) ELSE 0
  <1>0. lead \in Nat /\ Margin \in Nat /\ fill \in Nat /\ fill <= Capacity /\ Capacity \in Nat
    BY AudioConstants DEF AudioTypeOK
  <1>1. target \in Nat
    BY <1>0 DEF Widths
  <1>2. over \in 0..fill
    <2> HIDE DEF target
    <2> QED BY <1>0, <1>1
  <1>3. over % width \in 0..over
    <2> HIDE DEF over
    <2> QED BY <1>0, <1>2 DEF Widths
  <1>4. discard \in 0..fill
    <2>1. discard = over - (over % width)
      BY DEF Discarded
    <2> HIDE DEF over, discard
    <2> QED BY <1>0, <1>2, <1>3, <2>1 DEF Widths
  <1>5. fill' = held - got /\ primed' = (ready /\ got = width) /\ played' = (got > 0)
        /\ trim' = FALSE
    BY DEF Pull
  <1> HIDE DEF discard
  <1>6. held \in 0..fill
    BY <1>0, <1>4
  <1>7. got \in 0..held
    <2> HIDE DEF held, ready
    <2> QED BY <1>0, <1>6 DEF Fewer, Widths
  <1>8. ready \in BOOLEAN
    BY DEF AudioTypeOK
  <1> HIDE DEF got, held, ready
  <1>9. fill' \in 0..Capacity
    BY <1>0, <1>5, <1>6, <1>7
  <1>10. primed' \in BOOLEAN
    BY <1>5, Zenon
  <1>11. trim' \in BOOLEAN
    BY <1>5
  <1>12. played' \in BOOLEAN
    BY <1>5
  <1> QED BY <1>9, <1>10, <1>11, <1>12

LEMMA CardSteps ==
    ASSUME AudioInv, CardBegin \/ CardEnd \/ StuckBegin \/ StuckEnd PROVE AudioInv'
  <1> USE DEF AudioInv, gate, bounds, history
  <1>1. UNCHANGED <<present, stream, stuck, channels, layout, opened, gate, lead, bounds, asked,
                    lost>>
    BY DEF CardBegin, CardEnd, StuckBegin, StuckEnd
  <1>2. fill' \in 0..Capacity /\ {primed', trim', played'} \subseteq BOOLEAN
    <2>1. CASE CardBegin \/ StuckBegin
      BY <2>1 DEF CardBegin, StuckBegin, sound, AudioTypeOK
    <2>2. CASE CardEnd
      BY <2>2, PullTypes DEF CardEnd, AudioTypeOK, Widths
    <2>3. CASE StuckEnd
      BY <2>3, PullTypes DEF StuckEnd, AudioTypeOK, Widths
    <2> QED BY <2>1, <2>2, <2>3
  <1>3. card' \in 0..2 /\ stuckCard' \in 0..2
    BY DEF CardBegin, CardEnd, StuckBegin, StuckEnd, AudioTypeOK
  <1>4. AudioTypeOK'
    BY <1>1, <1>2, <1>3 DEF AudioTypeOK
  <1>5. CardNeedsStream'
    BY DEF CardNeedsStream, CardBegin, CardEnd, StuckBegin, StuckEnd, Alive
  <1>6. AnswerKnows' /\ PickIsFurthest' /\ PickIsPresent'
    BY <1>1 DEF AnswerKnows, PickIsFurthest, PickIsPresent, InFlight
  <1> QED BY <1>4, <1>5, <1>6

LEMMA WriteBlockStep ==
    ASSUME AudioInv, NEW frames \in 1..Block, WriteBlock(frames) PROVE AudioInv'
  <1> USE DEF AudioInv, WriteBlock, cards, gate, bounds, history
  <1> DEFINE room == (Capacity - fill) \div layout
             n == Fewer(frames, room)
  <1>1. Capacity \in Nat /\ fill \in 0..Capacity /\ layout \in {1, 2} /\ frames \in Nat
    BY AudioOutAssumption DEF AudioTypeOK
  <1>2. room \in Nat /\ layout * room <= Capacity - fill
    <2>1. CASE layout = 1
      BY <1>1, <2>1
    <2>2. CASE layout = 2
      BY <1>1, <2>2
    <2> QED BY <1>1, <2>1, <2>2
  <1>3. n \in Nat /\ n <= room
    <2> HIDE DEF room
    <2> QED BY <1>1, <1>2 DEF Fewer
  <1>4. fill' = fill + layout * n
    OBVIOUS
  <1>5. fill' \in 0..Capacity
    <2> HIDE DEF room, n
    <2>1. CASE layout = 1
      BY <1>1, <1>2, <1>3, <1>4, <2>1
    <2>2. CASE layout = 2
      BY <1>1, <1>2, <1>3, <1>4, <2>2
    <2> QED BY <1>1, <2>1, <2>2
  <1>6. AudioTypeOK'
    BY <1>5 DEF AudioTypeOK
  <1>7. CardNeedsStream' /\ AnswerKnows' /\ PickIsFurthest' /\ PickIsPresent'
    BY DEF CardNeedsStream, AnswerKnows, PickIsFurthest, PickIsPresent, InFlight
  <1> QED BY <1>6, <1>7

LEMMA WorldSteps ==
    ASSUME AudioInv, Plug \/ \E device \in Devices : Unplug(device) PROVE AudioInv'
  <1> USE DEF AudioInv, cards, gate, sound, bounds, history
  <1> DEFINE Ends ==
               /\ UNCHANGED <<stuck, card, stuckCard, channels, layout, opened, gate, sound,
                              lead, picks, asked, played>>
               /\ present' \subseteq Devices /\ lost' \in BOOLEAN /\ faults' \in 0..MaxFaults
               /\ stream' = None <=> stream = None
               /\ stream' \in {None} \cup Streams
  <1>1. Ends
    <2>1. CASE Plug
      BY <2>1 DEF Plug, AudioTypeOK
    <2>2. ASSUME NEW device \in Devices, Unplug(device)
          PROVE  Ends
      <3>1. CASE stream # None /\ stream.device = device
        <4>1. stream' \in Streams
          BY <2>2, <3>1 DEF Unplug, AudioTypeOK, Streams
        <4>2. stream' # None
          BY <4>1, AudioOutAssumption
        <4>3. present' \subseteq Devices /\ lost' \in BOOLEAN /\ faults' \in 0..MaxFaults
          BY <2>2, AudioConstants DEF Unplug, AudioTypeOK
        <4> QED BY <2>2, <3>1, <4>1, <4>2, <4>3 DEF Unplug
      <3>2. CASE ~(stream # None /\ stream.device = device)
        BY <2>2, <3>2, AudioConstants DEF Unplug, AudioTypeOK
      <3> QED BY <3>1, <3>2
    <2> QED BY <2>1, <2>2
  <1>2. ~lost' => ~lost /\ (asked \in present \cup {SystemDefault}
                              => asked \in present' \cup {SystemDefault})
    BY DEF Plug, Unplug, AudioTypeOK
  <1>3. AudioTypeOK'
    BY <1>1 DEF AudioTypeOK
  <1>4. CardNeedsStream' /\ AnswerKnows'
    BY <1>1 DEF CardNeedsStream, AnswerKnows, InFlight
  <1>5. PickIsFurthest' /\ PickIsPresent'
    BY <1>1, <1>2 DEF PickIsFurthest, PickIsPresent, InFlight
  <1> QED BY <1>3, <1>4, <1>5

LEMMA AudioStep == AudioInv /\ [AudioNext]_audioVars => AudioInv'
  <1> SUFFICES ASSUME AudioInv, [AudioNext]_audioVars PROVE AudioInv'
    OBVIOUS
  <1>1. CASE UNCHANGED audioVars
    BY <1>1 DEF audioVars, cards, gate, sound, bounds, history, AudioInv, AudioTypeOK,
       CardNeedsStream, AnswerKnows, PickIsFurthest, PickIsPresent, InFlight
  <1>2. CASE Window
    BY <1>2, PickDeviceStep, PickLeadStep, RecoverStep, CollectStep DEF Window
  <1>3. CASE Worker
    BY <1>3, CloseSteps, CheckSteps, StartStreamStep, PublishLayoutStep DEF Worker
  <1>4. CASE Card \/ StuckStream
    BY <1>4, CardSteps DEF Card, StuckStream
  <1>5. CASE Dsp
    BY <1>5, WriteBlockStep DEF Dsp
  <1>6. CASE World
    BY <1>6, WorldSteps DEF World
  <1> QED BY <1>1, <1>2, <1>3, <1>4, <1>5, <1>6 DEF AudioNext

(* What the window, the opener, the card and the DSP thread know of each   *)
(* other, for every interleaving, device list, ring size and lead.         *)
THEOREM AudioInvariant == AudioSpec => []AudioInv
<1> QED BY InitAudioInv, AudioStep, PTL DEF AudioSpec

(* Types; the fill never leaves the ring, nor the lead its bounds.         *)
THEOREM AudioTypes == AudioSpec => []AudioTypeOK
<1>1. AudioInv => AudioTypeOK
  BY DEF AudioInv
<1> QED BY <1>1, AudioInvariant, PTL

(* While the opener drains the ring no callback is out, though nothing but *)
(* the driver's abort keeps the two apart: what SpscRing's theorems        *)
(* presuppose of its consumer holds of the sound card's ring.              *)
THEOREM SoundRingHasOneReader == AudioSpec => []OneReader
<1>1. AudioInv => OneReader
  BY DEF AudioInv, CardNeedsStream, OneReader
<1> QED BY <1>1, AudioInvariant, PTL

(* No recovery, refusal or answer that comes late puts another device in   *)
(* the place of the one picked last.                                       *)
THEOREM LastPickPlays == AudioSpec => []AskedDeviceWins
<1>1. AudioInv => AskedDeviceWins
  BY DEF AudioInv, PickIsFurthest, AnswerKnows, AskedDeviceWins
<1> QED BY <1>1, AudioInvariant, PTL
===============================================================================
