------------------------ MODULE PipelineSettersProofs ------------------------
(***************************************************************************)
(* The setters' queue, proved for any callers, parameters and values:      *)
(* audioMutex_ has one holder who alone drains, a command waiting always   *)
(* has the flag up, no parameter changes under a block, and the posts take *)
(* effect in the order they were asked for.                                *)
(***************************************************************************)
EXTENDS PipelineSetters, TLAPS

(* Who holds audioMutex_ is where a holder can be, and only a holder that  *)
(* came to drain is draining.                                              *)
LockTypes ==
    /\ holder \in Callers \cup {"free", "dsp", "control"} /\ drain \in {"off", "look", "run"}
    /\ pc \in [Callers -> {"idle", "try", "drain"}]
    /\ dsp \in {"off", "joined", "idle", "drain", "top", "block"}
    /\ ctl \in {"idle", "start", "startDrain", "rateJoin", "rate", "rateDrain", "rebuilt"}
LockIsHeld ==
    /\ \A c \in Callers : pc[c] = "drain" <=> holder = c
    /\ dsp \in {"drain", "top", "block"} <=> holder = "dsp"
    /\ ctl \in {"startDrain", "rateDrain", "rebuilt"} <=> holder = "control"
DrainIsHeld ==
    /\ drain # "off" => holder # "free" /\ dsp \notin {"top", "block"} /\ ctl # "rebuilt"
    /\ drain # "run" => scratch = <<>>

LEMMA InitLocks == Init => LockTypes /\ LockIsHeld /\ DrainIsHeld
BY SettersAssumption DEF Init, LockTypes, LockIsHeld, DrainIsHeld

Locks == LockTypes /\ LockIsHeld /\ DrainIsHeld

LEMMA LocksStep == Locks /\ [Next]_vars => Locks'
<1> SUFFICES ASSUME Locks, [Next]_vars PROVE Locks'
  OBVIOUS
<1> USE SettersAssumption DEF Locks, LockTypes, LockIsHeld, DrainIsHeld, core
<1>1. CASE \E c \in Callers, p \in Params, v \in Values : Post(c, p, v) BY <1>1 DEF Post
<1>2. CASE \E c \in Callers : TryLock(c) BY <1>2 DEF TryLock
<1>3. CASE \E c \in Callers : PostReturns(c) BY <1>3 DEF PostReturns
<1>4. CASE DrainLook BY <1>4 DEF DrainLook
<1>5. CASE DrainRun BY <1>5 DEF DrainRun
<1>6. CASE BlockBegin BY <1>6 DEF BlockBegin
<1>7. CASE Dsp BY <1>7 DEF Dsp, BlockDrained, BlockReadsParams, BlockEnd
<1>8. CASE ControlCall BY <1>8 DEF ControlCall
<1>9. CASE StopJoins BY <1>9 DEF StopJoins
<1>10. CASE ControlLocks BY <1>10 DEF ControlLocks
<1>11. CASE StartReturns BY <1>11 DEF StartReturns
<1>12. CASE RateJoins BY <1>12 DEF RateJoins
<1>13. CASE RateRebuilds BY <1>13 DEF RateRebuilds
<1>14. CASE RatePublishes BY <1>14 DEF RatePublishes
<1>15. CASE UNCHANGED vars BY <1>15 DEF vars
<1> QED
  BY <1>1, <1>2, <1>3, <1>4, <1>5, <1>6, <1>7, <1>8, <1>9, <1>10, <1>11, <1>12, <1>13, <1>14,
     <1>15 DEF Next, Drain, Control

-------------------------------------------------------------------------------
(* What the queue, the live object and the mirrors hold.                   *)
DataTypes ==
    /\ live \in [Params -> Values] /\ mirror \in [Params -> Values]
    /\ asked \in [Params -> Values] /\ seen \in [Params -> Values]
    /\ queue \in Seq(Commands) /\ scratch \in Seq(Commands) /\ pending \in BOOLEAN
Clamped == \A p \in Params \ Verbatim : live[p] <= Top
Data == DataTypes /\ Clamped

(* A command run on a well-typed live object leaves a well-typed, clamped one.*)
LEMMA RunKeepsTypes ==
  ASSUME NEW l \in [Params -> Values], \A p \in Params \ Verbatim : l[p] <= Top,
         NEW c \in Commands
  PROVE  Run(l, c) \in [Params -> Values] /\ \A p \in Params \ Verbatim : Run(l, c)[p] <= Top
<1>1. c.param \in Params /\ c.value \in Values BY DEF Commands
<1>2. Applied(c.param, c.value) \in Values
  BY <1>1, SettersAssumption DEF Applied
<1>3. c.value \in Int /\ Top \in Int
  <2>1. Values \subseteq Nat /\ Top \in Values BY SettersAssumption
  <2>2. c.value \in Nat /\ Top \in Nat BY <2>1, <1>1, Zenon
  <2> QED BY <2>2
<1>4. c.param \notin Verbatim => Applied(c.param, c.value) <= Top
  BY <1>3 DEF Applied
<1> QED BY <1>1, <1>2, <1>4 DEF Run

LEMMA InitData == Init => Data
<1> SUFFICES ASSUME Init PROVE Data
  OBVIOUS
<1>1. Zeros \in [Params -> Values] /\ \A p \in Params : Zeros[p] = 0
  BY SettersAssumption DEF Zeros
<1>2. <<>> \in Seq(Commands) OBVIOUS
<1>3. 0 <= Top BY SettersAssumption
<1>4. Clamped BY <1>1, <1>3 DEF Init, Clamped
<1> QED BY <1>1, <1>2, <1>4 DEF Init, Data, DataTypes

LEMMA DataStep == Locks /\ Data /\ [Next]_vars => Data'
<1> SUFFICES ASSUME Locks, Data, [Next]_vars PROVE Data'
  OBVIOUS
<1> USE DEF Data, DataTypes, Clamped, core
<1>1. ASSUME NEW c \in Callers, NEW p \in Params, NEW v \in Values, Post(c, p, v) PROVE Data'
  <2>1. mirror' \in [Params -> Values] BY <1>1 DEF Post, Mirrored
  <2>2. asked' \in [Params -> Values] BY <1>1 DEF Post
  <2>3. [param |-> p, value |-> v] \in Commands BY <1>1 DEF Commands
  <2>4. queue' \in Seq(Commands) BY <2>3, <1>1 DEF Post
  <2> QED BY <2>1, <2>2, <2>4, <1>1 DEF Post
<1>2. CASE \E c \in Callers : TryLock(c) BY <1>2 DEF TryLock
<1>3. CASE \E c \in Callers : PostReturns(c) BY <1>3 DEF PostReturns
<1>4. CASE DrainLook
  <2>1. <<>> \in Seq(Commands) OBVIOUS
  <2> QED BY <2>1, <1>4 DEF DrainLook
<1>5. CASE DrainRun
  <2>1. CASE scratch = <<>> BY <2>1, <1>5 DEF DrainRun
  <2>2. CASE scratch # <<>>
    <3>1. Head(scratch) \in Commands /\ Tail(scratch) \in Seq(Commands) BY <2>2
    <3>2. /\ Run(live, Head(scratch)) \in [Params -> Values]
          /\ \A p \in Params \ Verbatim : Run(live, Head(scratch))[p] <= Top
      BY <3>1, RunKeepsTypes
    <3> QED BY <3>1, <3>2, <2>2, <1>5 DEF DrainRun
  <2> QED BY <2>1, <2>2
<1>6. CASE BlockBegin BY <1>6 DEF BlockBegin
<1>7. CASE Dsp
  <2>1. Zeros \in [Params -> Values] BY SettersAssumption DEF Zeros
  <2> QED BY <2>1, <1>7 DEF Dsp, BlockDrained, BlockReadsParams, BlockEnd
<1>8. CASE ControlCall BY <1>8 DEF ControlCall
<1>9. CASE StopJoins BY <1>9 DEF StopJoins
<1>10. CASE ControlLocks BY <1>10 DEF ControlLocks
<1>11. CASE Control BY <1>11 DEF Control, StartReturns, RateJoins, RateRebuilds, RatePublishes
<1>12. CASE UNCHANGED vars BY <1>12 DEF vars
<1> QED
  BY <1>1, <1>2, <1>3, <1>4, <1>5, <1>6, <1>7, <1>8, <1>9, <1>10, <1>11, <1>12 DEF Next, Drain

-------------------------------------------------------------------------------
(* The flag and the block: each follows from who may drain.                *)
LEMMA FlagStep == Locks /\ FlagCoversQueue /\ [Next]_vars => FlagCoversQueue'
<1> SUFFICES ASSUME Locks, FlagCoversQueue, [Next]_vars PROVE FlagCoversQueue'
  OBVIOUS
<1> USE DEF FlagCoversQueue, core
<1>1. CASE \E c \in Callers, p \in Params, v \in Values : Post(c, p, v) BY <1>1 DEF Post
<1>2. CASE \E c \in Callers : TryLock(c) BY <1>2 DEF TryLock
<1>3. CASE \E c \in Callers : PostReturns(c) BY <1>3 DEF PostReturns
<1>4. CASE DrainLook BY <1>4 DEF DrainLook, Locks, DrainIsHeld
<1>5. CASE DrainRun BY <1>5 DEF DrainRun
<1>6. CASE BlockBegin BY <1>6 DEF BlockBegin
<1>7. CASE Dsp BY <1>7 DEF Dsp, BlockDrained, BlockReadsParams, BlockEnd
<1>8. CASE ControlCall \/ StopJoins \/ ControlLocks
  BY <1>8 DEF ControlCall, StopJoins, ControlLocks
<1>9. CASE Control BY <1>9 DEF Control, StartReturns, RateJoins, RateRebuilds, RatePublishes
<1>10. CASE UNCHANGED vars BY <1>10 DEF vars
<1> QED BY <1>1, <1>2, <1>3, <1>4, <1>5, <1>6, <1>7, <1>8, <1>9, <1>10 DEF Next, Drain

LEMMA BlockStep == Locks /\ NoTornBlock /\ [Next]_vars => NoTornBlock'
<1> SUFFICES ASSUME Locks, NoTornBlock, [Next]_vars PROVE NoTornBlock'
  OBVIOUS
<1> USE DEF NoTornBlock, core
<1>1. CASE \E c \in Callers, p \in Params, v \in Values : Post(c, p, v) BY <1>1 DEF Post
<1>2. CASE \E c \in Callers : TryLock(c) BY <1>2 DEF TryLock
<1>3. CASE \E c \in Callers : PostReturns(c) BY <1>3 DEF PostReturns
<1>4. CASE DrainLook BY <1>4 DEF DrainLook
<1>5. CASE DrainRun BY <1>5 DEF DrainRun, Locks, DrainIsHeld
<1>6. CASE BlockBegin BY <1>6 DEF BlockBegin
<1>7. CASE Dsp BY <1>7 DEF Dsp, BlockDrained, BlockReadsParams, BlockEnd
<1>8. CASE ControlCall \/ StopJoins \/ ControlLocks
  BY <1>8 DEF ControlCall, StopJoins, ControlLocks
<1>9. CASE Control BY <1>9 DEF Control, StartReturns, RateJoins, RateRebuilds, RatePublishes
<1>10. CASE UNCHANGED vars BY <1>10 DEF vars
<1> QED BY <1>1, <1>2, <1>3, <1>4, <1>5, <1>6, <1>7, <1>8, <1>9, <1>10 DEF Next, Drain

LEMMA QuietStep == Data /\ QuietGettersShowLive /\ [Next]_vars => QuietGettersShowLive'
<1> SUFFICES ASSUME Data, QuietGettersShowLive, [Next]_vars PROVE QuietGettersShowLive'
  OBVIOUS
<1> USE DEF QuietGettersShowLive, core
<1>1. ASSUME NEW c \in Callers, NEW p \in Params, NEW v \in Values, Post(c, p, v)
      PROVE  QuietGettersShowLive'
  <2>1. queue \in Seq(Commands) /\ [param |-> p, value |-> v] \in Commands
    BY DEF Data, DataTypes, Commands
  <2>2. queue' # <<>> BY <2>1, <1>1 DEF Post
  <2> QED BY <2>2
<1>2. CASE \E c \in Callers : TryLock(c) BY <1>2 DEF TryLock
<1>3. CASE \E c \in Callers : PostReturns(c) BY <1>3 DEF PostReturns
<1>4. CASE DrainLook BY <1>4 DEF DrainLook
<1>5. CASE DrainRun BY <1>5 DEF DrainRun
<1>6. CASE BlockBegin BY <1>6 DEF BlockBegin
<1>7. CASE Dsp BY <1>7 DEF Dsp, BlockDrained, BlockReadsParams, BlockEnd
<1>8. CASE ControlCall \/ StopJoins \/ ControlLocks
  BY <1>8 DEF ControlCall, StopJoins, ControlLocks
<1>9. CASE Control BY <1>9 DEF Control, StartReturns, RateJoins, RateRebuilds, RatePublishes
<1>10. CASE UNCHANGED vars BY <1>10 DEF vars
<1> QED BY <1>1, <1>2, <1>3, <1>4, <1>5, <1>6, <1>7, <1>8, <1>9, <1>10 DEF Next, Drain

-------------------------------------------------------------------------------
(* The order of the commands: a post adds one at the end, whether the drain*)
(* has taken its share or not, and the drain runs the first.               *)
LEMMA PostKeepsOrder ==
  ASSUME NEW w \in Seq(Commands), NEW l, NEW a \in [Params -> Values], InOrder(w, l, a),
         NEW p \in Params, NEW v \in Values
  PROVE  InOrder(Append(w, [param |-> p, value |-> v]), l, [a EXCEPT ![p] = v])
<1> DEFINE c == [param |-> p, value |-> v]
           x == Append(w, c)
           b == [a EXCEPT ![p] = v]
<1>1. /\ Len(x) = Len(w) + 1 /\ Len(w) \in Nat /\ x[Len(x)] = c
      /\ \A i \in 1..Len(w) : x[i] = w[i]
  BY DEF Commands
<1>2. c.param = p /\ c.value = v OBVIOUS
<1> HIDE DEF x, c
<1>3. ASSUME NEW q \in Params
      PROVE  \/ /\ \A i \in 1..Len(x) : x[i].param # q
                /\ l[q] = Applied(q, b[q])
             \/ \E i \in 1..Len(x) :
                   /\ x[i] = [param |-> q, value |-> b[q]]
                   /\ \A j \in i+1..Len(x) : x[j].param # q
  <2>1. CASE q = p
    <3>1. x[Len(x)] = [param |-> q, value |-> b[q]] BY <1>1, <2>1 DEF c
    <3>2. Len(x) \in 1..Len(x) /\ \A j \in Len(x)+1..Len(x) : FALSE BY <1>1
    <3> QED BY <3>1, <3>2
  <2>2. CASE q # p
    <3>1. b[q] = a[q] BY <2>2
    <3>2. CASE \E i \in 1..Len(w) : /\ w[i] = [param |-> q, value |-> a[q]]
                                    /\ \A j \in i+1..Len(w) : w[j].param # q
      <4>1. PICK i \in 1..Len(w) : /\ w[i] = [param |-> q, value |-> a[q]]
                                   /\ \A j \in i+1..Len(w) : w[j].param # q
        BY <3>2
      <4>2. i \in 1..Len(x) /\ x[i] = [param |-> q, value |-> b[q]] BY <1>1, <3>1, <4>1
      <4>3. \A j \in i+1..Len(x) : x[j].param # q
        <5>1. SUFFICES ASSUME NEW j \in i+1..Len(x) PROVE x[j].param # q
          OBVIOUS
        <5>2. j \in i+1..Len(w) \/ j = Len(x) BY <1>1
        <5>3. CASE j \in i+1..Len(w)
          <6>1. j \in 1..Len(w) BY <5>3, <1>1
          <6> QED BY <5>3, <6>1, <1>1, <4>1
        <5>4. CASE j = Len(x) BY <5>4, <1>1, <1>2, <2>2
        <5> QED BY <5>2, <5>3, <5>4
      <4> QED BY <4>2, <4>3
    <3>3. CASE (\A i \in 1..Len(w) : w[i].param # q) /\ l[q] = Applied(q, a[q])
      <4>1. ASSUME NEW i \in 1..Len(x) PROVE x[i].param # q
        <5>1. i \in 1..Len(w) \/ i = Len(x) BY <1>1
        <5> QED BY <5>1, <3>3, <1>1, <1>2, <2>2
      <4> QED BY <3>1, <3>3, <4>1
    <3> QED BY <3>2, <3>3 DEF InOrder
  <2> QED BY <2>1, <2>2
<1> QED BY <1>3 DEF InOrder, x, c

LEMMA RunKeepsOrder ==
  ASSUME NEW w \in Seq(Commands), w # <<>>, NEW l \in [Params -> Values],
         NEW a \in [Params -> Values], InOrder(w, l, a)
  PROVE  InOrder(Tail(w), Run(l, Head(w)), a)
<1> DEFINE x == Tail(w)
           m == Run(l, Head(w))
<1>1. /\ Len(w) \in Nat \ {0} /\ Len(x) = Len(w) - 1 /\ w[1] \in Commands
      /\ \A i \in 1..Len(x) : x[i] = w[i + 1]
  OBVIOUS
<1>2. m = [l EXCEPT ![w[1].param] = Applied(w[1].param, w[1].value)]
  <2>1. Head(w) = w[1] OBVIOUS
  <2> QED BY <2>1 DEF Run
<1> HIDE DEF x, m
<1>3. ASSUME NEW q \in Params
      PROVE  \/ /\ \A i \in 1..Len(x) : x[i].param # q
                /\ m[q] = Applied(q, a[q])
             \/ \E i \in 1..Len(x) :
                   /\ x[i] = [param |-> q, value |-> a[q]]
                   /\ \A j \in i+1..Len(x) : x[j].param # q
  <2>1. CASE \E i \in 1..Len(w) : /\ w[i] = [param |-> q, value |-> a[q]]
                                  /\ \A j \in i+1..Len(w) : w[j].param # q
    <3>1. PICK i \in 1..Len(w) : /\ w[i] = [param |-> q, value |-> a[q]]
                                 /\ \A j \in i+1..Len(w) : w[j].param # q
      BY <2>1
    <3>2. \A j \in 1..Len(x) : j >= i => x[j].param # q
      <4>1. SUFFICES ASSUME NEW j \in 1..Len(x), j >= i PROVE x[j].param # q
        OBVIOUS
      <4>2. j + 1 \in i+1..Len(w) BY <1>1, <4>1
      <4> QED BY <4>2, <3>1, <1>1
    <3>3. CASE i = 1
      <4>1. m[q] = Applied(q, a[q]) BY <3>1, <3>3, <1>2
      <4>2. \A j \in 1..Len(x) : x[j].param # q BY <3>2, <3>3
      <4> QED BY <4>1, <4>2
    <3>4. CASE i # 1
      <4>1. i - 1 \in 1..Len(x) /\ i - 1 + 1 = i BY <3>4, <1>1
      <4>2. x[i - 1] = [param |-> q, value |-> a[q]] BY <4>1, <3>1, <1>1
      <4>3. \A j \in (i-1)+1..Len(x) : x[j].param # q
        <5>1. SUFFICES ASSUME NEW j \in (i-1)+1..Len(x) PROVE x[j].param # q
          OBVIOUS
        <5>2. j \in 1..Len(x) /\ j >= i BY <5>1, <1>1
        <5> QED BY <5>2, <3>2
      <4> QED BY <4>1, <4>2, <4>3
    <3> QED BY <3>3, <3>4
  <2>2. CASE (\A i \in 1..Len(w) : w[i].param # q) /\ l[q] = Applied(q, a[q])
    <3>1. \A i \in 1..Len(x) : i + 1 \in 1..Len(w) BY <1>1
    <3>2. \A i \in 1..Len(x) : x[i].param # q BY <2>2, <3>1, <1>1
    <3>3. w[1].param # q BY <2>2, <1>1
    <3>4. m[q] = l[q] BY <3>3, <1>2
    <3> QED BY <2>2, <3>2, <3>4
  <2> QED BY <2>1, <2>2 DEF InOrder
<1> QED BY <1>3 DEF InOrder, x, m

LEMMA OrderStep ==
    Locks /\ Data /\ PostsTakeEffectInOrder /\ [Next]_vars => PostsTakeEffectInOrder'
<1> SUFFICES ASSUME Locks, Data, PostsTakeEffectInOrder, [Next]_vars
             PROVE  PostsTakeEffectInOrder'
  OBVIOUS
<1> USE DEF PostsTakeEffectInOrder, core
<1>0. /\ queue \in Seq(Commands) /\ scratch \in Seq(Commands)
      /\ live \in [Params -> Values] /\ asked \in [Params -> Values]
  BY DEF Data, DataTypes
<1>1. ASSUME NEW c \in Callers, NEW p \in Params, NEW v \in Values, Post(c, p, v)
      PROVE  PostsTakeEffectInOrder'
  <2> DEFINE d == [param |-> p, value |-> v]
  <2>1. d \in Commands BY DEF Commands
  <2>2. scratch \o queue \in Seq(Commands) BY <1>0
  <2>3. scratch \o Append(queue, d) = Append(scratch \o queue, d) BY <1>0, <2>1
  <2>4. InOrder(Append(scratch \o queue, d), live, [asked EXCEPT ![p] = v])
    BY <1>0, <2>2, PostKeepsOrder
  <2> QED BY <1>1, <2>3, <2>4 DEF Post
<1>2. CASE \E c \in Callers : TryLock(c) BY <1>2 DEF TryLock
<1>3. CASE \E c \in Callers : PostReturns(c) BY <1>3 DEF PostReturns
<1>4. CASE DrainLook
  <2>1. scratch = <<>> BY <1>4 DEF DrainLook, Locks, DrainIsHeld
  <2>2. (scratch \o queue)' = scratch \o queue BY <1>0, <1>4, <2>1 DEF DrainLook
  <2> QED BY <1>4, <2>2 DEF DrainLook
<1>5. CASE DrainRun
  <2>1. CASE scratch = <<>> BY <1>5, <2>1 DEF DrainRun
  <2>2. CASE scratch # <<>>
    <3> DEFINE w == scratch \o queue
    <3>1. w \in Seq(Commands) /\ w # <<>> /\ Head(w) = Head(scratch)
          /\ Tail(w) = Tail(scratch) \o queue
      BY <1>0, <2>2
    <3>2. InOrder(Tail(w), Run(live, Head(w)), asked) BY <1>0, <3>1, RunKeepsOrder
    <3> QED BY <1>5, <2>2, <3>1, <3>2 DEF DrainRun
  <2> QED BY <2>1, <2>2
<1>6. CASE BlockBegin BY <1>6 DEF BlockBegin
<1>7. CASE Dsp BY <1>7 DEF Dsp, BlockDrained, BlockReadsParams, BlockEnd
<1>8. CASE ControlCall \/ StopJoins \/ ControlLocks
  BY <1>8 DEF ControlCall, StopJoins, ControlLocks
<1>9. CASE Control BY <1>9 DEF Control, StartReturns, RateJoins, RateRebuilds, RatePublishes
<1>10. CASE UNCHANGED vars BY <1>10 DEF vars
<1> QED BY <1>1, <1>2, <1>3, <1>4, <1>5, <1>6, <1>7, <1>8, <1>9, <1>10 DEF Next, Drain

-------------------------------------------------------------------------------
QueueInv == Locks /\ Data /\ FlagCoversQueue /\ NoTornBlock /\ QuietGettersShowLive
            /\ PostsTakeEffectInOrder

(* The inductive invariant: who may hold audioMutex_ and drain, what the   *)
(* queue holds, and the four facts the setters rest on.                    *)
THEOREM QueueInvariant == Spec => []QueueInv
<1>1. Init => QueueInv
  <2> SUFFICES ASSUME Init PROVE QueueInv
    OBVIOUS
  <2>1. FlagCoversQueue /\ NoTornBlock /\ QuietGettersShowLive
    BY DEF Init, FlagCoversQueue, NoTornBlock, QuietGettersShowLive
  <2>2. scratch \o queue = <<>> BY DEF Init
  <2>3. \A p \in Params : live[p] = Applied(p, asked[p])
    BY SettersAssumption DEF Init, Zeros, Applied
  <2>4. PostsTakeEffectInOrder BY <2>2, <2>3 DEF PostsTakeEffectInOrder, InOrder
  <2> QED BY <2>1, <2>4, InitLocks, InitData DEF QueueInv, Locks
<1>2. QueueInv /\ [Next]_vars => QueueInv'
  BY LocksStep, DataStep, FlagStep, BlockStep, QuietStep, OrderStep DEF QueueInv
<1> QED BY <1>1, <1>2, PTL DEF Spec

(* Types, with the live object clamped, whatever the callers ask for.      *)
THEOREM QueueTypes == Spec => []TypeOK
<1>1. QueueInv => TypeOK
  BY DEF QueueInv, Locks, LockTypes, Data, DataTypes, Clamped, TypeOK
<1> QED BY <1>1, QueueInvariant, PTL

(* processAudioBlock() may skip the queue when cmdPending_ is down: nothing*)
(* is waiting then, for any number of callers.                             *)
THEOREM QueueFlag == Spec => []FlagCoversQueue
<1>1. QueueInv => FlagCoversQueue BY DEF QueueInv
<1> QED BY <1>1, QueueInvariant, PTL

(* No command runs between the parameters a block began with and its end.  *)
THEOREM QueueBlocks == Spec => []NoTornBlock
<1>1. QueueInv => NoTornBlock BY DEF QueueInv
<1> QED BY <1>1, QueueInvariant, PTL

(* Between drains with nothing waiting, every getter shows what the chain  *)
(* is using, clamped values included.                                      *)
THEOREM QueueGetters == Spec => []QuietGettersShowLive
<1>1. QueueInv => QuietGettersShowLive BY DEF QueueInv
<1> QED BY <1>1, QueueInvariant, PTL

(* The queue runs every command once and in the order of the posts,        *)
(* whichever threads drain it: with nothing waiting for a parameter it is  *)
(* at what was last asked of it, clamped as the chain clamps it, and       *)
(* otherwise the last command waiting for it is the last one posted.       *)
THEOREM QueueOrder == Spec => []PostsTakeEffectInOrder
<1>1. QueueInv => PostsTakeEffectInOrder BY DEF QueueInv
<1> QED BY <1>1, QueueInvariant, PTL

(* Posts and drains never take from a getter what its setter was given: a  *)
(* drain publishes the live values only once no command is left to run.    *)
THEOREM GettersForgetOnlyInRateSwitch == Spec => OnlyRateSwitchForgets
<1>1. ASSUME QueueInv, [Next]_vars, ReadYourWrites
      PROVE  ReadYourWrites' \/ ctl = "rebuilt"
  <2> USE <1>1 DEF ReadYourWrites, core
  <2>1. ASSUME NEW c \in Callers, NEW p \in Params, NEW v \in Values, Post(c, p, v)
        PROVE  ReadYourWrites'
    BY <2>1, SettersAssumption DEF Post, Mirrored, QueueInv, Data, DataTypes
  <2>2. CASE \E c \in Callers : TryLock(c) BY <2>2 DEF TryLock
  <2>3. CASE \E c \in Callers : PostReturns(c) BY <2>3 DEF PostReturns
  <2>4. CASE DrainLook
    <3>1. CASE queue = <<>>
      <4>1. scratch \o queue = <<>>
        BY <2>4, <3>1 DEF DrainLook, QueueInv, Locks, DrainIsHeld
      <4>2. \A p \in Verbatim : live[p] = asked[p]
        BY <4>1, SettersAssumption DEF QueueInv, PostsTakeEffectInOrder, InOrder, Applied
      <4> QED BY <2>4, <3>1, <4>2 DEF DrainLook
    <3>2. CASE queue # <<>> BY <2>4, <3>2 DEF DrainLook
    <3> QED BY <3>1, <3>2
  <2>5. CASE DrainRun BY <2>5 DEF DrainRun
  <2>6. CASE BlockBegin BY <2>6 DEF BlockBegin
  <2>7. CASE Dsp BY <2>7 DEF Dsp, BlockDrained, BlockReadsParams, BlockEnd
  <2>8. CASE ControlCall \/ StopJoins \/ ControlLocks
    BY <2>8 DEF ControlCall, StopJoins, ControlLocks
  <2>9. CASE Control BY <2>9 DEF Control, StartReturns, RateJoins, RateRebuilds, RatePublishes
  <2>10. CASE UNCHANGED vars BY <2>10 DEF vars
  <2> QED BY <2>1, <2>2, <2>3, <2>4, <2>5, <2>6, <2>7, <2>8, <2>9, <2>10 DEF Next, Drain
<1>2. QueueInv /\ [Next]_vars => [ReadYourWrites => ReadYourWrites' \/ ctl = "rebuilt"]_vars
  BY <1>1
<1> QED BY <1>2, QueueInvariant, PTL DEF Spec, OnlyRateSwitchForgets
===============================================================================
