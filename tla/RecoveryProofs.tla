--------------------------- MODULE RecoveryProofs ---------------------------
(***************************************************************************)
(* For any number of users, overlapping calls, loads, entries and faults:  *)
(* the stored offset of a user never passes an entry that the user has not *)
(* got, and goes back only when calls overlap, fail or name an ID; two     *)
(* loads fill the stream only when one read it while the other injected,   *)
(* and loads one after the other all show the same messages.               *)
(***************************************************************************)
EXTENDS Recovery, FiniteSetTheorems, TLAPS

Got(u) == delivered[u] \cup skipped[u]

(* The part of TypeOK that the argument needs, and that what a call has     *)
(* read is no later than the end of the stream: an entry added after that   *)
(* has a greater ID.                                                        *)
Positions ==
  /\ \E S : log \in Seq(S)
  /\ Len(log) <= MaxEntries
  /\ entries \subseteq 1 .. Len(log)
  /\ offset \in [Users -> 0 .. Len(log)]
  /\ call \in [Calls -> CallState]
  /\ \A c \in Calls : /\ call[c].from <= Len(log) /\ call[c].last <= Len(log)
                      /\ call[c].todo \subseteq 1 .. Len(log)
  /\ delivered \in [Users -> SUBSET Nat]
  /\ skipped \in [Users -> SUBSET Nat]

(* Every entry up to id is in the set s. *)
UpTo(id, s) == \A j \in entries : j <= id => j \in s

(* What a call is going to make of the offset rests on what the user has    *)
(* got, together with what the call is still to deliver.                    *)
Backed(c) ==
  /\ call[c].pc = "range" => UpTo(call[c].from, Got(UserOf[c]))
  /\ call[c].pc = "deliver" =>
       \A t \in call[c].todo : UpTo(t, Got(UserOf[c]) \cup call[c].todo)
  /\ call[c].pc = "save" => UpTo(call[c].last, Got(UserOf[c]))

OffsetInv == Positions /\ OffsetCovered /\ \A c \in Calls : Backed(c)

(* A step of a call other than its effect on the call itself. *)
CallFrame(c) ==
  /\ UNCHANGED <<log, entries>>
  /\ \A d \in Calls \ {c} : call'[d] = call[d]
  /\ \A u \in Users : Got(u) \subseteq Got(u)'

USE RecoveryAssumption

-----------------------------------------------------------------------------
(* XADD gives the new entry an ID that no call has read yet. *)
LEMMA XAddEnd ==
  ASSUME NEW m, Positions, XAdd(m)
  PROVE  /\ \E S : log' \in Seq(S)
         /\ Len(log) \in Nat
         /\ Len(log') = Len(log) + 1
         /\ Len(log') <= MaxEntries
         /\ entries' = entries \cup {Len(log) + 1}
<1>1. PICK S : log \in Seq(S)
  BY DEF Positions
<1>2. log \in Seq(S \cup {m}) /\ m \in S \cup {m}
  BY <1>1
<1>3. log' = Append(log, m) /\ entries' = entries \cup {Len(log) + 1}
      /\ Len(log) < MaxEntries
  BY DEF XAdd
<1> DEFINE T == S \cup {m}
<1>4. log' \in Seq(T) /\ Len(log') = Len(log) + 1 /\ Len(log) \in Nat
  <2> HIDE DEF T
  <2> QED
    BY <1>2, <1>3 DEF T
<1> QED
  BY <1>3, <1>4

(* The stream grows at its end, or loses entries: the invariant stays. *)
LEMMA StreamStep ==
  ASSUME OffsetInv, UNCHANGED <<offset, call, delivered, skipped>>,
         \/ \E m : XAdd(m)
         \/ UNCHANGED log /\ entries' \subseteq entries
  PROVE  OffsetInv'
<1>1. CASE UNCHANGED log /\ entries' \subseteq entries
  <2>1. Positions'
    BY <1>1 DEF OffsetInv, Positions
  <2>2. OffsetCovered'
    BY <1>1 DEF OffsetInv, OffsetCovered
  <2>3. ASSUME NEW c \in Calls PROVE Backed(c)'
    BY <1>1 DEF OffsetInv, Backed, UpTo, Got
  <2> QED
    BY <2>1, <2>2, <2>3 DEF OffsetInv
<1>2. ASSUME NEW m, XAdd(m) PROVE OffsetInv'
  <2> DEFINE n == Len(log)
  <2>1. /\ \E S : log' \in Seq(S)
        /\ n \in Nat /\ Len(log') = n + 1 /\ n + 1 <= MaxEntries
        /\ entries' = entries \cup {n + 1}
    BY <1>2, XAddEnd DEF OffsetInv
  <2>2. /\ entries \subseteq 1 .. n /\ offset \in [Users -> 0 .. n]
        /\ call \in [Calls -> CallState]
        /\ \A c \in Calls : /\ call[c].from <= n /\ call[c].last <= n
                            /\ call[c].todo \subseteq 1 .. n
    BY DEF OffsetInv, Positions
  <2> HIDE DEF n
  <2>3. ASSUME NEW c \in Calls
        PROVE  /\ call[c].from \in Nat /\ call[c].last \in Nat
               /\ call[c].from <= n + 1 /\ call[c].last <= n + 1
               /\ call[c].todo \subseteq 1 .. n + 1
    BY <2>1, <2>2 DEF CallState
  <2>4. entries' \subseteq 1 .. n + 1 /\ offset \in [Users -> 0 .. n + 1]
    <3>1. 1 .. n \subseteq 1 .. n + 1 /\ n + 1 \in 1 .. n + 1
          /\ 0 .. n \subseteq 0 .. n + 1
      BY <2>1
    <3> HIDE DEF n
    <3> QED
      BY <2>1, <2>2, <3>1
  <2>5. Positions'
    BY <2>1, <2>2, <2>3, <2>4 DEF OffsetInv, Positions
  <2>6. OffsetCovered'
    <3>1. ASSUME NEW u \in Users, NEW id \in entries', id <= offset[u]
          PROVE  id \in delivered[u] \cup skipped[u]
      <4>1. offset[u] \in 0 .. n
        BY <2>2
      <4>2. id \in entries
        BY <2>1, <3>1, <4>1
      <4> QED
        BY <3>1, <4>2 DEF OffsetInv, OffsetCovered
    <3> QED
      BY <3>1 DEF OffsetCovered
  <2>7. ASSUME NEW c \in Calls PROVE Backed(c)'
    <3>1. ASSUME NEW id \in 0 .. n, NEW s, UpTo(id, s)
          PROVE  \A j \in entries' : j <= id => j \in s
      BY <2>1, <3>1 DEF UpTo
    <3>2. call[c].from \in 0 .. n /\ call[c].last \in 0 .. n
          /\ \A t \in call[c].todo : t \in 0 .. n
      BY <2>1, <2>2, <2>3
    <3>3. Backed(c) /\ call' = call /\ Got(UserOf[c])' = Got(UserOf[c])
      BY DEF OffsetInv, Got
    <3>4. call[c].pc = "range" => UpTo(call[c].from, Got(UserOf[c]))'
      BY <3>1, <3>2, <3>3 DEF Backed, UpTo
    <3>5. call[c].pc = "save" => UpTo(call[c].last, Got(UserOf[c]))'
      BY <3>1, <3>2, <3>3 DEF Backed, UpTo
    <3>6. call[c].pc = "deliver" =>
            \A t \in call[c].todo :
              UpTo(t, Got(UserOf[c]) \cup call[c].todo)'
      BY <3>1, <3>2, <3>3 DEF Backed, UpTo
    <3> QED
      BY <3>3, <3>4, <3>5, <3>6 DEF Backed
  <2> QED
    BY <2>5, <2>6, <2>7 DEF OffsetInv
<1> QED
  BY <1>1, <1>2

-----------------------------------------------------------------------------
(* First is closed downwards: with an entry, COUNT returns all earlier ones. *)
LEMMA FirstDown ==
  ASSUME NEW n \in Nat, NEW S \in SUBSET (1 .. n), NEW limit \in Nat,
         NEW t \in First(S, limit), NEW j \in S, j <= t
  PROVE  j \in First(S, limit)
<1> DEFINE Below(i) == {k \in S : k <= i}
<1>1. IsFiniteSet(1 .. n)
  BY FS_Interval
<1>2. IsFiniteSet(S)
  BY <1>1, FS_Subset
<1>3. Below(t) \subseteq S /\ Below(j) \subseteq Below(t)
  <2>1. t \in Int /\ j \in Int
    BY DEF First
  <2>2. ASSUME NEW i \in Below(j) PROVE i \in Below(t)
    <3>1. i \in S /\ i \in Int /\ i <= j
      OBVIOUS
    <3> QED
      BY <2>1, <3>1
  <2> QED
    BY <2>2
<1>4. IsFiniteSet(Below(t))
  BY <1>2, <1>3, FS_Subset
<1>5. Cardinality(Below(j)) <= Cardinality(Below(t))
  BY <1>3, <1>4, FS_Subset
<1>6. IsFiniteSet(Below(j))
  BY <1>3, <1>4, FS_Subset
<1>7. Cardinality(Below(j)) \in Nat /\ Cardinality(Below(t)) \in Nat
  BY <1>4, <1>6, FS_CardinalityType
<1>8. Cardinality(Below(t)) <= limit
  BY DEF First
<1>9. Cardinality(Below(j)) <= limit
  <2> HIDE DEF Below
  <2> QED
    BY <1>5, <1>7, <1>8
<1> QED
  BY <1>9 DEF First

(* What a step of call c has to establish. *)
LEMMA CallStepInv ==
  ASSUME OffsetInv, NEW c \in Calls, CallFrame(c),
         NEW r \in CallState, call' = [call EXCEPT ![c] = r],
         r.from <= Len(log), r.last <= Len(log), r.todo \subseteq 1 .. Len(log),
         delivered' \in [Users -> SUBSET Nat],
         skipped' \in [Users -> SUBSET Nat],
         offset' \in [Users -> 0 .. Len(log)],
         OffsetCovered', Backed(c)'
  PROVE  OffsetInv'
<1>1. call'[c] = r /\ call' \in [Calls -> CallState]
  BY DEF OffsetInv, Positions
<1>2. Positions'
  BY <1>1 DEF OffsetInv, Positions, CallFrame
<1>3. ASSUME NEW d \in Calls, d # c PROVE Backed(d)'
  <2>1. call'[d] = call[d] /\ entries' = entries
        /\ Got(UserOf[d]) \subseteq Got(UserOf[d])' /\ Backed(d)
    BY <1>3 DEF CallFrame, OffsetInv
  <2> QED
    BY <2>1 DEF Backed, UpTo
<1> QED
  BY <1>2, <1>3 DEF OffsetInv

(* A step that leaves offset, delivered and skipped alone. *)
LEMMA QuietStep ==
  ASSUME OffsetInv, NEW c \in Calls,
         UNCHANGED <<log, entries, offset, delivered, skipped>>,
         NEW r \in CallState, call' = [call EXCEPT ![c] = r],
         r.from <= Len(log), r.last <= Len(log), r.todo \subseteq 1 .. Len(log),
         Backed(c)'
  PROVE  OffsetInv'
<1>1. CallFrame(c)
  BY DEF CallFrame, OffsetInv, Positions, Got
<1>2. OffsetCovered'
  BY DEF OffsetInv, OffsetCovered
<1>3. /\ delivered' \in [Users -> SUBSET Nat] /\ skipped' \in [Users -> SUBSET Nat]
      /\ offset' \in [Users -> 0 .. Len(log)]
  BY DEF OffsetInv, Positions
<1> QED
  BY <1>1, <1>2, <1>3, CallStepInv

-----------------------------------------------------------------------------
(* Each step of a call keeps the invariant. *)
LEMMA CallInv ==
  ASSUME OffsetInv, NEW c \in Calls, CallStep(c)
  PROVE  OffsetInv'
<1> DEFINE u == UserOf[c]
           n == Len(log)
<1>a. /\ n \in Nat /\ n <= MaxEntries /\ MaxEntries \in Nat
      /\ entries \subseteq 1 .. n
      /\ call[c] \in CallState /\ call \in [Calls -> CallState]
      /\ u \in Users /\ offset[u] \in 0 .. n
      /\ call[c].from <= n /\ call[c].last <= n /\ call[c].todo \subseteq 1 .. n
      /\ Backed(c) /\ OffsetCovered
  <2>1. PICK S : log \in Seq(S)
    BY DEF OffsetInv, Positions
  <2>2. n \in Nat
    BY <2>1
  <2> QED
    BY <2>2 DEF OffsetInv, Positions
<1>b. /\ [pc |-> "idle", from |-> 0, todo |-> {}, last |-> 0] \in CallState
      /\ Return(c) = [pc |-> "idle", from |-> 0, todo |-> {}, last |-> 0]
  BY <1>a DEF CallState, Return
<1>c. ASSUME UNCHANGED <<log, entries, offset, delivered, skipped>>,
             call' = [call EXCEPT ![c] = Return(c)]
      PROVE  OffsetInv'
  <2> DEFINE r == [pc |-> "idle", from |-> 0, todo |-> {}, last |-> 0]
  <2>1. r.from <= n /\ r.last <= n /\ r.todo \subseteq 1 .. n /\ r.pc = "idle"
    BY <1>a
  <2>2. call'[c] = r /\ r \in CallState /\ call' = [call EXCEPT ![c] = r]
    BY <1>a, <1>b, <1>c
  <2>3. Backed(c)'
    BY <2>1, <2>2 DEF Backed
  <2> HIDE DEF r
  <2> QED
    BY <1>c, <2>1, <2>2, <2>3, QuietStep
<1>1. CASE GetOffset(c) \/ GetOffsetFails(c)
  <2>1. PICK f \in 0 .. n :
          /\ call' = [call EXCEPT ![c] = [@ EXCEPT !.pc = "range", !.from = f]]
          /\ UpTo(f, Got(u))
    <3>1. CASE GetOffset(c)
      BY <1>a, <3>1 DEF GetOffset, UpTo, Got, OffsetCovered
    <3>2. CASE GetOffsetFails(c)
      <4>1. \A j \in entries : ~(j <= 0)
        BY <1>a
      <4>2. UpTo(0, Got(u)) /\ 0 \in 0 .. n
        BY <1>a, <4>1 DEF UpTo
      <4>3. call' = [call EXCEPT ![c] = [@ EXCEPT !.pc = "range", !.from = 0]]
        BY <1>a, <3>2 DEF GetOffsetFails
      <4> QED
        BY <4>2, <4>3
    <3> QED
      BY <1>1, <3>1, <3>2
  <2> DEFINE r == [call[c] EXCEPT !.pc = "range", !.from = f]
  <2>2. UNCHANGED <<log, entries, offset, delivered, skipped>>
    BY <1>1 DEF GetOffset, GetOffsetFails, callOnly, streamVars
  <2>3. /\ r \in CallState /\ r.pc = "range" /\ r.from = f
        /\ r.last = call[c].last /\ r.todo = call[c].todo
    <3>1. f \in 0 .. MaxEntries
      BY <1>a, <2>1
    <3> QED
      BY <1>a, <3>1 DEF CallState
  <2>4. call' = [call EXCEPT ![c] = r] /\ call'[c] = r
    BY <1>a, <2>1
  <2> HIDE DEF r
  <2>5. Backed(c)'
    BY <2>1, <2>2, <2>3, <2>4 DEF Backed, UpTo, Got
  <2>6. r.from <= n /\ r.last <= n /\ r.todo \subseteq 1 .. n
    BY <1>a, <2>1, <2>3
  <2> QED
    BY <2>2, <2>3, <2>4, <2>5, <2>6, QuietStep
<1>2. CASE XRange(c)
  <2> DEFINE batch == First(After(call[c].from), RecoverLimit)
             r == [call[c] EXCEPT !.pc = "deliver", !.todo = batch]
  <2>1. UNCHANGED <<log, entries, offset, delivered, skipped>>
        /\ call[c].pc = "range"
    BY <1>2 DEF XRange, callOnly, streamVars
  <2>2. CASE batch = {}
    BY <1>2, <1>c, <2>1, <2>2 DEF XRange
  <2>3. CASE batch # {}
    <3>1. batch \subseteq After(call[c].from) /\ After(call[c].from) \subseteq entries
      BY DEF First, After
    <3>2. batch \subseteq 1 .. n /\ 1 .. n \subseteq IDs
      <4>1. 1 .. n \subseteq IDs
        BY <1>a DEF IDs
      <4> HIDE DEF batch, n
      <4> QED
        BY <1>a, <3>1, <4>1
    <3>3. ASSUME NEW t \in batch, NEW j \in entries, j <= t
          PROVE  j \in Got(u) \cup batch
      <4>1. CASE j <= call[c].from
        BY <1>a, <2>1, <4>1 DEF Backed, UpTo
      <4>2. CASE ~(j <= call[c].from)
        <5>1. j \in After(call[c].from)
          BY <1>a, <4>2 DEF After, CallState
        <5>2. After(call[c].from) \in SUBSET (1 .. n) /\ RecoverLimit \in Nat
          BY <1>a, <3>1
        <5> QED
          BY <1>a, <3>3, <5>1, <5>2, FirstDown
      <4> QED
        BY <4>1, <4>2
    <3> HIDE DEF batch
    <3>4. /\ r \in CallState /\ r.pc = "deliver" /\ r.from = call[c].from
          /\ r.last = call[c].last /\ r.todo = batch
      BY <1>a, <3>2 DEF CallState
    <3>5. call' = [call EXCEPT ![c] = r] /\ call'[c] = r
      BY <1>2, <1>a, <2>3 DEF XRange, batch
    <3> HIDE DEF r
    <3>6. Backed(c)'
      BY <2>1, <3>3, <3>4, <3>5 DEF Backed, UpTo, Got
    <3> QED
      BY <1>a, <2>1, <3>2, <3>4, <3>5, <3>6, QuietStep
  <2> QED
    BY <2>2, <2>3
<1>3. CASE XRangeFails(c)
  BY <1>3, <1>c DEF XRangeFails, callOnly, streamVars
<1>4. CASE Deliver(c)
  <2>1. /\ UNCHANGED <<log, entries, offset, skipped>>
        /\ call[c].pc = "deliver"
        /\ delivered' = [delivered EXCEPT ![u] = @ \cup call[c].todo]
    BY <1>4 DEF Deliver, callOnly, streamVars
  <2>2. PICK id \in call[c].todo :
          call' = [call EXCEPT ![c] = [@ EXCEPT !.pc = "save", !.last = id,
                                                !.todo = {}]]
    BY <1>4, <1>a DEF Deliver
  <2> DEFINE r == [call[c] EXCEPT !.pc = "save", !.last = id, !.todo = {}]
  <2>3. id \in 1 .. n /\ id \in 0 .. MaxEntries
    BY <1>a, <2>2
  <2>4. /\ r \in CallState /\ r.pc = "save" /\ r.last = id /\ r.todo = {}
        /\ r.from = call[c].from
    BY <1>a, <2>3 DEF CallState
  <2>5. call' = [call EXCEPT ![c] = r] /\ call'[c] = r
    BY <1>a, <2>2
  <2> HIDE DEF r
  <2>6. /\ delivered \in [Users -> SUBSET Nat] /\ skipped \in [Users -> SUBSET Nat]
        /\ offset \in [Users -> 0 .. n] /\ call[c].todo \subseteq Nat
    BY <1>a DEF OffsetInv, Positions
  <2>7. /\ delivered' \in [Users -> SUBSET Nat]
        /\ delivered'[u] = delivered[u] \cup call[c].todo
        /\ \A v \in Users : delivered[v] \subseteq delivered'[v]
    BY <1>a, <2>1, <2>6
  <2>8. CallFrame(c)
    BY <2>1, <2>5, <2>6, <2>7 DEF CallFrame, Got, OffsetInv, Positions
  <2>9. OffsetCovered'
    BY <1>a, <2>1, <2>7 DEF OffsetCovered
  <2>10. Backed(c)'
    <3>1. UpTo(id, Got(u) \cup call[c].todo)
      BY <1>a, <2>1, <2>2 DEF Backed
    <3>2. Got(u)' = Got(u) \cup call[c].todo /\ entries' = entries
      BY <2>1, <2>7 DEF Got
    <3> QED
      BY <2>4, <2>5, <3>1, <3>2 DEF Backed, UpTo
  <2>11. r.from <= n /\ r.last <= n /\ r.todo \subseteq 1 .. n
    BY <1>a, <2>3, <2>4
  <2> QED
    BY <2>1, <2>4, <2>5, <2>6, <2>7, <2>8, <2>9, <2>10, <2>11, CallStepInv
<1>5. CASE DeliverFails(c)
  <2>1. /\ UNCHANGED <<log, entries, offset, skipped>>
        /\ call' = [call EXCEPT ![c] = Return(c)]
    BY <1>5 DEF DeliverFails, callOnly, streamVars
  <2>2. PICK done \in Prefixes(call[c].todo) :
          delivered' = [delivered EXCEPT ![u] = @ \cup done]
    BY <1>5 DEF DeliverFails
  <2>3. done \subseteq Nat
    BY <1>a DEF Prefixes
  <2>4. /\ delivered \in [Users -> SUBSET Nat] /\ skipped \in [Users -> SUBSET Nat]
        /\ offset \in [Users -> 0 .. n]
    BY DEF OffsetInv, Positions
  <2>5. /\ delivered' \in [Users -> SUBSET Nat]
        /\ \A v \in Users : delivered[v] \subseteq delivered'[v]
    BY <1>a, <2>2, <2>3, <2>4
  <2> DEFINE r == [pc |-> "idle", from |-> 0, todo |-> {}, last |-> 0]
  <2>6. call'[c] = r /\ r \in CallState /\ call' = [call EXCEPT ![c] = r]
    BY <1>a, <1>b, <2>1
  <2>7. r.from <= n /\ r.last <= n /\ r.todo \subseteq 1 .. n /\ r.pc = "idle"
    BY <1>a
  <2> HIDE DEF r
  <2>8. CallFrame(c)
    BY <2>1, <2>4, <2>5, <2>6 DEF CallFrame, Got, OffsetInv, Positions
  <2>9. OffsetCovered' /\ Backed(c)'
    BY <1>a, <2>1, <2>5, <2>6, <2>7 DEF OffsetCovered, Backed
  <2> QED
    BY <2>1, <2>4, <2>5, <2>6, <2>7, <2>8, <2>9, CallStepInv
<1>6. CASE SaveOffset(c) \/ SaveOffsetFails(c)
  <2>1. /\ UNCHANGED <<log, entries, delivered, skipped>>
        /\ call' = [call EXCEPT ![c] = Return(c)] /\ call[c].pc = "save"
        /\ \/ offset' = offset
           \/ offset' = [offset EXCEPT ![u] = call[c].last]
    BY <1>6 DEF SaveOffset, SaveOffsetFails, callOnly, streamVars
  <2>2. CASE offset' = offset
    BY <1>c, <2>1, <2>2
  <2>3. CASE offset' = [offset EXCEPT ![u] = call[c].last]
    <3>1. call[c].last \in 0 .. n
      BY <1>a DEF CallState
    <3>2. /\ delivered \in [Users -> SUBSET Nat]
          /\ skipped \in [Users -> SUBSET Nat]
          /\ offset \in [Users -> 0 .. n]
      BY DEF OffsetInv, Positions
    <3> HIDE DEF n
    <3>3. offset' \in [Users -> 0 .. n] /\ offset'[u] = call[c].last
          /\ \A v \in Users : v # u => offset'[v] = offset[v]
      BY <1>a, <2>3, <3>1, <3>2
    <3>4. OffsetCovered'
      BY <1>a, <2>1, <3>3 DEF OffsetCovered, Backed, UpTo, Got
    <3> DEFINE r == [pc |-> "idle", from |-> 0, todo |-> {}, last |-> 0]
    <3>5. call'[c] = r /\ r \in CallState /\ call' = [call EXCEPT ![c] = r]
      BY <1>a, <1>b, <2>1
    <3>6. r.from <= n /\ r.last <= n /\ r.todo \subseteq 1 .. n /\ r.pc = "idle"
      BY <1>a
    <3> HIDE DEF r
    <3>7. CallFrame(c) /\ Backed(c)'
      BY <2>1, <3>5, <3>6 DEF CallFrame, Got, Backed, OffsetInv, Positions
    <3> QED
      BY <2>1, <3>2, <3>3, <3>4, <3>5, <3>6, <3>7, CallStepInv DEF n
  <2> QED
    BY <2>1, <2>2, <2>3
<1> QED
  BY <1>1, <1>2, <1>3, <1>4, <1>5, <1>6 DEF CallStep

(* A call begins: with the stored offset still to be read, or from an ID    *)
(* that the client names, up to which it needs nothing.                     *)
LEMMA BeginInv ==
  ASSUME OffsetInv, NEW c \in Calls,
         Recover(c) \/ \E id \in 0 .. Len(log) : RecoverFrom(c, id)
  PROVE  OffsetInv'
<1> DEFINE u == UserOf[c]
           n == Len(log)
<1>a. /\ n \in Nat /\ n <= MaxEntries /\ MaxEntries \in Nat
      /\ entries \subseteq 1 .. n
      /\ call[c] \in CallState /\ call \in [Calls -> CallState]
      /\ u \in Users /\ offset \in [Users -> 0 .. n]
      /\ delivered \in [Users -> SUBSET Nat]
      /\ skipped \in [Users -> SUBSET Nat]
      /\ call[c].from <= n /\ call[c].last <= n /\ call[c].todo \subseteq 1 .. n
      /\ OffsetCovered
  <2>1. PICK S : log \in Seq(S)
    BY DEF OffsetInv, Positions
  <2>2. n \in Nat
    BY <2>1
  <2> QED
    BY <2>2 DEF OffsetInv, Positions
<1>1. CASE Recover(c)
  <2> DEFINE r == [call[c] EXCEPT !.pc = "offset"]
  <2>1. UNCHANGED <<log, entries, offset, delivered, skipped>>
    BY <1>1 DEF Recover, callOnly, streamVars
  <2>2. /\ r \in CallState /\ r.pc = "offset" /\ r.from = call[c].from
        /\ r.last = call[c].last /\ r.todo = call[c].todo
    BY <1>a DEF CallState
  <2>3. call' = [call EXCEPT ![c] = r] /\ call'[c] = r
    BY <1>1, <1>a DEF Recover
  <2> HIDE DEF r
  <2>4. Backed(c)'
    BY <2>2, <2>3 DEF Backed
  <2> QED
    BY <1>a, <2>1, <2>2, <2>3, <2>4, QuietStep
<1>2. ASSUME NEW id \in 0 .. n, RecoverFrom(c, id) PROVE OffsetInv'
  <2> DEFINE r == [call[c] EXCEPT !.pc = "range", !.from = id]
  <2>1. /\ UNCHANGED <<log, entries, offset, delivered>>
        /\ skipped' = [skipped EXCEPT ![u] = @ \cup 1 .. id]
    BY <1>2 DEF RecoverFrom, callOnly, streamVars
  <2>2. id \in 0 .. MaxEntries /\ 1 .. id \subseteq Nat
    BY <1>a
  <2>3. /\ r \in CallState /\ r.pc = "range" /\ r.from = id
        /\ r.last = call[c].last /\ r.todo = call[c].todo
    BY <1>a, <2>2 DEF CallState
  <2>4. call' = [call EXCEPT ![c] = r] /\ call'[c] = r
    BY <1>2, <1>a DEF RecoverFrom
  <2> HIDE DEF r
  <2>5. /\ skipped' \in [Users -> SUBSET Nat]
        /\ skipped'[u] = skipped[u] \cup 1 .. id
        /\ \A v \in Users : skipped[v] \subseteq skipped'[v]
    BY <1>a, <2>1, <2>2
  <2>6. CallFrame(c)
    BY <1>a, <2>1, <2>4, <2>5 DEF CallFrame, Got
  <2>7. OffsetCovered'
    BY <1>a, <2>1, <2>5 DEF OffsetCovered
  <2>8. Backed(c)'
    <3>1. \A j \in entries : j <= id => j \in 1 .. id
      BY <1>a
    <3>2. 1 .. id \subseteq Got(u)' /\ entries' = entries
      BY <2>1, <2>5 DEF Got
    <3> QED
      BY <2>3, <2>4, <3>1, <3>2 DEF Backed, UpTo
  <2>9. r.from <= n /\ r.last <= n /\ r.todo \subseteq 1 .. n
    BY <1>a, <2>3
  <2> QED
    BY <1>a, <2>1, <2>3, <2>4, <2>5, <2>6, <2>7, <2>8, <2>9, CallStepInv
<1> QED
  BY <1>1, <1>2

-----------------------------------------------------------------------------
(* Before the first call nothing is stored and nothing is in the stream. *)
LEMMA OffsetInit == Init => OffsetInv
<1> SUFFICES ASSUME Init PROVE OffsetInv
  OBVIOUS
<1>1. log = << >> /\ log \in Seq({}) /\ Len(log) = 0 /\ entries = {}
  BY DEF Init
<1> DEFINE r == [pc |-> "idle", from |-> 0, todo |-> {}, last |-> 0]
<1>2. call = [c \in Calls |-> r]
  BY DEF Init
<1>3. /\ r \in CallState /\ r.pc = "idle" /\ r.from = 0 /\ r.last = 0
      /\ r.todo = {}
  BY DEF CallState
<1> HIDE DEF r
<1>4. Positions
  <2>1. Len(log) <= MaxEntries /\ entries \subseteq 1 .. Len(log)
    BY <1>1, RecoveryAssumption
  <2>2. offset \in [Users -> 0 .. Len(log)]
    <3>1. offset = [u \in Users |-> 0] /\ 0 \in 0 .. Len(log)
      BY <1>1 DEF Init
    <3> QED
      BY <3>1
  <2>3. delivered \in [Users -> SUBSET Nat] /\ skipped \in [Users -> SUBSET Nat]
    BY DEF Init
  <2>4. \A c \in Calls : call[c] = r
    BY <1>2
  <2>5. call \in [Calls -> CallState]
    BY <1>2, <1>3
  <2>6. \A c \in Calls : /\ call[c].from <= Len(log) /\ call[c].last <= Len(log)
                         /\ call[c].todo \subseteq 1 .. Len(log)
    BY <1>1, <1>3, <2>4
  <2>7. \E S : log \in Seq(S)
    BY <1>1
  <2> QED
    BY <2>1, <2>2, <2>3, <2>5, <2>6, <2>7 DEF Positions
<1>5. OffsetCovered /\ \A c \in Calls : Backed(c)
  BY <1>1, <1>2, <1>3 DEF OffsetCovered, Backed
<1> QED
  BY <1>4, <1>5 DEF OffsetInv

(* Calls, loads of history, publishing, trimming and clearing, one by one. *)
LEMMA OffsetNext == OffsetInv /\ [Next]_vars => OffsetInv'
<1> SUFFICES ASSUME OffsetInv, [Next]_vars PROVE OffsetInv'
  OBVIOUS
<1> DEFINE Same == UNCHANGED <<offset, call, delivered, skipped>>
           Kept == UNCHANGED <<log, entries>>
<1>1. ASSUME NEW c \in Calls, Recover(c) \/ CallStep(c)
              \/ \E id \in 0 .. Len(log) : RecoverFrom(c, id)
      PROVE  OffsetInv'
  BY <1>1, CallInv, BeginInv
<1>2. ASSUME NEW l \in Loads,
             \/ LoadHistoryWithFallback(l) \/ LoadFails(l)
             \/ \E inject \in BOOLEAN : LoadExternalHistory(l, inject)
             \/ LoadDeliver(l) \/ LoadDeliverFails(l)
      PROVE  OffsetInv'
  <2>1. Same /\ Kept
    BY <1>2 DEF LoadHistoryWithFallback, LoadFails, LoadExternalHistory,
                LoadDeliver, LoadDeliverFails, loadOnly
  <2> QED
    BY <2>1, StreamStep
<1>3. ASSUME NEW l \in Loads, Inject(l) \/ InjectFails(l) PROVE OffsetInv'
  <2>1. Same /\ (Kept \/ XAdd(load[l].next))
    BY <1>3 DEF Inject, InjectFails, loadOnly
  <2> QED
    BY <2>1, StreamStep
<1>4. CASE Publish
  <2>1. Same /\ XAdd(Published)
    BY <1>4 DEF Publish, adminVars
  <2> QED
    BY <2>1, StreamStep
<1>5. CASE TrimRedisHistory \/ ClearRedisHistory
  <2>1. Same /\ UNCHANGED log /\ entries' \subseteq entries
    BY <1>5 DEF TrimRedisHistory, ClearRedisHistory, Remove, adminVars
  <2> QED
    BY <2>1, StreamStep
<1>6. CASE UNCHANGED vars
  <2>1. Same /\ Kept
    BY <1>6 DEF vars
  <2> QED
    BY <2>1, StreamStep
<1> QED
  BY <1>1, <1>2, <1>3, <1>4, <1>5, <1>6 DEF Next, LoadStep

(* Whatever recoveries overlap, fail or are repeated, and whatever is       *)
(* published, trimmed, cleared or injected meanwhile, the offset stored by  *)
(* RecoverAndDeliver never passes an entry of the stream that the user has  *)
(* neither received nor skipped (relay.go:344-412).                         *)
THEOREM OffsetNeverAhead == Spec => []OffsetCovered
<1>1. OffsetInv => OffsetCovered
  BY DEF OffsetInv
<1> QED
  BY OffsetInit, OffsetNext, <1>1, PTL DEF Spec

-----------------------------------------------------------------------------
(* The direction of the offset *)

(* What a call has read, and what it will save, lies behind the ID at which *)
(* it started.                                                              *)
Ahead(c) ==
  /\ call[c].pc = "deliver" => \A t \in call[c].todo : t > call[c].from
  /\ call[c].pc = "save" => call[c].last > call[c].from

ForwardInv == OffsetInv /\ \A c \in Calls : Ahead(c)

(* The steps of a call keep that. *)
LEMMA AheadCall ==
  ASSUME ForwardInv, NEW c \in Calls,
         Recover(c) \/ CallStep(c) \/ \E id \in 0 .. Len(log) : RecoverFrom(c, id)
  PROVE  \A d \in Calls : Ahead(d)'
<1>0. /\ call \in [Calls -> CallState] /\ call[c] \in CallState
      /\ \A d \in Calls : Ahead(d)
  BY DEF ForwardInv, OffsetInv, Positions
<1>1. ASSUME NEW r, call' = [call EXCEPT ![c] = r], r.pc \notin {"deliver", "save"}
      PROVE  \A d \in Calls : Ahead(d)'
  BY <1>0, <1>1 DEF Ahead
<1>2. CASE Recover(c)
  <2>1. PICK r : r = [call[c] EXCEPT !.pc = "offset"]
    OBVIOUS
  <2>2. r.pc = "offset"
    BY <1>0, <2>1 DEF CallState
  <2>3. call' = [call EXCEPT ![c] = r]
    BY <1>0, <1>2, <2>1 DEF Recover
  <2> QED
    BY <1>1, <2>2, <2>3
<1>3. ASSUME NEW id \in 0 .. Len(log), RecoverFrom(c, id)
      PROVE  \A d \in Calls : Ahead(d)'
  <2>1. PICK r : r = [call[c] EXCEPT !.pc = "range", !.from = id]
    OBVIOUS
  <2>2. r.pc = "range"
    BY <1>0, <2>1 DEF CallState
  <2>3. call' = [call EXCEPT ![c] = r]
    BY <1>0, <1>3, <2>1 DEF RecoverFrom
  <2> QED
    BY <1>1, <2>2, <2>3
<1>4. CASE GetOffset(c) \/ GetOffsetFails(c)
  <2>1. PICK id : call' = [call EXCEPT ![c].pc = "range", ![c].from = id]
    BY <1>4 DEF GetOffset, GetOffsetFails
  <2>2. PICK r : r = [call[c] EXCEPT !.pc = "range", !.from = id]
    OBVIOUS
  <2>3. r.pc = "range"
    BY <1>0, <2>2 DEF CallState
  <2>4. call' = [call EXCEPT ![c] = r]
    BY <1>0, <2>1, <2>2
  <2> QED
    BY <1>1, <2>3, <2>4
<1>5. CASE \/ XRangeFails(c) \/ DeliverFails(c) \/ SaveOffset(c)
           \/ SaveOffsetFails(c)
  BY <1>1, <1>5 DEF XRangeFails, DeliverFails, SaveOffset, SaveOffsetFails, Return
<1>6. CASE XRange(c)
  <2>1. PICK batch : batch = First(After(call[c].from), RecoverLimit)
    OBVIOUS
  <2>2. \A t \in batch : t > call[c].from
    BY <2>1 DEF First, After
  <2>3. CASE batch = {}
    BY <1>1, <1>6, <2>1, <2>3 DEF XRange, Return
  <2>4. CASE batch # {}
    <3>1. call' = [call EXCEPT ![c] = [@ EXCEPT !.pc = "deliver", !.todo = batch]]
      BY <1>6, <2>1, <2>4 DEF XRange
    <3>2. /\ call'[c].pc = "deliver" /\ call'[c].todo = batch
          /\ call'[c].from = call[c].from
          /\ \A d \in Calls \ {c} : call'[d] = call[d]
      BY <1>0, <3>1 DEF CallState
    <3> QED
      BY <1>0, <2>2, <3>2 DEF Ahead
  <2> QED
    BY <2>3, <2>4
<1>7. CASE Deliver(c)
  <2>1. PICK id \in call[c].todo :
          call' = [call EXCEPT ![c].pc = "save", ![c].last = id, ![c].todo = {}]
    BY <1>7 DEF Deliver
  <2>2. /\ call'[c].pc = "save" /\ call'[c].last = id
        /\ call'[c].from = call[c].from
        /\ \A d \in Calls \ {c} : call'[d] = call[d]
    BY <1>0, <2>1 DEF CallState
  <2>3. id > call[c].from
    BY <1>0, <1>7, <2>1 DEF Ahead, Deliver
  <2> QED
    BY <1>0, <2>2, <2>3 DEF Ahead
<1> QED
  BY <1>2, <1>3, <1>4, <1>5, <1>6, <1>7 DEF CallStep

(* Nothing but the steps of calls changes a call or an offset. *)
LEMMA OnlyCalls ==
  ASSUME [Next]_vars
  PROVE  \/ UNCHANGED <<call, offset>>
         \/ \E c \in Calls : Recover(c) \/ CallStep(c)
                             \/ \E id \in 0 .. Len(log) : RecoverFrom(c, id)
<1>1. ASSUME NEW l \in Loads,
             \/ LoadHistoryWithFallback(l) \/ LoadFails(l) \/ LoadStep(l)
             \/ \E inject \in BOOLEAN : LoadExternalHistory(l, inject)
      PROVE  UNCHANGED <<call, offset>>
  BY <1>1 DEF LoadHistoryWithFallback, LoadFails, LoadExternalHistory, LoadStep,
              Inject, InjectFails, LoadDeliver, LoadDeliverFails, loadOnly
<1>2. CASE Publish \/ TrimRedisHistory \/ ClearRedisHistory
  BY <1>2 DEF Publish, TrimRedisHistory, ClearRedisHistory, Remove, adminVars
<1>3. CASE UNCHANGED vars
  BY <1>3 DEF vars
<1> QED
  BY <1>1, <1>2, <1>3 DEF Next

(* A step of the whole system keeps the invariant. *)
LEMMA ForwardNext == ForwardInv /\ [Next]_vars => ForwardInv'
<1> SUFFICES ASSUME ForwardInv, [Next]_vars PROVE ForwardInv'
  OBVIOUS
<1>1. OffsetInv'
  BY OffsetNext DEF ForwardInv
<1>2. CASE UNCHANGED <<call, offset>>
  BY <1>1, <1>2 DEF ForwardInv, Ahead
<1>3. ASSUME NEW c \in Calls,
             Recover(c) \/ CallStep(c) \/ \E id \in 0 .. Len(log) : RecoverFrom(c, id)
      PROVE  ForwardInv'
  BY <1>1, <1>3, AheadCall DEF ForwardInv
<1> QED
  BY <1>2, <1>3, OnlyCalls

(* SaveOffset overwrites without a comparison (relay.go, SaveOffset): the   *)
(* stored offset of a user goes back only by a call that did not start from *)
(* the offset it replaces.                                                  *)
THEOREM OffsetGoesForward == Spec => OffsetForward
<1> DEFINE Justified == \A u \in Users : offset'[u] < offset[u] =>
             \E c \in Calls : /\ UserOf[c] = u /\ call[c].pc = "save"
                              /\ call[c].from # offset[u]
<1>1. Init => ForwardInv
  <2> SUFFICES ASSUME Init PROVE ForwardInv
    OBVIOUS
  <2>1. \A c \in Calls : call[c].pc = "idle"
    BY DEF Init
  <2> QED
    BY <2>1, OffsetInit DEF ForwardInv, Ahead
<1>2. ForwardInv /\ [Next]_vars => Justified
  <2> SUFFICES ASSUME ForwardInv, [Next]_vars, NEW u \in Users,
                      offset'[u] < offset[u]
               PROVE  \E c \in Calls : /\ UserOf[c] = u /\ call[c].pc = "save"
                                       /\ call[c].from # offset[u]
    OBVIOUS
  <2>1. PICK n \in Nat : offset \in [Users -> 0 .. n]
    <3>1. PICK S : log \in Seq(S)
      BY DEF ForwardInv, OffsetInv, Positions
    <3>2. Len(log) \in Nat
      BY <3>1
    <3> QED
      BY <3>2 DEF ForwardInv, OffsetInv, Positions
  <2>2. offset' # offset
    BY <2>1
  <2>3. PICK c \in Calls :
          Recover(c) \/ CallStep(c) \/ \E id \in 0 .. Len(log) : RecoverFrom(c, id)
    BY <2>2, OnlyCalls
  <2>4. SaveOffset(c) \/ SaveOffsetFails(c)
    BY <2>2, <2>3 DEF CallStep, Recover, RecoverFrom, GetOffset, GetOffsetFails,
                      XRange, XRangeFails, Deliver, DeliverFails
  <2>5. /\ call[c].pc = "save"
        /\ offset' = [offset EXCEPT ![UserOf[c]] = call[c].last]
    BY <2>2, <2>4 DEF SaveOffset, SaveOffsetFails
  <2>6. UserOf[c] = u /\ offset'[u] = call[c].last
    BY <2>1, <2>5
  <2>7. call[c].last > call[c].from
    BY <2>5 DEF ForwardInv, Ahead
  <2>8. call[c].last \in Nat /\ call[c].from \in Nat /\ offset[u] \in Nat
    <3>1. call[c] \in CallState
      BY DEF ForwardInv, OffsetInv, Positions
    <3> QED
      BY <2>1, <3>1 DEF CallState
  <2> QED
    BY <2>5, <2>6, <2>7, <2>8
<1> QED
  BY <1>1, <1>2, ForwardNext, PTL DEF Spec, OffsetForward

-----------------------------------------------------------------------------
(* COUNT and the batches *)

(* The place of i in the set S. *)
Rank(S, i) == Cardinality({k \in S : k <= i})

(* The elements of a bounded set up to i are finitely many, and more of     *)
(* them lie below a greater element.                                        *)
LEMMA BelowFacts ==
  ASSUME NEW n \in Nat, NEW S \in SUBSET (1 .. n)
  PROVE  /\ \A i \in S : Rank(S, i) \in Nat /\ Rank(S, i) >= 1
         /\ \A i, j \in S : i < j => Rank(S, i) # Rank(S, j)
<1> DEFINE Below(i) == {k \in S : k <= i}
<1>1. IsFiniteSet(S)
  <2>1. IsFiniteSet(1 .. n)
    BY FS_Interval
  <2> QED
    BY <2>1, FS_Subset
<1>2. ASSUME NEW i \in S
      PROVE  IsFiniteSet(Below(i)) /\ Cardinality(Below(i)) \in Nat
  BY <1>1, FS_Subset, FS_CardinalityType
<1>3. ASSUME NEW i \in S PROVE Cardinality(Below(i)) >= 1
  <2>1. i \in Below(i)
    OBVIOUS
  <2>2. Cardinality(Below(i)) # 0
    BY <1>2, <2>1, FS_EmptySet
  <2> HIDE DEF Below
  <2> QED
    BY <1>2, <2>2
<1>4. ASSUME NEW i \in S, NEW j \in S, i < j
      PROVE  Cardinality(Below(i)) # Cardinality(Below(j))
  <2>1. \A k \in Below(i) : k \in Below(j)
    BY <1>4
  <2>2. Below(i) \in SUBSET Below(j)
    BY <2>1
  <2>3. j \in Below(j) /\ j \notin Below(i)
    BY <1>4
  <2> HIDE DEF Below
  <2> QED
    BY <1>2, <2>2, <2>3, FS_Subset
<1>5. \A i : Rank(S, i) = Cardinality(Below(i))
  BY DEF Rank
<1> HIDE DEF Below
<1> QED
  BY <1>2, <1>3, <1>4, <1>5

(* COUNT returns limit entries at most. *)
LEMMA FirstBound ==
  ASSUME NEW n \in Nat, NEW S \in SUBSET (1 .. n), NEW limit \in Nat
  PROVE  /\ First(S, limit) \subseteq S /\ IsFiniteSet(First(S, limit))
         /\ Cardinality(First(S, limit)) \in Nat
         /\ Cardinality(First(S, limit)) <= limit
<1>1. PICK F : F = First(S, limit)
  OBVIOUS
<1>2. F \subseteq S /\ \A i \in F : Rank(S, i) <= limit
  BY <1>1 DEF First, Rank
<1>3. IsFiniteSet(F) /\ Cardinality(F) \in Nat
  <2>1. IsFiniteSet(1 .. n) /\ F \in SUBSET (1 .. n)
    BY <1>2, FS_Interval
  <2> QED
    BY <2>1, FS_Subset, FS_CardinalityType
<1>4. IsFiniteSet(1 .. limit) /\ Cardinality(1 .. limit) = limit
  <2>1. /\ IsFiniteSet(1 .. limit)
        /\ Cardinality(1 .. limit) = IF 1 > limit THEN 0 ELSE limit - 1 + 1
    BY FS_Interval
  <2> QED
    BY <2>1
<1>5. PICK f : f = [i \in F |-> Rank(S, i)]
  OBVIOUS
<1>6. f \in [F -> 1 .. limit]
  <2>1. ASSUME NEW i \in F PROVE Rank(S, i) \in 1 .. limit
    <3>1. i \in S /\ Rank(S, i) <= limit
      BY <1>2
    <3>2. Rank(S, i) \in Nat /\ Rank(S, i) >= 1
      BY <3>1, BelowFacts
    <3> QED
      BY <3>1, <3>2
  <2> QED
    BY <1>5, <2>1
<1>7. ASSUME NEW x \in F, NEW y \in F, x # y PROVE f[x] # f[y]
  <2>1. x \in Int /\ y \in Int /\ x \in S /\ y \in S
    BY <1>2
  <2>2. x < y \/ y < x
    BY <1>7, <2>1
  <2>3. \A i, j \in S : i < j => Rank(S, i) # Rank(S, j)
    BY BelowFacts
  <2>4. Rank(S, x) # Rank(S, y)
    BY <2>1, <2>2, <2>3
  <2> QED
    BY <1>5, <2>4
<1>8. ~(Cardinality(1 .. limit) < Cardinality(F))
  BY <1>3, <1>4, <1>6, <1>7, FS_PigeonHole
<1> QED
  BY <1>1, <1>2, <1>3, <1>4, <1>8

(* In an unbroken range an entry's place is its ID, and COUNT returns the   *)
(* beginning.                                                               *)
LEMMA Unbroken ==
  ASSUME NEW n \in Nat
  PROVE  /\ \A i \in 1 .. n : Rank(1 .. n, i) = i
         /\ \A limit \in Nat : First(1 .. n, limit)
                               = 1 .. (IF n < limit THEN n ELSE limit)
<1>1. ASSUME NEW i \in 1 .. n PROVE Rank(1 .. n, i) = i
  <2>1. PICK B : B = {k \in 1 .. n : k <= i}
    OBVIOUS
  <2>2. \A k : k \in B <=> k \in 1 .. i
    BY <2>1
  <2>3. B = 1 .. i
    BY <2>2
  <2>4. Cardinality(1 .. i) = IF 1 > i THEN 0 ELSE i - 1 + 1
    BY FS_Interval
  <2>5. Cardinality(1 .. i) = i
    BY <2>4
  <2> QED
    BY <2>1, <2>3, <2>5 DEF Rank
<1>2. ASSUME NEW limit \in Nat
      PROVE  First(1 .. n, limit) = 1 .. (IF n < limit THEN n ELSE limit)
  <2>1. PICK F : F = First(1 .. n, limit)
    OBVIOUS
  <2>2. \A i : i \in F <=> i \in 1 .. n /\ Rank(1 .. n, i) <= limit
    BY <2>1 DEF First, Rank
  <2>3. PICK g : g = IF n < limit THEN n ELSE limit
    OBVIOUS
  <2>4. \A i : i \in F <=> i \in 1 .. g
    BY <1>1, <2>2, <2>3
  <2> QED
    BY <2>1, <2>3, <2>4
<1> QED
  BY <1>1, <1>2

(* What the application gives: the first LoadLimit messages or fewer. *)
LEMMA GivenFacts ==
  /\ Given \subseteq 1 .. NumExternal /\ Given \subseteq Nat
  /\ IsFiniteSet(Given) /\ Cardinality(Given) \in Nat
  /\ Cardinality(Given) <= LoadLimit
  /\ Given = First(1 .. NumExternal, LoadLimit)
<1>1. NumExternal \in Nat /\ LoadLimit \in Nat
  BY RecoveryAssumption
<1>2. Given = First(1 .. NumExternal, LoadLimit)
  BY <1>1, Unbroken DEF Given
<1>3. 1 .. NumExternal \in SUBSET (1 .. NumExternal)
  OBVIOUS
<1>4. /\ First(1 .. NumExternal, LoadLimit) \subseteq 1 .. NumExternal
      /\ IsFiniteSet(First(1 .. NumExternal, LoadLimit))
      /\ Cardinality(First(1 .. NumExternal, LoadLimit)) \in Nat
      /\ Cardinality(First(1 .. NumExternal, LoadLimit)) <= LoadLimit
  BY <1>1, <1>3, FirstBound
<1>5. 1 .. NumExternal \subseteq Nat
  BY <1>1
<1> QED
  BY <1>2, <1>4, <1>5

-----------------------------------------------------------------------------
(* Types *)

(* A load's record; what it has read of the stream are entries, and what it *)
(* injects next is one of the messages it was given.                        *)
LoadOK(r) ==
  /\ r \in LoadState /\ IsFiniteSet(r.todo) /\ Cardinality(r.todo) <= LoadLimit
  /\ r.source = "redis" => r.todo \subseteq 1 .. Len(log)
  /\ r.pc = "idle" => r.next = 1
  /\ r.pc = "inject" => r.todo = Given /\ r.next \in Given

LoadsTyped == /\ log \in Seq(0 .. NumExternal)
              /\ load \in [Loads -> LoadState] /\ \A l \in Loads : LoadOK(load[l])

Batches == \A c \in Calls : Cardinality(call[c].todo) <= RecoverLimit

Ranges == /\ delivered \in [Users -> SUBSET (1 .. Len(log))]
          /\ skipped \in [Users -> SUBSET (1 .. Len(log))]

Flags == /\ callers \in Scenarios /\ injected \subseteq Loads
         /\ peers \in [Loads -> SUBSET Loads]
         /\ removed \in BOOLEAN /\ calm \in BOOLEAN
         /\ budget \in [faults : Nat, explicit : Nat]

TypeInv == OffsetInv /\ LoadsTyped /\ Batches /\ Ranges /\ Flags

(* A load changes its own record, and leaves it in order. *)
LEMMA LoadChange ==
  ASSUME LoadsTyped, entries \subseteq 1 .. Len(log), NEW l \in Loads,
         \/ LoadHistoryWithFallback(l) \/ LoadFails(l) \/ LoadStep(l)
         \/ \E inject \in BOOLEAN : LoadExternalHistory(l, inject)
  PROVE  \E r : LoadOK(r) /\ load' = [load EXCEPT ![l] = r]
<1>0. /\ load \in [Loads -> LoadState] /\ log \in Seq(0 .. NumExternal)
      /\ LoadOK(load[l]) /\ Len(log) \in Nat
  BY DEF LoadsTyped
<1>1. PICK o : o = load[l]
  OBVIOUS
<1>2. /\ o \in LoadState /\ LoadOK(o) /\ o.kind \in {"fallback", "external"}
      /\ o.next \in Nat /\ o.todo \subseteq Nat
  BY <1>0, <1>1 DEF LoadState
<1>3. ASSUME NEW kind \in {"fallback", "external"}, NEW inject \in BOOLEAN,
             o.pc = "idle", UseGiven(l, kind, inject)
      PROVE  \E r : LoadOK(r) /\ load' = [load EXCEPT ![l] = r]
  <2>1. PICK pc \in {"inject", "deliver"} :
          /\ pc = "inject" => Given # {}
          /\ load' = [load EXCEPT ![l] = [@ EXCEPT !.pc = pc, !.kind = kind,
                                            !.source = "given", !.todo = Given]]
    BY <1>3 DEF UseGiven
  <2>2. PICK r : r = [o EXCEPT !.pc = pc, !.kind = kind, !.source = "given",
                               !.todo = Given]
    OBVIOUS
  <2>2a. Given \subseteq Nat
    BY GivenFacts
  <2>3. /\ r \in LoadState /\ r.pc = pc /\ r.todo = Given
        /\ r.source = "given" /\ r.next = o.next
    BY <1>2, <2>2, <2>2a DEF LoadState
  <2>4. o.next = 1
    BY <1>2, <1>3 DEF LoadOK
  <2>5. Given # {} => 1 \in Given
    BY RecoveryAssumption DEF Given
  <2>6. LoadOK(r)
    BY <2>1, <2>3, <2>4, <2>5, GivenFacts DEF LoadOK
  <2>7. load' = [load EXCEPT ![l] = r]
    BY <1>0, <1>1, <2>1, <2>2
  <2> QED
    BY <2>6, <2>7
<1>4. ASSUME NEW pc \in {"deliver", "error"}, load' = [load EXCEPT ![l].pc = pc]
      PROVE  \E r : LoadOK(r) /\ load' = [load EXCEPT ![l] = r]
  <2>1. PICK r : r = [o EXCEPT !.pc = pc]
    OBVIOUS
  <2>2. /\ r \in LoadState /\ r.pc = pc /\ r.todo = o.todo
        /\ r.source = o.source /\ r.next = o.next
    BY <1>2, <2>1 DEF LoadState
  <2>3. LoadOK(r)
    BY <1>2, <2>2 DEF LoadOK
  <2>4. load' = [load EXCEPT ![l] = r]
    BY <1>0, <1>1, <1>4, <2>1
  <2> QED
    BY <2>3, <2>4
<1>5. CASE LoadHistoryWithFallback(l)
  <2>1. CASE entries # {}
    <3>1. PICK batch : batch = First(entries, LoadLimit)
      OBVIOUS
    <3>2. /\ batch \subseteq entries /\ IsFiniteSet(batch)
          /\ Cardinality(batch) <= LoadLimit
      BY <1>0, <3>1, FirstBound, RecoveryAssumption
    <3>3. batch \in SUBSET Nat /\ batch \subseteq 1 .. Len(log)
      BY <1>0, <3>2
    <3>4. PICK r : r = [o EXCEPT !.pc = "deliver", !.source = "redis",
                                 !.todo = batch]
      OBVIOUS
    <3>5. /\ r \in LoadState /\ r.pc = "deliver" /\ r.todo = batch
          /\ r.source = "redis"
      BY <1>2, <3>3, <3>4 DEF LoadState
    <3>6. LoadOK(r)
      BY <3>2, <3>3, <3>5 DEF LoadOK
    <3>7. load' = [load EXCEPT ![l] = r]
      BY <1>0, <1>1, <1>5, <2>1, <3>1, <3>4 DEF LoadHistoryWithFallback
    <3> QED
      BY <3>6, <3>7
  <2>2. CASE entries = {}
    BY <1>1, <1>3, <1>5, <2>2 DEF LoadHistoryWithFallback
  <2> QED
    BY <2>1, <2>2
<1>6. ASSUME NEW inject \in BOOLEAN, LoadExternalHistory(l, inject)
      PROVE  \E r : LoadOK(r) /\ load' = [load EXCEPT ![l] = r]
  BY <1>1, <1>3, <1>6 DEF LoadExternalHistory
<1>7. CASE LoadFails(l) \/ InjectFails(l) \/ LoadDeliverFails(l)
  <2>1. PICK pc \in {"deliver", "error"} : load' = [load EXCEPT ![l].pc = pc]
    BY <1>7 DEF LoadFails, InjectFails, LoadDeliverFails
  <2> QED
    BY <1>4, <2>1
<1>8. CASE Inject(l)
  <2>1. o.pc = "inject" /\ o.todo = Given /\ o.next \in Given /\ o.next \in Nat
    BY <1>1, <1>2, <1>8 DEF Inject, LoadOK
  <2>2. PICK pc \in {"inject", "deliver"} :
          /\ pc = "inject" => o.next + 1 \in Given
          /\ load' = [load EXCEPT ![l].next = @ + 1, ![l].pc = pc]
    BY <1>1, <1>8, <2>1 DEF Inject
  <2>3. PICK next : next = o.next + 1
    OBVIOUS
  <2>4. PICK r : r = [o EXCEPT !.next = next, !.pc = pc]
    OBVIOUS
  <2>5. next \in Nat
    BY <2>1, <2>3
  <2>6. /\ r \in LoadState /\ r.pc = pc /\ r.todo = o.todo
        /\ r.source = o.source /\ r.next = next
    BY <1>2, <2>4, <2>5 DEF LoadState
  <2>7. LoadOK(r)
    BY <1>2, <2>1, <2>2, <2>3, <2>6 DEF LoadOK
  <2>8. load' = [load EXCEPT ![l] = r]
    BY <1>0, <1>1, <2>2, <2>3, <2>4
  <2> QED
    BY <2>7, <2>8
<1>9. CASE LoadDeliver(l)
  <2>1. PICK shown : shown = Shown(l)
    OBVIOUS
  <2>2. shown \in SUBSET (Nat \X Nat)
    <3>1. ASSUME NEW i \in o.todo
          PROVE  /\ Cardinality({j \in o.todo : j <= i}) \in Nat
                 /\ (IF o.source = "redis" THEN log[i] ELSE i) \in Nat
      <4>1. IsFiniteSet({j \in o.todo : j <= i})
        BY <1>2, FS_Subset DEF LoadOK
      <4>2. o.source = "redis" => log[i] \in Nat
        <5>1. o.source = "redis" => i \in DOMAIN log
          BY <1>0, <1>2 DEF LoadOK
        <5> QED
          BY <1>0, <5>1
      <4>3. i \in Nat
        BY <1>2
      <4> QED
        BY <4>1, <4>2, <4>3, FS_CardinalityType
    <3>2. ASSUME NEW x \in shown PROVE x \in Nat \X Nat
      <4>1. PICK i \in o.todo :
              x = <<Cardinality({j \in o.todo : j <= i}),
                    IF o.source = "redis" THEN log[i] ELSE i>>
        BY <1>1, <2>1, <3>2 DEF Shown
      <4>2. PICK a, b : a = Cardinality({j \in o.todo : j <= i})
                        /\ b = IF o.source = "redis" THEN log[i] ELSE i
        OBVIOUS
      <4> QED
        BY <3>1, <4>1, <4>2
    <3> QED
      BY <3>2
  <2>3. PICK r : r = [o EXCEPT !.pc = "done", !.shown = shown]
    OBVIOUS
  <2>4. /\ r \in LoadState /\ r.pc = "done" /\ r.todo = o.todo
        /\ r.source = o.source /\ r.next = o.next
    BY <1>2, <2>2, <2>3 DEF LoadState
  <2>5. LoadOK(r)
    BY <1>2, <2>4 DEF LoadOK
  <2>6. load' = [load EXCEPT ![l] = r]
    BY <1>0, <1>1, <1>9, <2>1, <2>3 DEF LoadDeliver
  <2> QED
    BY <2>5, <2>6
<1> QED
  BY <1>5, <1>6, <1>7, <1>8, <1>9 DEF LoadStep

(* What is added to the stream is a message of Publish or the next one of   *)
(* an injection.                                                            *)
LEMMA LogSteps ==
  ASSUME LoadsTyped, [Next]_vars
  PROVE  \/ UNCHANGED log
         \/ \E m \in 0 .. NumExternal : XAdd(m)
<1>1. ASSUME NEW c \in Calls,
             Recover(c) \/ CallStep(c) \/ \E id \in 0 .. Len(log) : RecoverFrom(c, id)
      PROVE  UNCHANGED log
  BY <1>1 DEF Recover, RecoverFrom, CallStep, GetOffset, GetOffsetFails, XRange,
              XRangeFails, Deliver, DeliverFails, SaveOffset, SaveOffsetFails,
              callOnly, streamVars
<1>2. ASSUME NEW l \in Loads,
             \/ LoadHistoryWithFallback(l) \/ LoadFails(l)
             \/ LoadDeliver(l) \/ LoadDeliverFails(l)
             \/ \E inject \in BOOLEAN : LoadExternalHistory(l, inject)
      PROVE  UNCHANGED log
  BY <1>2 DEF LoadHistoryWithFallback, LoadFails, LoadDeliver, LoadDeliverFails,
              LoadExternalHistory
<1>3. ASSUME NEW l \in Loads, Inject(l) \/ InjectFails(l)
      PROVE  UNCHANGED log \/ \E m \in 0 .. NumExternal : XAdd(m)
  <2>1. load[l].pc = "inject" /\ (UNCHANGED log \/ XAdd(load[l].next))
    BY <1>3 DEF Inject, InjectFails
  <2>2. load[l].next \in 1 .. NumExternal
    BY <2>1, GivenFacts DEF LoadsTyped, LoadOK
  <2>3. load[l].next \in 0 .. NumExternal
    BY <2>2, RecoveryAssumption
  <2> QED
    BY <2>1, <2>3
<1>4. CASE Publish
  BY <1>4, RecoveryAssumption DEF Publish, Published
<1>5. CASE TrimRedisHistory \/ ClearRedisHistory \/ UNCHANGED vars
  BY <1>5 DEF TrimRedisHistory, ClearRedisHistory, Remove, vars
<1> QED
  BY <1>1, <1>2, <1>3, <1>4, <1>5 DEF Next, LoadStep

(* The log only grows. *)
LEMMA LogGrows ==
  ASSUME LoadsTyped, [Next]_vars
  PROVE  /\ log' \in Seq(0 .. NumExternal)
         /\ Len(log) \in Nat /\ Len(log') \in Nat /\ Len(log) <= Len(log')
         /\ \A i \in 1 .. Len(log) : log'[i] = log[i]
<1>1. log \in Seq(0 .. NumExternal) /\ Len(log) \in Nat
  BY DEF LoadsTyped
<1>2. CASE UNCHANGED log
  BY <1>1, <1>2
<1>3. ASSUME NEW m \in 0 .. NumExternal, XAdd(m)
      PROVE  /\ log' \in Seq(0 .. NumExternal) /\ Len(log') = Len(log) + 1
             /\ \A i \in 1 .. Len(log) : log'[i] = log[i]
  BY <1>1, <1>3 DEF XAdd
<1> QED
  BY <1>1, <1>2, <1>3, LogSteps

(* The records of the loads stay in order. *)
LEMMA LoadsNext ==
  ASSUME LoadsTyped, entries \subseteq 1 .. Len(log), [Next]_vars
  PROVE  LoadsTyped'
<1>1. /\ log' \in Seq(0 .. NumExternal)
      /\ Len(log) \in Nat /\ Len(log') \in Nat /\ Len(log) <= Len(log')
  BY LogGrows
<1>2. ASSUME NEW r, LoadOK(r) PROVE LoadOK(r)'
  <2>1. 1 .. Len(log) \subseteq 1 .. Len(log')
    BY <1>1
  <2>2. r.source = "redis" => r.todo \subseteq 1 .. Len(log')
    BY <1>2, <2>1 DEF LoadOK
  <2> QED
    BY <1>2, <2>2 DEF LoadOK
<1>3. /\ load \in [Loads -> LoadState]
      /\ \A l \in Loads : LoadOK(load[l])
  BY DEF LoadsTyped
<1>4. ASSUME NEW l \in Loads, NEW r, LoadOK(r), load' = [load EXCEPT ![l] = r]
      PROVE  LoadsTyped'
  <2>1. load' \in [Loads -> LoadState]
    BY <1>3, <1>4 DEF LoadOK
  <2>2. ASSUME NEW k \in Loads PROVE LoadOK(load[k])'
    <3>1. PICK q : q = load'[k]
      OBVIOUS
    <3>2. LoadOK(q)
      BY <1>3, <1>4, <3>1
    <3>3. LoadOK(q)'
      BY <1>2, <3>2
    <3> QED
      BY <3>1, <3>3 DEF LoadOK
  <2> QED
    BY <1>1, <2>1, <2>2 DEF LoadsTyped
<1>5. CASE UNCHANGED load
  <2>1. ASSUME NEW k \in Loads PROVE LoadOK(load[k])'
    <3>1. PICK q : q = load[k]
      OBVIOUS
    <3>2. LoadOK(q)'
      BY <1>2, <1>3, <3>1
    <3> QED
      BY <1>5, <3>1, <3>2 DEF LoadOK
  <2> QED
    BY <1>1, <1>3, <1>5, <2>1 DEF LoadsTyped
<1>6. ASSUME NEW l \in Loads,
             \/ LoadHistoryWithFallback(l) \/ LoadFails(l) \/ LoadStep(l)
             \/ \E inject \in BOOLEAN : LoadExternalHistory(l, inject)
      PROVE  LoadsTyped'
  BY <1>4, <1>6, LoadChange
<1>7. ASSUME NEW c \in Calls,
             Recover(c) \/ CallStep(c) \/ \E id \in 0 .. Len(log) : RecoverFrom(c, id)
      PROVE  UNCHANGED load
  BY <1>7 DEF Recover, RecoverFrom, CallStep, GetOffset, GetOffsetFails, XRange,
              XRangeFails, Deliver, DeliverFails, SaveOffset, SaveOffsetFails,
              callOnly
<1>8. CASE Publish \/ TrimRedisHistory \/ ClearRedisHistory \/ UNCHANGED vars
  BY <1>8, <1>5 DEF Publish, TrimRedisHistory, ClearRedisHistory, Remove,
                    adminVars, vars
<1> QED
  BY <1>5, <1>6, <1>7, <1>8 DEF Next

(* A call fetches RecoverLimit entries at most, and what it has delivered,  *)
(* and what its client skips, are entries of the log.                       *)
LEMMA CallTypes ==
  ASSUME OffsetInv, LoadsTyped, Batches, Ranges, NEW c \in Calls,
         Recover(c) \/ CallStep(c) \/ \E id \in 0 .. Len(log) : RecoverFrom(c, id)
  PROVE  Batches' /\ Ranges'
<1>0. /\ call \in [Calls -> CallState] /\ call[c] \in CallState
      /\ Len(log) \in Nat /\ entries \subseteq 1 .. Len(log)
      /\ call[c].todo \subseteq 1 .. Len(log) /\ UserOf[c] \in Users
  BY RecoveryAssumption DEF OffsetInv, Positions, LoadsTyped
<1>1. UNCHANGED log
  BY DEF Recover, RecoverFrom, CallStep, GetOffset, GetOffsetFails, XRange,
         XRangeFails, Deliver, DeliverFails, SaveOffset, SaveOffsetFails,
         callOnly, streamVars
<1>2. ASSUME NEW s \in SUBSET (1 .. Len(log)),
             \/ UNCHANGED delivered
             \/ delivered' = [delivered EXCEPT ![UserOf[c]] = @ \cup s],
             \/ UNCHANGED skipped
             \/ skipped' = [skipped EXCEPT ![UserOf[c]] = @ \cup s]
      PROVE  Ranges'
  <2>1. PICK N : N = 1 .. Len(log)
    OBVIOUS
  <2>2. /\ delivered \in [Users -> SUBSET N] /\ skipped \in [Users -> SUBSET N]
        /\ s \in SUBSET N
    BY <2>1 DEF Ranges
  <2>3. delivered' \in [Users -> SUBSET N]
    <3>1. CASE delivered' = [delivered EXCEPT ![UserOf[c]] = @ \cup s]
      BY <1>0, <2>2, <3>1
    <3> QED
      BY <1>2, <2>2, <3>1
  <2>4. skipped' \in [Users -> SUBSET N]
    <3>1. CASE skipped' = [skipped EXCEPT ![UserOf[c]] = @ \cup s]
      BY <1>0, <2>2, <3>1
    <3> QED
      BY <1>2, <2>2, <3>1
  <2> QED
    BY <1>1, <2>1, <2>3, <2>4 DEF Ranges
<1>3. ASSUME NEW r, call' = [call EXCEPT ![c] = r],
             Cardinality(r.todo) <= RecoverLimit
      PROVE  Batches'
  BY <1>0, <1>3 DEF Batches
<1>4. Cardinality(call[c].todo) <= RecoverLimit
  BY DEF Batches
<1>5. Cardinality({}) <= RecoverLimit
  BY FS_EmptySet, RecoveryAssumption
<1>6. CASE Recover(c)
  <2>1. PICK r : r = [call[c] EXCEPT !.pc = "offset"]
    OBVIOUS
  <2>2. r.todo = call[c].todo /\ call' = [call EXCEPT ![c] = r]
    BY <1>0, <1>6, <2>1 DEF Recover, CallState
  <2>3. Batches'
    BY <1>3, <1>4, <2>2
  <2> QED
    BY <1>2, <1>6, <2>3 DEF Recover
<1>7. ASSUME NEW id \in 0 .. Len(log), RecoverFrom(c, id)
      PROVE  Batches' /\ Ranges'
  <2>1. PICK r : r = [call[c] EXCEPT !.pc = "range", !.from = id]
    OBVIOUS
  <2>2. r.todo = call[c].todo /\ call' = [call EXCEPT ![c] = r]
    BY <1>0, <1>7, <2>1 DEF RecoverFrom, CallState
  <2>3. Batches'
    BY <1>3, <1>4, <2>2
  <2>4. 1 .. id \in SUBSET (1 .. Len(log))
    BY <1>0
  <2>5. /\ UNCHANGED delivered
        /\ skipped' = [skipped EXCEPT ![UserOf[c]] = @ \cup 1 .. id]
    BY <1>7 DEF RecoverFrom
  <2>6. Ranges'
    BY <1>2, <2>4, <2>5
  <2> QED
    BY <2>3, <2>6
<1>8. CASE GetOffset(c) \/ GetOffsetFails(c)
  <2>1. PICK id : call' = [call EXCEPT ![c].pc = "range", ![c].from = id]
    BY <1>8 DEF GetOffset, GetOffsetFails
  <2>2. PICK r : r = [call[c] EXCEPT !.pc = "range", !.from = id]
    OBVIOUS
  <2>3. r.todo = call[c].todo /\ call' = [call EXCEPT ![c] = r]
    BY <1>0, <2>1, <2>2 DEF CallState
  <2>4. Batches'
    BY <1>3, <1>4, <2>3
  <2> QED
    BY <1>2, <1>8, <2>4 DEF GetOffset, GetOffsetFails
<1>9. CASE XRangeFails(c) \/ SaveOffset(c) \/ SaveOffsetFails(c)
  <2>1. Batches'
    BY <1>3, <1>5, <1>9 DEF XRangeFails, SaveOffset, SaveOffsetFails, Return
  <2> QED
    BY <1>2, <1>9, <2>1 DEF XRangeFails, SaveOffset, SaveOffsetFails
<1>10. CASE XRange(c)
  <2>1. PICK batch : batch = First(After(call[c].from), RecoverLimit)
    OBVIOUS
  <2>2. Cardinality(batch) <= RecoverLimit
    <3>1. PICK S : S = After(call[c].from)
      OBVIOUS
    <3>2. S \in SUBSET (1 .. Len(log)) /\ RecoverLimit \in Nat
      BY <1>0, <3>1, RecoveryAssumption DEF After
    <3>3. Cardinality(First(S, RecoverLimit)) <= RecoverLimit
      BY <1>0, <3>2, FirstBound
    <3> QED
      BY <2>1, <3>1, <3>3
  <2>3. CASE batch = {}
    <3>1. call' = [call EXCEPT ![c] = Return(c)]
      BY <1>10, <2>1, <2>3 DEF XRange
    <3> QED
      BY <1>2, <1>3, <1>5, <1>10, <3>1 DEF XRange, Return
  <2>4. CASE batch # {}
    <3>1. PICK r : r = [call[c] EXCEPT !.pc = "deliver", !.todo = batch]
      OBVIOUS
    <3>2. r.todo = batch /\ call' = [call EXCEPT ![c] = r]
      BY <1>0, <1>10, <2>1, <2>4, <3>1 DEF XRange, CallState
    <3>3. Batches'
      BY <1>3, <2>2, <3>2
    <3> QED
      BY <1>2, <1>10, <3>3 DEF XRange
  <2> QED
    BY <2>3, <2>4
<1>11. CASE Deliver(c)
  <2>1. PICK id : call' = [call EXCEPT ![c].pc = "save", ![c].last = id,
                                       ![c].todo = {}]
    BY <1>11 DEF Deliver
  <2>2. PICK r : r = [call[c] EXCEPT !.pc = "save", !.last = id, !.todo = {}]
    OBVIOUS
  <2>3. r.todo = {} /\ call' = [call EXCEPT ![c] = r]
    BY <1>0, <2>1, <2>2 DEF CallState
  <2>4. Batches'
    BY <1>3, <1>5, <2>3
  <2>5. Ranges'
    BY <1>0, <1>2, <1>11 DEF Deliver
  <2> QED
    BY <2>4, <2>5
<1>12. CASE DeliverFails(c)
  <2>1. PICK done \in Prefixes(call[c].todo) :
          delivered' = [delivered EXCEPT ![UserOf[c]] = @ \cup done]
    BY <1>12 DEF DeliverFails
  <2>2. done \in SUBSET (1 .. Len(log))
    BY <1>0, <2>1 DEF Prefixes
  <2>3. UNCHANGED skipped /\ call' = [call EXCEPT ![c] = Return(c)]
    BY <1>12 DEF DeliverFails
  <2>4. Ranges'
    BY <1>2, <2>1, <2>2, <2>3
  <2>5. Batches'
    BY <1>3, <1>5, <2>3 DEF Return
  <2> QED
    BY <2>4, <2>5
<1> QED
  BY <1>6, <1>7, <1>8, <1>9, <1>10, <1>11, <1>12 DEF CallStep

(* The history variables and the budget. *)
LEMMA FlagsNext ==
  ASSUME Flags, [Next]_vars
  PROVE  Flags'
<1>1. budget' \in [faults : Nat, explicit : Nat] \/ UNCHANGED budget
  <2>1. budget \in [faults : Nat, explicit : Nat]
    BY DEF Flags
  <2>2. Fault => budget' \in [faults : Nat, explicit : Nat]
    BY <2>1 DEF Fault
  <2>3. budget.explicit > 0 /\ budget' = [budget EXCEPT !.explicit = @ - 1]
          => budget' \in [faults : Nat, explicit : Nat]
    BY <2>1
  <2> QED
    BY <2>2, <2>3
    DEF Next, vars, Recover, RecoverFrom, CallStep, GetOffset, GetOffsetFails,
        XRange, XRangeFails, Deliver, DeliverFails, SaveOffset, SaveOffsetFails,
        LoadHistoryWithFallback, LoadFails, LoadExternalHistory, LoadStep, Inject,
        InjectFails, LoadDeliver, LoadDeliverFails, Publish, TrimRedisHistory,
        ClearRedisHistory, Remove, adminVars
<1>2. ASSUME NEW l \in Loads,
             \/ LoadHistoryWithFallback(l) \/ LoadFails(l) \/ LoadStep(l)
             \/ \E inject \in BOOLEAN : LoadExternalHistory(l, inject)
      PROVE  /\ UNCHANGED <<callers, removed>> /\ injected' \subseteq Loads
             /\ peers' \in [Loads -> SUBSET Loads] /\ calm' \in BOOLEAN
  <2> USE DEF LoadHistoryWithFallback, LoadFails, LoadExternalHistory, LoadStep,
              Inject, InjectFails, LoadDeliver, LoadDeliverFails
  <2>1. UNCHANGED <<callers, removed>>
    BY <1>2 DEF loadOnly
  <2>2. injected' \subseteq Loads
    BY <1>2 DEF Flags
  <2>3. peers' \in [Loads -> SUBSET Loads]
    <3>1. PICK busy \in SUBSET Loads :
            UNCHANGED peers \/ peers' = [peers EXCEPT ![l] = busy]
      BY <1>2
    <3> QED
      BY <3>1 DEF Flags
  <2>4. calm' \in BOOLEAN
    BY <1>2 DEF Flags
  <2> QED
    BY <2>1, <2>2, <2>3, <2>4
<1>3. ASSUME NEW c \in Calls,
             Recover(c) \/ CallStep(c) \/ \E id \in 0 .. Len(log) : RecoverFrom(c, id)
      PROVE  UNCHANGED <<callers, injected, peers, removed, calm>>
  BY <1>3 DEF Recover, RecoverFrom, CallStep, GetOffset, GetOffsetFails, XRange,
              XRangeFails, Deliver, DeliverFails, SaveOffset, SaveOffsetFails,
              callOnly, streamVars
<1>4. CASE Publish \/ TrimRedisHistory \/ ClearRedisHistory
  <2>1. /\ UNCHANGED <<callers, injected, peers>> /\ calm' = FALSE
        /\ removed' \in {removed, TRUE}
    BY <1>4 DEF Publish, TrimRedisHistory, ClearRedisHistory, Remove, adminVars
  <2> QED
    BY <1>1, <2>1 DEF Flags
<1>5. CASE UNCHANGED vars
  BY <1>5 DEF vars, Flags
<1> QED
  BY <1>1, <1>2, <1>3, <1>4, <1>5 DEF Next, Flags

(* Everything together is inductive. *)
LEMMA TypeInvariant == Init /\ [][Next]_vars => []TypeInv
<1>1. Init => TypeInv
  <2> SUFFICES ASSUME Init PROVE TypeInv
    OBVIOUS
  <2>1. OffsetInv
    BY OffsetInit
  <2>2. LoadsTyped
    <3>1. PICK r : r = [pc |-> "idle", kind |-> "fallback", source |-> "given",
                        todo |-> {}, next |-> 1, shown |-> {}]
      OBVIOUS
    <3>2. load = [l \in Loads |-> r]
      BY <3>1 DEF Init
    <3>3. /\ r \in LoadState /\ r.pc = "idle" /\ r.source = "given"
          /\ r.todo = {} /\ r.next = 1
      BY <3>1 DEF LoadState
    <3>4. LoadOK(r)
      BY <3>3, FS_EmptySet, RecoveryAssumption DEF LoadOK
    <3>5. log \in Seq(0 .. NumExternal)
      BY DEF Init
    <3> QED
      BY <3>2, <3>3, <3>4, <3>5 DEF LoadsTyped
  <2>3. Batches
    <3>1. \A c \in Calls : call[c].todo = {}
      BY DEF Init
    <3>2. Cardinality({}) <= RecoverLimit
      BY FS_EmptySet, RecoveryAssumption
    <3> QED
      BY <3>1, <3>2 DEF Batches
  <2>4. Ranges /\ Flags
    BY RecoveryAssumption DEF Init, Ranges, Flags
  <2> QED
    BY <2>1, <2>2, <2>3, <2>4 DEF TypeInv
<1>2. TypeInv /\ [Next]_vars => TypeInv'
  <2> SUFFICES ASSUME TypeInv, [Next]_vars PROVE TypeInv'
    OBVIOUS
  <2>1. OffsetInv' /\ Flags'
    BY OffsetNext, FlagsNext DEF TypeInv
  <2>2. LoadsTyped /\ entries \subseteq 1 .. Len(log) /\ LoadsTyped'
    BY LoadsNext DEF TypeInv, OffsetInv, Positions
  <2>3. CASE UNCHANGED <<call, delivered, skipped>>
    <3>1. Batches'
      BY <2>3 DEF TypeInv, Batches
    <3>2. Ranges'
      <4>1. 1 .. Len(log) \subseteq 1 .. Len(log')
        BY <2>2, LogGrows
      <4>2. /\ delivered \in [Users -> SUBSET (1 .. Len(log))]
            /\ skipped \in [Users -> SUBSET (1 .. Len(log))]
        BY DEF TypeInv, Ranges
      <4>3. PICK M, N : M = 1 .. Len(log) /\ N = 1 .. Len(log')
        OBVIOUS
      <4>4. delivered \in [Users -> SUBSET N] /\ skipped \in [Users -> SUBSET N]
        BY <4>1, <4>2, <4>3
      <4> QED
        BY <2>3, <4>3, <4>4 DEF Ranges
    <3> QED
      BY <2>1, <2>2, <3>1, <3>2 DEF TypeInv
  <2>4. ASSUME NEW c \in Calls,
               Recover(c) \/ CallStep(c)
               \/ \E id \in 0 .. Len(log) : RecoverFrom(c, id)
        PROVE  TypeInv'
    BY <2>1, <2>2, <2>4, CallTypes DEF TypeInv
  <2>5. ASSUME NEW l \in Loads,
               \/ LoadHistoryWithFallback(l) \/ LoadFails(l) \/ LoadStep(l)
               \/ \E inject \in BOOLEAN : LoadExternalHistory(l, inject)
        PROVE  UNCHANGED <<call, delivered, skipped>>
    BY <2>5 DEF LoadHistoryWithFallback, LoadFails, LoadExternalHistory, LoadStep,
                Inject, InjectFails, LoadDeliver, LoadDeliverFails, loadOnly
  <2>6. CASE Publish \/ TrimRedisHistory \/ ClearRedisHistory \/ UNCHANGED vars
    BY <2>3, <2>6 DEF Publish, TrimRedisHistory, ClearRedisHistory, Remove,
                      adminVars, vars
  <2> QED
    BY <2>3, <2>4, <2>5, <2>6 DEF Next
<1> QED
  BY <1>1, <1>2, PTL

(* Every reachable state is well typed: no batch is larger than its limit   *)
(* (COUNT, history.go and relay.go), and no offset, delivery or skip names  *)
(* an entry that was never in the stream.                                   *)
THEOREM TypeCorrect == Spec => []TypeOK
<1>1. TypeInv => TypeOK
  <2> SUFFICES ASSUME TypeInv PROVE TypeOK
    OBVIOUS
  <2>1. log \in Seq(0 .. NumExternal) /\ DOMAIN log = 1 .. Len(log)
    BY DEF TypeInv, LoadsTyped
  <2>2. /\ Len(log) <= MaxEntries /\ entries \subseteq DOMAIN log
        /\ offset \in [Users -> 0 .. Len(log)] /\ call \in [Calls -> CallState]
    BY <2>1 DEF TypeInv, OffsetInv, Positions
  <2>3. /\ delivered \in [Users -> SUBSET DOMAIN log]
        /\ skipped \in [Users -> SUBSET DOMAIN log]
    BY <2>1 DEF TypeInv, Ranges
  <2> QED
    BY <2>1, <2>2, <2>3 DEF TypeInv, TypeOK, LoadsTyped, LoadOK, Batches, Flags
<1> QED
  BY <1>1, TypeInvariant, PTL DEF Spec

-----------------------------------------------------------------------------
(* The fallback *)

(* The loads that put the fallback into the stream, or are about to. *)
Fillers == {l \in Loads : /\ load[l].kind = "fallback"
                          /\ load[l].pc = "inject" \/ l \in injected}

(* A load injects because it has read an empty stream: every other filler   *)
(* was at work then or had not read yet.  Once something is injected the    *)
(* stream is not empty until entries are removed.                           *)
FillInv ==
  /\ injected # {} => removed \/ entries # {}
  /\ \A l \in injected : load[l].pc # "idle"
  /\ ~removed => \A k, l \in Fillers : k # l => k \in peers[l] \/ l \in peers[k]

(* The step in which a load reads the stream. *)
LEMMA FillRead ==
  ASSUME TypeInv, FillInv, NEW l \in Loads, LoadHistoryWithFallback(l)
  PROVE  FillInv'
<1>0. load \in [Loads -> LoadState] /\ load[l] \in LoadState
      /\ peers \in [Loads -> SUBSET Loads]
  BY DEF TypeInv, LoadsTyped, Flags
<1>1. PICK busy : busy = {k \in Loads : load[k].pc = "inject"}
  OBVIOUS
<1>2. /\ load[l].pc = "idle" /\ peers' = [peers EXCEPT ![l] = busy]
      /\ UNCHANGED <<entries, injected, removed>>
  BY <1>1 DEF LoadHistoryWithFallback, loadOnly
<1>3. \A k \in Loads \ {l} : load'[k] = load[k] /\ peers'[k] = peers[k]
  BY <1>0, <1>2 DEF LoadHistoryWithFallback, UseGiven
<1>4. peers'[l] = busy /\ l \notin injected /\ l \notin busy
  BY <1>0, <1>1, <1>2 DEF FillInv
<1>5. \A k \in Fillers' \ {l} : k \in Fillers
  BY <1>2, <1>3 DEF Fillers
<1>6. load'[l].pc # "idle" /\ (load'[l].pc = "inject" => entries = {})
  <2>1. CASE entries # {}
    <3>1. PICK batch : batch = First(entries, LoadLimit)
      OBVIOUS
    <3>2. load'[l] = [load[l] EXCEPT !.pc = "deliver", !.source = "redis",
                                     !.todo = batch]
      BY <1>0, <2>1, <3>1 DEF LoadHistoryWithFallback
    <3> QED
      BY <1>0, <3>2 DEF LoadState
  <2>2. CASE entries = {}
    <3>1. PICK pc \in {"inject", "deliver"} :
            load'[l] = [load[l] EXCEPT !.pc = pc, !.kind = "fallback",
                                       !.source = "given", !.todo = Given]
      BY <1>0, <2>2 DEF LoadHistoryWithFallback, UseGiven
    <3>2. load'[l].pc = pc
      BY <1>0, <3>1 DEF LoadState
    <3> QED
      BY <2>2, <3>2
  <2> QED
    BY <2>1, <2>2
<1>7. ASSUME ~removed, NEW k \in Fillers', k # l, l \in Fillers'
      PROVE  k \in peers'[l]
  <2>1. load'[l].pc = "inject"
    BY <1>2, <1>4, <1>7 DEF Fillers
  <2>2. injected = {}
    BY <1>6, <1>7, <2>1 DEF FillInv
  <2>3. k \in busy
    BY <1>1, <1>5, <1>7, <2>2 DEF Fillers
  <2> QED
    BY <1>4, <2>3
<1>8. ASSUME ~removed, NEW j \in Fillers', NEW k \in Fillers', j # k
      PROVE  j \in peers'[k] \/ k \in peers'[j]
  <2>1. CASE j = l \/ k = l
    BY <1>7, <1>8, <2>1
  <2>2. CASE j # l /\ k # l
    <3>1. j \in Fillers /\ k \in Fillers /\ j \in Loads /\ k \in Loads
      BY <1>5, <1>8, <2>2 DEF Fillers
    <3> QED
      BY <1>3, <1>8, <2>2, <3>1 DEF FillInv
  <2> QED
    BY <2>1, <2>2
<1>9. \A k \in injected' : load'[k].pc # "idle"
  <2>1. injected \subseteq Loads
    BY DEF TypeInv, Flags
  <2> QED
    BY <1>2, <1>3, <1>4, <2>1 DEF FillInv
<1> QED
  BY <1>2, <1>8, <1>9 DEF FillInv

(* A step after which the fillers are no more than before. *)
LEMMA FillRest ==
  ASSUME TypeInv, FillInv, UNCHANGED <<peers, removed>>,
         injected' # {} => removed \/ entries' # {},
         \A k \in injected' : load'[k].pc # "idle",
         Fillers' \subseteq Fillers
  PROVE  FillInv'
  BY DEF FillInv

(* The steps of a load after its read, and of LoadExternalHistory. *)
LEMMA FillLoads ==
  ASSUME TypeInv, FillInv, NEW l \in Loads,
         \/ LoadFails(l) \/ LoadStep(l)
         \/ \E inject \in BOOLEAN : LoadExternalHistory(l, inject)
  PROVE  FillInv'
<1>0. /\ load \in [Loads -> LoadState] /\ load[l] \in LoadState
      /\ injected \subseteq Loads
  BY DEF TypeInv, LoadsTyped, Flags
<1>1. UNCHANGED <<peers, removed>>
  BY DEF LoadFails, LoadStep, Inject, InjectFails, LoadDeliver, LoadDeliverFails,
         LoadExternalHistory, loadOnly
<1>2. \A k \in Loads \ {l} : load'[k] = load[k]
  BY <1>0 DEF LoadFails, LoadStep, Inject, InjectFails, LoadDeliver,
         LoadDeliverFails, LoadExternalHistory, UseGiven
<1>3. ASSUME UNCHANGED <<injected, entries>>, load'[l].pc # "idle",
             \/ load'[l].kind = load[l].kind /\ load'[l].pc # "inject"
             \/ load'[l].kind = "external"
      PROVE  FillInv'
  <2>1. Fillers' \subseteq Fillers
    BY <1>2, <1>3 DEF Fillers
  <2>2. \A k \in injected' : load'[k].pc # "idle"
    BY <1>0, <1>2, <1>3 DEF FillInv
  <2>3. injected' # {} => removed \/ entries' # {}
    BY <1>3 DEF FillInv
  <2> QED
    BY <1>1, <2>1, <2>2, <2>3, FillRest
<1>4. ASSUME NEW pc \in {"deliver", "error"}, load' = [load EXCEPT ![l].pc = pc]
      PROVE  load'[l].pc = pc /\ load'[l].kind = load[l].kind
  BY <1>0, <1>4 DEF LoadState
<1>5. CASE LoadFails(l) \/ LoadDeliverFails(l)
  BY <1>3, <1>4, <1>5 DEF LoadFails, LoadDeliverFails
<1>6. CASE LoadDeliver(l)
  <2>1. PICK shown : shown = Shown(l)
    OBVIOUS
  <2>2. load'[l] = [load[l] EXCEPT !.pc = "done", !.shown = shown]
    BY <1>0, <1>6, <2>1 DEF LoadDeliver
  <2>3. load'[l].pc = "done" /\ load'[l].kind = load[l].kind
    BY <1>0, <2>2 DEF LoadState
  <2> QED
    BY <1>3, <1>6, <2>3 DEF LoadDeliver
<1>7. ASSUME NEW inject \in BOOLEAN, LoadExternalHistory(l, inject)
      PROVE  FillInv'
  <2>1. PICK pc \in {"inject", "deliver"} :
          load'[l] = [load[l] EXCEPT !.pc = pc, !.kind = "external",
                                     !.source = "given", !.todo = Given]
    BY <1>0, <1>7 DEF LoadExternalHistory, UseGiven
  <2>2. load'[l].pc = pc /\ load'[l].kind = "external"
    BY <1>0, <2>1 DEF LoadState
  <2> QED
    BY <1>3, <1>7, <2>2 DEF LoadExternalHistory
<1>8. CASE Inject(l) \/ InjectFails(l)
  <2>1. /\ load[l].pc = "inject"
        /\ \/ injected' = injected \cup {l} /\ entries' = entries \cup {Len(log) + 1}
           \/ UNCHANGED <<injected, entries>>
    BY <1>8 DEF Inject, InjectFails, XAdd
  <2>2. load'[l].kind = load[l].kind /\ load'[l].pc # "idle"
    <3>1. CASE InjectFails(l)
      <4>1. PICK pc \in {"deliver", "error"} : load' = [load EXCEPT ![l].pc = pc]
        BY <3>1 DEF InjectFails
      <4> QED
        BY <1>4, <4>1
    <3>2. CASE Inject(l)
      <4>1. PICK pc \in {"inject", "deliver"} :
              load' = [load EXCEPT ![l].next = @ + 1, ![l].pc = pc]
        BY <2>1, <3>2 DEF Inject
      <4>2. PICK next : next = load[l].next + 1
        OBVIOUS
      <4>3. load'[l] = [load[l] EXCEPT !.next = next, !.pc = pc]
        BY <1>0, <4>1, <4>2
      <4> QED
        BY <1>0, <4>3 DEF LoadState
    <3> QED
      BY <1>8, <3>1, <3>2
  <2>3. Fillers' \subseteq Fillers
    BY <1>2, <2>1, <2>2 DEF Fillers
  <2>4. injected' # {} => removed \/ entries' # {}
    BY <2>1 DEF FillInv
  <2>5. \A k \in injected' : load'[k].pc # "idle"
    BY <1>0, <1>2, <2>1, <2>2 DEF FillInv
  <2> QED
    BY <1>1, <2>3, <2>4, <2>5, FillRest
<1> QED
  BY <1>5, <1>6, <1>7, <1>8 DEF LoadStep

(* Of two LoadHistoryWithFallback calls that both put the fallback into the *)
(* stream, one read it while the other was injecting (history.go:133-190),  *)
(* however many load, publish and recover at a time.                        *)
THEOREM FallbackInjectedOnce == Spec => []InjectedOnce
<1>1. Init => FillInv
  BY DEF Init, FillInv, Fillers
<1>2. TypeInv /\ FillInv /\ [Next]_vars => FillInv'
  <2> SUFFICES ASSUME TypeInv, FillInv, [Next]_vars PROVE FillInv'
    OBVIOUS
  <2>1. ASSUME UNCHANGED <<load, injected, peers, removed>>, entries \subseteq entries'
        PROVE  FillInv'
    BY <2>1 DEF FillInv, Fillers
  <2>2. ASSUME NEW c \in Calls,
               Recover(c) \/ CallStep(c)
               \/ \E id \in 0 .. Len(log) : RecoverFrom(c, id)
        PROVE  UNCHANGED <<load, injected, peers, removed, entries>>
    BY <2>2 DEF Recover, RecoverFrom, CallStep, GetOffset, GetOffsetFails, XRange,
                XRangeFails, Deliver, DeliverFails, SaveOffset, SaveOffsetFails,
                callOnly, streamVars
  <2>3. CASE Publish
    BY <2>1, <2>3 DEF Publish, XAdd, adminVars
  <2>4. CASE TrimRedisHistory \/ ClearRedisHistory
    <3>1. removed' = TRUE /\ UNCHANGED <<load, injected>>
      BY <2>4 DEF TrimRedisHistory, ClearRedisHistory, Remove, adminVars
    <3> QED
      BY <3>1 DEF FillInv
  <2>5. CASE UNCHANGED vars
    BY <2>1, <2>5 DEF vars
  <2>6. ASSUME NEW l \in Loads,
               \/ LoadHistoryWithFallback(l) \/ LoadFails(l) \/ LoadStep(l)
               \/ \E inject \in BOOLEAN : LoadExternalHistory(l, inject)
        PROVE  FillInv'
    BY <2>6, FillRead, FillLoads
  <2> QED
    BY <2>1, <2>2, <2>3, <2>4, <2>5, <2>6 DEF Next
<1>3. TypeInv /\ FillInv => InjectedOnce
  BY DEF TypeInv, Flags, FillInv, Fillers, InjectedOnce
<1> QED
  BY <1>1, <1>2, <1>3, TypeInvariant, PTL DEF Spec

-----------------------------------------------------------------------------
(* Loads one after the other *)

(* Of a calm stream: it is the beginning of the fallback, the whole of it   *)
(* or nothing when no load is injecting, and one load at most is; that one  *)
(* goes on where the stream ends.                                           *)
Calm ==
  /\ entries = 1 .. Len(log) /\ \A i \in 1 .. Len(log) : log[i] = i
  /\ entries \subseteq Given
  /\ \A k, l \in Loads : load[k].pc = "inject" /\ load[l].pc = "inject" => k = l
  /\ \A l \in Loads : load[l].pc = "inject" => load[l].next = Len(log) + 1
  /\ (\A l \in Loads : load[l].pc # "inject") => entries = {} \/ entries = Given
  /\ \A l \in Loads : load[l].pc = "deliver" =>
       /\ load[l].todo = Given
       /\ load[l].source = "redis" => Given \subseteq entries
  /\ \A l \in Loads : load[l].pc = "done" => load[l].shown = {<<i, i>> : i \in Given}

(* A load that becomes neither the one that injects nor one that stops. *)
LEMMA CalmStep ==
  ASSUME TypeInv, Calm, UNCHANGED <<log, entries>>, NEW l \in Loads,
         NEW r, load' = [load EXCEPT ![l] = r],
         load[l].pc # "inject", r.pc \in {"deliver", "done", "error"},
         r.pc = "deliver" => /\ r.todo = Given
                             /\ r.source = "redis" => Given \subseteq entries,
         r.pc = "done" => r.shown = {<<i, i>> : i \in Given}
  PROVE  Calm'
<1>1. load'[l] = r /\ \A k \in Loads \ {l} : load'[k] = load[k]
  BY DEF TypeInv, LoadsTyped
<1>2. \A k \in Loads : load'[k].pc = "inject" <=> load[k].pc = "inject"
  BY <1>1
<1>3. /\ entries' = 1 .. Len(log') /\ \A i \in 1 .. Len(log') : log'[i] = i
      /\ entries' \subseteq Given
  BY DEF Calm
<1>4. /\ \A j, k \in Loads :
           load'[j].pc = "inject" /\ load'[k].pc = "inject" => j = k
      /\ (\A k \in Loads : load'[k].pc # "inject") =>
           entries' = {} \/ entries' = Given
  BY <1>2 DEF Calm
<1>5. ASSUME NEW k \in Loads
      PROVE  /\ load'[k].pc = "inject" => load'[k].next = Len(log') + 1
             /\ load'[k].pc = "deliver" =>
                  /\ load'[k].todo = Given
                  /\ load'[k].source = "redis" => Given \subseteq entries'
             /\ load'[k].pc = "done" =>
                  load'[k].shown = {<<i, i>> : i \in Given}
  <2>1. CASE k = l
    BY <1>1, <2>1
  <2>2. CASE k # l
    BY <1>1, <2>2 DEF Calm
  <2> QED
    BY <2>1, <2>2
<1> QED
  BY <1>3, <1>4, <1>5 DEF Calm

(* The read of a calm stream that nobody is filling. *)
LEMMA CalmRead ==
  ASSUME TypeInv, Calm, NEW l \in Loads, LoadHistoryWithFallback(l), calm'
  PROVE  Calm'
<1>0. /\ load \in [Loads -> LoadState] /\ load[l] \in LoadState
      /\ Len(log) \in Nat /\ LoadOK(load[l])
  BY DEF TypeInv, LoadsTyped
<1>1. /\ load[l].pc = "idle" /\ UNCHANGED <<log, entries>>
      /\ \A k \in Loads : load[k].pc # "inject"
  BY DEF LoadHistoryWithFallback
<1>2. PICK n : n = Len(log)
  OBVIOUS
<1>3. n \in Nat /\ entries = 1 .. n /\ (entries = {} \/ entries = Given)
  BY <1>0, <1>1, <1>2 DEF Calm
<1>4. CASE entries # {}
  <2>1. entries = Given /\ n >= 1
    BY <1>3, <1>4
  <2>2. First(entries, LoadLimit) = Given
    <3>1. First(1 .. n, LoadLimit) = 1 .. (IF n < LoadLimit THEN n ELSE LoadLimit)
      BY <1>3, Unbroken, RecoveryAssumption
    <3>2. n <= LoadLimit
      <4>1. n \in Given
        BY <1>3, <2>1
      <4> QED
        BY <4>1, RecoveryAssumption DEF Given
    <3> QED
      BY <1>3, <2>1, <3>1, <3>2, RecoveryAssumption
  <2>3. PICK r : r = [load[l] EXCEPT !.pc = "deliver", !.source = "redis",
                                     !.todo = Given]
    OBVIOUS
  <2>4. r.pc = "deliver" /\ r.todo = Given
    BY <1>0, <2>3 DEF LoadState
  <2>5. load' = [load EXCEPT ![l] = r]
    BY <1>0, <1>4, <2>2, <2>3 DEF LoadHistoryWithFallback
  <2> QED
    BY <1>1, <2>1, <2>4, <2>5, CalmStep
<1>5. CASE entries = {}
  <2>1. n = 0
    BY <1>3, <1>5
  <2>2. PICK pc \in {"inject", "deliver"} :
          /\ load' = [load EXCEPT ![l] = [@ EXCEPT !.pc = pc, !.kind = "fallback",
                                            !.source = "given", !.todo = Given]]
    BY <1>5 DEF LoadHistoryWithFallback, UseGiven
  <2>3. PICK r : r = [load[l] EXCEPT !.pc = pc, !.kind = "fallback",
                                     !.source = "given", !.todo = Given]
    OBVIOUS
  <2>4. r.pc = pc /\ r.todo = Given /\ r.source = "given" /\ r.next = load[l].next
    BY <1>0, <2>3 DEF LoadState
  <2>5. load' = [load EXCEPT ![l] = r]
    BY <1>0, <2>2, <2>3
  <2>6. CASE pc = "deliver"
    BY <1>1, <2>4, <2>5, <2>6, CalmStep
  <2>7. CASE pc = "inject"
    <3>1. load'[l] = r /\ \A k \in Loads \ {l} : load'[k] = load[k]
      BY <1>0, <2>5
    <3>2. r.next = n + 1
      BY <1>0, <1>1, <2>1, <2>4 DEF LoadOK
    <3> QED
      BY <1>1, <1>2, <1>5, <2>4, <2>7, <3>1, <3>2 DEF Calm
  <2> QED
    BY <2>6, <2>7
<1> QED
  BY <1>4, <1>5

(* The next message of the injection. *)
LEMMA CalmInject ==
  ASSUME TypeInv, Calm, NEW l \in Loads, Inject(l)
  PROVE  Calm'
<1>0. /\ load \in [Loads -> LoadState] /\ load[l] \in LoadState
      /\ log \in Seq(0 .. NumExternal) /\ Len(log) \in Nat /\ LoadOK(load[l])
  BY DEF TypeInv, LoadsTyped
<1>1. PICK n : n = Len(log)
  OBVIOUS
<1>2. /\ n \in Nat /\ entries = 1 .. n /\ \A i \in 1 .. n : log[i] = i
      /\ 1 .. n \subseteq Given
  BY <1>0, <1>1 DEF Calm
<1>3. /\ load[l].pc = "inject" /\ load[l].next = n + 1 /\ load[l].todo = Given
      /\ n + 1 \in Given
  BY <1>0, <1>1 DEF Inject, Calm, LoadOK
<1>4. log' = Append(log, n + 1) /\ entries' = entries \cup {n + 1}
  BY <1>1, <1>3 DEF Inject, XAdd
<1>5. /\ Len(log') = n + 1 /\ log'[n + 1] = n + 1
      /\ \A i \in 1 .. n : log'[i] = log[i]
  <2>1. PICK m : m = n + 1
    OBVIOUS
  <2>2. m \in 0 .. NumExternal
    BY <1>3, <2>1, GivenFacts, RecoveryAssumption
  <2>3. log' = Append(log, m)
    BY <1>4, <2>1
  <2>4. /\ Len(log') = Len(log) + 1 /\ log'[Len(log) + 1] = m
        /\ \A i \in 1 .. Len(log) : log'[i] = log[i]
    BY <1>0, <2>2, <2>3
  <2> QED
    BY <1>1, <2>1, <2>4
<1>6. 1 .. n + 1 = 1 .. n \cup {n + 1}
  BY <1>2
<1>7. /\ entries' = 1 .. Len(log') /\ \A i \in 1 .. Len(log') : log'[i] = i
      /\ entries' \subseteq Given /\ entries \subseteq entries'
  BY <1>2, <1>3, <1>4, <1>5, <1>6
<1>8. PICK pc \in {"inject", "deliver"} :
        /\ load' = [load EXCEPT ![l].next = @ + 1, ![l].pc = pc]
        /\ pc = "deliver" => load[l].next + 1 \notin load[l].todo
  BY <1>3 DEF Inject
<1>9. PICK r : r = [load[l] EXCEPT !.next = n + 1 + 1, !.pc = pc]
  OBVIOUS
<1>10. /\ r.pc = pc /\ r.todo = Given /\ r.next = n + 1 + 1
       /\ load'[l] = r /\ \A k \in Loads \ {l} : load'[k] = load[k]
  <2>1. load'[l] = r /\ \A k \in Loads \ {l} : load'[k] = load[k]
    BY <1>0, <1>3, <1>8, <1>9
  <2>2. r.pc = pc /\ r.todo = load[l].todo /\ r.next = n + 1 + 1
    BY <1>0, <1>9 DEF LoadState
  <2> QED
    BY <1>3, <2>1, <2>2
<1>11. \A k \in Loads \ {l} : load[k].pc # "inject" /\ load'[k].pc # "inject"
  BY <1>3, <1>10 DEF Calm
<1>12. pc = "deliver" => entries' = Given
  <2>1. ASSUME n + 1 + 1 \notin Given PROVE 1 .. n + 1 = Given
    <3>1. PICK g : g = IF NumExternal < LoadLimit THEN NumExternal ELSE LoadLimit
      OBVIOUS
    <3>2. g \in Nat /\ Given = 1 .. g
      BY <3>1, RecoveryAssumption DEF Given
    <3>3. g = n + 1
      BY <1>2, <1>3, <2>1, <3>2
    <3> QED
      BY <3>2, <3>3
  <2> QED
    BY <1>3, <1>5, <1>7, <1>8, <2>1
<1>13. /\ \A j, k \in Loads : load'[j].pc = "inject" /\ load'[k].pc = "inject" => j = k
       /\ \A k \in Loads : load'[k].pc = "inject" => load'[k].next = Len(log') + 1
  BY <1>5, <1>10, <1>11
<1>14. (\A k \in Loads : load'[k].pc # "inject") => entries' = {} \/ entries' = Given
  BY <1>8, <1>10, <1>12
<1>15. \A k \in Loads : load'[k].pc = "deliver" =>
         /\ load'[k].todo = Given
         /\ load'[k].source = "redis" => Given \subseteq entries'
  BY <1>7, <1>10, <1>12 DEF Calm
<1>16. \A k \in Loads : load'[k].pc = "done"
         => load'[k].shown = {<<i, i>> : i \in Given}
  BY <1>8, <1>10 DEF Calm
<1> QED
  BY <1>7, <1>13, <1>14, <1>15, <1>16 DEF Calm

(* What a load shows of a calm stream. *)
LEMMA CalmShown ==
  ASSUME TypeInv, Calm, NEW l \in Loads, load[l].pc = "deliver"
  PROVE  Shown(l) = {<<i, i>> : i \in Given}
<1>1. /\ load[l].todo = Given
      /\ load[l].source = "redis" => Given \subseteq 1 .. Len(log)
      /\ \A i \in 1 .. Len(log) : log[i] = i
  BY DEF Calm
<1>2. ASSUME NEW i \in Given
      PROVE  /\ Rank(Given, i) = i
             /\ (IF load[l].source = "redis" THEN log[i] ELSE i) = i
  <2>1. PICK g : g = IF NumExternal < LoadLimit THEN NumExternal ELSE LoadLimit
    OBVIOUS
  <2>2. g \in Nat /\ Given = 1 .. g
    BY <2>1, RecoveryAssumption DEF Given
  <2>3. Rank(1 .. g, i) = i
    BY <2>2, Unbroken
  <2> QED
    BY <1>1, <2>2, <2>3
<1>3. Shown(l) = {<<Rank(Given, i),
                    IF load[l].source = "redis" THEN log[i] ELSE i>> : i \in Given}
  BY <1>1 DEF Shown, Rank
<1>4. \A i \in Given : <<Rank(Given, i),
                         IF load[l].source = "redis" THEN log[i] ELSE i>> = <<i, i>>
  BY <1>2
<1> QED
  BY <1>3, <1>4

(* With loads one after the other and nothing else filling the stream,      *)
(* every LoadHistoryWithFallback shows the first LoadLimit messages of the  *)
(* fallback in their order, whether they come from Redis or from the        *)
(* application (history.go:133-205).                                        *)
THEOREM SerialLoadsAgree == Spec => []SerialLoads
<1>1. Init => (calm => Calm)
  <2> SUFFICES ASSUME Init PROVE Calm
    OBVIOUS
  <2>1. log = << >> /\ Len(log) = 0 /\ entries = {} /\ 1 .. 0 = {}
    BY DEF Init
  <2>2. \A l \in Loads : load[l].pc = "idle"
    BY DEF Init
  <2> QED
    BY <2>1, <2>2 DEF Calm
<1>2. TypeInv /\ (calm => Calm) /\ [Next]_vars => (calm => Calm)'
  <2> SUFFICES ASSUME TypeInv, calm => Calm, [Next]_vars, calm' PROVE Calm'
    OBVIOUS
  <2>0. load \in [Loads -> LoadState]
    BY DEF TypeInv, LoadsTyped
  <2>1. ASSUME calm, UNCHANGED <<log, entries, load>> PROVE Calm'
    BY <2>1 DEF Calm
  <2>2. ASSUME NEW c \in Calls,
               Recover(c) \/ CallStep(c)
               \/ \E id \in 0 .. Len(log) : RecoverFrom(c, id)
        PROVE  UNCHANGED <<log, entries, load, calm>>
    BY <2>2 DEF Recover, RecoverFrom, CallStep, GetOffset, GetOffsetFails, XRange,
                XRangeFails, Deliver, DeliverFails, SaveOffset, SaveOffsetFails,
                callOnly, streamVars
  <2>3. ASSUME NEW l \in Loads, LoadHistoryWithFallback(l) PROVE Calm'
    BY <2>3, CalmRead DEF LoadHistoryWithFallback
  <2>4. ASSUME NEW l \in Loads, LoadFails(l) \/ LoadDeliverFails(l) PROVE Calm'
    <3>1. calm /\ load[l].pc # "inject" /\ UNCHANGED <<log, entries>>
      BY <2>4 DEF LoadFails, LoadDeliverFails
    <3>2. PICK r : r = [load[l] EXCEPT !.pc = "error"]
      OBVIOUS
    <3>3. r.pc = "error" /\ load' = [load EXCEPT ![l] = r]
      BY <2>0, <2>4, <3>2 DEF LoadFails, LoadDeliverFails, LoadState
    <3> QED
      BY <3>1, <3>3, CalmStep
  <2>5. ASSUME NEW l \in Loads, NEW inject \in BOOLEAN,
               LoadExternalHistory(l, inject)
        PROVE  Calm'
    <3>1. calm /\ load[l].pc = "idle" /\ ~inject /\ UNCHANGED <<log, entries>>
      BY <2>5 DEF LoadExternalHistory
    <3>2. PICK r : r = [load[l] EXCEPT !.pc = "deliver", !.kind = "external",
                                       !.source = "given", !.todo = Given]
      OBVIOUS
    <3>3. load' = [load EXCEPT ![l] = r]
      BY <2>0, <2>5, <3>1, <3>2 DEF LoadExternalHistory, UseGiven
    <3>4. r.pc = "deliver" /\ r.todo = Given /\ r.source = "given"
      BY <2>0, <3>2 DEF LoadState
    <3> QED
      BY <3>1, <3>3, <3>4, CalmStep
  <2>6. ASSUME NEW l \in Loads, Inject(l) PROVE Calm'
    BY <2>6, CalmInject DEF Inject
  <2>7. ASSUME NEW l \in Loads, InjectFails(l) PROVE Calm'
    BY <2>7 DEF InjectFails
  <2>8. ASSUME NEW l \in Loads, LoadDeliver(l) PROVE Calm'
    <3>1. calm /\ load[l].pc = "deliver" /\ UNCHANGED <<log, entries>>
      BY <2>8 DEF LoadDeliver
    <3>2. PICK shown : shown = {<<i, i>> : i \in Given}
      OBVIOUS
    <3>3. Shown(l) = shown
      BY <3>1, <3>2, CalmShown
    <3>4. PICK r : r = [load[l] EXCEPT !.pc = "done", !.shown = shown]
      OBVIOUS
    <3>5. load' = [load EXCEPT ![l] = r]
      BY <2>0, <2>8, <3>3, <3>4 DEF LoadDeliver
    <3>6. r.pc = "done" /\ r.shown = {<<i, i>> : i \in Given}
      BY <2>0, <3>2, <3>4 DEF LoadState
    <3> QED
      BY <3>1, <3>5, <3>6, CalmStep
  <2>9. CASE Publish \/ TrimRedisHistory \/ ClearRedisHistory
    BY <2>9 DEF Publish, TrimRedisHistory, ClearRedisHistory, Remove
  <2>10. CASE UNCHANGED vars
    BY <2>1, <2>10 DEF vars
  <2> QED
    BY <2>1, <2>2, <2>3, <2>4, <2>5, <2>6, <2>7, <2>8, <2>9, <2>10
    DEF Next, LoadStep
<1>3. (calm => Calm) => SerialLoads
  BY DEF Calm, SerialLoads
<1> QED
  BY <1>1, <1>2, <1>3, TypeInvariant, PTL DEF Spec
=============================================================================
