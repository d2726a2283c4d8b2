---------------------------- MODULE ConnPoolProofs ----------------------------
(***************************************************************************)
(* The pool is sound for any number of connections and callers, any size,  *)
(* and any failures: a connection has one user, every unit of created is   *)
(* accounted for, and a closed pool is empty.                              *)
(***************************************************************************)
EXTENDS ConnPool, FiniteSetTheorems, SequenceTheorems, TLAPS

(* A caller at one of these places stands for one unit of created. *)
Using == {"dial", "do", "put", "send"}
Busy == {g \in Callers : pc[g] \in Using}

(* Who has a connection: from Get until Put or ReadPubSubMessage gives it   *)
(* away; a Put that panicked still has it.                                  *)
Holding ==
  \A g \in Callers :
    /\ pc[g] \in {"do", "put", "send"} => held[g] # NoConn
    /\ pc[g] \in {"idle", "try", "limit", "wait", "dial"} => held[g] = NoConn

(* Once the pool is closed, Put no longer gives units back. *)
Units ==
  /\ created >= Len(conns) + lost + Cardinality(Busy)
  /\ ~Closed => created = Len(conns) + lost + Cardinality(Busy)

Buffered(c) == \E i \in DOMAIN conns : conns[i] = c
Held(c) == \E g \in Callers : held[g] = c

(* What ReadPubSubMessage kept is in nobody else's hands, and a connection  *)
(* that is in anybody's hands is not dialled again.                         *)
Apart ==
  \A c \in Conns : /\ Buffered(c) => c \notin abandoned
                   /\ Buffered(c) \/ Held(c) \/ c \in abandoned
                      => state[c] # "new"

(* No open connection is out of sight, and Close empties the channel. *)
Traced ==
  /\ \A c \in Conns : state[c] \in {"open", "broken"}
                      => Buffered(c) \/ Held(c) \/ c \in abandoned
  /\ closer = "done" => conns = << >>

PoolInv == TypeOK /\ Holding /\ Units /\ Exclusive /\ Apart /\ Traced

USE PoolAssumption

-----------------------------------------------------------------------------
(* The channel after a receive. *)
LEMMA TailFacts ==
  ASSUME TypeOK, conns # << >>
  PROVE  /\ Len(conns) \in 1 .. PoolSize /\ DOMAIN conns = 1 .. Len(conns)
         /\ Head(conns) = conns[1] /\ Head(conns) \in Conns
         /\ Tail(conns) \in Seq(Conns) /\ Len(Tail(conns)) = Len(conns) - 1
         /\ DOMAIN Tail(conns) = 1 .. Len(conns) - 1
         /\ \A i \in 1 .. Len(conns) - 1 : Tail(conns)[i] = conns[i + 1]
  BY HeadTailProperties DEF TypeOK

(* The channel after a send. *)
LEMMA AppendFacts ==
  ASSUME TypeOK, NEW c \in Conns
  PROVE  /\ Len(conns) \in 0 .. PoolSize /\ DOMAIN conns = 1 .. Len(conns)
         /\ Append(conns, c) \in Seq(Conns)
         /\ Len(Append(conns, c)) = Len(conns) + 1
         /\ DOMAIN Append(conns, c) = 1 .. Len(conns) + 1
         /\ \A i \in 1 .. Len(conns) : Append(conns, c)[i] = conns[i]
         /\ Append(conns, c)[Len(conns) + 1] = c
  BY AppendProperties DEF TypeOK

(* One caller moves: how many are busy then. *)
LEMMA BusyStep ==
  ASSUME pc \in [Callers -> PCs], NEW g \in Callers, NEW place \in PCs,
         pc' = [pc EXCEPT ![g] = place]
  PROVE  /\ Cardinality(Busy) \in Nat /\ Cardinality(Busy)' \in Nat
         /\ pc[g] \in Using => Cardinality(Busy) >= 1
         /\ Cardinality(Busy)' =
              IF pc[g] \in Using
                THEN IF place \in Using THEN Cardinality(Busy)
                                        ELSE Cardinality(Busy) - 1
                ELSE IF place \in Using THEN Cardinality(Busy) + 1
                                        ELSE Cardinality(Busy)
<1>1. IsFiniteSet(Busy) /\ IsFiniteSet(Busy')
  <2>1. Busy \in SUBSET Callers /\ Busy' \in SUBSET Callers
    BY DEF Busy
  <2> QED
    BY <2>1, FS_Subset
<1>2. Cardinality(Busy) \in Nat /\ Cardinality(Busy)' \in Nat
  BY <1>1, FS_CardinalityType
<1>3. Busy' = IF place \in Using THEN Busy \cup {g} ELSE Busy \ {g}
  BY DEF Busy
<1>4. g \in Busy <=> pc[g] \in Using
  BY DEF Busy
<1>5. /\ Cardinality(Busy \cup {g}) = IF g \in Busy THEN Cardinality(Busy)
                                                  ELSE Cardinality(Busy) + 1
      /\ Cardinality(Busy \ {g}) = IF g \in Busy THEN Cardinality(Busy) - 1
                                               ELSE Cardinality(Busy)
      /\ Cardinality(Busy \ {g}) \in Nat
  BY <1>1, FS_AddElement, FS_RemoveElement, FS_CardinalityType
<1> QED
  BY <1>2, <1>3, <1>4, <1>5

-----------------------------------------------------------------------------
(* NewPool: as many connections as created says, each of them once. *)
LEMMA PoolInit == Init => PoolInv
<1> SUFFICES ASSUME Init PROVE PoolInv
  OBVIOUS
<1> DEFINE n == Cardinality(Initial)
<1>1. IsFiniteSet(Initial) /\ n \in Nat /\ n <= PoolSize
  BY FS_Subset, FS_CardinalityType
<1>2. /\ conns \in [1 .. n -> Initial] /\ created = n
      /\ \A c \in Initial : \E i \in 1 .. n : conns[i] = c
  BY DEF Init
<1>3. conns \in Seq(Conns) /\ Len(conns) = n /\ DOMAIN conns = 1 .. n
  BY <1>1, <1>2
<1>4. IsFiniteSet(1 .. n) /\ Cardinality(1 .. n) = n
  BY <1>1, FS_Interval
<1>5. conns \in Surjection(1 .. n, Initial)
  BY <1>2 DEF Surjection
<1>6. conns \in Injection(1 .. n, Initial)
  BY <1>4, <1>5, FS_SurjSameCardinalityImpliesInj
<1>7. TypeOK
  BY <1>1, <1>2, <1>3 DEF Init, TypeOK, PCs
<1>8. Busy = {}
  BY DEF Init, Busy, Using
<1>9. Units
  BY <1>1, <1>2, <1>3, <1>8, FS_EmptySet DEF Init, Units
<1>10. Exclusive
  BY <1>3, <1>6 DEF Init, Exclusive, Injection, IsInjective
<1>11. Apart /\ Traced /\ Holding
  BY <1>2, <1>3 DEF Init, Apart, Traced, Buffered, Held, Holding
<1> QED
  BY <1>7, <1>9, <1>10, <1>11 DEF PoolInv

-----------------------------------------------------------------------------
(* A step that moves caller g and leaves every connection where it is. *)
LEMMA MoveStep ==
  ASSUME PoolInv, NEW g \in Callers, NEW place \in PCs,
         Goto(g, place),
         UNCHANGED <<conns, closer, state, held, abandoned>>,
         created' \in 0 .. PoolSize, lost' \in Nat,
         budget' \in [{"calls", "dials", "breaks", "cancels"} -> Nat],
         Holding', Units'
  PROVE  PoolInv'
<1>1. TypeOK'
  BY DEF PoolInv, TypeOK, Goto
<1>2. Exclusive' /\ Apart' /\ Traced'
  BY DEF PoolInv, Exclusive, Apart, Traced, Buffered, Held
<1> QED
  BY <1>1, <1>2 DEF PoolInv

(* A step that spends one of the bounds keeps their type. *)
LEMMA SpendType ==
  ASSUME TypeOK, NEW k \in {"calls", "dials", "breaks", "cancels"}, Spend(k)
  PROVE  budget' \in [{"calls", "dials", "breaks", "cancels"} -> Nat]
  BY DEF TypeOK, Spend

(* So does a connection that breaks while a caller uses it. *)
LEMMA BreaksType ==
  ASSUME TypeOK, NEW g \in Callers, Breaks(g)
  PROVE  budget' \in [{"calls", "dials", "breaks", "cancels"} -> Nat]
  BY SpendType DEF Breaks, TypeOK

(* Get up to the point where it has a connection or gives up. *)
LEMMA GetInv ==
  ASSUME PoolInv, NEW g \in Callers,
         \/ Get(g) \/ GetLimit(g) \/ GetCancelled(g) \/ DialFails(g)
         \/ Do(g) \/ PutPanics(g)
         \/ pc[g] \in {"try", "wait"} /\ ReceiveNil(g)
         \/ /\ pc[g] = "try" /\ Goto(g, "limit")
            /\ UNCHANGED <<conns, created, closer, state, held, lost,
                           abandoned, budget>>
  PROVE  PoolInv'
<1> USE DEF PCs, Using
<1>1. PICK place \in PCs : Goto(g, place)
  BY DEF Get, GetLimit, GetCancelled, DialFails, Do, PutPanics, ReceiveNil
<1>2. pc \in [Callers -> PCs] /\ pc' = [pc EXCEPT ![g] = place]
  BY <1>1 DEF PoolInv, TypeOK, Goto
<1>3. UNCHANGED <<conns, closer, state, held, abandoned>>
  BY DEF Get, GetLimit, GetCancelled, DialFails, Do, PutPanics, ReceiveNil
<1>4. budget' \in [{"calls", "dials", "breaks", "cancels"} -> Nat]
  <2>1. \/ UNCHANGED budget
        \/ \E k \in {"calls", "dials", "breaks", "cancels"} : Spend(k)
    BY DEF Get, GetLimit, GetCancelled, DialFails, Do, PutPanics, ReceiveNil
  <2> QED
    BY <2>1, SpendType DEF PoolInv, TypeOK
<1>5. Holding'
  BY <1>2, <1>3 DEF PoolInv, Holding, Get, GetLimit, GetCancelled, DialFails,
                    Do, PutPanics, ReceiveNil, Goto
<1>6. created' \in 0 .. PoolSize /\ lost' \in Nat /\ Units'
  <2> DEFINE N == Cardinality(Busy)
  <2>1. Len(conns) \in Nat /\ created \in 0 .. PoolSize /\ lost \in Nat
    BY DEF PoolInv, TypeOK
  <2>2. Closed' = Closed /\ Len(conns)' = Len(conns)
    BY <1>3 DEF Closed
  <2>3. /\ N \in Nat /\ N' \in Nat
        /\ pc[g] \in Using => N >= 1
        /\ N' = IF pc[g] \in Using THEN IF place \in Using THEN N ELSE N - 1
                                   ELSE IF place \in Using THEN N + 1 ELSE N
    BY <1>2, BusyStep
  <2>4. pc'[g] = place
    BY <1>2
  <2>5. /\ created >= Len(conns) + lost + N
        /\ ~Closed => created = Len(conns) + lost + N
    BY DEF PoolInv, Units
  <2> HIDE DEF N
  <2> SUFFICES /\ created' \in 0 .. PoolSize /\ lost' \in Nat
               /\ created' >= Len(conns) + lost' + N'
               /\ ~Closed => created' = Len(conns) + lost' + N'
    BY <2>2 DEF Units, N
  <2>6. CASE GetLimit(g)
    <3>1. /\ pc[g] \notin Using /\ lost' = lost
          /\ \/ created < PoolSize /\ created' = created + 1 /\ place = "dial"
             \/ created' = created /\ place = "wait"
      BY <1>2, <2>4, <2>6 DEF GetLimit, Goto
    <3> QED
      BY <2>1, <2>3, <2>5, <3>1
  <2>7. CASE DialFails(g)
    <3>1. pc[g] = "dial" /\ lost' = lost + 1 /\ created' = created /\ place = "idle"
      BY <1>2, <2>4, <2>7 DEF DialFails, Goto
    <3> QED
      BY <2>1, <2>3, <2>5, <3>1
  <2>8. CASE PutPanics(g)
    <3>1. pc[g] = "send" /\ UNCHANGED <<lost, created>> /\ place = "panicked" /\ Closed
      BY <1>2, <2>4, <2>8 DEF PutPanics, Goto, ChanClosed, Closed
    <3> QED
      BY <2>1, <2>3, <2>5, <3>1
  <2>9. CASE ~GetLimit(g) /\ ~DialFails(g) /\ ~PutPanics(g)
    <3>1. UNCHANGED <<lost, created>> /\ (pc[g] \in Using <=> place \in Using)
      BY <1>2, <2>4, <2>9 DEF Get, GetCancelled, Do, ReceiveNil, Goto
    <3> QED
      BY <2>1, <2>3, <2>5, <3>1
  <2> QED
    BY <2>6, <2>7, <2>8, <2>9
<1> QED
  BY <1>1, <1>3, <1>4, <1>5, <1>6, MoveStep
(* What Units says before a step, in the terms of BusyStep. *)
LEMMA UnitsFacts ==
  ASSUME PoolInv
  PROVE  /\ Len(conns) \in 0 .. PoolSize /\ created \in 0 .. PoolSize
         /\ lost \in Nat
         /\ created >= Len(conns) + lost + Cardinality(Busy)
         /\ ~Closed => created = Len(conns) + lost + Cardinality(Busy)
  BY DEF PoolInv, TypeOK, Units

(* Get receives a connection. *)
LEMMA ReceiveInv ==
  ASSUME PoolInv, NEW g \in Callers, pc[g] \in {"try", "wait"}, Receive(g)
  PROVE  PoolInv'
<1> USE DEF PCs, Using
<1>0. PICK c : c = Head(conns)
  OBVIOUS
<1>1. TypeOK /\ conns # << >> /\ conns' = Tail(conns)
  BY DEF PoolInv, Receive
<1>2. UNCHANGED <<created, closer, state, lost, abandoned, budget>>
  BY DEF Receive
<1>3. \/ /\ state[c] = "closed" /\ held' = held
         /\ pc' = [pc EXCEPT ![g] = "dial"]
      \/ /\ state[c] # "closed" /\ held' = [held EXCEPT ![g] = c]
         /\ pc' = [pc EXCEPT ![g] = "do"]
  BY <1>0 DEF Receive, Goto, Hold
<1>4. /\ Len(conns) \in 1 .. PoolSize /\ DOMAIN conns = 1 .. Len(conns)
      /\ c = conns[1] /\ c \in Conns
      /\ conns' \in Seq(Conns) /\ Len(conns)' = Len(conns) - 1
      /\ DOMAIN conns' = 1 .. Len(conns) - 1
      /\ \A i \in 1 .. Len(conns) - 1 : conns'[i] = conns[i + 1]
  BY <1>0, <1>1, TailFacts
<1>5. TypeOK'
  <2>1. Len(conns)' <= PoolSize
    BY <1>4
  <2>2. held' \in [Callers -> Conns \cup {NoConn}]
    BY <1>1, <1>3, <1>4 DEF TypeOK
  <2>3. pc' \in [Callers -> PCs]
    <3>1. PICK place \in PCs : pc' = [pc EXCEPT ![g] = place]
      BY <1>3
    <3> QED
      BY <1>1, <3>1 DEF TypeOK
  <2> QED
    BY <1>1, <1>2, <1>4, <2>1, <2>2, <2>3 DEF TypeOK
<1>6. held[g] = NoConn
  BY DEF PoolInv, Holding
<1>7. Holding'
  BY <1>1, <1>3, <1>4 DEF PoolInv, Holding, TypeOK
<1>8. Units'
  <2>1. PICK place \in {"dial", "do"} : pc' = [pc EXCEPT ![g] = place]
    BY <1>3
  <2>2. Cardinality(Busy) \in Nat /\ Cardinality(Busy)' = Cardinality(Busy) + 1
    BY <2>1, <1>1, BusyStep DEF TypeOK
  <2>3. Closed' = Closed
    BY <1>2 DEF Closed
  <2>4. /\ lost \in Nat /\ created \in 0 .. PoolSize
        /\ created >= Len(conns) + lost + Cardinality(Busy)
        /\ ~Closed => created = Len(conns) + lost + Cardinality(Busy)
    BY UnitsFacts
  <2>5. Len(conns)' + lost + Cardinality(Busy)' = Len(conns) + lost + Cardinality(Busy)
    BY <1>4, <2>2, <2>4
  <2> QED
    BY <1>2, <2>3, <2>4, <2>5 DEF Units
<1>9. \A i \in DOMAIN conns' : conns'[i] = conns[i + 1] /\ i + 1 \in DOMAIN conns
                              /\ i + 1 # 1
  BY <1>4
<1>10. Exclusive'
  <2>1. \A i, j \in DOMAIN conns' : conns'[i] = conns'[j] => i = j
    BY <1>4, <1>9 DEF PoolInv, Exclusive
  <2>2. ASSUME NEW f \in Callers, held'[f] # NoConn
        PROVE  /\ \A i \in DOMAIN conns' : conns'[i] # held'[f]
               /\ \A h \in Callers : held'[h] = held'[f] => h = f
               /\ held'[f] \notin abandoned
    <3>1. 1 \in DOMAIN conns /\ conns[1] = c
      BY <1>4
    <3>2. held' \in [Callers -> Conns \cup {NoConn}]
          /\ held \in [Callers -> Conns \cup {NoConn}]
      BY <1>1, <1>5 DEF TypeOK
    <3>3. CASE held'[f] = held[f]
      BY <1>1, <1>3, <1>6, <1>9, <2>2, <3>1, <3>2, <3>3 DEF PoolInv, Exclusive
    <3>4. CASE f = g /\ held'[f] = c
      BY <1>1, <1>3, <1>4, <1>9, <2>2, <3>1, <3>2, <3>4
      DEF PoolInv, Exclusive, Apart, Buffered
    <3> QED
      BY <1>3, <3>2, <3>3, <3>4
  <2> QED
    BY <1>2, <2>1, <2>2 DEF Exclusive
<1>11. \A d \in Conns : /\ Buffered(d)' => Buffered(d)
                        /\ Buffered(d) => Buffered(d)' \/ d = c
                        /\ Held(d)' => Held(d) \/ d = c
                        /\ Held(d) => Held(d)'
  <2>1. \A d \in Conns : Buffered(d)' => Buffered(d)
    BY <1>9 DEF Buffered
  <2>2. \A d \in Conns : Buffered(d) => Buffered(d)' \/ d = c
    <3> SUFFICES ASSUME NEW d \in Conns, NEW i \in DOMAIN conns, conns[i] = d,
                        d # c
                 PROVE  \E j \in DOMAIN conns' : conns'[j] = d
      BY DEF Buffered
    <3>1. i - 1 \in DOMAIN conns' /\ conns'[i - 1] = conns[i]
      BY <1>4
    <3> QED
      BY <3>1
  <2>3. \A f \in Callers : held'[f] = held[f] \/ (f = g /\ held'[f] = c)
    BY <1>1, <1>3 DEF TypeOK
  <2>4. \A d \in Conns : (Held(d)' => Held(d) \/ d = c) /\ (Held(d) => Held(d)')
    BY <1>6, <2>3 DEF Held
  <2> QED
    BY <2>1, <2>2, <2>4
<1>12. Buffered(c) /\ (Held(c)' \/ state[c] = "closed")
  <2>1. 1 \in DOMAIN conns /\ conns[1] = c
    BY <1>4
  <2>2. state[c] # "closed" => held'[g] = c
    BY <1>1, <1>3 DEF TypeOK
  <2> QED
    BY <2>1, <2>2 DEF Buffered, Held
<1>13. Apart' /\ Traced'
  BY <1>1, <1>2, <1>11, <1>12 DEF PoolInv, Apart, Traced
<1> QED
  BY <1>5, <1>7, <1>8, <1>10, <1>13 DEF PoolInv
(* A caller with a connection. *)
LEMMA HeldFacts ==
  ASSUME PoolInv, NEW g \in Callers, pc[g] \in {"do", "put", "send"}
  PROVE  /\ held[g] \in Conns /\ held[g] # NoConn
         /\ Held(held[g]) /\ ~Buffered(held[g]) /\ held[g] \notin abandoned
         /\ \A f \in Callers : held[f] = held[g] => f = g
  BY DEF PoolInv, TypeOK, Holding, Exclusive, Held, Buffered

(* Caller g closes its connection and lets go of it. *)
LEMMA DropStep ==
  ASSUME PoolInv, NEW g \in Callers, pc[g] \in {"do", "put", "send"},
         state' = [state EXCEPT ![held[g]] = "closed"],
         held' = [held EXCEPT ![g] = NoConn],
         UNCHANGED <<conns, closer, abandoned>>
  PROVE  Exclusive' /\ Apart' /\ Traced'
<1>1. PICK c : c = held[g]
  OBVIOUS
<1>2. /\ c \in Conns /\ c # NoConn /\ ~Buffered(c) /\ c \notin abandoned
      /\ \A f \in Callers : held[f] = c => f = g
  BY <1>1, HeldFacts
<1>3. state \in [Conns -> {"new", "open", "broken", "closed"}]
      /\ held \in [Callers -> Conns \cup {NoConn}]
  BY DEF PoolInv, TypeOK
<1>4. \A d \in Conns : /\ Buffered(d)' <=> Buffered(d)
                       /\ Held(d)' <=> Held(d) /\ d # c
                       /\ state'[d] = IF d = c THEN "closed" ELSE state[d]
  BY <1>1, <1>2, <1>3 DEF Buffered, Held
<1>5. Exclusive'
  BY <1>3 DEF PoolInv, Exclusive
<1>6. Apart' /\ Traced'
  BY <1>2, <1>4 DEF PoolInv, Apart, Traced
<1> QED
  BY <1>5, <1>6

(* Typing and who holds what, for the steps that move g and may change its  *)
(* connection.                                                              *)
LEMMA HandType ==
  ASSUME PoolInv, NEW g \in Callers, NEW place \in PCs,
         NEW c \in Conns \cup {NoConn}, NEW d \in Conns,
         NEW st \in {"new", "open", "broken", "closed"},
         pc' = [pc EXCEPT ![g] = place], held' = [held EXCEPT ![g] = c],
         state' = state \/ state' = [state EXCEPT ![d] = st],
         place \in {"do", "put", "send"} => c # NoConn,
         place \in {"idle", "try", "limit", "wait", "dial"} => c = NoConn,
         closer' = closer, created' \in 0 .. PoolSize, lost' \in Nat,
         conns' \in Seq(Conns), Len(conns') <= PoolSize,
         abandoned' \subseteq Conns,
         budget' \in [{"calls", "dials", "breaks", "cancels"} -> Nat]
  PROVE  TypeOK' /\ Holding'
<1>1. TypeOK
  BY DEF PoolInv
<1>2. pc' \in [Callers -> PCs] /\ held' \in [Callers -> Conns \cup {NoConn}]
  BY <1>1 DEF TypeOK
<1>3. state' \in [Conns -> {"new", "open", "broken", "closed"}]
  BY <1>1 DEF TypeOK
<1>4. TypeOK'
  BY <1>1, <1>2, <1>3 DEF TypeOK
<1>5. Holding'
  BY <1>1 DEF PoolInv, Holding, TypeOK
<1> QED
  BY <1>4, <1>5

(* A dial succeeds. *)
LEMMA DialInv ==
  ASSUME PoolInv, NEW g \in Callers, Dial(g)
  PROVE  PoolInv'
<1>1. PICK c \in Conns :
        /\ state[c] = "new" /\ state' = [state EXCEPT ![c] = "open"]
        /\ held' = [held EXCEPT ![g] = c] /\ pc' = [pc EXCEPT ![g] = "do"]
  BY DEF Dial, Hold, Goto
<1>2. pc[g] = "dial" /\ UNCHANGED <<conns, created, closer, lost, abandoned, budget>>
  BY DEF Dial
<1>3. TypeOK /\ held[g] = NoConn /\ c # NoConn
  BY <1>2 DEF PoolInv, Holding
<1>4. TypeOK' /\ Holding'
  <2>1. /\ created' \in 0 .. PoolSize /\ lost' \in Nat
        /\ conns' \in Seq(Conns) /\ Len(conns') <= PoolSize
        /\ abandoned' \subseteq Conns
        /\ budget' \in [{"calls", "dials", "breaks", "cancels"} -> Nat]
    BY <1>2, <1>3 DEF TypeOK
  <2> QED
    BY <1>1, <1>2, <1>3, <2>1, HandType DEF PCs
<1>5. Units'
  <2>1. Cardinality(Busy)' = Cardinality(Busy)
    BY <1>1, <1>2, <1>3, BusyStep DEF TypeOK, PCs, Using
  <2> QED
    BY <1>2, <2>1 DEF PoolInv, Units, Closed
<1>6. ~Buffered(c) /\ ~Held(c) /\ c \notin abandoned
  BY <1>1 DEF PoolInv, Apart
<1>7. Exclusive'
  BY <1>1, <1>2, <1>3, <1>6 DEF PoolInv, Exclusive, Buffered, Held, TypeOK
<1>8. \A d \in Conns : /\ Buffered(d)' <=> Buffered(d)
                       /\ Held(d)' <=> Held(d) \/ d = c
                       /\ d # c => state'[d] = state[d]
                       /\ state'[c] = "open"
  BY <1>1, <1>2, <1>3 DEF Buffered, Held, TypeOK
<1>9. Apart' /\ Traced'
  BY <1>2, <1>6, <1>8 DEF PoolInv, Apart, Traced
<1> QED
  BY <1>4, <1>5, <1>7, <1>9 DEF PoolInv
(* A command fails, and its connection is marked as broken. *)
LEMMA DoFailsInv ==
  ASSUME PoolInv, NEW g \in Callers, DoFails(g)
  PROVE  PoolInv'
<1>1. PICK c : c = held[g]
  OBVIOUS
<1>2. /\ pc[g] = "do" /\ pc' = [pc EXCEPT ![g] = "put"]
      /\ state' = [state EXCEPT ![c] = "broken"]
      /\ UNCHANGED <<conns, created, closer, held, lost, abandoned>>
  BY <1>1 DEF DoFails, Goto
<1>3. TypeOK /\ c \in Conns /\ c # NoConn /\ Held(c)
  BY <1>1, <1>2, HeldFacts DEF PoolInv
<1>4. TypeOK' /\ Holding'
  <2>1. /\ created' \in 0 .. PoolSize /\ lost' \in Nat
        /\ conns' \in Seq(Conns) /\ Len(conns') <= PoolSize
        /\ abandoned' \subseteq Conns
    BY <1>2, <1>3 DEF TypeOK
  <2>2. budget' \in [{"calls", "dials", "breaks", "cancels"} -> Nat]
    BY <1>3, BreaksType DEF DoFails
  <2>3. held' = [held EXCEPT ![g] = c]
    BY <1>1, <1>2, <1>3 DEF TypeOK
  <2> QED
    BY <1>2, <1>3, <2>1, <2>2, <2>3, HandType DEF PCs
<1>5. Units'
  <2>1. Cardinality(Busy)' = Cardinality(Busy)
    BY <1>2, <1>3, BusyStep DEF TypeOK, PCs, Using
  <2> QED
    BY <1>2, <2>1 DEF PoolInv, Units, Closed
<1>6. Exclusive'
  BY <1>2 DEF PoolInv, Exclusive
<1>7. \A d \in Conns : /\ Buffered(d)' <=> Buffered(d)
                       /\ Held(d)' <=> Held(d)
                       /\ state'[d] = IF d = c THEN "broken" ELSE state[d]
  BY <1>2, <1>3 DEF Buffered, Held, TypeOK
<1>8. Apart' /\ Traced'
  BY <1>2, <1>3, <1>7 DEF PoolInv, Apart, Traced
<1> QED
  BY <1>4, <1>5, <1>6, <1>8 DEF PoolInv

(* ReadPubSubMessage keeps its connection. *)
LEMMA ReadInv ==
  ASSUME PoolInv, NEW g \in Callers, Read(g)
  PROVE  PoolInv'
<1>1. PICK c : c = held[g]
  OBVIOUS
<1>2. /\ pc[g] = "do" /\ pc' = [pc EXCEPT ![g] = "idle"]
      /\ held' = [held EXCEPT ![g] = NoConn]
      /\ lost' = lost + 1 /\ abandoned' = abandoned \cup {c}
      /\ UNCHANGED <<conns, created, closer, state, budget>>
  BY <1>1 DEF Read, Goto, Hold
<1>3. /\ TypeOK /\ c \in Conns /\ Held(c) /\ ~Buffered(c) /\ c # NoConn
      /\ \A f \in Callers : held[f] = c => f = g
  BY <1>1, <1>2, HeldFacts DEF PoolInv
<1>4. TypeOK' /\ Holding'
  <2>1. /\ created' \in 0 .. PoolSize /\ lost' \in Nat
        /\ conns' \in Seq(Conns) /\ Len(conns') <= PoolSize
        /\ abandoned' \subseteq Conns
        /\ budget' \in [{"calls", "dials", "breaks", "cancels"} -> Nat]
    BY <1>2, <1>3 DEF TypeOK
  <2> QED
    BY <1>2, <1>3, <2>1, HandType DEF PCs
<1>5. Units'
  <2>1. Cardinality(Busy) \in Nat /\ Cardinality(Busy)' = Cardinality(Busy) - 1
    BY <1>2, <1>3, BusyStep DEF TypeOK, PCs, Using
  <2>2. /\ lost \in Nat /\ created \in 0 .. PoolSize /\ Len(conns) \in Nat
        /\ created >= Len(conns) + lost + Cardinality(Busy)
        /\ ~Closed => created = Len(conns) + lost + Cardinality(Busy)
    BY UnitsFacts
  <2>3. Len(conns) + lost' + Cardinality(Busy)' = Len(conns) + lost + Cardinality(Busy)
    BY <1>2, <2>1, <2>2
  <2> QED
    BY <1>2, <2>2, <2>3 DEF Units, Closed
<1>6. Exclusive'
  BY <1>1, <1>2, <1>3 DEF PoolInv, Exclusive, TypeOK
<1>7. \A d \in Conns : /\ Buffered(d)' <=> Buffered(d)
                       /\ Held(d)' <=> Held(d) /\ d # c
  BY <1>1, <1>2, <1>3 DEF Buffered, Held, TypeOK
<1>8. Apart' /\ Traced'
  BY <1>2, <1>3, <1>7 DEF PoolInv, Apart, Traced
<1> QED
  BY <1>4, <1>5, <1>6, <1>8 DEF PoolInv

(* A connection is closed: by a failed ReadPubSubMessage, by a Put to a     *)
(* closed pool, or by a Put to a full channel.                              *)
LEMMA DropInv ==
  ASSUME PoolInv, NEW g \in Callers,
         \/ ReadFails(g)
         \/ Put(g) /\ Closed
         \/ PutSend(g) /\ Len(conns) = PoolSize
  PROVE  PoolInv'
<1>1. PICK c : c = held[g]
  OBVIOUS
<1>0. Len(conns) \in 0 .. PoolSize
  BY UnitsFacts
<1>2. /\ pc[g] \in {"do", "put", "send"} /\ pc' = [pc EXCEPT ![g] = "idle"]
      /\ held' = [held EXCEPT ![g] = NoConn]
      /\ state' = [state EXCEPT ![c] = "closed"]
      /\ UNCHANGED <<conns, closer, abandoned>>
  BY <1>0, <1>1 DEF ReadFails, Put, PutSend, Goto, Hold
<1>3. TypeOK /\ c \in Conns
  BY <1>1, <1>2, HeldFacts DEF PoolInv
<1>4. budget' \in [{"calls", "dials", "breaks", "cancels"} -> Nat]
  <2>1. Breaks(g) \/ UNCHANGED budget
    BY DEF ReadFails, Put, PutSend
  <2> QED
    BY <1>3, <2>1, BreaksType DEF TypeOK
<1>5. created' \in 0 .. PoolSize /\ lost' \in Nat /\ Units'
  <2>1. /\ Cardinality(Busy) \in Nat /\ Cardinality(Busy)' = Cardinality(Busy) - 1
        /\ Cardinality(Busy) >= 1
    BY <1>2, <1>3, BusyStep DEF TypeOK, PCs, Using
  <2>2. /\ lost \in Nat /\ created \in 0 .. PoolSize /\ Len(conns) \in Nat
        /\ created >= Len(conns) + lost + Cardinality(Busy)
        /\ ~Closed => created = Len(conns) + lost + Cardinality(Busy)
    BY UnitsFacts
  <2>3. \/ created' = created /\ lost' = lost + 1
        \/ created' = created /\ lost' = lost /\ Closed
        \/ created' = created - 1 /\ lost' = lost
    BY <1>0 DEF ReadFails, Put, PutSend
  <2>4. /\ created' \in 0 .. PoolSize /\ lost' \in Nat
        /\ created' >= Len(conns) + lost' + Cardinality(Busy)'
        /\ ~Closed => created' = Len(conns) + lost' + Cardinality(Busy)'
    BY <2>1, <2>2, <2>3
  <2> QED
    BY <1>2, <2>4 DEF Units, Closed
<1>6. TypeOK' /\ Holding'
  <2>1. /\ conns' \in Seq(Conns) /\ Len(conns') <= PoolSize
        /\ abandoned' \subseteq Conns
    BY <1>2, <1>3 DEF TypeOK
  <2> QED
    BY <1>2, <1>3, <1>4, <1>5, <2>1, HandType DEF PCs
<1>7. Exclusive' /\ Apart' /\ Traced'
  BY <1>1, <1>2, DropStep
<1> QED
  BY <1>5, <1>6, <1>7 DEF PoolInv

(* Put finds the pool open. *)
LEMMA PutInv ==
  ASSUME PoolInv, NEW g \in Callers, Put(g), ~Closed
  PROVE  PoolInv'
<1>1. /\ pc[g] = "put" /\ Goto(g, "send")
      /\ UNCHANGED <<conns, created, closer, state, held, lost, abandoned, budget>>
  BY DEF Put
<1>2. TypeOK
  BY DEF PoolInv
<1>3. Holding'
  BY <1>1, <1>2 DEF PoolInv, Holding, Goto, TypeOK
<1>4. Cardinality(Busy)' = Cardinality(Busy)
  BY <1>1, <1>2, BusyStep DEF TypeOK, PCs, Using, Goto
<1>5. Units'
  BY <1>1, <1>4 DEF PoolInv, Units, Closed
<1> QED
  BY <1>1, <1>2, <1>3, <1>5, MoveStep DEF TypeOK, PCs

(* Put sends the connection back to the channel. *)
LEMMA PutSendInv ==
  ASSUME PoolInv, NEW g \in Callers, PutSend(g), Len(conns) < PoolSize
  PROVE  PoolInv'
<1>1. PICK c : c = held[g]
  OBVIOUS
<1>2. /\ pc[g] = "send" /\ pc' = [pc EXCEPT ![g] = "idle"] /\ ~ChanClosed
      /\ held' = [held EXCEPT ![g] = NoConn]
      /\ conns' = Append(conns, c)
      /\ UNCHANGED <<created, closer, state, lost, abandoned, budget>>
  BY <1>1 DEF PutSend, Goto, Hold
<1>3. /\ TypeOK /\ c \in Conns /\ c # NoConn /\ Held(c) /\ ~Buffered(c)
      /\ c \notin abandoned
      /\ \A f \in Callers : held[f] = c => f = g
  BY <1>1, <1>2, HeldFacts DEF PoolInv
<1>4. /\ Len(conns) \in 0 .. PoolSize /\ DOMAIN conns = 1 .. Len(conns)
      /\ conns' \in Seq(Conns) /\ Len(conns') = Len(conns) + 1
      /\ DOMAIN conns' = 1 .. Len(conns) + 1
      /\ \A i \in 1 .. Len(conns) : conns'[i] = conns[i]
      /\ conns'[Len(conns) + 1] = c
  BY <1>2, <1>3, AppendFacts
<1>5. TypeOK' /\ Holding'
  <2>1. /\ created' \in 0 .. PoolSize /\ lost' \in Nat /\ Len(conns') <= PoolSize
        /\ abandoned' \subseteq Conns
        /\ budget' \in [{"calls", "dials", "breaks", "cancels"} -> Nat]
    BY <1>2, <1>3, <1>4 DEF TypeOK
  <2> QED
    BY <1>2, <1>3, <1>4, <2>1, HandType DEF PCs
<1>6. Units'
  <2>1. Cardinality(Busy) \in Nat /\ Cardinality(Busy)' = Cardinality(Busy) - 1
    BY <1>2, <1>3, BusyStep DEF TypeOK, PCs, Using
  <2>2. /\ lost \in Nat /\ created \in 0 .. PoolSize
        /\ created >= Len(conns) + lost + Cardinality(Busy)
        /\ ~Closed => created = Len(conns) + lost + Cardinality(Busy)
    BY UnitsFacts
  <2>3. Len(conns') + lost + Cardinality(Busy)' = Len(conns) + lost + Cardinality(Busy)
    BY <1>4, <2>1, <2>2
  <2> QED
    BY <1>2, <2>2, <2>3 DEF Units, Closed
<1>7. Exclusive'
  <2>1. \A i, j \in DOMAIN conns' : conns'[i] = conns'[j] => i = j
    BY <1>3, <1>4 DEF PoolInv, Exclusive, Buffered
  <2>2. ASSUME NEW f \in Callers, held'[f] # NoConn
        PROVE  /\ \A i \in DOMAIN conns' : conns'[i] # held'[f]
               /\ \A h \in Callers : held'[h] = held'[f] => h = f
               /\ held'[f] \notin abandoned
    <3>1. f # g /\ held'[f] = held[f] /\ held[f] # c
      BY <1>2, <1>3, <2>2 DEF TypeOK
    <3>2. \A i \in DOMAIN conns' : \/ i \in DOMAIN conns /\ conns'[i] = conns[i]
                                   \/ conns'[i] = c
      BY <1>4
    <3>3. \A h \in Callers : held'[h] = held[h] \/ held'[h] = NoConn
      BY <1>2, <1>3 DEF TypeOK
    <3> QED
      BY <2>2, <3>1, <3>2, <3>3 DEF PoolInv, Exclusive
  <2> QED
    BY <1>2, <2>1, <2>2 DEF Exclusive
<1>8. \A d \in Conns : /\ Buffered(d)' <=> Buffered(d) \/ d = c
                       /\ Held(d)' <=> Held(d) /\ d # c
  <2>1. \A d \in Conns : Held(d)' <=> Held(d) /\ d # c
    BY <1>1, <1>2, <1>3 DEF Held, TypeOK
  <2>2. \A d \in Conns : Buffered(d) => Buffered(d)'
    BY <1>4 DEF Buffered
  <2>3. Buffered(c)'
    BY <1>4 DEF Buffered
  <2>4. \A d \in Conns : Buffered(d)' => Buffered(d) \/ d = c
    BY <1>4 DEF Buffered
  <2> QED
    BY <2>1, <2>2, <2>3, <2>4
<1>9. Apart' /\ Traced'
  BY <1>2, <1>3, <1>8 DEF PoolInv, Apart, Traced, ChanClosed
<1> QED
  BY <1>5, <1>6, <1>7, <1>9 DEF PoolInv
(* Pool.Close, while the callers go on. *)
LEMMA CloseInv ==
  ASSUME PoolInv, Close \/ CloseChannel \/ Drain
  PROVE  PoolInv'
<1>1. /\ UNCHANGED <<created, pc, held, lost, abandoned, budget>>
      /\ closer' \in {"flagged", "draining", "done"} /\ TypeOK
  BY DEF Close, CloseChannel, Drain, PoolInv
<1>2. Holding' /\ Busy' = Busy /\ Closed'
  BY <1>1 DEF PoolInv, Holding, Busy, Closed
<1>3. Cardinality(Busy) \in Nat
  <2>1. Busy \in SUBSET Callers
    BY DEF Busy
  <2> QED
    BY <2>1, FS_Subset, FS_CardinalityType
<1>4. CASE UNCHANGED <<conns, state>> /\ (closer' = "done" => conns = << >>)
  <2>1. TypeOK'
    BY <1>1, <1>4 DEF TypeOK
  <2>2. Units'
    BY <1>1, <1>2, <1>4 DEF PoolInv, Units
  <2>3. Exclusive' /\ Apart' /\ Traced'
    BY <1>1, <1>4 DEF PoolInv, Exclusive, Apart, Traced, Buffered, Held
  <2> QED
    BY <1>2, <2>1, <2>2, <2>3 DEF PoolInv
<1>5. CASE Drain /\ conns # << >>
  <2>1. PICK c : c = Head(conns)
    OBVIOUS
  <2>2. /\ conns' = Tail(conns) /\ state' = [state EXCEPT ![c] = "closed"]
        /\ closer' = "draining"
    BY <1>5, <2>1 DEF Drain
  <2>3. /\ Len(conns) \in 1 .. PoolSize /\ DOMAIN conns = 1 .. Len(conns)
        /\ c = conns[1] /\ c \in Conns
        /\ conns' \in Seq(Conns) /\ Len(conns') = Len(conns) - 1
        /\ DOMAIN conns' = 1 .. Len(conns) - 1
        /\ \A i \in 1 .. Len(conns) - 1 : conns'[i] = conns[i + 1]
    BY <1>1, <1>5, <2>1, <2>2, TailFacts
  <2>4. TypeOK'
    <3>1. Len(conns') <= PoolSize
      BY <2>3
    <3> QED
      BY <1>1, <2>2, <2>3, <3>1 DEF TypeOK
  <2>5. Units'
    <3>1. /\ lost \in Nat /\ created \in 0 .. PoolSize
          /\ created >= Len(conns) + lost + Cardinality(Busy)
      BY UnitsFacts
    <3>2. created >= Len(conns') + lost + Cardinality(Busy)
      BY <1>3, <2>3, <3>1
    <3> QED
      BY <1>1, <1>2, <3>2 DEF Units
  <2>6. \A i \in DOMAIN conns' : conns'[i] = conns[i + 1] /\ i + 1 \in DOMAIN conns
                                /\ i + 1 # 1 /\ 1 \in DOMAIN conns
    BY <2>3
  <2>7. Exclusive'
    <3>1. \A i, j \in DOMAIN conns' : conns'[i] = conns'[j] => i = j
      BY <2>3, <2>6 DEF PoolInv, Exclusive
    <3>2. \A g \in Callers : held[g] # NoConn =>
            \A i \in DOMAIN conns' : conns'[i] # held[g]
      BY <2>6 DEF PoolInv, Exclusive
    <3> QED
      BY <1>1, <3>1, <3>2 DEF PoolInv, Exclusive
  <2>8. \A d \in Conns : /\ Buffered(d)' => Buffered(d)
                         /\ Buffered(d) => Buffered(d)' \/ d = c
                         /\ Held(d)' <=> Held(d)
                         /\ state'[d] = IF d = c THEN "closed" ELSE state[d]
    <3>1. \A d \in Conns : Buffered(d)' => Buffered(d)
      BY <2>6 DEF Buffered
    <3>2. ASSUME NEW d \in Conns, NEW i \in DOMAIN conns, conns[i] = d, d # c
          PROVE  \E j \in DOMAIN conns' : conns'[j] = d
      <4>1. i - 1 \in DOMAIN conns' /\ conns'[i - 1] = conns[i]
        BY <2>3, <3>2
      <4> QED
        BY <3>2, <4>1
    <3>3. \A d \in Conns : Buffered(d) => Buffered(d)' \/ d = c
      BY <3>2 DEF Buffered
    <3>4. \A d \in Conns : /\ Held(d)' <=> Held(d)
                           /\ state'[d] = IF d = c THEN "closed" ELSE state[d]
      BY <1>1, <2>2, <2>3 DEF Held, TypeOK
    <3> QED
      BY <3>1, <3>3, <3>4
  <2>9. Apart' /\ Traced'
    BY <1>1, <2>2, <2>8 DEF PoolInv, Apart, Traced
  <2> QED
    BY <1>2, <2>4, <2>5, <2>7, <2>9 DEF PoolInv
<1> QED
  BY <1>4, <1>5 DEF Close, CloseChannel, Drain

-----------------------------------------------------------------------------
(* Every step of the pool and of its callers. *)
LEMMA PoolNext == PoolInv /\ [Next]_vars => PoolInv'
<1> SUFFICES ASSUME PoolInv, [Next]_vars PROVE PoolInv'
  OBVIOUS
<1>0. Len(conns) \in 0 .. PoolSize
  BY UnitsFacts
<1>1. ASSUME NEW g \in Callers, CallStep(g) PROVE PoolInv'
  <2>1. CASE GetTry(g) \/ GetWait(g)
    <3>1. \/ pc[g] \in {"try", "wait"} /\ (Receive(g) \/ ReceiveNil(g))
          \/ /\ pc[g] = "try" /\ Goto(g, "limit")
             /\ UNCHANGED <<conns, created, closer, state, held, lost,
                            abandoned, budget>>
      BY <2>1 DEF GetTry, GetWait
    <3> QED
      BY <3>1, ReceiveInv, GetInv
  <2>2. CASE GetLimit(g) \/ DialFails(g) \/ Do(g) \/ PutPanics(g)
    BY <2>2, GetInv
  <2>3. CASE Dial(g) \/ DoFails(g)
    BY <2>3, DialInv, DoFailsInv
  <2>4. CASE Put(g)
    BY <2>4, PutInv, DropInv
  <2>5. CASE PutSend(g)
    <3>1. Len(conns) < PoolSize \/ Len(conns) = PoolSize
      BY <1>0
    <3> QED
      BY <2>5, <3>1, PutSendInv, DropInv
  <2> QED
    BY <1>1, <2>1, <2>2, <2>3, <2>4, <2>5 DEF CallStep
<1>2. ASSUME NEW g \in Callers,
             Get(g) \/ GetCancelled(g) \/ Read(g) \/ ReadFails(g)
      PROVE  PoolInv'
  BY <1>2, GetInv, ReadInv, DropInv
<1>3. CASE UNCHANGED vars
  BY <1>3 DEF vars, PoolInv, TypeOK, Holding, Units, Busy, Exclusive, Apart,
              Traced, Buffered, Held, Closed
<1> QED
  BY <1>1, <1>2, <1>3, CloseInv DEF Next

(* The inductive invariant holds throughout. *)
LEMMA PoolAlways == Spec => []PoolInv
  BY PoolInit, PoolNext, PTL DEF Spec

(* Every reachable state of the pool is well typed; in particular created   *)
(* stays between 0 and PoolSize.                                            *)
THEOREM TypeCorrect == Spec => []TypeOK
<1>1. PoolInv => TypeOK
  BY DEF PoolInv
<1> QED
  BY <1>1, PoolAlways, PTL

(* No two commands share a connection, whatever breaks, is cancelled or is  *)
(* closed meanwhile: a connection is buffered once, held once, or kept by   *)
(* ReadPubSubMessage (client.go:199-269).                                   *)
THEOREM OneUserPerConnection == Spec => []Exclusive
<1>1. PoolInv => Exclusive
  BY DEF PoolInv
<1> QED
  BY <1>1, PoolAlways, PTL

(* Until Close, created counts the buffered connections, the ones in use    *)
(* and the lost ones: only a failed dial and ReadPubSubMessage lose one.    *)
THEOREM CapacityAccounted == Spec => []Accounting
<1>1. PoolInv => Accounting
  BY DEF PoolInv, Units, Accounting, Busy, Using
<1> QED
  BY <1>1, PoolAlways, PTL

(* When Pool.Close has returned, an open connection is held by a caller or  *)
(* was kept by ReadPubSubMessage.                                           *)
THEOREM ClosedPoolIsEmpty == Spec => []ClosedIsEmpty
<1>1. PoolInv => ClosedIsEmpty
  <2> SUFFICES ASSUME PoolInv, closer = "done", NEW c \in Conns,
                      state[c] \in {"open", "broken"}
               PROVE  c \in abandoned \/ \E g \in Callers : held[g] = c
    BY DEF ClosedIsEmpty
  <2>1. conns = << >> /\ DOMAIN << >> = {}
    BY DEF PoolInv, Traced
  <2> QED
    BY <2>1 DEF PoolInv, Traced, Buffered, Held
<1> QED
  BY <1>1, PoolAlways, PTL
=============================================================================
