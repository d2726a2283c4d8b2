---------------------------- MODULE ClusterProofs ----------------------------
(***************************************************************************)
(* Proofs about Cluster, for any nodes, messages, pool, cache and channel  *)
(* sizes, and any number of faults.                                        *)
(***************************************************************************)
EXTENDS Cluster, SequenceTheorems, TLAPS

Places == {"off", "top", "psubscribe", "next", "get", "read", "send",
           "ended", "crashed"}

Boxes == [Conns -> Seq(Publishers \cup {Confirm})]

Fates == [Publishers -> {"unheard", "heard", "dropped"}]

USE DEF past

(* What the program counter of the loop says of its locals. *)
Fits(r) == /\ r.pc = "read" => r.held \in Conns
           /\ r.pc = "send" => r.hand \in Publishers

TypeInv == TypeOK /\ \A n \in Nodes : Fits(sub[n])

-----------------------------------------------------------------------------
(* The record of the subscription loop *)

(* Its updates keep the type. *)
LEMMA LoopUpdates ==
  ASSUME NEW r \in Loop
  PROVE  /\ \A idle \in Seq(Conns) : [r EXCEPT !.idle = idle] \in Loop
         /\ \A created \in 0 .. PoolSize : [r EXCEPT !.created = created] \in Loop
         /\ \A pc \in Places : [r EXCEPT !.pc = pc] \in Loop
         /\ \A pc \in Places, errors \in Nat :
              [r EXCEPT !.pc = pc, !.errors = errors] \in Loop
         /\ \A pc \in Places, held \in 0 .. PoolSize :
              [r EXCEPT !.pc = pc, !.held = held] \in Loop
         /\ \A pc \in Places, hand \in Publishers \cup {Nil} :
              [r EXCEPT !.pc = pc, !.hand = hand] \in Loop
         /\ \A held \in 0 .. PoolSize, subs \in SUBSET Conns :
              [r EXCEPT !.held = held, !.subs = subs] \in Loop
         /\ \A pc \in Places, held \in 0 .. PoolSize, subs \in SUBSET Conns :
              [r EXCEPT !.pc = pc, !.held = held, !.subs = subs] \in Loop
         /\ \A idle \in Seq(Conns), broken \in SUBSET Conns :
              [r EXCEPT !.idle = idle, !.broken = broken] \in Loop
         /\ \A pc \in Places, idle \in Seq(Conns), subs \in SUBSET Conns,
               errors \in Nat :
              [r EXCEPT !.pc = pc, !.idle = idle, !.subs = subs,
                        !.errors = errors] \in Loop
<1>1. \A idle \in Seq(Conns) : [r EXCEPT !.idle = idle] \in Loop
  BY DEF Loop, Places
<1>2. \A created \in 0 .. PoolSize : [r EXCEPT !.created = created] \in Loop
  BY DEF Loop, Places
<1>3. \A pc \in Places : [r EXCEPT !.pc = pc] \in Loop
  BY DEF Loop, Places
<1>4. \A pc \in Places, errors \in Nat :
        [r EXCEPT !.pc = pc, !.errors = errors] \in Loop
  BY DEF Loop, Places
<1>5. \A pc \in Places, held \in 0 .. PoolSize :
        [r EXCEPT !.pc = pc, !.held = held] \in Loop
  BY DEF Loop, Places
<1>6. \A pc \in Places, hand \in Publishers \cup {Nil} :
        [r EXCEPT !.pc = pc, !.hand = hand] \in Loop
  BY DEF Loop, Places
<1>7. \A held \in 0 .. PoolSize, subs \in SUBSET Conns :
        [r EXCEPT !.held = held, !.subs = subs] \in Loop
  BY DEF Loop, Places
<1>8. \A pc \in Places, held \in 0 .. PoolSize, subs \in SUBSET Conns :
        [r EXCEPT !.pc = pc, !.held = held, !.subs = subs] \in Loop
  BY DEF Loop, Places
<1>9. \A idle \in Seq(Conns), broken \in SUBSET Conns :
        [r EXCEPT !.idle = idle, !.broken = broken] \in Loop
  BY DEF Loop, Places
<1>10. \A pc \in Places, idle \in Seq(Conns), subs \in SUBSET Conns,
         errors \in Nat :
        [r EXCEPT !.pc = pc, !.idle = idle, !.subs = subs,
                  !.errors = errors] \in Loop
  BY DEF Loop, Places
<1> QED
  BY <1>1, <1>2, <1>3, <1>4, <1>5, <1>6, <1>7, <1>8, <1>9, <1>10

(* The fields of a loop. *)
LEMMA LoopFields ==
  ASSUME NEW r \in Loop
  PROVE  /\ r.pc \in Places /\ r.idle \in Seq(Conns) /\ r.created \in 0 .. PoolSize
         /\ r.subs \in SUBSET Conns /\ r.broken \in SUBSET Conns
         /\ r.held \in 0 .. PoolSize /\ r.hand \in Publishers \cup {Nil}
         /\ r.errors \in Nat
BY DEF Loop, Places

(* A new client has MinIdle connections. *)
LEMMA NewClientType ==
  ASSUME NEW pc \in Places
  PROVE  NewClient(pc) \in Loop /\ NewClient(pc).pc = pc
<1> USE ClusterAssumption
<1>1. MinIdle \in 0 .. PoolSize /\ 0 \in 0 .. PoolSize /\ MinIdle \in Nat
  OBVIOUS
<1>2. [i \in 1 .. MinIdle |-> i] \in Seq(Conns)
  <2>1. [i \in 1 .. MinIdle |-> i] \in [1 .. MinIdle -> Conns]
    BY DEF Conns
  <2> QED
    BY <1>1, <2>1
<1>3. PICK q \in Seq(Conns) : q = [i \in 1 .. MinIdle |-> i]
  BY <1>2
<1>4. [pc |-> pc, idle |-> q, created |-> MinIdle, subs |-> {}, broken |-> {},
       held |-> 0, hand |-> Nil, errors |-> 0] \in Loop
  BY <1>1 DEF Loop, Places
<1> QED
  BY <1>3, <1>4 DEF NewClient

(* Get gives a connection of the pool and leaves the rest of the loop. *)
LEMMA TakenType ==
  ASSUME NEW n \in Nodes, sub[n] \in Loop, NEW c, Gets(n, c), NEW d
  PROVE  /\ c \in Conns
         /\ Taken(sub[n], d) \in Loop
         /\ Taken(sub[n], d).pc = sub[n].pc
         /\ Taken(sub[n], d).held = sub[n].held
         /\ Taken(sub[n], d).hand = sub[n].hand
<1> USE ClusterAssumption
<1>0. PICK r \in Loop : r = sub[n]
  OBVIOUS
<1>1. r.idle \in Seq(Conns) /\ r.created \in 0 .. PoolSize
  BY LoopFields
<1>2. CASE r.idle # << >>
  <2>1. c = Head(r.idle)
    BY <1>0, <1>2 DEF Gets
  <2>2. c \in Conns /\ Tail(r.idle) \in Seq(Conns)
    BY <1>1, <1>2, <2>1
  <2>3. PICK s : s = [r EXCEPT !.idle = Tail(r.idle)]
    OBVIOUS
  <2>4. s \in Loop
    BY <2>2, <2>3, LoopUpdates
  <2>5. s.pc = r.pc /\ s.held = r.held /\ s.hand = r.hand
    BY <2>3 DEF Loop
  <2>6. Taken(sub[n], d) = s
    BY <1>0, <1>2, <2>3 DEF Taken
  <2> QED
    BY <1>0, <2>2, <2>4, <2>5, <2>6
<1>3. CASE r.idle = << >>
  <2>1. r.created < PoolSize /\ c = r.created + 1
    BY <1>0, <1>3 DEF Gets
  <2>2. c \in Conns /\ r.created + 1 \in 0 .. PoolSize
    BY <1>1, <2>1 DEF Conns
  <2>3. PICK s : s = [r EXCEPT !.created = r.created + 1]
    OBVIOUS
  <2>4. s \in Loop
    BY <2>2, <2>3, LoopUpdates
  <2>5. s.pc = r.pc /\ s.held = r.held /\ s.hand = r.hand
    BY <2>3 DEF Loop
  <2>6. Taken(sub[n], d) = s
    BY <1>0, <1>3, <2>3 DEF Taken
  <2> QED
    BY <1>0, <2>2, <2>4, <2>5, <2>6
<1> QED
  BY <1>2, <1>3

-----------------------------------------------------------------------------
(* A step of the subscription loop *)

Holds(box, m) == \E c \in Conns : \E i \in DOMAIN box[c] : box[c][i] = m

(* It leaves the loop in r and its connections with what is in box: nothing *)
(* comes into them but confirmations, and what goes to the channel has been *)
(* read from one of them and found to be new.                               *)
Moved(n, r, box) ==
  /\ r \in Loop /\ Fits(r) /\ box \in Boxes
  /\ sub' = [sub EXCEPT ![n] = r]
  /\ inbox' = [inbox EXCEPT ![n] = box]
  /\ \A m \in Publishers : Holds(box, m) => Holds(inbox[n], m)
  /\ r.pc = "send" => /\ Read(n)
                      /\ Holds(inbox[n], r.hand)
                      /\ Relevant(n, r.hand)
                      /\ dedupe' = [dedupe EXCEPT ![n] = D!Mark(@, KeyOf(r.hand))]

(* The connections are left alone. *)
LEMMA MovedKeep ==
  ASSUME TypeInv, NEW n \in Nodes, UNCHANGED inbox, NEW r \in Loop,
         r.pc \notin {"send"}, Fits(r), sub' = [sub EXCEPT ![n] = r]
  PROVE  \E box : Moved(n, r, box)
<1>1. PICK box : box = inbox[n]
  OBVIOUS
<1>2. box \in Boxes /\ inbox' = [inbox EXCEPT ![n] = box]
  BY <1>1 DEF TypeInv, TypeOK, Boxes
<1>3. Moved(n, r, box)
  BY <1>1, <1>2 DEF Moved
<1> QED
  BY <1>3

(* A new client has empty connections. *)
LEMMA MovedRenew ==
  ASSUME TypeInv, NEW n \in Nodes, NEW pc \in Places \ {"read", "send"},
         Renew(n, pc)
  PROVE  \E r, box : Moved(n, r, box)
<1>1. PICK box : box = [c \in Conns |-> << >>]
  OBVIOUS
<1>2. box \in Boxes /\ inbox' = [inbox EXCEPT ![n] = box]
  BY <1>1 DEF Renew, Boxes
<1>3. PICK r : r = NewClient(pc)
  OBVIOUS
<1>4. r \in Loop /\ r.pc = pc /\ sub' = [sub EXCEPT ![n] = r]
  BY <1>3, NewClientType DEF Renew
<1>5. \A m : ~Holds(box, m)
  BY <1>1 DEF Holds
<1>6. Moved(n, r, box)
  BY <1>2, <1>4, <1>5 DEF Moved, Fits
<1> QED
  BY <1>6

(* A PSUBSCRIBE that failed. *)
LEMMA MovedFailed ==
  ASSUME TypeInv, NEW n \in Nodes, NEW s \in Loop, Failed(n, s)
  PROVE  \E r, box : Moved(n, r, box)
<1>a. PICK e : e = IF s.errors < MaxConsecutive THEN s.errors + 1 ELSE s.errors
  OBVIOUS
<1>0. e \in Nat /\ "top" \in Places
  <2>1. s.errors \in Nat
    BY LoopFields
  <2> QED
    BY <1>a, <2>1 DEF Places
<1>1. PICK r : r = [s EXCEPT !.pc = "top", !.errors = e]
  OBVIOUS
<1>2. r \in Loop
  BY <1>0, <1>1, LoopUpdates
<1>3. r.pc = "top"
  BY <1>1 DEF Loop
<1>4. Renew(n, "top") \/ (sub' = [sub EXCEPT ![n] = r] /\ UNCHANGED inbox)
  BY <1>a, <1>1 DEF Failed
<1>5. CASE Renew(n, "top")
  <2>1. "top" \in Places \ {"read", "send"}
    BY DEF Places
  <2> QED
    BY <1>5, <2>1, MovedRenew
<1>6. CASE sub' = [sub EXCEPT ![n] = r] /\ UNCHANGED inbox
  <2>1. Fits(r)
    BY <1>3 DEF Fits
  <2>2. \E box : Moved(n, r, box)
    BY <1>2, <1>3, <1>6, <2>1, MovedKeep
  <2> QED
    BY <2>2
<1> QED
  BY <1>4, <1>5, <1>6

(* Connection c of node n is emptied. *)
LEMMA Emptied ==
  ASSUME TypeInv, NEW n \in Nodes, NEW c \in Conns,
         inbox' = [inbox EXCEPT ![n][c] = << >>]
  PROVE  \E box \in Boxes : /\ inbox' = [inbox EXCEPT ![n] = box]
                            /\ \A m \in Publishers : Holds(box, m) => Holds(inbox[n], m)
<1>1. PICK b \in Boxes : b = inbox[n]
  BY DEF TypeInv, TypeOK, Boxes
<1>2. PICK box : box = [b EXCEPT ![c] = << >>]
  OBVIOUS
<1>3. box \in Boxes
  BY <1>2 DEF Boxes
<1>4. inbox' = [inbox EXCEPT ![n] = box]
  BY <1>1, <1>2
<1>5. ASSUME NEW m \in Publishers, Holds(box, m) PROVE Holds(b, m)
  <2>1. PICK d \in Conns : \E i \in DOMAIN box[d] : box[d][i] = m
    BY <1>5 DEF Holds
  <2>2. d # c
    BY <1>2, <2>1 DEF Boxes
  <2>3. box[d] = b[d]
    BY <1>2, <2>2 DEF Boxes
  <2> QED
    BY <2>1, <2>3 DEF Holds
<1> QED
  BY <1>1, <1>3, <1>4, <1>5

(* Every step of the loop is such a move. *)
LEMMA LoopMoves ==
  ASSUME TypeInv, NEW n \in Nodes, LoopStep(n)
  PROVE  \E r, box : Moved(n, r, box)
<1> USE ClusterAssumption
<1>0. PICK s \in Loop : s = sub[n]
  BY DEF TypeInv, TypeOK
<1>a. /\ s.pc \in Places /\ s.idle \in Seq(Conns) /\ s.created \in 0 .. PoolSize
      /\ s.subs \in SUBSET Conns /\ s.broken \in SUBSET Conns
      /\ s.held \in 0 .. PoolSize /\ s.errors \in Nat
  BY LoopFields
<1>b. Fits(s)
  BY <1>0 DEF TypeInv
<1>c. 0 \in 0 .. PoolSize /\ Conns \subseteq 0 .. PoolSize
  BY DEF Conns
<1>d. {"top", "psubscribe", "next", "get", "read", "send", "ended", "crashed"}
        \subseteq Places
  BY DEF Places
<1>1. CASE Select(n)
  <2>1. CASE Renew(n, "ended")
    BY <1>d, <2>1, MovedRenew
  <2>2. CASE ~Renew(n, "ended")
    <3>1. PICK pc \in {"psubscribe", "get"} :
            sub' = [sub EXCEPT ![n].pc = pc] /\ UNCHANGED inbox
      BY <1>1, <2>2 DEF Select
    <3>2. PICK r : r = [s EXCEPT !.pc = pc]
      OBVIOUS
    <3>3. r \in Loop
      BY <1>d, <3>2, LoopUpdates
    <3>4. r.pc = pc /\ Fits(r)
      BY <3>2 DEF Loop, Fits
    <3>5. sub' = [sub EXCEPT ![n] = r]
      BY <1>0, <3>1, <3>2
    <3> QED
      BY <3>1, <3>3, <3>4, <3>5, MovedKeep
  <2> QED
    BY <2>1, <2>2
<1>2. CASE ReadFails(n)
  <2>1. s.pc = "read" /\ s.held \in Conns
    BY <1>0, <1>2, <1>b DEF ReadFails, Fits
  <2>2. PICK r : r = [s EXCEPT !.pc = "top", !.held = 0, !.subs = s.subs \ {s.held}]
    OBVIOUS
  <2>3. r \in Loop
    BY <1>a, <1>c, <1>d, <2>2, LoopUpdates
  <2>4. r.pc = "top" /\ Fits(r)
    BY <2>2 DEF Loop, Fits
  <2>5. sub' = [sub EXCEPT ![n] = r]
    BY <1>0, <1>2, <2>2 DEF ReadFails, TypeInv, TypeOK
  <2>6. inbox' = [inbox EXCEPT ![n][s.held] = << >>]
    BY <1>0, <1>2 DEF ReadFails
  <2>7. PICK box \in Boxes :
          /\ inbox' = [inbox EXCEPT ![n] = box]
          /\ \A m \in Publishers : Holds(box, m) => Holds(inbox[n], m)
    BY <2>1, <2>6, Emptied
  <2>8. Moved(n, r, box)
    BY <2>3, <2>4, <2>5, <2>7 DEF Moved
  <2> QED
    BY <2>8
<1>3. CASE Read(n)
  <2>1. s.pc = "read" /\ s.held \in Conns
    BY <1>0, <1>3, <1>b DEF Read, Fits
  <2>2. PICK left : left = [s EXCEPT !.held = 0, !.subs = s.subs \ {s.held}]
    OBVIOUS
  <2>3. left \in Loop
    BY <1>a, <1>c, <2>2, LoopUpdates
  <2>4. inbox' = [inbox EXCEPT ![n][s.held] = << >>]
    BY <1>0, <1>3 DEF Read
  <2>5. PICK box \in Boxes :
          /\ inbox' = [inbox EXCEPT ![n] = box]
          /\ \A m \in Publishers : Holds(box, m) => Holds(inbox[n], m)
    BY <2>1, <2>4, Emptied
  <2>6. PICK m : m = Head(inbox[n][s.held])
    OBVIOUS
  <2>7. CASE Relevant(n, m)
    <3>1. PICK r : r = [left EXCEPT !.pc = "send", !.hand = m]
      OBVIOUS
    <3>2. /\ sub' = [sub EXCEPT ![n] = r]
          /\ dedupe' = [dedupe EXCEPT ![n] = D!Mark(@, KeyOf(m))]
      BY <1>0, <1>3, <2>2, <2>6, <2>7, <3>1 DEF Read
    <3>3. PICK q \in Seq(Publishers \cup {Confirm}) : q = inbox[n][s.held]
      BY <2>1 DEF TypeInv, TypeOK
    <3>4. q # << >>
      BY <1>0, <1>3, <3>3 DEF Read
    <3>5. 1 \in DOMAIN q /\ q[1] = m /\ m \in Publishers \cup {Confirm}
      BY <2>6, <3>3, <3>4
    <3>6. m \in Publishers /\ Holds(inbox[n], m)
      BY <2>1, <2>7, <3>3, <3>5 DEF Relevant, Holds
    <3>7. r \in Loop
      BY <1>d, <2>3, <3>1, <3>6, LoopUpdates
    <3>8. r.pc = "send" /\ r.hand = m /\ Fits(r)
      BY <2>3, <3>1, <3>6 DEF Loop, Fits
    <3>9. Moved(n, r, box)
      BY <1>3, <2>5, <2>7, <3>2, <3>6, <3>7, <3>8 DEF Moved
    <3> QED
      BY <3>9
  <2>8. CASE ~Relevant(n, m)
    <3>1. PICK r : r = [left EXCEPT !.pc = "next"]
      OBVIOUS
    <3>2. sub' = [sub EXCEPT ![n] = r]
      BY <1>0, <1>3, <2>2, <2>6, <2>8, <3>1 DEF Read
    <3>3. r \in Loop
      BY <1>d, <2>3, <3>1, LoopUpdates
    <3>4. r.pc = "next" /\ Fits(r)
      BY <2>3, <3>1 DEF Loop, Fits
    <3>5. Moved(n, r, box)
      BY <2>5, <3>2, <3>3, <3>4 DEF Moved
    <3> QED
      BY <3>5
  <2> QED
    BY <2>7, <2>8
<1>4. CASE DialFails(n)
  <2>0. PICK c \in Conns : Gets(n, c)
    BY <1>4 DEF DialFails
  <2>1. PICK t \in Loop : t = Taken(sub[n], 0)
    BY <1>0, <2>0, TakenType
  <2>2. CASE sub[n].pc = "psubscribe"
    <3>1. Failed(n, t)
      BY <1>4, <2>1, <2>2 DEF DialFails
    <3> QED
      BY <3>1, MovedFailed
  <2>3. CASE sub[n].pc # "psubscribe"
    <3>1. PICK r : r = [t EXCEPT !.pc = "top"]
      OBVIOUS
    <3>2. sub' = [sub EXCEPT ![n] = r] /\ UNCHANGED inbox
      BY <1>4, <2>1, <2>3, <3>1 DEF DialFails
    <3>3. r \in Loop
      BY <1>d, <3>1, LoopUpdates
    <3>4. r.pc = "top" /\ Fits(r)
      BY <3>1 DEF Loop, Fits
    <3> QED
      BY <3>2, <3>3, <3>4, MovedKeep
  <2> QED
    BY <2>2, <2>3
<1>5. CASE GetClosed(n)
  <2>1. CASE Renew(n, "ended")
    BY <1>d, <2>1, MovedRenew
  <2>2. CASE Renew(n, "crashed")
    BY <1>d, <2>2, MovedRenew
  <2> QED
    BY <1>5, <2>1, <2>2 DEF GetClosed
<1>10. CASE CloseAgain(n)
  BY <1>d, <1>10, MovedRenew DEF CloseAgain
<1>6. CASE Send(n)
  <2>1. CASE Renew(n, "crashed")
    BY <1>d, <2>1, MovedRenew
  <2>2. CASE ~Renew(n, "crashed")
    <3>1. PICK r : r = [s EXCEPT !.pc = "next", !.hand = Nil]
      OBVIOUS
    <3>2. sub' = [sub EXCEPT ![n].pc = "next", ![n].hand = Nil] /\ UNCHANGED inbox
      BY <1>6, <2>2 DEF Send
    <3>3. sub' = [sub EXCEPT ![n] = r]
      BY <1>0, <3>1, <3>2 DEF TypeInv, TypeOK
    <3>4. r \in Loop
      BY <1>d, <3>1, LoopUpdates
    <3>5. r.pc = "next" /\ Fits(r)
      BY <3>1 DEF Loop, Fits
    <3> QED
      BY <3>2, <3>3, <3>4, <3>5, MovedKeep
  <2> QED
    BY <2>1, <2>2
<1>7. ASSUME NEW c \in Conns, Psubscribe(n, c) PROVE \E r, box : Moved(n, r, box)
  <2>1. PICK t \in Loop : t = Taken(sub[n], c)
    BY <1>0, <1>7, TakenType DEF Psubscribe
  <2>2. PICK r : r = [t EXCEPT !.pc = "next", !.idle = Append(t.idle, c),
                        !.subs = t.subs \cup {c}, !.errors = 0]
    OBVIOUS
  <2>3. sub' = [sub EXCEPT ![n] = r]
    BY <1>7, <2>1, <2>2 DEF Psubscribe
  <2>4. Append(t.idle, c) \in Seq(Conns) /\ t.subs \cup {c} \in SUBSET Conns
    BY LoopFields
  <2>5. r \in Loop
    <3>1. "next" \in Places /\ 0 \in Nat
      BY <1>d
    <3>2. PICK idle \in Seq(Conns), subs \in SUBSET Conns :
            idle = Append(t.idle, c) /\ subs = t.subs \cup {c}
      BY <2>4
    <3>3. [t EXCEPT !.pc = "next", !.idle = idle, !.subs = subs,
                    !.errors = 0] \in Loop
      BY <3>1, LoopUpdates
    <3> QED
      BY <2>2, <3>2, <3>3
  <2>6. r.pc = "next" /\ Fits(r)
    BY <2>2 DEF Loop, Fits
  <2>7. PICK b \in Boxes : b = inbox[n]
    BY DEF TypeInv, TypeOK, Boxes
  <2>8. PICK q \in Seq(Publishers \cup {Confirm}) : q = b[c]
    BY DEF Boxes
  <2>9. PICK w : w = IF q = << >> THEN q ELSE Append(Tail(q), Confirm)
    OBVIOUS
  <2>10. /\ w \in Seq(Publishers \cup {Confirm})
         /\ \A i \in DOMAIN w : w[i] = Confirm \/ \E j \in DOMAIN q : q[j] = w[i]
    <3>1. CASE q = << >>
      BY <2>9, <3>1
    <3>2. CASE q # << >>
      <4>0. Tail(q) \in Seq(Publishers \cup {Confirm})
        BY <2>8, <3>2, HeadTailProperties
      <4>1. PICK t1 \in Seq(Publishers \cup {Confirm}) : t1 = Tail(q)
        BY <4>0
      <4>2. w = Append(t1, Confirm)
        BY <2>9, <3>2, <4>1
      <4>3. \A i \in DOMAIN t1 : i + 1 \in DOMAIN q /\ q[i + 1] = t1[i]
        <5>1. /\ Len(t1) = Len(q) - 1 /\ Len(q) \in Nat /\ Len(t1) \in Nat
              /\ DOMAIN t1 = 1 .. Len(t1) /\ DOMAIN q = 1 .. Len(q)
          BY <3>2, <4>1
        <5>2. ASSUME NEW i \in 1 .. Len(q) - 1 PROVE Tail(q)[i] = q[i + 1]
          BY <3>2, <5>1
        <5>3. ASSUME NEW i \in DOMAIN t1 PROVE i + 1 \in DOMAIN q /\ q[i + 1] = t1[i]
          <6>1. i \in 1 .. Len(q) - 1 /\ i + 1 \in 1 .. Len(q)
            BY <5>1
          <6> QED
            BY <4>1, <5>1, <5>2, <6>1
        <5> QED
          BY <5>3
      <4>4. w \in Seq(Publishers \cup {Confirm})
        BY <4>2
      <4>5. \A i \in DOMAIN w : w[i] = Confirm \/ (i \in DOMAIN t1 /\ w[i] = t1[i])
        BY <4>2
      <4> QED
        BY <4>3, <4>4, <4>5
    <3> QED
      BY <3>1, <3>2
  <2>11. PICK box : box = [b EXCEPT ![c] = w]
    OBVIOUS
  <2>12. inbox' = [inbox EXCEPT ![n] = box]
    BY <1>7, <2>7, <2>8, <2>9, <2>11 DEF Psubscribe
  <2>13. box \in Boxes
    BY <2>10, <2>11 DEF Boxes
  <2>14. ASSUME NEW m \in Publishers, Holds(box, m) PROVE Holds(b, m)
    <3>1. PICK d \in Conns : \E i \in DOMAIN box[d] : box[d][i] = m
      BY <2>14 DEF Holds
    <3>2. CASE d = c
      <4>1. box[d] = w
        BY <2>11, <3>2 DEF Boxes
      <4> QED
        BY <2>8, <2>10, <3>1, <3>2, <4>1 DEF Holds
    <3>3. CASE d # c
      <4>1. box[d] = b[d]
        BY <2>11, <3>3 DEF Boxes
      <4> QED
        BY <3>1, <4>1 DEF Holds
    <3> QED
      BY <3>2, <3>3
  <2>15. Moved(n, r, box)
    BY <2>3, <2>5, <2>6, <2>7, <2>12, <2>13, <2>14 DEF Moved
  <2> QED
    BY <2>15
<1>8. ASSUME NEW c \in Conns, PsubscribeFails(n, c)
      PROVE  \E r, box : Moved(n, r, box)
  <2>1. PICK t \in Loop : t = Taken(sub[n], c)
    BY <1>0, <1>8, TakenType DEF PsubscribeFails
  <2>2. PICK r : r = [t EXCEPT !.idle = Append(t.idle, c),
                               !.broken = t.broken \cup {c}]
    OBVIOUS
  <2>3. Append(t.idle, c) \in Seq(Conns) /\ t.broken \cup {c} \in SUBSET Conns
    BY LoopFields
  <2>4. r \in Loop
    BY <2>2, <2>3, LoopUpdates
  <2>5. Failed(n, r)
    BY <1>8, <2>1, <2>2 DEF PsubscribeFails
  <2> QED
    BY <2>4, <2>5, MovedFailed
<1>9. ASSUME NEW c \in Conns, ReadGet(n, c) PROVE \E r, box : Moved(n, r, box)
  <2>1. PICK t \in Loop : t = Taken(sub[n], c)
    BY <1>0, <1>9, TakenType DEF ReadGet
  <2>2. PICK r : r = [t EXCEPT !.pc = "read", !.held = c]
    OBVIOUS
  <2>3. sub' = [sub EXCEPT ![n] = r] /\ UNCHANGED inbox
    BY <1>9, <2>1, <2>2 DEF ReadGet
  <2>4. r \in Loop
    BY <1>c, <1>d, <2>2, LoopUpdates
  <2>5. r.pc = "read" /\ Fits(r)
    BY <2>2 DEF Loop, Fits
  <2> QED
    BY <2>3, <2>4, <2>5, MovedKeep
<1> QED
  BY <1>1, <1>2, <1>3, <1>4, <1>5, <1>6, <1>7, <1>8, <1>9, <1>10 DEF LoopStep

(* What else such a step does. *)
LEMMA LoopFrame ==
  ASSUME TypeInv, NEW n \in Nodes, LoopStep(n)
  PROVE  /\ UNCHANGED <<consumer, rest>>
         /\ UNCHANGED budget \/ Spend
         /\ \/ UNCHANGED msgChan
            \/ /\ sub[n].pc = "send" /\ sub'[n].pc # "send"
               /\ Len(msgChan[n]) # BufferSize
               /\ msgChan' = [msgChan EXCEPT ![n] = Append(@, sub[n].hand)]
         /\ \/ UNCHANGED <<dedupe, forgot>>
            \/ /\ sub[n].pc = "read" /\ sub'[n].pc = "send"
               /\ Forget(n, dedupe'[n])
         /\ fate' \in [Nodes -> Fates]
<1>0. PICK s \in Loop : s = sub[n]
  BY DEF TypeInv, TypeOK
<1>a. fate \in [Nodes -> Fates]
  BY DEF TypeInv, TypeOK, Fates
<1>b. ASSUME NEW m \in Publishers, NEW v \in {"unheard", "heard", "dropped"}
      PROVE  [fate EXCEPT ![n][m] = v] \in [Nodes -> Fates]
  BY <1>a DEF Fates
<1>1. CASE Read(n)
  <2>0. fate' \in [Nodes -> Fates]
    <3>1. PICK m : Heard(n, m) /\ (m # Confirm => m \in Publishers)
      <4>1. s.held \in Conns
        BY <1>0, <1>1 DEF Read, TypeInv, Fits
      <4>2. PICK q \in Seq(Publishers \cup {Confirm}) : q = inbox[n][s.held]
        BY <4>1 DEF TypeInv, TypeOK
      <4>3. q # << >> /\ Heard(n, Head(q))
        BY <1>0, <1>1, <4>2 DEF Read
      <4>4. Head(q) \in Publishers \cup {Confirm}
        BY <4>2, <4>3
      <4> QED
        BY <4>3, <4>4
    <3> QED
      BY <1>a, <1>b, <3>1 DEF Heard
  <2>1. UNCHANGED <<msgChan, consumer, budget, rest>> /\ s.pc = "read"
    BY <1>0, <1>1 DEF Read
  <2>2. PICK left : left = [s EXCEPT !.held = 0, !.subs = s.subs \ {s.held}]
    OBVIOUS
  <2>3. PICK m : m = Head(inbox[n][s.held])
    OBVIOUS
  <2>4. CASE Relevant(n, m)
    <3>1. /\ sub' = [sub EXCEPT ![n] = [left EXCEPT !.pc = "send", !.hand = m]]
          /\ Forget(n, dedupe'[n])
      BY <1>0, <1>1, <2>2, <2>3, <2>4 DEF Read
    <3>2. [left EXCEPT !.pc = "send", !.hand = m].pc = "send"
      BY <2>2 DEF Loop
    <3>3. sub'[n].pc = "send"
      BY <3>1, <3>2 DEF TypeInv, TypeOK
    <3> QED
      BY <1>0, <2>0, <2>1, <3>1, <3>3
  <2>5. CASE ~Relevant(n, m)
    <3>1. UNCHANGED <<dedupe, forgot>>
      BY <1>0, <1>1, <2>3, <2>5 DEF Read
    <3> QED
      BY <2>0, <2>1, <3>1
  <2> QED
    BY <2>4, <2>5
<1>2. CASE Send(n)
  <2>1. UNCHANGED <<dedupe, consumer, forgot, budget, rest>> /\ s.pc = "send"
    BY <1>0, <1>2 DEF Send
  <2>0. fate' \in [Nodes -> Fates]
    <3>1. sub[n].hand \in Publishers
      BY <1>0, <2>1 DEF TypeInv, Fits
    <3>2. UNCHANGED fate \/ fate' = [fate EXCEPT ![n][sub[n].hand] = "dropped"]
      BY <1>2 DEF Send
    <3> QED
      BY <1>a, <1>b, <3>1, <3>2
  <2>2. CASE UNCHANGED msgChan
    BY <2>0, <2>1, <2>2
  <2>3. CASE ~UNCHANGED msgChan
    <3>1. /\ sub' = [sub EXCEPT ![n].pc = "next", ![n].hand = Nil]
          /\ Len(msgChan[n]) # BufferSize
          /\ msgChan' = [msgChan EXCEPT ![n] = Append(@, sub[n].hand)]
      BY <1>2, <2>3 DEF Send
    <3>2. sub'[n].pc = "next"
      BY <1>0, <3>1 DEF TypeInv, TypeOK, Loop
    <3> QED
      BY <1>0, <2>0, <2>1, <3>1, <3>2
  <2> QED
    BY <2>2, <2>3
<1>3. CASE Select(n)
  BY <1>3, <1>a DEF Select
<1>4. CASE ReadFails(n)
  BY <1>4, <1>a DEF ReadFails
<1>5. CASE DialFails(n)
  BY <1>5, <1>a DEF DialFails
<1>6. CASE GetClosed(n)
  BY <1>6, <1>a DEF GetClosed
<1>10. CASE CloseAgain(n)
  BY <1>10, <1>a DEF CloseAgain
<1>7. ASSUME NEW c \in Conns, Psubscribe(n, c)
      PROVE  UNCHANGED <<dedupe, msgChan, consumer, past, budget, rest>>
  BY <1>7 DEF Psubscribe
<1>8. ASSUME NEW c \in Conns, PsubscribeFails(n, c)
      PROVE  /\ UNCHANGED <<dedupe, msgChan, consumer, past, rest>>
             /\ UNCHANGED budget \/ Spend
  BY <1>8 DEF PsubscribeFails
<1>9. ASSUME NEW c \in Conns, ReadGet(n, c)
      PROVE  UNCHANGED <<dedupe, msgChan, consumer, past, budget, rest>>
  BY <1>9 DEF ReadGet
<1> QED
  BY <1>1, <1>2, <1>3, <1>4, <1>5, <1>6, <1>7, <1>8, <1>9, <1>10, <1>a DEF LoopStep

-----------------------------------------------------------------------------
(* The dedupe cache *)

Keys == Publishers \cup {EmptyID}

Sound(d) == d \in D!Cache /\ d.old <= Len(d.order) /\ Len(d.order) <= DedupeSize

(* An expired entry is taken out alone. *)
LEMMA WithoutSound ==
  ASSUME NEW d, Sound(d), NEW k
  PROVE  Sound(D!Without(d, k))
<1> USE ClusterAssumption
<1>0. PICK q \in Seq(Keys), old \in Nat : q = d.order /\ old = d.old
  BY DEF Sound, D!Cache, Keys
<1>1. old <= Len(q) /\ Len(q) <= DedupeSize /\ Len(q) \in Nat
  BY <1>0 DEF Sound
<1>2. PICK at : at = {i \in 1 .. old : q[i] = k}
  OBVIOUS
<1>3. CASE at = {}
  <2>1. D!Without(d, k) = d
    BY <1>0, <1>2, <1>3 DEF D!Without
  <2> QED
    BY <2>1
<1>4. CASE at # {}
  <2>1. PICK i : i = CHOOSE j \in at : TRUE
    OBVIOUS
  <2>2. i \in 1 .. old
    BY <1>2, <1>4, <2>1
  <2>3. PICK a : a = SubSeq(q, 1, i - 1)
    OBVIOUS
  <2>4. PICK b : b = SubSeq(q, i + 1, Len(q))
    OBVIOUS
  <2>5. a \in Seq(Keys) /\ Len(a) = i - 1
    BY <1>1, <2>2, <2>3
  <2>6. b \in Seq(Keys) /\ Len(b) = Len(q) - i
    BY <1>1, <2>2, <2>4
  <2>7. a \o b \in Seq(Keys) /\ Len(a \o b) = Len(q) - 1
    <3>1. a \o b \in Seq(Keys) /\ Len(a \o b) = Len(a) + Len(b)
      BY <2>5, <2>6, ConcatProperties, Zenon
    <3> QED
      BY <1>1, <2>2, <2>5, <2>6, <3>1
  <2>8. PICK e : e = [order |-> a \o b, old |-> old - 1]
    OBVIOUS
  <2>9. D!Without(d, k) = e
    BY <1>0, <1>2, <1>4, <2>1, <2>3, <2>4, <2>8 DEF D!Without
  <2>10. old - 1 \in Nat
    BY <2>2
  <2>11. e \in D!Cache
    BY <2>7, <2>8, <2>10 DEF D!Cache, Keys
  <2>12. e.old <= Len(e.order) /\ Len(e.order) <= DedupeSize
    BY <1>1, <2>7, <2>8, <2>10
  <2> QED
    BY <2>9, <2>11, <2>12 DEF Sound
<1> QED
  BY <1>3, <1>4

(* Eviction never takes the key that was marked. *)
LEMMA MarkSound ==
  ASSUME NEW d, Sound(d), NEW k \in Keys
  PROVE  Sound(D!Mark(d, k)) /\ k \in D!Fresh(D!Mark(d, k))
<1> USE ClusterAssumption
<1>1. PICK r : r = D!Without(d, k)
  OBVIOUS
<1>2. Sound(r)
  BY <1>1, WithoutSound
<1>3. PICK q \in Seq(Keys), old \in Nat : q = r.order /\ old = r.old
  BY <1>2 DEF Sound, D!Cache, Keys
<1>4. old <= Len(q) /\ Len(q) <= DedupeSize /\ Len(q) \in Nat
  BY <1>2, <1>3 DEF Sound
<1>5. PICK w : w = Append(q, k)
  OBVIOUS
<1>6. w \in Seq(Keys) /\ Len(w) = Len(q) + 1 /\ w[Len(q) + 1] = k
  BY <1>5
<1>7. PICK e : e = [r EXCEPT !.order = w]
  OBVIOUS
<1>8. e = [order |-> w, old |-> old]
  BY <1>2, <1>3, <1>7 DEF Sound, D!Cache
<1>9. D!Mark(d, k) = D!Evict(e)
  BY <1>1, <1>3, <1>5, <1>7 DEF D!Mark
<1>10. CASE Len(w) > DedupeSize
  <2>1. PICK t : t = Tail(w)
    OBVIOUS
  <2>2. w # << >>
    BY <1>4, <1>6
  <2>3. /\ t \in Seq(Keys) /\ Len(t) = Len(w) - 1
        /\ \A i \in 1 .. Len(t) : t[i] = w[i + 1]
    BY <1>6, <2>1, <2>2, HeadTailProperties
  <2>4. PICK o : o = IF old > 0 THEN old - 1 ELSE 0
    OBVIOUS
  <2>5. o \in Nat /\ o < Len(t)
    BY <1>4, <1>6, <1>10, <2>3, <2>4
  <2>6. PICK f : f = [order |-> t, old |-> o]
    OBVIOUS
  <2>7. D!Evict(e) = f
    BY <1>8, <1>10, <2>1, <2>4, <2>6 DEF D!Evict
  <2>8. f \in D!Cache /\ f.order = t /\ f.old = o
    BY <2>3, <2>5, <2>6 DEF D!Cache, Keys
  <2>9. Sound(f)
    <3>1. o <= Len(t) /\ Len(t) <= DedupeSize
      BY <1>4, <1>6, <2>3, <2>5
    <3> QED
      BY <2>8, <3>1 DEF Sound
  <2>10. Len(t) \in o + 1 .. Len(t) /\ t[Len(t)] = k
    <3>1. Len(t) = Len(q) /\ Len(q) \in 1 .. Len(t)
      BY <1>4, <1>6, <1>10, <2>3
    <3> QED
      BY <1>4, <1>6, <2>3, <2>5, <3>1
  <2>11. k \in D!Fresh(f)
    BY <2>8, <2>10 DEF D!Fresh
  <2> QED
    BY <1>9, <2>7, <2>9, <2>11
<1>11. CASE ~(Len(w) > DedupeSize)
  <2>1. D!Evict(e) = e
    BY <1>8, <1>11 DEF D!Evict
  <2>2. e \in D!Cache /\ e.order = w /\ e.old = old
    BY <1>6, <1>8 DEF D!Cache, Keys
  <2>3. Sound(e)
    <3>1. old <= Len(w) /\ Len(w) <= DedupeSize
      BY <1>4, <1>6, <1>11
    <3> QED
      BY <2>2, <3>1 DEF Sound
  <2>4. Len(w) \in old + 1 .. Len(w) /\ w[Len(w)] = k
    BY <1>4, <1>6
  <2>5. k \in D!Fresh(e)
    BY <2>2, <2>4 DEF D!Fresh
  <2> QED
    BY <1>9, <2>1, <2>3, <2>5
<1> QED
  BY <1>10, <1>11

(* cleanupLoop takes out what IsDuplicate no longer finds. *)
LEMMA CleanupSound ==
  ASSUME NEW d, Sound(d)
  PROVE  Sound(D!Cleanup(d)) /\ D!Fresh(D!Cleanup(d)) = D!Fresh(d)
<1> USE ClusterAssumption
<1>1. PICK q \in Seq(Keys), old \in Nat : q = d.order /\ old = d.old
  BY DEF Sound, D!Cache, Keys
<1>2. old <= Len(q) /\ Len(q) <= DedupeSize /\ Len(q) \in Nat
  BY <1>1 DEF Sound
<1>3. PICK t : t = SubSeq(q, old + 1, Len(q))
  OBVIOUS
<1>4. /\ t \in Seq(Keys) /\ Len(t) = Len(q) - old
      /\ \A i \in 1 .. Len(q) - old : t[i] = q[old + i]
  <2>1. old + 1 \in 1 .. Len(q) + 1
    BY <1>2
  <2>2. t \in Seq(Keys) /\ Len(t) = Len(q) - old
    BY <1>2, <1>3
  <2>3. ASSUME NEW i \in 1 .. Len(q) - old PROVE t[i] = q[old + i]
    BY <1>2, <1>3
  <2> QED
    BY <2>2, <2>3
<1>5. PICK f : f = [order |-> t, old |-> 0]
  OBVIOUS
<1>6. D!Cleanup(d) = f
  BY <1>1, <1>3, <1>5 DEF D!Cleanup
<1>7. f \in D!Cache /\ f.order = t /\ f.old = 0
  BY <1>4, <1>5 DEF D!Cache, Keys
<1>8. Sound(f)
  BY <1>2, <1>4, <1>7 DEF Sound
<1>9. ASSUME NEW k \in D!Fresh(f) PROVE k \in D!Fresh(d)
  <2>1. PICK i \in 0 + 1 .. Len(t) : k = t[i]
    BY <1>7, <1>9 DEF D!Fresh
  <2>2. PICK j : j = old + i
    OBVIOUS
  <2>3. j \in old + 1 .. Len(q) /\ k = q[j]
    BY <1>2, <1>4, <2>1, <2>2
  <2> QED
    BY <1>1, <2>3 DEF D!Fresh
<1>10. ASSUME NEW k \in D!Fresh(d) PROVE k \in D!Fresh(f)
  <2>1. PICK j \in old + 1 .. Len(q) : k = q[j]
    BY <1>1, <1>10 DEF D!Fresh
  <2>2. PICK i : i = j - old
    OBVIOUS
  <2>3. i \in 0 + 1 .. Len(t) /\ k = t[i]
    BY <1>2, <1>4, <2>1, <2>2
  <2> QED
    BY <1>7, <2>3 DEF D!Fresh
<1> QED
  BY <1>6, <1>8, <1>9, <1>10

(* The oldest fresh key expires. *)
LEMMA ExpireSound ==
  ASSUME NEW d, Sound(d), D!Fresh(d) # {}
  PROVE  Sound(D!Expire(d))
<1>1. PICK q \in Seq(Keys), old \in Nat : q = d.order /\ old = d.old
  BY DEF Sound, D!Cache, Keys
<1>2. old < Len(q) /\ Len(q) <= DedupeSize
  BY <1>1 DEF Sound, D!Fresh
<1>3. PICK f : f = [order |-> q, old |-> old + 1]
  OBVIOUS
<1>4. D!Expire(d) = f
  BY <1>1, <1>3 DEF D!Expire, Sound, D!Cache
<1>5. f \in D!Cache /\ f.order = q /\ f.old = old + 1
  BY <1>3 DEF D!Cache, Keys
<1> QED
  BY <1>2, <1>4, <1>5 DEF Sound

-----------------------------------------------------------------------------
(* Type correctness *)

(* XADD appends to the stream and moves no position beyond its new end. *)
LEMMA XAddType ==
  ASSUME TypeOK, NEW p \in Publishers, XAdd(p)
  PROVE  /\ stream' \in Seq(Publishers)
         /\ lastID' \in [Nodes -> -1 .. Len(stream')]
<1>1. PICK q \in Seq(Publishers) : q = stream
  BY DEF TypeOK
<1>2. PICK w : w = Append(q, p)
  OBVIOUS
<1>3. w \in Seq(Publishers) /\ Len(w) = Len(q) + 1 /\ Len(q) \in Nat
  BY <1>2
<1>4. stream' = w
  BY <1>1, <1>2 DEF XAdd
<1>5. PICK waiting : lastID' = [n \in Nodes |-> IF n \in waiting THEN Len(q)
                                                               ELSE lastID[n]]
  BY <1>1 DEF XAdd
<1>6. lastID' \in [Nodes -> -1 .. Len(w)]
  <2>1. lastID \in [Nodes -> -1 .. Len(q)]
    BY <1>1 DEF TypeOK
  <2>2. ASSUME NEW n \in Nodes PROVE lastID'[n] \in -1 .. Len(w)
    <3>1. lastID[n] \in -1 .. Len(q)
      BY <2>1
    <3> QED
      BY <1>3, <1>5, <3>1
  <2> QED
    BY <1>5, <2>2
<1> QED
  BY <1>3, <1>4, <1>6

(* PUBLISH appends to the connections that are subscribed, and to no other. *)
LEMMA PushType ==
  ASSUME TypeOK, NEW p \in Publishers, Push(p)
  PROVE  /\ inbox' \in [Nodes -> Boxes]
         /\ \A n \in Nodes, m \in Publishers :
              Holds(inbox'[n], m) => m = p \/ Holds(inbox[n], m)
<1>1. ASSUME NEW n \in Nodes, NEW c \in Conns
      PROVE  /\ inbox'[n][c] \in Seq(Publishers \cup {Confirm})
             /\ \A i \in DOMAIN inbox'[n][c] :
                  \/ inbox'[n][c][i] = p
                  \/ i \in DOMAIN inbox[n][c] /\ inbox'[n][c][i] = inbox[n][c][i]
  <2>1. PICK q \in Seq(Publishers \cup {Confirm}) : q = inbox[n][c]
    BY DEF TypeOK
  <2>2. PICK w : w = Append(q, p)
    OBVIOUS
  <2>3. /\ w \in Seq(Publishers \cup {Confirm})
        /\ \A i \in DOMAIN w : w[i] = p \/ (i \in DOMAIN q /\ w[i] = q[i])
    BY <2>2
  <2>4. inbox'[n][c] = w \/ inbox'[n][c] = q
    BY <2>1, <2>2 DEF Push
  <2> QED
    BY <2>1, <2>3, <2>4
<1>2. inbox' \in [Nodes -> Boxes]
  <2>1. inbox' = [n \in Nodes |-> [c \in Conns |-> inbox'[n][c]]]
    BY DEF Push
  <2> QED
    BY <1>1, <2>1 DEF Boxes
<1>3. ASSUME NEW n \in Nodes, NEW m \in Publishers, Holds(inbox'[n], m)
      PROVE  m = p \/ Holds(inbox[n], m)
  <2>1. PICK c \in Conns : \E i \in DOMAIN inbox'[n][c] : inbox'[n][c][i] = m
    BY <1>3 DEF Holds
  <2> QED
    BY <1>1, <2>1 DEF Holds
<1> QED
  BY <1>2, <1>3

(* A broadcast counts one message, on one route. *)
LEMMA ShowType ==
  ASSUME TypeOK, NEW n \in Nodes, NEW p \in Publishers, NEW route \in Routes,
         Show(n, p, route)
  PROVE  /\ casts' \in [Nodes -> [Publishers \X Routes -> Nat]]
         /\ \A m \in Nodes, q \in Publishers, other \in Routes :
              casts'[m][<<q, other>>] # casts[m][<<q, other>>]
                => /\ m = n /\ q = p /\ other = route
                   /\ casts'[m][<<q, other>>] = casts[m][<<q, other>>] + 1
<1>1. PICK x : x = <<p, route>>
  OBVIOUS
<1>2. x \in Publishers \X Routes
  BY <1>1
<1>3. casts \in [Nodes -> [Publishers \X Routes -> Nat]]
  BY DEF TypeOK
<1>4. CASE casts' = casts
  BY <1>3, <1>4
<1>5. CASE casts' # casts
  <2>1. casts' = [casts EXCEPT ![n][x] = @ + 1]
    BY <1>1, <1>5 DEF Show
  <2>2. casts[n][x] + 1 \in Nat
    BY <1>2, <1>3
  <2>3. casts' \in [Nodes -> [Publishers \X Routes -> Nat]]
    BY <1>2, <1>3, <2>1, <2>2
  <2>4. ASSUME NEW m \in Nodes, NEW y \in Publishers \X Routes,
               casts'[m][y] # casts[m][y]
        PROVE  m = n /\ y = x /\ casts'[m][y] = casts[m][y] + 1
    BY <1>2, <1>3, <2>1, <2>4
  <2>5. ASSUME NEW m \in Nodes, NEW q \in Publishers, NEW other \in Routes,
               casts'[m][<<q, other>>] # casts[m][<<q, other>>]
        PROVE  /\ m = n /\ q = p /\ other = route
               /\ casts'[m][<<q, other>>] = casts[m][<<q, other>>] + 1
    <3>1. PICK y \in Publishers \X Routes : y = <<q, other>>
      OBVIOUS
    <3>2. m = n /\ y = x /\ casts'[m][y] = casts[m][y] + 1
      BY <2>4, <2>5, <3>1
    <3> QED
      BY <1>1, <3>1, <3>2
  <2> QED
    BY <2>3, <2>5
<1> QED
  BY <1>4, <1>5

(* The bound on faults and expiries. *)
LEMMA SpendBudget ==
  ASSUME TypeOK, Spend
  PROVE  budget' \in Nat
  BY DEF TypeOK, Spend

(* The initial state. *)
LEMMA TypeInit == Init => TypeInv
<1> SUFFICES ASSUME Init PROVE TypeInv
  OBVIOUS
<1> USE ClusterAssumption
<1>1. ASSUME NEW n \in Nodes
      PROVE  sub[n] \in Loop /\ sub[n].pc \in {"ended", "off"}
  <2>1. PICK pc \in {"ended", "off"} : sub[n] = NewClient(pc)
    BY DEF Init
  <2>2. pc \in Places
    BY DEF Places
  <2> QED
    BY <2>1, <2>2, NewClientType
<1>2. sub \in [Nodes -> Loop] /\ \A n \in Nodes : Fits(sub[n])
  BY <1>1 DEF Init, Fits
<1>3. /\ stream \in Seq(Publishers)
      /\ lastID \in [Nodes -> -1 .. Len(stream)]
  <2>1. stream = << >> /\ Len(stream) = 0
    BY DEF Init
  <2> QED
    BY <2>1 DEF Init
<1>4. /\ dedupe \in [Nodes -> D!Cache]
      /\ \A n \in Nodes : dedupe[n].old <= Len(dedupe[n].order)
                          /\ Len(dedupe[n].order) <= DedupeSize
  <2>1. PICK d : d = [order |-> << >>, old |-> 0]
    OBVIOUS
  <2>2. d \in D!Cache /\ d.old <= Len(d.order) /\ Len(d.order) <= DedupeSize
    BY <2>1 DEF D!Cache
  <2>3. dedupe = [n \in Nodes |-> d]
    BY <2>1 DEF Init, D!NewDedupeCache
  <2> QED
    BY <2>2, <2>3
<1>5. inbox \in [Nodes -> [Conns -> Seq(Publishers \cup {Confirm})]]
  BY DEF Init
<1>6. casts \in [Nodes -> [Publishers \X Routes -> Nat]]
  BY DEF Init
<1>7. /\ msgChan \in [Nodes -> Seq(Publishers)]
      /\ \A n \in Nodes : Len(msgChan[n]) <= BufferSize
  BY DEF Init
<1>8. budget \in Nat
  BY DEF Init
<1>9. /\ pub \in [Publishers -> {"idle", "found", "stored", "shown", "done",
                                 "error"}]
      /\ tries \in [Publishers -> 0 .. MaxRetries]
      /\ room \in [Nodes -> BOOLEAN]
      /\ consumer \in [Nodes -> {"start", "range", "ended"}]
      /\ closing \in [Nodes -> Stages]
      /\ forgot \in [Nodes -> SUBSET (Publishers \cup {EmptyID})]
  BY DEF Init, Stages
<1>10. fate \in [Nodes -> [Publishers -> {"unheard", "heard", "dropped"}]]
  BY DEF Init
<1> QED
  BY <1>2, <1>3, <1>4, <1>5, <1>6, <1>7, <1>8, <1>9, <1>10 DEF TypeInv, TypeOK

(* The steps of a Publish call. *)
LEMMA PublishType ==
  ASSUME TypeInv, NEW p \in Publishers, PublishBegin(p) \/ PublishStep(p)
  PROVE  TypeInv'
<1> USE ClusterAssumption
<1>0. TypeOK /\ NodeOf[p] \in Nodes /\ "publish" \in Routes
  BY DEF TypeInv, Routes
<1>1. CASE PublishBegin(p)
  <2>1. pub' \in [Publishers -> {"idle", "found", "stored", "shown", "done",
                                "error"}]
    BY <1>0, <1>1 DEF PublishBegin, TypeOK
  <2> QED
    BY <1>1, <2>1 DEF PublishBegin, subVars, TypeInv, TypeOK
<1>2. CASE Persist(p)
  <2>1. pub' \in [Publishers -> {"idle", "found", "stored", "shown", "done",
                                "error"}]
    BY <1>0, <1>2 DEF Persist, TypeOK
  <2>2. /\ stream' \in Seq(Publishers)
        /\ lastID' \in [Nodes -> -1 .. Len(stream')]
    <3>1. CASE XAdd(p)
      BY <1>0, <3>1, XAddType
    <3>2. CASE UNCHANGED <<stream, lastID>>
      BY <1>0, <3>2 DEF TypeOK
    <3> QED
      BY <1>2, <3>1, <3>2 DEF Persist
  <2> QED
    BY <1>2, <2>1, <2>2 DEF Persist, subVars, TypeInv, TypeOK
<1>3. CASE PersistFails(p)
  <2>1. pub' \in [Publishers -> {"idle", "found", "stored", "shown", "done",
                                "error"}]
    BY <1>0, <1>3 DEF PersistFails, TypeOK
  <2>2. /\ stream' \in Seq(Publishers)
        /\ lastID' \in [Nodes -> -1 .. Len(stream')]
    <3>1. CASE XAdd(p)
      BY <1>0, <3>1, XAddType
    <3>2. CASE UNCHANGED <<stream, lastID>>
      BY <1>0, <3>2 DEF TypeOK
    <3> QED
      BY <1>3, <3>1, <3>2 DEF PersistFails
  <2>3. budget' \in Nat
    BY <1>0, <1>3, SpendBudget DEF PersistFails
  <2> QED
    BY <1>3, <2>1, <2>2, <2>3 DEF PersistFails, subVars, TypeInv, TypeOK
<1>4. CASE BroadcastHere(p)
  <2>1. pub' \in [Publishers -> {"idle", "found", "stored", "shown", "done",
                                "error"}]
    BY <1>0, <1>4 DEF BroadcastHere, TypeOK
  <2>2. casts' \in [Nodes -> [Publishers \X Routes -> Nat]]
    BY <1>0, <1>4, ShowType DEF BroadcastHere
  <2> QED
    BY <1>4, <2>1, <2>2 DEF BroadcastHere, subVars, TypeInv, TypeOK
<1>5. CASE Publish(p)
  <2>1. pub' \in [Publishers -> {"idle", "found", "stored", "shown", "done",
                                "error"}]
    BY <1>0, <1>5 DEF Publish, TypeOK
  <2>2. tries' \in [Publishers -> 0 .. MaxRetries]
    BY <1>0, <1>5 DEF Publish, TypeOK
  <2>3. inbox' \in [Nodes -> Boxes]
    BY <1>0, <1>5, PushType DEF Publish
  <2> QED
    BY <1>5, <2>1, <2>2, <2>3 DEF Publish, TypeInv, TypeOK, Boxes
<1>6. CASE PublishFails(p)
  <2>1. pub' \in [Publishers -> {"idle", "found", "stored", "shown", "done",
                                "error"}]
    BY <1>0, <1>6 DEF PublishFails, TypeOK
  <2>2. tries' \in [Publishers -> 0 .. MaxRetries]
    <3>1. tries[p] \in 0 .. MaxRetries
      BY <1>0 DEF TypeOK
    <3>2. PICK k \in 0 .. MaxRetries : tries' = [tries EXCEPT ![p] = k]
      BY <1>6, <3>1 DEF PublishFails
    <3> QED
      BY <1>0, <3>2 DEF TypeOK
  <2>3. inbox' \in [Nodes -> Boxes]
    <3>1. CASE Push(p)
      BY <1>0, <3>1, PushType
    <3>2. CASE UNCHANGED inbox
      BY <1>0, <3>2 DEF TypeOK, Boxes
    <3> QED
      BY <1>6, <3>1, <3>2 DEF PublishFails
  <2>4. budget' \in Nat
    BY <1>0, <1>6, SpendBudget DEF PublishFails
  <2> QED
    BY <1>6, <2>1, <2>2, <2>3, <2>4 DEF PublishFails, TypeInv, TypeOK, Boxes
<1> QED
  BY <1>1, <1>2, <1>3, <1>4, <1>5, <1>6 DEF PublishStep

(* The steps of the subscription loop. *)
LEMMA LoopType ==
  ASSUME TypeInv, NEW n \in Nodes, LoopStep(n)
  PROVE  TypeInv'
<1> USE ClusterAssumption
<1>1. PICK r, box : Moved(n, r, box)
  BY LoopMoves
<1>2. /\ UNCHANGED <<consumer, rest>>
      /\ UNCHANGED budget \/ Spend
      /\ \/ UNCHANGED msgChan
         \/ /\ sub[n].pc = "send"
            /\ Len(msgChan[n]) # BufferSize
            /\ msgChan' = [msgChan EXCEPT ![n] = Append(@, sub[n].hand)]
      /\ \/ UNCHANGED <<dedupe, forgot>>
         \/ sub'[n].pc = "send" /\ Forget(n, dedupe'[n])
      /\ fate' \in [Nodes -> Fates]
  BY LoopFrame
<1>3. sub' \in [Nodes -> Loop] /\ sub'[n] = r
  BY <1>1 DEF Moved, TypeInv, TypeOK
<1>4. ASSUME NEW m \in Nodes PROVE Fits(sub[m])'
  <2>1. CASE m = n
    BY <1>1, <1>3, <2>1 DEF Moved, Fits
  <2>2. CASE m # n
    <3>1. sub'[m] = sub[m]
      BY <1>1, <2>2 DEF Moved, TypeInv, TypeOK
    <3> QED
      BY <3>1 DEF TypeInv, Fits
  <2> QED
    BY <2>1, <2>2
<1>5. inbox' \in [Nodes -> Boxes]
  BY <1>1 DEF Moved, TypeInv, TypeOK, Boxes
<1>6. budget' \in Nat
  BY <1>2, SpendBudget DEF TypeInv, TypeOK
<1>7. /\ msgChan' \in [Nodes -> Seq(Publishers)]
      /\ \A m \in Nodes : Len(msgChan'[m]) <= BufferSize
  <2>1. CASE UNCHANGED msgChan
    BY <2>1 DEF TypeInv, TypeOK
  <2>2. CASE ~UNCHANGED msgChan
    <3>1. PICK q \in Seq(Publishers), h \in Publishers :
            q = msgChan[n] /\ h = sub[n].hand
      BY <1>2, <2>2 DEF TypeInv, TypeOK, Fits
    <3>2. Len(q) < BufferSize
      BY <1>2, <2>2, <3>1 DEF TypeInv, TypeOK
    <3>3. PICK w : w = Append(q, h)
      OBVIOUS
    <3>4. w \in Seq(Publishers) /\ Len(w) <= BufferSize
      BY <3>2, <3>3
    <3>5. msgChan' = [msgChan EXCEPT ![n] = w]
      BY <1>2, <2>2, <3>1, <3>3
    <3> QED
      BY <3>4, <3>5 DEF TypeInv, TypeOK
  <2> QED
    BY <2>1, <2>2
<1>8. /\ dedupe' \in [Nodes -> D!Cache]
      /\ \A m \in Nodes : /\ dedupe'[m].old <= Len(dedupe'[m].order)
                          /\ Len(dedupe'[m].order) <= DedupeSize
      /\ forgot' \in [Nodes -> SUBSET Keys]
  <2>1. CASE UNCHANGED <<dedupe, forgot>>
    BY <2>1 DEF TypeInv, TypeOK, Keys
  <2>2. CASE ~UNCHANGED <<dedupe, forgot>>
    <3>1. r.pc = "send" /\ Forget(n, dedupe'[n])
      BY <1>2, <1>3, <2>2
    <3>2. dedupe' = [dedupe EXCEPT ![n] = D!Mark(@, KeyOf(r.hand))]
      BY <1>1, <3>1 DEF Moved
    <3>3. r.hand \in Publishers
      BY <1>1, <3>1 DEF Moved, Fits
    <3>4. PICK k \in Keys : k = KeyOf(r.hand)
      BY <3>3 DEF KeyOf, Keys
    <3>5. PICK d : d = dedupe[n]
      OBVIOUS
    <3>6. Sound(d)
      BY <3>5 DEF TypeInv, TypeOK, Sound
    <3>7. PICK e : e = D!Mark(d, k)
      OBVIOUS
    <3>8. Sound(e)
      BY <3>6, <3>7, MarkSound
    <3>9. dedupe' = [dedupe EXCEPT ![n] = e]
      BY <3>2, <3>4, <3>5, <3>7
    <3>10. /\ dedupe' \in [Nodes -> D!Cache]
           /\ \A m \in Nodes : /\ dedupe'[m].old <= Len(dedupe'[m].order)
                               /\ Len(dedupe'[m].order) <= DedupeSize
      BY <3>8, <3>9 DEF Sound, TypeInv, TypeOK
    <3>11. D!Fresh(d) \subseteq Keys
      BY <3>6 DEF Sound, D!Fresh, D!Cache, Keys
    <3>12. forgot' \in [Nodes -> SUBSET Keys]
      BY <3>1, <3>5, <3>11 DEF Forget, TypeInv, TypeOK, Keys
    <3> QED
      BY <3>10, <3>12
  <2> QED
    BY <2>1, <2>2
<1> QED
  BY <1>2, <1>3, <1>4, <1>5, <1>6, <1>7, <1>8
     DEF TypeInv, TypeOK, rest, Boxes, Keys, Fates

(* The other steps of a node. *)
LEMMA NodeType ==
  ASSUME TypeInv, NEW n \in Nodes,
         \/ Listen(n) \/ Subscribe(n) \/ SubscribeFails(n) \/ Cleanup(n)
         \/ Expire(n) \/ Handle(n) \/ RangeEnds(n) \/ CloseCancel(n)
         \/ CloseStep(n)
  PROVE  TypeInv'
<1> USE ClusterAssumption
<1>0. TypeOK /\ "listener" \in Routes /\ "broker" \in Routes
  BY DEF TypeInv, Routes
<1>a. PICK d : d = dedupe[n]
  OBVIOUS
<1>b. Sound(d) /\ D!Fresh(d) \subseteq Keys
  <2>1. Sound(d)
    BY <1>0, <1>a DEF TypeOK, Sound
  <2> QED
    BY <2>1 DEF Sound, D!Fresh, D!Cache, Keys
<1>1. CASE Listen(n)
  <2>1. PICK i \in 0 .. Len(stream) - 1 : i = lastID[n]
    BY <1>1 DEF Listen
  <2>2. Len(stream) \in Nat /\ i + 1 \in 1 .. Len(stream)
    <3>1. Len(stream) \in Nat
      BY <1>0 DEF TypeOK
    <3> QED
      BY <2>1, <3>1
  <2>3. stream[i + 1] \in Publishers /\ i + 1 \in -1 .. Len(stream)
    BY <1>0, <2>2 DEF TypeOK
  <2>4. lastID' = [lastID EXCEPT ![n] = i + 1]
    BY <1>1, <2>1 DEF Listen
  <2>5. lastID' \in [Nodes -> -1 .. Len(stream)]
    BY <1>0, <2>3, <2>4 DEF TypeOK
  <2>6. Show(n, stream[i + 1], "listener")
    BY <1>1, <2>1 DEF Listen
  <2>7. casts' \in [Nodes -> [Publishers \X Routes -> Nat]]
    BY <1>0, <2>3, <2>6, ShowType
  <2> QED
    BY <1>1, <2>5, <2>7 DEF Listen, subVars, TypeInv, TypeOK
<1>2. ASSUME NEW pc \in {"top", "ended"}, sub' = [sub EXCEPT ![n].pc = pc]
      PROVE  sub' \in [Nodes -> Loop] /\ \A m \in Nodes : Fits(sub[m])'
  <2>1. PICK s \in Loop : s = sub[n]
    BY <1>0 DEF TypeOK
  <2>2. PICK r : r = [s EXCEPT !.pc = pc]
    OBVIOUS
  <2>3. r \in Loop
    BY <2>2, LoopUpdates DEF Places
  <2>4. r.pc = pc /\ Fits(r)
    BY <2>2 DEF Loop, Fits
  <2>5. sub' = [sub EXCEPT ![n] = r]
    BY <1>2, <2>1, <2>2
  <2>6. sub' \in [Nodes -> Loop]
    BY <1>0, <2>3, <2>5 DEF TypeOK
  <2>7. ASSUME NEW m \in Nodes PROVE Fits(sub[m])'
    <3>1. sub'[m] = r \/ sub'[m] = sub[m]
      BY <1>0, <2>5 DEF TypeOK
    <3> QED
      BY <2>4, <3>1 DEF Fits, TypeInv
  <2> QED
    BY <2>6, <2>7
<1>3. CASE Subscribe(n)
  <2>1. sub' \in [Nodes -> Loop] /\ \A m \in Nodes : Fits(sub[m])'
    BY <1>2, <1>3 DEF Subscribe
  <2>2. consumer' \in [Nodes -> {"start", "range", "ended"}]
    BY <1>0, <1>3 DEF Subscribe, TypeOK
  <2> QED
    BY <1>3, <2>1, <2>2 DEF Subscribe, rest, TypeInv, TypeOK
<1>4. CASE SubscribeFails(n)
  <2>1. sub' \in [Nodes -> Loop] /\ \A m \in Nodes : Fits(sub[m])'
    BY <1>2, <1>4 DEF SubscribeFails
  <2>2. consumer' \in [Nodes -> {"start", "range", "ended"}]
    BY <1>0, <1>4 DEF SubscribeFails, TypeOK
  <2>3. budget' \in Nat
    BY <1>0, <1>4, SpendBudget DEF SubscribeFails
  <2> QED
    BY <1>4, <2>1, <2>2, <2>3 DEF SubscribeFails, rest, TypeInv, TypeOK
<1>5. CASE Cleanup(n)
  <2>1. PICK e : e = D!Cleanup(d)
    OBVIOUS
  <2>2. Sound(e)
    BY <1>b, <2>1, CleanupSound
  <2>3. dedupe' = [dedupe EXCEPT ![n] = e]
    BY <1>5, <1>a, <2>1 DEF Cleanup
  <2>4. /\ dedupe' \in [Nodes -> D!Cache]
        /\ \A m \in Nodes : /\ dedupe'[m].old <= Len(dedupe'[m].order)
                            /\ Len(dedupe'[m].order) <= DedupeSize
    BY <1>0, <2>2, <2>3 DEF Sound, TypeOK
  <2> QED
    BY <1>5, <2>4 DEF Cleanup, rest, TypeInv, TypeOK
<1>6. CASE Expire(n)
  <2>1. PICK e : e = D!Expire(d)
    OBVIOUS
  <2>2. Sound(e)
    BY <1>6, <1>a, <1>b, <2>1, ExpireSound DEF Expire
  <2>3. dedupe' = [dedupe EXCEPT ![n] = e]
    BY <1>6, <1>a, <2>1 DEF Expire
  <2>4. /\ dedupe' \in [Nodes -> D!Cache]
        /\ \A m \in Nodes : /\ dedupe'[m].old <= Len(dedupe'[m].order)
                            /\ Len(dedupe'[m].order) <= DedupeSize
    BY <1>0, <2>2, <2>3 DEF Sound, TypeOK
  <2>5. forgot' \in [Nodes -> SUBSET Keys]
    BY <1>0, <1>6, <1>a, <1>b DEF Expire, Forget, TypeOK, Keys
  <2>6. budget' \in Nat
    BY <1>0, <1>6, SpendBudget DEF Expire
  <2> QED
    BY <1>6, <2>4, <2>5, <2>6 DEF Expire, rest, TypeInv, TypeOK, Keys
<1>7. CASE Handle(n)
  <2>1. PICK q \in Seq(Publishers) : q = msgChan[n]
    BY <1>0 DEF TypeOK
  <2>2. q # << >>
    BY <1>7, <2>1 DEF Handle
  <2>3. PICK t : t = Tail(q)
    OBVIOUS
  <2>4. /\ Head(q) \in Publishers /\ t \in Seq(Publishers)
        /\ Len(t) = Len(q) - 1
    BY <2>2, <2>3, HeadTailProperties
  <2>5. msgChan' = [msgChan EXCEPT ![n] = t]
    BY <1>7, <2>1, <2>3 DEF Handle
  <2>6. Len(q) <= BufferSize /\ Len(t) <= BufferSize
    BY <1>0, <2>1, <2>4 DEF TypeOK
  <2>7. /\ msgChan' \in [Nodes -> Seq(Publishers)]
        /\ \A m \in Nodes : Len(msgChan'[m]) <= BufferSize
    BY <1>0, <2>4, <2>5, <2>6 DEF TypeOK
  <2>8. Show(n, Head(q), "broker")
    BY <1>7, <2>1 DEF Handle
  <2>9. casts' \in [Nodes -> [Publishers \X Routes -> Nat]]
    BY <1>0, <2>4, <2>8, ShowType
  <2> QED
    BY <1>7, <2>7, <2>9 DEF Handle, TypeInv, TypeOK
<1>8. CASE RangeEnds(n)
  <2>1. consumer' \in [Nodes -> {"start", "range", "ended"}]
    BY <1>0, <1>8 DEF RangeEnds, TypeOK
  <2> QED
    BY <1>8, <2>1 DEF RangeEnds, rest, TypeInv, TypeOK
<1>9. CASE CloseCancel(n) \/ CloseStep(n)
  <2>1. PICK to \in Stages : closing' = [closing EXCEPT ![n] = to]
    BY <1>9 DEF CloseCancel, CloseStep, CloseSub, CloseChan, CloseRelay, Stage,
                Stages
  <2>2. closing' \in [Nodes -> Stages]
    BY <1>0, <2>1 DEF TypeOK
  <2>3. room' \in [Nodes -> BOOLEAN]
    BY <1>0, <1>9 DEF CloseCancel, CloseStep, CloseSub, CloseChan, CloseRelay,
                      TypeOK
  <2>4. UNCHANGED <<stream, pub, tries, lastID, sub, inbox, dedupe,
                    msgChan, consumer, casts, past, budget>>
    BY <1>9 DEF CloseCancel, CloseStep, CloseSub, CloseChan, CloseRelay, Stage
  <2> QED
    BY <2>2, <2>3, <2>4 DEF TypeInv, TypeOK
<1> QED
  BY <1>1, <1>3, <1>4, <1>5, <1>6, <1>7, <1>8, <1>9

(* Every step keeps the type. *)
LEMMA TypeStep == TypeInv /\ [Next]_vars => TypeInv'
<1>1. ASSUME TypeInv, UNCHANGED vars PROVE TypeInv'
  BY <1>1 DEF TypeInv, TypeOK, Fits, vars
<1> QED
  BY <1>1, PublishType, LoopType, NodeType DEF Next

(***************************************************************************)
(* Every variable of the cluster keeps its type: positions within the      *)
(* stream, the cache within maxSize with its expired keys first, msgChan   *)
(* within its capacity, and the connections of the loops from their pools  *)
(* (broker.go:100, 215, 332).                                               *)
(***************************************************************************)
THEOREM TypeCorrect == Spec => []TypeOK
<1>1. Init => TypeInv
  BY TypeInit
<1>2. TypeInv /\ [Next]_vars => TypeInv'
  BY TypeStep
<1>3. TypeInv => TypeOK
  BY DEF TypeInv
<1> QED
  BY <1>1, <1>2, <1>3, PTL DEF Spec

-----------------------------------------------------------------------------
(* What is seen is stored *)

Durable(p) == p \in Ephemeral \/ \E i \in DOMAIN stream : stream[i] = p

(* The message is in the stream from the XADD on, and so wherever a later   *)
(* step of the call, Redis or another node has put it.                      *)
StoredInv ==
  /\ TypeInv
  /\ \A p \in Publishers : pub[p] \in {"stored", "shown", "done"} => Durable(p)
  /\ \A n \in Nodes, p \in Publishers : Holds(inbox[n], p) => Durable(p)
  /\ \A n \in Nodes : sub[n].pc = "send" => Durable(sub[n].hand)
  /\ \A n \in Nodes : \A i \in DOMAIN msgChan[n] : Durable(msgChan[n][i])
  /\ \A n \in Nodes, p \in Publishers, route \in Routes :
       casts[n][<<p, route>>] > 0 => Durable(p)

(* The stream only grows, at its end. *)
LEMMA DurableStays ==
  ASSUME TypeOK, NEW p \in Publishers, UNCHANGED stream \/ XAdd(p)
  PROVE  /\ \A q : Durable(q) => Durable(q)'
         /\ XAdd(p) => Durable(p)'
<1>1. CASE UNCHANGED stream /\ ~XAdd(p)
  BY <1>1 DEF Durable
<1>2. CASE XAdd(p)
  <2>1. PICK s \in Seq(Publishers) : s = stream
    BY DEF TypeOK
  <2>2. PICK w : w = Append(s, p)
    OBVIOUS
  <2>3. /\ \A i \in DOMAIN s : i \in DOMAIN w /\ w[i] = s[i]
        /\ Len(s) + 1 \in DOMAIN w /\ w[Len(s) + 1] = p
    BY <2>2
  <2>4. stream' = w
    BY <1>2, <2>1, <2>2 DEF XAdd
  <2>5. ASSUME NEW q, Durable(q) PROVE Durable(q)'
    BY <2>1, <2>3, <2>4, <2>5 DEF Durable
  <2>6. Durable(p)'
    BY <2>3, <2>4 DEF Durable
  <2> QED
    BY <2>5, <2>6
<1> QED
  BY <1>1, <1>2

(* It is enough that a step stores what it puts in a new place. *)
LEMMA StoredFrame ==
  ASSUME StoredInv, TypeInv',
         \A q \in Publishers : Durable(q) => Durable(q)',
         \A q \in Publishers : pub'[q] \in {"stored", "shown", "done"}
           => pub[q] \in {"stored", "shown", "done"} \/ Durable(q)',
         \A n \in Nodes, q \in Publishers :
           Holds(inbox'[n], q) => Holds(inbox[n], q) \/ Durable(q)',
         \A n \in Nodes : sub'[n].pc = "send" =>
           (sub[n].pc = "send" /\ sub'[n].hand = sub[n].hand)
             \/ \E q \in Publishers : q = sub'[n].hand /\ Durable(q)',
         \A n \in Nodes : \A i \in DOMAIN msgChan'[n] :
           \E q \in Publishers : q = msgChan'[n][i] /\ Durable(q),
         \A n \in Nodes, q \in Publishers, route \in Routes :
           casts'[n][<<q, route>>] > 0
             => casts[n][<<q, route>>] > 0 \/ Durable(q)'
  PROVE  StoredInv'
<1>1. \A q \in Publishers :
        (pub[q] \in {"stored", "shown", "done"} => Durable(q))'
  BY DEF StoredInv
<1>2. \A n \in Nodes, q \in Publishers : (Holds(inbox[n], q) => Durable(q))'
  <2>1. ASSUME NEW n \in Nodes, NEW q \in Publishers, Holds(inbox[n], q)'
        PROVE  Durable(q)'
    <3>1. Holds(inbox'[n], q)
      BY <2>1 DEF Holds
    <3> QED
      BY <3>1 DEF StoredInv
  <2> QED
    BY <2>1
<1>3. \A n \in Nodes : (sub[n].pc = "send" => Durable(sub[n].hand))'
  <2>1. ASSUME NEW n \in Nodes, sub'[n].pc = "send"
        PROVE  Durable(sub[n].hand)'
    <3>1. PICK q \in Publishers : q = sub'[n].hand /\ Durable(q)'
      BY <2>1 DEF StoredInv, TypeInv, Fits
    <3> QED
      BY <3>1 DEF Durable
  <2> QED
    BY <2>1
<1>4. \A n \in Nodes : \A i \in DOMAIN msgChan'[n] : Durable(msgChan[n][i])'
  <2>1. ASSUME NEW n \in Nodes, NEW i \in DOMAIN msgChan'[n]
        PROVE  Durable(msgChan[n][i])'
    <3>1. PICK q \in Publishers : q = msgChan'[n][i] /\ Durable(q)'
      OBVIOUS
    <3> QED
      BY <3>1 DEF Durable
  <2> QED
    BY <2>1
<1>5. \A n \in Nodes, q \in Publishers, route \in Routes :
        (casts[n][<<q, route>>] > 0 => Durable(q))'
  BY DEF StoredInv
<1> QED
  BY <1>1, <1>2, <1>3, <1>4, <1>5 DEF StoredInv

(* Every step keeps that invariant. *)
LEMMA StoredStep == StoredInv /\ [Next]_vars => StoredInv'
<1> SUFFICES ASSUME StoredInv, [Next]_vars PROVE StoredInv'
  OBVIOUS
<1> USE ClusterAssumption
<1>0. TypeInv /\ TypeOK /\ TypeInv'
  BY TypeStep DEF StoredInv, TypeInv
<1>a. \A n \in Nodes : \A i \in DOMAIN msgChan[n] :
        \E q \in Publishers : q = msgChan[n][i] /\ Durable(q)
  <2>1. ASSUME NEW n \in Nodes, NEW i \in DOMAIN msgChan[n]
        PROVE  msgChan[n][i] \in Publishers
    BY <1>0, <2>1 DEF TypeOK
  <2> QED
    BY <2>1 DEF StoredInv
<1>b. UNCHANGED stream => \A q \in Publishers : Durable(q) => Durable(q)'
  BY DEF Durable
<1>c. /\ \A q \in Publishers :
           pub[q] \in {"stored", "shown", "done"} => Durable(q)
      /\ \A n \in Nodes, q \in Publishers : Holds(inbox[n], q) => Durable(q)
      /\ \A n \in Nodes : sub[n].pc = "send" => Durable(sub[n].hand)
  BY DEF StoredInv
<1>d. {"publish", "listener", "broker"} \subseteq Routes
  BY DEF Routes
<1>1. ASSUME NEW p \in Publishers, PublishBegin(p) PROVE StoredInv'
  <2>1. UNCHANGED <<stream, inbox, sub, msgChan, casts>>
    BY <1>1 DEF PublishBegin, subVars
  <2>2. \A q \in Publishers : pub'[q] \in {"stored", "shown", "done"}
          => pub[q] \in {"stored", "shown", "done"}
    BY <1>0, <1>1 DEF PublishBegin, TypeOK
  <2> QED
    BY <1>0, <1>a, <1>b, <2>1, <2>2, StoredFrame
<1>2. ASSUME NEW p \in Publishers, Persist(p) \/ PersistFails(p) PROVE StoredInv'
  <2>1. UNCHANGED <<inbox, sub, msgChan, casts>>
    BY <1>2 DEF Persist, PersistFails, subVars
  <2>2. UNCHANGED stream \/ XAdd(p)
    BY <1>2 DEF Persist, PersistFails
  <2>3. /\ \A q \in Publishers : Durable(q) => Durable(q)'
        /\ XAdd(p) => Durable(p)'
    BY <1>0, <2>2, DurableStays
  <2>4. ASSUME NEW q \in Publishers, pub'[q] \in {"stored", "shown", "done"}
        PROVE  pub[q] \in {"stored", "shown", "done"} \/ Durable(q)'
    <3>1. CASE q # p
      BY <1>0, <1>2, <2>4, <3>1 DEF Persist, PersistFails, TypeOK
    <3>2. CASE q = p /\ PersistFails(p)
      BY <1>0, <2>4, <3>2 DEF PersistFails, TypeOK
    <3>3. CASE q = p /\ Persist(p)
      <4>1. p \in Ephemeral \/ XAdd(p)
        BY <3>3 DEF Persist
      <4> QED
        BY <2>3, <3>3, <4>1 DEF Durable
    <3> QED
      BY <1>2, <3>1, <3>2, <3>3
  <2> QED
    BY <1>0, <1>a, <2>1, <2>3, <2>4, StoredFrame
<1>3. ASSUME NEW p \in Publishers, BroadcastHere(p) PROVE StoredInv'
  <2>1. UNCHANGED <<stream, inbox, sub, msgChan>> /\ pub[p] = "stored"
    BY <1>3 DEF BroadcastHere, subVars
  <2>2. Durable(p)'
    BY <1>b, <1>c, <2>1
  <2>3. \A q \in Publishers : pub'[q] \in {"stored", "shown", "done"}
          => pub[q] \in {"stored", "shown", "done"}
    BY <1>0, <1>3, <2>1 DEF BroadcastHere, TypeOK
  <2>4. Show(NodeOf[p], p, "publish") /\ NodeOf[p] \in Nodes
    BY <1>3 DEF BroadcastHere
  <2>5. \A n \in Nodes, q \in Publishers, route \in Routes :
          casts'[n][<<q, route>>] # casts[n][<<q, route>>] => q = p
    BY <1>0, <2>4, <1>d, ShowType
  <2> QED
    BY <1>0, <1>a, <1>b, <2>1, <2>2, <2>3, <2>5, StoredFrame
<1>4. ASSUME NEW p \in Publishers, Publish(p) \/ PublishFails(p) PROVE StoredInv'
  <2>1. UNCHANGED <<stream, sub, msgChan, casts>> /\ pub[p] = "shown"
    BY <1>4 DEF Publish, PublishFails
  <2>2. Durable(p)'
    BY <1>b, <1>c, <2>1
  <2>3. \A q \in Publishers : pub'[q] \in {"stored", "shown", "done"}
          => pub[q] \in {"stored", "shown", "done"}
    <3>1. ASSUME NEW q \in Publishers PROVE pub'[q] = pub[q] \/ q = p
      BY <1>0, <1>4 DEF Publish, PublishFails, TypeOK
    <3> QED
      BY <2>1, <3>1
  <2>4. UNCHANGED inbox \/ Push(p)
    BY <1>4 DEF Publish, PublishFails
  <2>5. \A n \in Nodes, q \in Publishers :
          Holds(inbox'[n], q) => q = p \/ Holds(inbox[n], q)
    BY <1>0, <2>4, PushType
  <2> QED
    BY <1>0, <1>a, <1>b, <2>1, <2>2, <2>3, <2>5, StoredFrame
<1>5. ASSUME NEW n \in Nodes, Listen(n) PROVE StoredInv'
  <2>1. UNCHANGED <<stream, pub, inbox, sub, msgChan>>
    BY <1>5 DEF Listen, subVars
  <2>2. PICK i \in 0 .. Len(stream) - 1 : i = lastID[n]
    BY <1>5 DEF Listen
  <2>3. Len(stream) \in Nat
    BY <1>0 DEF TypeOK
  <2>4. i + 1 \in DOMAIN stream
    BY <1>0, <2>2, <2>3 DEF TypeOK
  <2>5. PICK p \in Publishers : p = stream[i + 1]
    BY <1>0, <2>4 DEF TypeOK
  <2>6. Durable(p)'
    BY <2>1, <2>4, <2>5 DEF Durable
  <2>7. Show(n, p, "listener")
    BY <1>5, <2>2, <2>5 DEF Listen
  <2>8. \A m \in Nodes, q \in Publishers, route \in Routes :
          casts'[m][<<q, route>>] # casts[m][<<q, route>>] => q = p
    BY <1>0, <2>7, <1>d, ShowType
  <2> QED
    BY <1>0, <1>a, <1>b, <2>1, <2>6, <2>8, StoredFrame
<1>6. ASSUME NEW n \in Nodes, Subscribe(n) \/ SubscribeFails(n) PROVE StoredInv'
  <2>1. UNCHANGED <<stream, pub, inbox, msgChan, casts>>
    BY <1>6 DEF Subscribe, SubscribeFails, rest
  <2>2. PICK pc \in {"top", "ended"} : sub' = [sub EXCEPT ![n].pc = pc]
    BY <1>6 DEF Subscribe, SubscribeFails
  <2>3. ASSUME NEW m \in Nodes, sub'[m].pc = "send" PROVE sub'[m] = sub[m]
    <3>1. sub[n] \in Loop /\ sub'[n] = [sub[n] EXCEPT !.pc = pc]
      BY <1>0, <2>2 DEF TypeOK
    <3>2. sub'[n].pc = pc
      BY <3>1 DEF Loop
    <3> QED
      BY <1>0, <2>2, <2>3, <3>2 DEF TypeOK
  <2> QED
    BY <1>0, <1>a, <1>b, <2>1, <2>3, StoredFrame
<1>7. ASSUME NEW n \in Nodes, LoopStep(n) PROVE StoredInv'
  <2>1. PICK r, box : Moved(n, r, box)
    BY <1>0, <1>7, LoopMoves
  <2>2. /\ UNCHANGED <<consumer, rest>>
        /\ \/ UNCHANGED msgChan
           \/ /\ sub[n].pc = "send"
              /\ msgChan' = [msgChan EXCEPT ![n] = Append(@, sub[n].hand)]
    BY <1>0, <1>7, LoopFrame
  <2>3. UNCHANGED <<stream, pub, casts>>
    BY <2>2 DEF rest
  <2>4. ASSUME NEW m \in Nodes, NEW q \in Publishers, Holds(inbox'[m], q)
        PROVE  Holds(inbox[m], q)
    <3>1. inbox' = [inbox EXCEPT ![n] = box]
      BY <2>1 DEF Moved
    <3>2. inbox'[m] = IF m = n THEN box ELSE inbox[m]
      BY <1>0, <3>1 DEF TypeOK
    <3> QED
      BY <2>1, <2>4, <3>2 DEF Moved
  <2>5. ASSUME NEW m \in Nodes, sub'[m].pc = "send"
        PROVE  (sub[m].pc = "send" /\ sub'[m].hand = sub[m].hand)
                 \/ \E q \in Publishers : q = sub'[m].hand /\ Durable(q)'
    <3>1. sub'[m] = IF m = n THEN r ELSE sub[m]
      BY <1>0, <2>1 DEF Moved, TypeOK
    <3>2. CASE m # n
      BY <2>5, <3>1, <3>2
    <3>3. CASE m = n
      <4>1. Holds(inbox[n], r.hand) /\ r.hand \in Publishers
        BY <2>1, <2>5, <3>1, <3>3 DEF Moved, Fits
      <4>2. PICK q \in Publishers : q = r.hand
        BY <4>1
      <4>3. Durable(q)'
        BY <1>b, <1>c, <2>3, <4>1, <4>2
      <4> QED
        BY <3>1, <3>3, <4>2, <4>3
    <3> QED
      BY <3>2, <3>3
  <2>6. ASSUME NEW m \in Nodes, NEW i \in DOMAIN msgChan'[m]
        PROVE  \E q \in Publishers : q = msgChan'[m][i] /\ Durable(q)
    <3>1. CASE msgChan'[m] = msgChan[m]
      BY <1>a, <2>6, <3>1
    <3>2. CASE msgChan'[m] # msgChan[m]
      <4>1. /\ sub[n].pc = "send" /\ m = n
            /\ msgChan'[m] = Append(msgChan[n], sub[n].hand)
        BY <1>0, <2>2, <3>2 DEF TypeOK
      <4>2. PICK c \in Seq(Publishers), h \in Publishers :
              c = msgChan[n] /\ h = sub[n].hand
        BY <1>0, <4>1 DEF TypeOK, TypeInv, Fits
      <4>3. Durable(h)
        BY <1>c, <4>1, <4>2
      <4>4. PICK w : w = Append(c, h)
        OBVIOUS
      <4>5. i \in DOMAIN w
        BY <2>6, <4>1, <4>2, <4>4
      <4>6. w[i] = h \/ (i \in DOMAIN c /\ w[i] = c[i])
        BY <4>4, <4>5
      <4> QED
        BY <1>a, <4>1, <4>2, <4>3, <4>4, <4>6
    <3> QED
      BY <3>1, <3>2
  <2> QED
    BY <1>0, <1>b, <2>3, <2>4, <2>5, <2>6, StoredFrame
<1>8. ASSUME NEW n \in Nodes, Handle(n) PROVE StoredInv'
  <2>1. UNCHANGED <<stream, pub, inbox, sub>>
    BY <1>8 DEF Handle
  <2>2. PICK c \in Seq(Publishers) : c = msgChan[n]
    BY <1>0 DEF TypeOK
  <2>3. c # << >>
    BY <1>8, <2>2 DEF Handle
  <2>4. PICK t, p : t = Tail(c) /\ p = Head(c)
    OBVIOUS
  <2>5. /\ p \in Publishers /\ t \in Seq(Publishers) /\ Len(t) = Len(c) - 1
        /\ \A i \in 1 .. Len(t) : t[i] = c[i + 1]
    BY <2>2, <2>3, <2>4, HeadTailProperties
  <2>6. \A i \in DOMAIN t : i + 1 \in DOMAIN c /\ t[i] = c[i + 1]
    BY <2>2, <2>5
  <2>7. 1 \in DOMAIN c /\ c[1] = p
    BY <2>2, <2>3, <2>4
  <2>8. Durable(p)'
    BY <1>a, <1>b, <2>1, <2>2, <2>5, <2>7
  <2>9. ASSUME NEW m \in Nodes, NEW i \in DOMAIN msgChan'[m]
        PROVE  \E q \in Publishers : q = msgChan'[m][i] /\ Durable(q)
    <3>1. msgChan' = [msgChan EXCEPT ![n] = t]
      BY <1>8, <2>2, <2>4 DEF Handle
    <3>2. msgChan'[m] = IF m = n THEN t ELSE msgChan[m]
      BY <1>0, <3>1 DEF TypeOK
    <3> QED
      BY <1>a, <2>2, <2>6, <2>9, <3>2
  <2>10. Show(n, p, "broker")
    BY <1>8, <2>2, <2>4 DEF Handle
  <2>11. \A m \in Nodes, q \in Publishers, route \in Routes :
           casts'[m][<<q, route>>] # casts[m][<<q, route>>] => q = p
    BY <1>0, <2>5, <2>10, <1>d, ShowType
  <2> QED
    BY <1>0, <1>b, <2>1, <2>8, <2>9, <2>11, StoredFrame
<1>9. ASSUME NEW n \in Nodes,
             \/ Cleanup(n) \/ Expire(n) \/ RangeEnds(n) \/ CloseCancel(n)
             \/ CloseStep(n)
      PROVE  StoredInv'
  <2>1. UNCHANGED <<stream, pub, inbox, sub, msgChan, casts>>
    BY <1>9 DEF Cleanup, Expire, RangeEnds, CloseCancel, CloseStep, CloseSub,
                CloseChan, CloseRelay, Stage, rest
  <2> QED
    BY <1>0, <1>a, <1>b, <2>1, StoredFrame
<1>10. ASSUME UNCHANGED vars PROVE StoredInv'
  <2>1. UNCHANGED <<stream, pub, inbox, sub, msgChan, casts>>
    BY <1>10 DEF vars
  <2> QED
    BY <1>0, <1>a, <1>b, <2>1, StoredFrame
<1> QED
  BY <1>1, <1>2, <1>3, <1>4, <1>5, <1>6, <1>7, <1>8, <1>9, <1>10
     DEF Next, PublishStep

(***************************************************************************)
(* SeenIsStored of Cluster: what a node broadcasts, by its own Publish, by *)
(* the listener of the room or from the broker's channel, is in the stream *)
(* ("Already persisted by origin node", broker.go).  It needs the same of  *)
(* everything on its way: the calls past XADD, the pushed messages, the    *)
(* message in the loop's hand and the ones in msgChan.                     *)
(***************************************************************************)
THEOREM OnlyStoredIsSeen == Spec => []SeenIsStored
<1>1. Init => StoredInv
  <2> SUFFICES ASSUME Init PROVE StoredInv
    OBVIOUS
  <2>1. TypeInv
    BY TypeInit
  <2>2. \A n \in Nodes, p \in Publishers : ~Holds(inbox[n], p)
    BY DEF Init, Holds
  <2>3. \A n \in Nodes : sub[n].pc # "send"
    <3>1. ASSUME NEW n \in Nodes PROVE sub[n].pc \in {"ended", "off"}
      BY DEF Init, NewClient
    <3> QED
      BY <3>1
  <2>4. \A n \in Nodes : DOMAIN msgChan[n] = {}
    BY DEF Init
  <2>5. \A n \in Nodes, p \in Publishers, route \in Routes :
          casts[n][<<p, route>>] = 0
    BY DEF Init
  <2>6. \A p \in Publishers : pub[p] = "idle"
    BY DEF Init
  <2> QED
    BY <2>1, <2>2, <2>3, <2>4, <2>5, <2>6 DEF StoredInv
<1>2. StoredInv /\ [Next]_vars => StoredInv'
  BY StoredStep
<1>3. StoredInv => SeenIsStored
  BY DEF StoredInv, SeenIsStored, Durable
<1> QED
  BY <1>1, <1>2, <1>3, PTL DEF Spec

-----------------------------------------------------------------------------
(* What is relayed is new *)

InHand(n, p) == sub[n].pc = "send" /\ sub[n].hand = p

Queued(n, p, i) == i \in DOMAIN msgChan[n] /\ msgChan[n][i] = p

Shown(n, p) == casts[n][<<p, "broker">>] > 0

(* The subscription loop of n has let p through. *)
Passed(n, p) == InHand(n, p) \/ Shown(n, p) \/ \E i : Queued(n, p, i)

(* A key that was let through is in the cache, or has left it. *)
Marked(n) == forgot[n] \cup D!Fresh(dedupe[n])

Known(n) == \A p \in Publishers :
  Passed(n, p) => NodeOf[p] # n /\ KeyOf(p) \in Marked(n)

(* And for a key that has not left it, one message is between the reader    *)
(* and the subscribers, in one place, once.                                 *)
Single(n) == \A p, q \in Publishers :
  KeyOf(p) = KeyOf(q) /\ KeyOf(p) \notin forgot[n] =>
    /\ InHand(n, p) => ~Shown(n, q) /\ \A i : ~Queued(n, q, i)
    /\ \A i : Queued(n, p, i) => /\ ~Shown(n, q)
                                 /\ \A j : Queued(n, q, j) => i = j
    /\ Shown(n, p) /\ Shown(n, q) => p = q /\ casts[n][<<p, "broker">>] = 1

RelayInv == TypeInv /\ \A n \in Nodes : Known(n) /\ Single(n)

(* The keys of a node stay marked when its cache stays as it is or lets go  *)
(* of some.                                                                 *)
LEMMA MarkedStays ==
  ASSUME NEW n \in Nodes, forgot \in [Nodes -> SUBSET Keys],
         \/ UNCHANGED <<dedupe, forgot>>
         \/ Forget(n, dedupe'[n])
  PROVE  forgot[n] \subseteq forgot'[n] /\ Marked(n) \subseteq Marked(n)'
<1>1. CASE UNCHANGED <<dedupe, forgot>>
  BY <1>1 DEF Marked
<1>2. CASE Forget(n, dedupe'[n])
  <2>1. PICK a, b : a = D!Fresh(dedupe[n]) /\ b = D!Fresh(dedupe'[n])
    OBVIOUS
  <2>2. forgot'[n] = forgot[n] \cup (a \ b)
    BY <1>2, <2>1 DEF Forget
  <2>3. Marked(n)' = forgot'[n] \cup b
    BY <2>1 DEF Marked, D!Fresh
  <2>4. Marked(n) = forgot[n] \cup a
    BY <2>1 DEF Marked
  <2> QED
    BY <2>2, <2>3, <2>4
<1> QED
  BY <1>1, <1>2

(* A step that lets nothing through and shows nothing. *)
LEMMA RelayFrame ==
  ASSUME NEW n \in Nodes, Known(n), Single(n),
         sub'[n].pc = "send" => sub[n].pc = "send" /\ sub'[n].hand = sub[n].hand,
         msgChan'[n] = msgChan[n],
         \A p \in Publishers :
           casts'[n][<<p, "broker">>] = casts[n][<<p, "broker">>],
         forgot[n] \subseteq forgot'[n], Marked(n) \subseteq Marked(n)'
  PROVE  Known(n)' /\ Single(n)'
<1>1. \A p \in Publishers : /\ InHand(n, p)' => InHand(n, p)
                            /\ \A i : Queued(n, p, i)' <=> Queued(n, p, i)
                            /\ Shown(n, p)' <=> Shown(n, p)
  BY DEF InHand, Queued, Shown
<1>2. Known(n)'
  <2>1. ASSUME NEW p \in Publishers, Passed(n, p)'
        PROVE  NodeOf[p] # n /\ KeyOf(p) \in Marked(n)'
    <3>1. Passed(n, p)
      BY <1>1, <2>1 DEF Passed
    <3> QED
      BY <3>1 DEF Known
  <2> QED
    BY <2>1 DEF Known
<1>3. Single(n)'
  BY <1>1 DEF Single
<1> QED
  BY <1>2, <1>3

(* The message in hand goes to the channel. *)
LEMMA RelaySend ==
  ASSUME TypeInv, NEW n \in Nodes, Known(n), Single(n),
         sub[n].pc = "send", sub'[n].pc # "send",
         msgChan' = [msgChan EXCEPT ![n] = Append(@, sub[n].hand)],
         UNCHANGED <<casts, dedupe, forgot>>
  PROVE  Known(n)' /\ Single(n)'
<1>1. PICK c \in Seq(Publishers), h \in Publishers :
        c = msgChan[n] /\ h = sub[n].hand
  BY DEF TypeInv, TypeOK, Fits
<1>2. PICK w : w = Append(c, h)
  OBVIOUS
<1>3. \A i \in DOMAIN w : \/ i = Len(c) + 1 /\ w[i] = h
                          \/ i \in DOMAIN c /\ w[i] = c[i]
  BY <1>2
<1>4. msgChan'[n] = w
  BY <1>1, <1>2 DEF TypeInv, TypeOK
<1>5. InHand(n, h)
  BY <1>1 DEF InHand
<1>6. \A p \in Publishers : /\ ~InHand(n, p)'
                            /\ Shown(n, p)' <=> Shown(n, p)
  BY DEF InHand, Shown
<1>7. ASSUME NEW p \in Publishers, NEW i, Queued(n, p, i)'
      PROVE  Queued(n, p, i) \/ (p = h /\ i = Len(c) + 1)
  BY <1>1, <1>3, <1>4, <1>7 DEF Queued
<1>8. Known(n)'
  <2>1. ASSUME NEW p \in Publishers, Passed(n, p)'
        PROVE  NodeOf[p] # n /\ KeyOf(p) \in Marked(n)'
    <3>1. Passed(n, p)
      BY <1>5, <1>6, <1>7, <2>1 DEF Passed
    <3>2. Marked(n)' = Marked(n)
      BY DEF Marked
    <3> QED
      BY <3>1, <3>2 DEF Known
  <2> QED
    BY <2>1 DEF Known
<1>9. ASSUME NEW p \in Publishers, NEW q \in Publishers,
             KeyOf(p) = KeyOf(q), KeyOf(p) \notin forgot'[n]
      PROVE  /\ \A i : Queued(n, p, i)' =>
                  /\ ~Shown(n, q)'
                  /\ \A j : Queued(n, q, j)' => i = j
             /\ (Shown(n, p) /\ Shown(n, q))'
                  => p = q /\ casts'[n][<<p, "broker">>] = 1
  <2>1. /\ InHand(n, p) => ~Shown(n, q) /\ \A i : ~Queued(n, q, i)
        /\ InHand(n, q) => \A i : ~Queued(n, p, i)
        /\ \A i : Queued(n, p, i) => /\ ~Shown(n, q)
                                     /\ \A j : Queued(n, q, j) => i = j
        /\ Shown(n, p) /\ Shown(n, q) => p = q /\ casts[n][<<p, "broker">>] = 1
    BY <1>9 DEF Single
  <2> QED
    BY <1>5, <1>6, <1>7, <2>1
<1> QED
  BY <1>6, <1>8, <1>9 DEF Single

(* A message whose key the cache does not hold is taken in hand. *)
LEMMA RelayRead ==
  ASSUME TypeInv, NEW n \in Nodes, Known(n), Single(n),
         NEW h \in Publishers, sub'[n].hand = h, Relevant(n, h),
         dedupe' = [dedupe EXCEPT ![n] = D!Mark(@, KeyOf(h))],
         Forget(n, dedupe'[n]), UNCHANGED <<msgChan, casts>>
  PROVE  Known(n)' /\ Single(n)'
<1>1. \A p \in Publishers : /\ InHand(n, p)' => p = h
                            /\ \A i : Queued(n, p, i)' <=> Queued(n, p, i)
                            /\ Shown(n, p)' <=> Shown(n, p)
  BY DEF InHand, Queued, Shown
<1>2. forgot[n] \subseteq forgot'[n] /\ Marked(n) \subseteq Marked(n)'
  BY MarkedStays DEF TypeInv, TypeOK, Keys
<1>3. KeyOf(h) \in Marked(n)' /\ NodeOf[h] # n
  <2>1. PICK k \in Keys : k = KeyOf(h)
    BY DEF KeyOf, Keys
  <2>2. PICK d : d = dedupe[n]
    OBVIOUS
  <2>3. Sound(d)
    BY <2>2 DEF TypeInv, TypeOK, Sound
  <2>4. PICK e : e = D!Mark(d, k)
    OBVIOUS
  <2>5. k \in D!Fresh(e)
    BY <2>3, <2>4, MarkSound
  <2>6. dedupe'[n] = e
    BY <2>1, <2>2, <2>4 DEF TypeInv, TypeOK
  <2>7. D!Fresh(dedupe[n])' = D!Fresh(e)
    BY <2>6 DEF D!Fresh
  <2> QED
    BY <2>1, <2>5, <2>7 DEF Marked, Relevant
<1>4. ASSUME NEW p \in Publishers, KeyOf(p) = KeyOf(h), KeyOf(h) \notin forgot[n]
      PROVE  ~Passed(n, p)
  <2>1. KeyOf(h) \notin D!Fresh(dedupe[n])
    BY DEF Relevant, D!IsDuplicate
  <2> QED
    BY <1>4, <2>1 DEF Known, Marked
<1>5. Known(n)'
  <2>1. ASSUME NEW p \in Publishers, Passed(n, p)'
        PROVE  NodeOf[p] # n /\ KeyOf(p) \in Marked(n)'
    <3>1. Passed(n, p) \/ p = h
      BY <1>1, <2>1 DEF Passed
    <3> QED
      BY <1>2, <1>3, <3>1 DEF Known
  <2> QED
    BY <2>1 DEF Known
<1>6. ASSUME NEW p \in Publishers, NEW q \in Publishers,
             KeyOf(p) = KeyOf(q), KeyOf(p) \notin forgot'[n]
      PROVE  /\ InHand(n, p)' => ~Shown(n, q)' /\ \A i : ~Queued(n, q, i)'
             /\ \A i : Queued(n, p, i)' =>
                  /\ ~Shown(n, q)'
                  /\ \A j : Queued(n, q, j)' => i = j
             /\ (Shown(n, p) /\ Shown(n, q))'
                  => p = q /\ casts'[n][<<p, "broker">>] = 1
  <2>0. KeyOf(p) \notin forgot[n]
    BY <1>2, <1>6
  <2>1. /\ \A i : Queued(n, p, i) => /\ ~Shown(n, q)
                                     /\ \A j : Queued(n, q, j) => i = j
        /\ Shown(n, p) /\ Shown(n, q) => p = q /\ casts[n][<<p, "broker">>] = 1
    BY <1>6, <2>0 DEF Single
  <2>2. InHand(n, p)' => ~Passed(n, q)
    BY <1>1, <1>4, <1>6, <2>0
  <2> QED
    BY <1>1, <2>1, <2>2 DEF Passed
<1> QED
  BY <1>5, <1>6 DEF Single

(* The first message of the channel is broadcast. *)
LEMMA RelayHandle ==
  ASSUME TypeInv, NEW n \in Nodes, Known(n), Single(n), Handle(n)
  PROVE  Known(n)' /\ Single(n)'
<1>1. PICK c \in Seq(Publishers) : c = msgChan[n]
  BY DEF TypeInv, TypeOK
<1>2. c # << >>
  BY <1>1 DEF Handle
<1>3. PICK t, h : t = Tail(c) /\ h = Head(c)
  OBVIOUS
<1>4. /\ h \in Publishers /\ t \in Seq(Publishers) /\ Len(t) = Len(c) - 1
      /\ \A i \in 1 .. Len(t) : t[i] = c[i + 1]
  BY <1>1, <1>2, <1>3, HeadTailProperties
<1>5. \A i \in DOMAIN t : i \in Nat \ {0} /\ i + 1 \in DOMAIN c /\ t[i] = c[i + 1]
  BY <1>1, <1>4
<1>6. Queued(n, h, 1)
  BY <1>1, <1>2, <1>3 DEF Queued
<1>7. msgChan'[n] = t
  BY <1>1, <1>3 DEF Handle, TypeInv, TypeOK
<1>8. ASSUME NEW p \in Publishers, NEW i, Queued(n, p, i)'
      PROVE  i \in Nat \ {0} /\ Queued(n, p, i + 1)
  BY <1>1, <1>5, <1>7, <1>8 DEF Queued
<1>9. Show(n, h, "broker") /\ "broker" \in Routes
  BY <1>1, <1>3 DEF Handle, Routes
<1>10. \A p \in Publishers :
         casts'[n][<<p, "broker">>] # casts[n][<<p, "broker">>] =>
           /\ p = h
           /\ casts'[n][<<p, "broker">>] = casts[n][<<p, "broker">>] + 1
  BY <1>4, <1>9, ShowType DEF TypeInv
<1>11. \A p \in Publishers : casts[n][<<p, "broker">>] \in Nat
  BY <1>9 DEF TypeInv, TypeOK
<1>12. \A p \in Publishers : /\ Shown(n, p)' => Shown(n, p) \/ p = h
                             /\ InHand(n, p)' <=> InHand(n, p)
  BY <1>10 DEF Shown, InHand, Handle
<1>13. Known(n)'
  <2>1. ASSUME NEW p \in Publishers, Passed(n, p)'
        PROVE  NodeOf[p] # n /\ KeyOf(p) \in Marked(n)'
    <3>1. Passed(n, p)
      BY <1>6, <1>8, <1>12, <2>1 DEF Passed
    <3>2. Marked(n)' = Marked(n)
      BY DEF Marked, Handle
    <3> QED
      BY <3>1, <3>2 DEF Known
  <2> QED
    BY <2>1 DEF Known
<1>14. ASSUME NEW p \in Publishers, NEW q \in Publishers,
              KeyOf(p) = KeyOf(q), KeyOf(p) \notin forgot'[n]
       PROVE  /\ InHand(n, p)' => ~Shown(n, q)' /\ \A i : ~Queued(n, q, i)'
              /\ \A i : Queued(n, p, i)' =>
                   /\ ~Shown(n, q)'
                   /\ \A j : Queued(n, q, j)' => i = j
              /\ (Shown(n, p) /\ Shown(n, q))'
                   => p = q /\ casts'[n][<<p, "broker">>] = 1
  <2>0. KeyOf(p) \notin forgot[n] /\ KeyOf(q) \notin forgot[n]
    BY <1>14 DEF Handle
  <2>1. /\ InHand(n, p) => ~Shown(n, q) /\ \A i : ~Queued(n, q, i)
        /\ \A i : Queued(n, p, i) => /\ ~Shown(n, q)
                                     /\ \A j : Queued(n, q, j) => i = j
        /\ \A i : Queued(n, q, i) => ~Shown(n, p)
        /\ Shown(n, p) /\ Shown(n, q) => p = q /\ casts[n][<<p, "broker">>] = 1
        /\ \A i : Queued(n, p, i) => ~Shown(n, p)
    BY <1>14, <2>0 DEF Single
  <2>2. ASSUME InHand(n, p)' PROVE ~Shown(n, q)' /\ \A i : ~Queued(n, q, i)'
    BY <1>6, <1>8, <1>12, <2>1, <2>2
  <2>3. ASSUME NEW i, Queued(n, p, i)'
        PROVE  ~Shown(n, q)' /\ \A j : Queued(n, q, j)' => i = j
    <3>1. i \in Nat \ {0} /\ Queued(n, p, i + 1)
      BY <1>8, <2>3
    <3>2. ~Shown(n, q)'
      <4>1. q # h
        BY <1>6, <2>1, <3>1
      <4> QED
        BY <1>12, <2>1, <3>1, <4>1
    <3>3. ASSUME NEW j, Queued(n, q, j)' PROVE i = j
      <4>1. j \in Nat \ {0} /\ Queued(n, q, j + 1)
        BY <1>8, <3>3
      <4>2. i + 1 = j + 1
        BY <2>1, <3>1, <4>1
      <4> QED
        BY <3>1, <4>1, <4>2
    <3> QED
      BY <3>2, <3>3
  <2>4. ASSUME Shown(n, p)', Shown(n, q)'
        PROVE  p = q /\ casts'[n][<<p, "broker">>] = 1
    <3>1. CASE p = h
      <4>1. ~Shown(n, p) /\ ~Shown(n, q)
        BY <1>6, <2>1, <3>1
      <4>2. q = h
        BY <1>12, <2>4, <4>1
      <4>3. casts[n][<<p, "broker">>] = 0
        BY <1>11, <4>1 DEF Shown
      <4>4. casts'[n][<<p, "broker">>] > 0
        BY <2>4 DEF Shown
      <4> QED
        BY <1>10, <3>1, <4>2, <4>3, <4>4
    <3>2. CASE p # h
      <4>1. Shown(n, p)
        BY <1>12, <2>4, <3>2
      <4>2. q # h
        BY <1>6, <2>1, <4>1
      <4>3. Shown(n, q)
        BY <1>12, <2>4, <4>2
      <4> QED
        BY <1>10, <2>1, <3>2, <4>1, <4>3
    <3> QED
      BY <3>1, <3>2
  <2> QED
    BY <2>2, <2>3, <2>4
<1> QED
  BY <1>13, <1>14 DEF Single

(* Every step keeps that invariant. *)
LEMMA RelayStep == RelayInv /\ [Next]_vars => RelayInv'
<1> SUFFICES ASSUME RelayInv, [Next]_vars PROVE RelayInv'
  OBVIOUS
<1> USE ClusterAssumption
<1>0. TypeInv /\ TypeOK /\ TypeInv'
  BY TypeStep DEF RelayInv, TypeInv
<1>a. {"publish", "listener", "broker"} \subseteq Routes
  BY DEF Routes
<1> SUFFICES ASSUME NEW n \in Nodes PROVE Known(n)' /\ Single(n)'
  BY <1>0 DEF RelayInv
<1>b. Known(n) /\ Single(n)
  BY DEF RelayInv
<1>c. UNCHANGED <<dedupe, forgot>>
        => forgot[n] \subseteq forgot'[n] /\ Marked(n) \subseteq Marked(n)'
  BY DEF Marked
<1>1. ASSUME NEW p \in Publishers, PublishBegin(p) \/ PublishStep(p)
      PROVE  Known(n)' /\ Single(n)'
  <2>1. UNCHANGED <<sub, msgChan, dedupe, forgot>>
    BY <1>1 DEF PublishBegin, PublishStep, Persist, PersistFails, BroadcastHere,
                Publish, PublishFails, subVars
  <2>2. UNCHANGED casts \/ (Show(NodeOf[p], p, "publish") /\ NodeOf[p] \in Nodes)
    BY <1>1 DEF PublishBegin, PublishStep, Persist, PersistFails, BroadcastHere,
                Publish, PublishFails
  <2>3. \A q \in Publishers :
          casts'[n][<<q, "broker">>] = casts[n][<<q, "broker">>]
    BY <1>0, <1>a, <2>2, ShowType
  <2> QED
    BY <1>b, <1>c, <2>1, <2>3, RelayFrame
<1>2. ASSUME NEW m \in Nodes, Listen(m) PROVE Known(n)' /\ Single(n)'
  <2>1. UNCHANGED <<sub, msgChan, dedupe, forgot>>
    BY <1>2 DEF Listen, subVars
  <2>2. PICK i \in 0 .. Len(stream) - 1 : i = lastID[m]
    BY <1>2 DEF Listen
  <2>3. Len(stream) \in Nat
    BY <1>0 DEF TypeOK
  <2>4. i + 1 \in DOMAIN stream
    BY <1>0, <2>2, <2>3 DEF TypeOK
  <2>5. PICK p \in Publishers : p = stream[i + 1]
    BY <1>0, <2>4 DEF TypeOK
  <2>6. Show(m, p, "listener")
    BY <1>2, <2>2, <2>5 DEF Listen
  <2>7. \A q \in Publishers :
          casts'[n][<<q, "broker">>] = casts[n][<<q, "broker">>]
    BY <1>0, <1>a, <2>6, ShowType
  <2> QED
    BY <1>b, <1>c, <2>1, <2>7, RelayFrame
<1>3. ASSUME NEW m \in Nodes, Subscribe(m) \/ SubscribeFails(m)
      PROVE  Known(n)' /\ Single(n)'
  <2>1. UNCHANGED <<msgChan, casts, dedupe, forgot>>
    BY <1>3 DEF Subscribe, SubscribeFails, rest
  <2>2. PICK pc \in {"top", "ended"} : sub' = [sub EXCEPT ![m].pc = pc]
    BY <1>3 DEF Subscribe, SubscribeFails
  <2>3. sub'[n].pc = "send" => sub[n].pc = "send" /\ sub'[n].hand = sub[n].hand
    <3>1. sub[m] \in Loop /\ sub'[m] = [sub[m] EXCEPT !.pc = pc]
      BY <1>0, <2>2 DEF TypeOK
    <3>2. sub'[m].pc = pc
      BY <3>1 DEF Loop
    <3> QED
      BY <1>0, <2>2, <3>2 DEF TypeOK
  <2> QED
    BY <1>b, <1>c, <2>1, <2>3, RelayFrame
<1>4. ASSUME NEW m \in Nodes, LoopStep(m) PROVE Known(n)' /\ Single(n)'
  <2>1. PICK r, box : Moved(m, r, box)
    BY <1>0, <1>4, LoopMoves
  <2>2. /\ UNCHANGED <<consumer, rest>>
        /\ \/ UNCHANGED msgChan
           \/ /\ sub[m].pc = "send" /\ sub'[m].pc # "send"
              /\ msgChan' = [msgChan EXCEPT ![m] = Append(@, sub[m].hand)]
        /\ \/ UNCHANGED <<dedupe, forgot>>
           \/ /\ sub[m].pc = "read" /\ sub'[m].pc = "send"
              /\ Forget(m, dedupe'[m])
    BY <1>0, <1>4, LoopFrame
  <2>3. UNCHANGED casts
    BY <2>2 DEF rest
  <2>4. sub' = [sub EXCEPT ![m] = r]
    BY <2>1 DEF Moved
  <2>5. CASE m # n
    <3>1. sub'[n] = sub[n] /\ msgChan'[n] = msgChan[n]
      BY <1>0, <2>2, <2>4, <2>5 DEF TypeOK
    <3>2. dedupe'[n] = dedupe[n] /\ forgot'[n] = forgot[n]
      <4>1. CASE UNCHANGED <<dedupe, forgot>>
        BY <4>1
      <4>2. CASE ~UNCHANGED <<dedupe, forgot>>
        <5>1. r.pc = "send" /\ Forget(m, dedupe'[m])
          BY <1>0, <2>2, <2>4, <4>2 DEF TypeOK
        <5>2. dedupe' = [dedupe EXCEPT ![m] = D!Mark(@, KeyOf(r.hand))]
          BY <2>1, <5>1 DEF Moved
        <5> QED
          BY <1>0, <2>5, <5>1, <5>2 DEF Forget, TypeOK
      <4> QED
        BY <4>1, <4>2
    <3>3. Marked(n)' = Marked(n)
      BY <3>2 DEF Marked, D!Fresh
    <3> QED
      BY <1>b, <2>3, <3>1, <3>2, <3>3, RelayFrame
  <2>6. CASE m = n
    <3>0. sub'[n] = r
      BY <1>0, <2>4, <2>6 DEF TypeOK
    <3>1. CASE ~UNCHANGED msgChan
      <4>1. /\ sub[n].pc = "send" /\ sub'[n].pc # "send"
            /\ msgChan' = [msgChan EXCEPT ![n] = Append(@, sub[n].hand)]
            /\ UNCHANGED <<dedupe, forgot>>
        BY <2>2, <2>6, <3>1
      <4> QED
        BY <1>0, <1>b, <2>3, <4>1, RelaySend
    <3>2. CASE UNCHANGED msgChan /\ r.pc # "send"
      <4>1. UNCHANGED <<dedupe, forgot>> /\ sub'[n].pc # "send"
        BY <2>2, <2>6, <3>0, <3>2
      <4> QED
        BY <1>b, <1>c, <2>3, <3>2, <4>1, RelayFrame
    <3>3. CASE UNCHANGED msgChan /\ r.pc = "send"
      <4>1. PICK h \in Publishers : h = r.hand
        BY <2>1, <3>3 DEF Moved, Fits
      <4>2. /\ Relevant(n, h)
            /\ dedupe' = [dedupe EXCEPT ![n] = D!Mark(@, KeyOf(h))]
        BY <2>1, <2>6, <3>3, <4>1 DEF Moved
      <4>3. dedupe' # dedupe
        <5>1. PICK k \in Keys : k = KeyOf(h)
          BY <4>1 DEF KeyOf, Keys
        <5>2. PICK d : d = dedupe[n]
          OBVIOUS
        <5>3. Sound(d)
          BY <1>0, <5>2 DEF TypeOK, Sound
        <5>4. PICK e : e = D!Mark(d, k)
          OBVIOUS
        <5>5. k \in D!Fresh(e) /\ k \notin D!Fresh(d)
          BY <4>2, <5>1, <5>2, <5>3, <5>4, MarkSound DEF Relevant, D!IsDuplicate
        <5>6. dedupe'[n] = e
          BY <1>0, <4>2, <5>1, <5>2, <5>4 DEF TypeOK
        <5>7. d # e
          BY <5>5
        <5> QED
          BY <5>2, <5>6, <5>7
      <4>4. Forget(n, dedupe'[n])
        BY <2>2, <2>6, <4>3
      <4> QED
        BY <1>0, <1>b, <2>3, <3>0, <3>3, <4>1, <4>2, <4>4, RelayRead
    <3> QED
      BY <3>1, <3>2, <3>3
  <2> QED
    BY <2>5, <2>6
<1>5. ASSUME NEW m \in Nodes, Cleanup(m) PROVE Known(n)' /\ Single(n)'
  <2>1. UNCHANGED <<sub, msgChan, casts, forgot>>
    BY <1>5 DEF Cleanup, rest
  <2>2. Marked(n)' = Marked(n)
    <3>1. PICK d : d = dedupe[m]
      OBVIOUS
    <3>2. Sound(d)
      BY <1>0, <3>1 DEF TypeOK, Sound
    <3>3. PICK e : e = D!Cleanup(d)
      OBVIOUS
    <3>4. D!Fresh(e) = D!Fresh(d)
      BY <3>2, <3>3, CleanupSound
    <3>5. dedupe' = [dedupe EXCEPT ![m] = e]
      BY <1>5, <3>1, <3>3 DEF Cleanup
    <3>6. dedupe'[n] = IF n = m THEN e ELSE dedupe[n]
      BY <1>0, <3>5 DEF TypeOK
    <3>7. D!Fresh(dedupe[n])' = D!Fresh(dedupe[n])
      <4>1. CASE n = m
        <5>1. D!Fresh(dedupe[n])' = D!Fresh(e)
          BY <3>6, <4>1 DEF D!Fresh
        <5> QED
          BY <3>1, <3>4, <4>1, <5>1
      <4>2. CASE n # m
        BY <3>6, <4>2 DEF D!Fresh
      <4> QED
        BY <4>1, <4>2
    <3> QED
      BY <2>1, <3>7 DEF Marked
  <2> QED
    BY <1>b, <2>1, <2>2, RelayFrame
<1>6. ASSUME NEW m \in Nodes, Expire(m) PROVE Known(n)' /\ Single(n)'
  <2>1. UNCHANGED <<sub, msgChan, casts>>
    BY <1>6 DEF Expire, rest
  <2>2. forgot[n] \subseteq forgot'[n] /\ Marked(n) \subseteq Marked(n)'
    <3>1. CASE n = m
      <4>1. Forget(n, dedupe'[n])
        BY <1>6, <3>1 DEF Expire
      <4> QED
        BY <1>0, <4>1, MarkedStays DEF TypeOK, Keys
    <3>2. CASE n # m
      <4>1. dedupe'[n] = dedupe[n] /\ forgot'[n] = forgot[n]
        BY <1>0, <1>6, <3>2 DEF Expire, Forget, TypeOK
      <4>2. Marked(n)' = Marked(n)
        BY <4>1 DEF Marked, D!Fresh
      <4> QED
        BY <4>1, <4>2
    <3> QED
      BY <3>1, <3>2
  <2> QED
    BY <1>b, <2>1, <2>2, RelayFrame
<1>7. ASSUME NEW m \in Nodes, Handle(m) PROVE Known(n)' /\ Single(n)'
  <2>1. CASE n = m
    BY <1>0, <1>7, <1>b, <2>1, RelayHandle
  <2>2. CASE n # m
    <3>1. UNCHANGED <<sub, dedupe, forgot>> /\ msgChan'[n] = msgChan[n]
      BY <1>0, <1>7, <2>2 DEF Handle, TypeOK
    <3>2. Head(msgChan[m]) \in Publishers
      <4>1. PICK c \in Seq(Publishers) : c = msgChan[m]
        BY <1>0 DEF TypeOK
      <4>2. c # << >>
        BY <1>7, <4>1 DEF Handle
      <4>3. Head(c) \in Publishers
        BY <4>1, <4>2, HeadTailProperties
      <4> QED
        BY <4>1, <4>3
    <3>3. PICK h \in Publishers : h = Head(msgChan[m])
      BY <3>2
    <3>4. Show(m, h, "broker")
      BY <1>7, <3>3 DEF Handle
    <3>5. \A q \in Publishers :
            casts'[n][<<q, "broker">>] = casts[n][<<q, "broker">>]
      BY <1>0, <1>a, <2>2, <3>4, ShowType
    <3> QED
      BY <1>b, <1>c, <3>1, <3>5, RelayFrame
  <2> QED
    BY <2>1, <2>2
<1>8. ASSUME NEW m \in Nodes, RangeEnds(m) \/ CloseCancel(m) \/ CloseStep(m)
      PROVE  Known(n)' /\ Single(n)'
  <2>1. UNCHANGED <<sub, msgChan, casts, dedupe, forgot>>
    BY <1>8 DEF RangeEnds, CloseCancel, CloseStep, CloseSub, CloseChan,
                CloseRelay, Stage, rest
  <2> QED
    BY <1>b, <1>c, <2>1, RelayFrame
<1>9. ASSUME UNCHANGED vars PROVE Known(n)' /\ Single(n)'
  <2>1. UNCHANGED <<sub, msgChan, casts, dedupe, forgot>>
    BY <1>9 DEF vars
  <2> QED
    BY <1>b, <1>c, <2>1, RelayFrame
<1> QED
  BY <1>1, <1>2, <1>3, <1>4, <1>5, <1>6, <1>7, <1>8, <1>9 DEF Next

(***************************************************************************)
(* OncePerKey of Cluster: for a deduplication key that the cache has not   *)
(* lost, handleBrokerMessage broadcasts at most one message, once, and     *)
(* none of its own node's, however often PUBLISH is repeated or the        *)
(* subscription made anew (broker.go:78, 332).  IsDuplicate marks a key    *)
(* when the message is read, long before it is broadcast: the invariant is *)
(* that between the two it is in one place only.                           *)
(***************************************************************************)
THEOREM RelayedOnce == Spec => []OncePerKey
<1>1. Init => RelayInv
  <2> SUFFICES ASSUME Init PROVE RelayInv
    OBVIOUS
  <2>1. TypeInv
    BY TypeInit
  <2>2. ASSUME NEW n \in Nodes, NEW p \in Publishers
        PROVE  ~InHand(n, p) /\ ~Shown(n, p) /\ \A i : ~Queued(n, p, i)
    <3>1. sub[n].pc \in {"ended", "off"}
      BY DEF Init, NewClient
    <3>2. DOMAIN msgChan[n] = {}
      BY DEF Init
    <3>3. casts[n][<<p, "broker">>] = 0
      BY DEF Init, Routes
    <3> QED
      BY <3>1, <3>2, <3>3 DEF InHand, Shown, Queued
  <2> QED
    BY <2>1, <2>2 DEF RelayInv, Known, Single, Passed
<1>2. RelayInv /\ [Next]_vars => RelayInv'
  BY RelayStep
<1>3. RelayInv => OncePerKey
  <2> SUFFICES ASSUME RelayInv, NEW n \in Nodes
               PROVE  /\ \A p \in Publishers :
                           NodeOf[p] = n => casts[n][<<p, "broker">>] = 0
                      /\ \A p, q \in Publishers :
                           /\ KeyOf(p) = KeyOf(q) /\ KeyOf(p) \notin forgot[n]
                           /\ casts[n][<<p, "broker">>] > 0
                           /\ casts[n][<<q, "broker">>] > 0
                           => p = q /\ casts[n][<<p, "broker">>] = 1
    BY DEF OncePerKey
  <2>1. \A p \in Publishers : casts[n][<<p, "broker">>] \in Nat
    <3>1. "broker" \in Routes
      BY DEF Routes
    <3> QED
      BY <3>1 DEF RelayInv, TypeInv, TypeOK
  <2>2. Known(n) /\ Single(n)
    BY DEF RelayInv
  <2>3. \A p \in Publishers : NodeOf[p] = n => casts[n][<<p, "broker">>] = 0
    BY <2>1, <2>2 DEF Known, Passed, Shown
  <2> QED
    BY <2>2, <2>3 DEF Single, Shown
<1> QED
  BY <1>1, <1>2, <1>3, PTL DEF Spec
=============================================================================
