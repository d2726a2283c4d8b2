----------------------------- MODULE RoomProofs -----------------------------
(***************************************************************************)
(* Proofs about Room, for any users, connections and Publish calls.        *)
(*                                                                         *)
(* NoGap joins two halves that meet at room.Subscribe.  Followed: every    *)
(* entry added since the subscription is accounted for, because XADD       *)
(* precedes the copy of the subscriber map.  Answered: every entry up to   *)
(* hi was in the reply.  When hi reaches the length of the stream at the   *)
(* subscription, the halves overlap.                                       *)
(*                                                                         *)
(* DeliveredIsDurable needs Stored: a call past its XADD has its entry in  *)
(* the stream.  ReturnedAccounts needs Outcomes: before Publish returns,   *)
(* whoever is in its copy of the map is being delivered to, has the        *)
(* message, or is in the results.                                          *)
(***************************************************************************)
EXTENDS Room, TLAPS

(* Spending one of the bounds keeps their type. *)
LEMMA BudgetType ==
  ASSUME NEW b \in [faults : Nat, admin : Nat, subscribes : Nat]
  PROVE  /\ b.faults > 0 =>
              [b EXCEPT !.faults = @ - 1] \in
                [faults : Nat, admin : Nat, subscribes : Nat]
         /\ b.admin > 0 =>
              [b EXCEPT !.admin = @ - 1] \in
                [faults : Nat, admin : Nat, subscribes : Nat]
         /\ b.subscribes > 0 =>
              [b EXCEPT !.subscribes = @ - 1] \in
                [faults : Nat, admin : Nat, subscribes : Nat]
OBVIOUS

(* A step with a fault does so. *)
LEMMA FaultType == ASSUME TypeOK, Fault
                   PROVE  budget' \in [faults : Nat, admin : Nat, subscribes : Nat]
BY BudgetType DEF TypeOK, Fault

(* A call of the application does so. *)
LEMMA AdminType == ASSUME TypeOK, Admin
                   PROVE  budget' \in [faults : Nat, admin : Nat, subscribes : Nat]
BY BudgetType DEF TypeOK, Admin

(* Taking a user out of the maps and closing the connection keeps types. *)
LEMMA DropType ==
  ASSUME TypeOK, NEW u \in Users, DropUser(u)
  PROVE  /\ subscribers' \in [Users -> Conns \cup {NoConn}]
         /\ presence' \in [Users -> Conns \cup {NoConn}]
         /\ closed' \subseteq Conns
BY DEF TypeOK, DropUser

(* A delivery goroutine that ends with a result keeps types. *)
LEMMA ReportType ==
  ASSUME TypeOK, NEW t \in tasks, NEW s \in Statuses, Report(t, s)
  PROVE  /\ tasks' \subseteq Task
         /\ results' \in [Publishers -> SUBSET (Users \X Statuses)]
         /\ t.p \in Publishers /\ t.c \in Conns
<1>1. t \in Task /\ t.p \in Publishers /\ t.c \in Conns
  BY DEF TypeOK, Task
<1>2. <<UserOf[t.c], s>> \in Users \X Statuses
  BY <1>1, RoomAssumption
<1> QED
  BY <1>1, <1>2 DEF TypeOK, Report

(* The record updates of the session steps keep the type. *)
LEMMA SessionUpdates ==
  ASSUME NEW r \in Session, NEW n \in Nat, NEW b \in BOOLEAN, NEW pc \in SessStates
  PROVE  /\ [r EXCEPT !.pc = pc] \in Session
         /\ [r EXCEPT !.pc = pc, !.seen = n] \in Session
         /\ [r EXCEPT !.pc = pc, !.hi = n, !.recovered = b] \in Session
         /\ [r EXCEPT !.pc = pc, !.recover = b] \in Session
         /\ [r EXCEPT !.pc = pc, !.recover = FALSE, !.recovered = FALSE] \in Session
         /\ [r EXCEPT !.pc = pc, !.recover = b, !.from = n] \in Session
BY DEF Session

(* Type correctness: one step per action. *)
LEMMA TypeStep == ASSUME TypeOK, [Next]_vars PROVE TypeOK'
<1> USE RoomAssumption
<1>1. ASSUME NEW u \in Users, Unsubscribe(u) PROVE TypeOK'
  BY <1>1, AdminType, DropType DEF Unsubscribe, TypeOK
<1>2. ASSUME NEW u \in Users, AddMember(u) PROVE TypeOK'
  BY <1>2, AdminType DEF AddMember, TypeOK
<1>3. ASSUME NEW u \in Users, RemoveMember(u) PROVE TypeOK'
  BY <1>3, AdminType, DropType DEF RemoveMember, TypeOK
<1>4. CASE DeleteRoom
  <2>1. closed' \subseteq Conns
    BY <1>4 DEF DeleteRoom, TypeOK, Subscribed
  <2> QED
    BY <1>4, <2>1 DEF DeleteRoom, TypeOK
<1>5. ASSUME NEW p \in Publishers, PublishBegin(p) PROVE TypeOK'
  BY <1>5 DEF PublishBegin, TypeOK, PubStates
<1>6. ASSUME NEW p \in Publishers, Persist(p) PROVE TypeOK'
  <2>1. stream' \in Seq(Publishers)
    BY <1>6 DEF Persist, TypeOK
  <2>2. pub' \in [Publishers -> PubStates]
    BY <1>6 DEF Persist, TypeOK, PubStates
  <2> QED
    BY <1>6, <2>1, <2>2 DEF Persist, TypeOK
<1>7. ASSUME NEW p \in Publishers, PersistFails(p) PROVE TypeOK'
  <2>1. stream' \in Seq(Publishers)
    <3>1. stream \in Seq(Publishers) /\ Append(stream, p) \in Seq(Publishers)
      BY DEF TypeOK
    <3> QED
      BY <1>7, <3>1 DEF PersistFails
  <2>2. pub' \in [Publishers -> PubStates]
    BY <1>7 DEF PersistFails, TypeOK, PubStates
  <2> QED
    BY <1>7, <2>1, <2>2, FaultType DEF PersistFails, TypeOK
<1>8. ASSUME NEW p \in Publishers, Broadcast(p) PROVE TypeOK'
  <2>1. tasks' \subseteq Task
    BY <1>8 DEF Broadcast, TypeOK, Task, Online, MaxAttempts
  <2>2. pub' \in [Publishers -> PubStates]
    BY <1>8 DEF Broadcast, TypeOK, PubStates
  <2>3. snap' \in [Publishers -> [conns : SUBSET Conns, members : SUBSET Users]]
    BY <1>8 DEF Broadcast, TypeOK, Online
  <2> QED
    BY <1>8, <2>1, <2>2, <2>3 DEF Broadcast, TypeOK
<1>9. ASSUME NEW t \in tasks, DeliverOk(t) PROVE TypeOK'
  <2>1. /\ tasks' \subseteq Task
        /\ results' \in [Publishers -> SUBSET (Users \X Statuses)]
        /\ t.p \in Publishers /\ t.c \in Conns
    BY <1>9, ReportType DEF DeliverOk, Statuses
  <2>2. received' \in [Conns -> SUBSET Publishers]
    BY <1>9, <2>1 DEF DeliverOk, TypeOK
  <2> QED
    BY <1>9, <2>1, <2>2 DEF DeliverOk, TypeOK
<1>10. ASSUME NEW t \in tasks, DeliverError(t) PROVE TypeOK'
  <2>1. budget' \in [faults : Nat, admin : Nat, subscribes : Nat]
    BY <1>10, FaultType DEF DeliverError, TypeOK
  <2>2. CASE t.attempt < MaxAttempts - 1
    <3>1. t \in Task
      BY DEF TypeOK
    <3>2. [t EXCEPT !.attempt = @ + 1] \in Task
      BY <2>2, <3>1 DEF Task, MaxAttempts
    <3> QED
      BY <1>10, <2>1, <2>2, <3>2 DEF DeliverError, TypeOK
  <2>3. CASE ~(t.attempt < MaxAttempts - 1)
    BY <1>10, <2>1, <2>3, ReportType DEF DeliverError, TypeOK, Statuses
  <2> QED
    BY <2>2, <2>3
<1>11. ASSUME NEW t \in tasks, DeliverPanic(t) PROVE TypeOK'
  <2>1. /\ tasks' \subseteq Task
        /\ results' \in [Publishers -> SUBSET (Users \X Statuses)]
        /\ t.p \in Publishers /\ t.c \in Conns
    BY <1>11, ReportType DEF DeliverPanic, Statuses
  <2>2. reapers' \in [Users -> Nat]
    BY <1>11, <2>1 DEF DeliverPanic, TypeOK
  <2> QED
    BY <1>11, <2>1, <2>2, FaultType DEF DeliverPanic, TypeOK
<1>12. ASSUME NEW u \in Users, Reap(u) PROVE TypeOK'
  BY <1>12, DropType DEF Reap, TypeOK
<1>13. ASSUME NEW p \in Publishers, BroadcastReturn(p) \/ BroadcastTimeout(p)
       PROVE  TypeOK'
  <2>1. OfflineOf(p) \subseteq Users \X Statuses
    BY DEF OfflineOf, TypeOK, Statuses
  <2>2. results' \in [Publishers -> SUBSET (Users \X Statuses)]
    <3>1. results' = [results EXCEPT ![p] = @ \cup OfflineOf(p)]
      BY <1>13 DEF BroadcastReturn, BroadcastTimeout
    <3> QED
      BY <2>1, <3>1 DEF TypeOK
  <2>3. pub' \in [Publishers -> PubStates]
    <3>1. PICK s \in {"returned", "timedout"} : pub' = [pub EXCEPT ![p] = s]
      BY <1>13 DEF BroadcastReturn, BroadcastTimeout
    <3> QED
      BY <3>1 DEF TypeOK, PubStates
  <2> QED
    BY <1>13, <2>2, <2>3 DEF BroadcastReturn, BroadcastTimeout, TypeOK
<1>14. ASSUME NEW c \in Conns, SessionStep(c) PROVE TypeOK'
  <2>0. sess[c] \in Session /\ Len(stream) \in Nat /\ NoSession \in Session
    BY DEF TypeOK, NoSession, Session, SessStates
  <2>1. ASSUME NEW r \in BOOLEAN, NEW from \in 0 .. Len(stream),
               SubscribeBegin(c, r, from)
        PROVE  TypeOK'
    <3>0. from \in Nat /\ "found" \in SessStates
      BY <2>0 DEF SessStates
    <3>1. [NoSession EXCEPT !.pc = "found", !.recover = r, !.from = from] \in Session
      BY <2>0, <3>0, SessionUpdates
    <3>2. sess' \in [Conns -> Session]
      BY <2>1, <3>1 DEF SubscribeBegin, TypeOK
    <3>3. budget' \in [faults : Nat, admin : Nat, subscribes : Nat]
      BY <2>1, BudgetType DEF SubscribeBegin, TypeOK
    <3> QED
      BY <2>1, <3>2, <3>3 DEF SubscribeBegin, TypeOK
  <2>2. CASE Subscribe(c)
    <3>1. [sess[c] EXCEPT !.pc = "subscribed", !.seen = Len(stream)] \in Session
      BY <2>0, SessionUpdates DEF SessStates
    <3>2. sess' \in [Conns -> Session]
      BY <2>2, <3>1 DEF Subscribe, TypeOK
    <3>3. /\ subscribers' \in [Users -> Conns \cup {NoConn}]
          /\ presence' \in [Users -> Conns \cup {NoConn}]
          /\ closed' \subseteq Conns
      BY <2>2 DEF Subscribe, TypeOK
    <3> QED
      BY <2>2, <3>2, <3>3 DEF Subscribe, TypeOK
  <2>3. CASE Recover(c)
    <3> DEFINE hi == LastRecovered(sess[c].from)
    <3>1. hi \in Nat /\ (hi > sess[c].from) \in BOOLEAN
      BY <2>0 DEF LastRecovered, Session
    <3> HIDE DEF hi
    <3>2. /\ [sess[c] EXCEPT !.pc = "replying", !.hi = hi,
                  !.recovered = hi > sess[c].from] \in Session
          /\ [sess[c] EXCEPT !.pc = "replying", !.recover = FALSE] \in Session
          /\ [sess[c] EXCEPT !.pc = "replying"] \in Session
      BY <2>0, <3>1, SessionUpdates DEF SessStates
    <3>3. sess' \in [Conns -> Session]
      BY <2>3, <3>2 DEF Recover, TypeOK, hi
    <3>4. budget' \in [faults : Nat, admin : Nat, subscribes : Nat]
      BY <2>3, FaultType DEF Recover, TypeOK
    <3> QED
      BY <2>3, <3>3, <3>4 DEF Recover, TypeOK
  <2>4. CASE Reply(c)
    <3>1. [sess[c] EXCEPT !.pc = "done"] \in Session
      BY <2>0, SessionUpdates DEF SessStates
    <3>2. sess' \in [Conns -> Session]
      BY <2>4, <3>1 DEF Reply, TypeOK
    <3>3. Publications(c) \subseteq Publishers
      BY DEF Publications, TypeOK
    <3>4. received' \in [Conns -> SUBSET Publishers]
      BY <2>4, <3>3 DEF Reply, TypeOK
    <3> QED
      BY <2>4, <3>2, <3>4 DEF Reply, TypeOK
  <2>5. CASE ReplyFails(c)
    <3>1. [sess[c] EXCEPT !.pc = "done", !.recover = FALSE,
                          !.recovered = FALSE] \in Session
      BY <2>0, SessionUpdates DEF SessStates
    <3>2. sess' \in [Conns -> Session]
      BY <2>5, <3>1 DEF ReplyFails, TypeOK
    <3>3. budget' \in [faults : Nat, admin : Nat, subscribes : Nat]
      BY <2>5, FaultType DEF ReplyFails, TypeOK
    <3> QED
      BY <2>5, <3>2, <3>3 DEF ReplyFails, TypeOK
  <2>6. 0 \in 0 .. Len(stream) /\ TRUE \in BOOLEAN /\ FALSE \in BOOLEAN
    BY <2>0
  <2> QED
    BY <1>14, <2>6, <2>1, <2>2, <2>3, <2>4, <2>5 DEF SessionStep
<1>15. CASE UNCHANGED vars
  BY <1>15 DEF vars, TypeOK
<1> QED
  BY <1>1, <1>2, <1>3, <1>4, <1>5, <1>6, <1>7, <1>8, <1>9, <1>10, <1>11, <1>12,
     <1>13, <1>14, <1>15 DEF Next, PublishStep, DeliveryStep, RoomStep

(* The entries of the stream belong to calls that are past their XADD. *)
Published == \A i \in DOMAIN stream : pub[stream[i]] \notin {"idle", "found"}

Settled(c) == sess[c].pc \in {"subscribed", "replying", "done"}

Followed ==
  \A c \in Conns, q \in Publishers : c \in Online /\ Settled(c) =>
    \A i \in DOMAIN stream :
      i > sess[c].seen /\ stream[i] = q => Accounted(q, c)

Answered ==
  \A c \in Conns : sess[c].recover =>
    /\ sess[c].pc \in {"replying", "done"} => sess[c].hi <= Len(stream)
    /\ sess[c].pc = "replying" =>
         (sess[c].recovered <=> sess[c].hi > sess[c].from)
    /\ sess[c].pc = "done" =>
         \A i \in DOMAIN stream :
           sess[c].from < i /\ i <= sess[c].hi => stream[i] \in received[c]

GapInv == TypeOK /\ Published /\ Followed /\ Answered

(* Only a step of p itself moves the Publish call p, and only forwards. *)
LEMMA PublishedStep == ASSUME TypeOK, Published, [Next]_vars PROVE Published'
<1> USE RoomAssumption
<1>1. CASE UNCHANGED <<stream, pub>>
  BY <1>1 DEF Published
<1>2. ASSUME NEW p \in Publishers, Persist(p) PROVE Published'
  BY <1>2 DEF Persist, Published, TypeOK
<1>3. ASSUME NEW p \in Publishers, PersistFails(p) PROVE Published'
  <2>1. pub' = [pub EXCEPT ![p] = "error"]
    BY <1>3 DEF PersistFails
  <2>2. CASE stream' = stream
    BY <2>1, <2>2 DEF Published, TypeOK
  <2>3. CASE stream' = Append(stream, p)
    BY <2>1, <2>3 DEF Published, TypeOK
  <2> QED
    BY <1>3, <2>2, <2>3 DEF PersistFails
<1>4. ASSUME NEW p \in Publishers,
             PublishBegin(p) \/ Broadcast(p) \/ BroadcastReturn(p)
               \/ BroadcastTimeout(p)
      PROVE  Published'
  BY <1>4 DEF PublishBegin, Broadcast, BroadcastReturn, BroadcastTimeout,
              Published, TypeOK
<1>5. ASSUME NEW t \in tasks, DeliveryStep(t) PROVE Published'
  BY <1>1, <1>5 DEF DeliveryStep, DeliverOk, DeliverError, DeliverPanic
<1>6. ASSUME NEW c \in Conns, SessionStep(c) PROVE Published'
  BY <1>1, <1>6 DEF SessionStep, SubscribeBegin, Subscribe, Recover, Reply,
                    ReplyFails
<1>7. ASSUME NEW u \in Users, RoomStep(u) PROVE Published'
  BY <1>1, <1>7 DEF RoomStep, Unsubscribe, AddMember, RemoveMember, Reap
<1>8. CASE DeleteRoom \/ UNCHANGED vars
  BY <1>1, <1>8 DEF DeleteRoom, vars
<1> QED
  BY <1>2, <1>3, <1>4, <1>5, <1>6, <1>7, <1>8 DEF Next, PublishStep

(* What keeps a message accounted for. *)
LEMMA StaysAccounted ==
  ASSUME NEW p \in Publishers, NEW c \in Conns, Accounted(p, c),
         pub[p] \in {"persisted", "error"} => pub'[p] \in {"persisted", "error"},
         \A t \in tasks : t.p = p /\ t.c = c =>
            \/ \E s \in tasks' : s.p = p /\ s.c = c
            \/ p \in received'[c]
            \/ <<UserOf[c], "failed">> \in results'[p],
         received[c] \subseteq received'[c],
         results[p] \subseteq results'[p]
  PROVE  Accounted(p, c)'
BY DEF Accounted, Skips

(* A delivery step loses no message: it hands it over, reports it or        *)
(* tries again.                                                             *)
LEMMA DeliveryKeeps ==
  ASSUME TypeOK, NEW t \in tasks, DeliveryStep(t),
         NEW p \in Publishers, NEW c \in Conns, Accounted(p, c)
  PROVE  Accounted(p, c)'
<1> USE RoomAssumption
<1>0. t \in Task /\ t.p \in Publishers /\ t.c \in Conns /\ t.attempt \in Nat
  BY DEF TypeOK, Task, MaxAttempts
<1>1. CASE DeliverOk(t)
  <2>1. tasks' = tasks \ {t} /\ pub' = pub
    BY <1>1 DEF DeliverOk, Report
  <2>2. results[p] \subseteq results'[p]
    BY <1>0, <1>1 DEF DeliverOk, Report, TypeOK
  <2>3. received[c] \subseteq received'[c] /\ t.p \in received'[t.c]
    <3>1. received' = [received EXCEPT ![t.c] = @ \cup {t.p}]
      BY <1>1 DEF DeliverOk
    <3> QED
      BY <1>0, <3>1 DEF TypeOK
  <2>4. \A s \in tasks : s.p = p /\ s.c = c =>
          (\E r \in tasks' : r.p = p /\ r.c = c) \/ p \in received'[c]
    BY <2>1, <2>3
  <2> QED
    BY <2>1, <2>2, <2>3, <2>4, StaysAccounted
<1>2. CASE DeliverError(t)
  <2>1. CASE t.attempt < MaxAttempts - 1
    <3> DEFINE s == [t EXCEPT !.attempt = @ + 1]
    <3>1. s.p = t.p /\ s.c = t.c
      BY <1>0 DEF Task
    <3>2. tasks' = (tasks \ {t}) \cup {s} /\ UNCHANGED <<results, received, pub>>
      BY <1>2, <2>1 DEF DeliverError
    <3> HIDE DEF s
    <3> QED
      BY <3>1, <3>2, StaysAccounted
  <2>2. CASE ~(t.attempt < MaxAttempts - 1)
    <3>1. tasks' = tasks \ {t} /\ pub' = pub /\ received' = received
      BY <1>2, <2>2 DEF DeliverError, Report
    <3>3. results' = [results EXCEPT ![t.p] = @ \cup {<<UserOf[t.c], "failed">>}]
      BY <1>2, <2>2 DEF DeliverError, Report
    <3>2. /\ results[p] \subseteq results'[p]
          /\ <<UserOf[t.c], "failed">> \in results'[t.p]
      BY <1>0, <3>3 DEF TypeOK
    <3> QED
      BY <3>1, <3>2, StaysAccounted
  <2> QED
    BY <2>1, <2>2
<1>3. CASE DeliverPanic(t)
  <2>1. tasks' = tasks \ {t} /\ UNCHANGED <<pub, received>>
    BY <1>3 DEF DeliverPanic, Report
  <2>2. results' = [results EXCEPT ![t.p] = @ \cup {<<UserOf[t.c], "failed">>}]
    BY <1>3 DEF DeliverPanic, Report
  <2>3. /\ results[p] \subseteq results'[p]
        /\ <<UserOf[t.c], "failed">> \in results'[t.p]
    BY <1>0, <2>2 DEF TypeOK
  <2> QED
    BY <2>1, <2>3, StaysAccounted
<1> QED
  BY <1>1, <1>2, <1>3 DEF DeliveryStep

(* The inductive step of Followed. *)
LEMMA FollowedStep ==
  ASSUME TypeOK, Published, Followed, [Next]_vars PROVE Followed'
<1> USE RoomAssumption
<1> SUFFICES ASSUME NEW c \in Conns, NEW q \in Publishers, c \in Online',
                    Settled(c)', NEW i \in DOMAIN stream', i > sess'[c].seen,
                    stream'[i] = q
             PROVE  Accounted(q, c)'
  BY DEF Followed
<1>0. TypeOK'
  BY TypeStep
<1>a. stream \in Seq(Publishers)
  BY DEF TypeOK
<1>b. ASSUME c \in Online, Settled(c), sess'[c].seen = sess[c].seen,
             i \in DOMAIN stream, stream[i] = q
      PROVE  Accounted(q, c)
  BY <1>b DEF Followed
<1>c. ASSUME c \in Online, Settled(c), sess'[c].seen = sess[c].seen,
             UNCHANGED <<stream, pub, tasks, results>>,
             received[c] \subseteq received'[c]
      PROVE  Accounted(q, c)'
  BY <1>a, <1>b, <1>c, StaysAccounted
<1>1. ASSUME NEW u \in Users, RoomStep(u) PROVE Accounted(q, c)'
  <2>1. c \in Online
    BY <1>1 DEF RoomStep, Unsubscribe, AddMember, RemoveMember, Reap, DropUser,
                Online, TypeOK
  <2> QED
    BY <1>1, <1>c, <2>1 DEF RoomStep, Unsubscribe, AddMember, RemoveMember, Reap,
                            Settled
<1>2. CASE DeleteRoom
  BY <1>2 DEF DeleteRoom, Online
<1>3. CASE UNCHANGED vars
  BY <1>3, <1>c DEF vars, Online, Settled
<1>4. ASSUME NEW t \in tasks, DeliveryStep(t) PROVE Accounted(q, c)'
  <2>1. UNCHANGED <<subscribers, sess, stream>>
    BY <1>4 DEF DeliveryStep, DeliverOk, DeliverError, DeliverPanic
  <2>2. Accounted(q, c)
    BY <1>b, <2>1 DEF Online, Settled
  <2> QED
    BY <1>4, <1>a, <2>1, <2>2, DeliveryKeeps
<1>5. ASSUME NEW d \in Conns, SessionStep(d) PROVE Accounted(q, c)'
  <2>1. CASE c # d
    <3>1. c \in Online
      BY <1>5, <2>1 DEF SessionStep, SubscribeBegin, Subscribe, Recover, Reply,
                        ReplyFails, Online, TypeOK
    <3>2. sess'[c] = sess[c]
      BY <1>5, <2>1 DEF SessionStep, SubscribeBegin, Subscribe, Recover, Reply,
                        ReplyFails, TypeOK
    <3>3. received[c] \subseteq received'[c]
      BY <1>5, <2>1 DEF SessionStep, SubscribeBegin, Subscribe, Recover, Reply,
                        ReplyFails, TypeOK
    <3>4. UNCHANGED <<stream, pub, tasks, results>>
      BY <1>5 DEF SessionStep, SubscribeBegin, Subscribe, Recover, Reply,
                  ReplyFails
    <3> QED
      BY <1>c, <3>1, <3>2, <3>3, <3>4 DEF Settled
  <2>2. ASSUME c = d, NEW r \in BOOLEAN, NEW from \in 0 .. Len(stream),
               SubscribeBegin(d, r, from)
        PROVE  FALSE
    BY <2>2 DEF SubscribeBegin, Settled, TypeOK, NoSession
  <2>3. CASE c = d /\ Subscribe(d)
    <3>1. sess'[c].seen = Len(stream) /\ stream' = stream
      BY <2>3 DEF Subscribe, TypeOK, Session
    <3> QED
      BY <3>1, <1>a
  <2>4. CASE c = d /\ (Recover(d) \/ Reply(d) \/ ReplyFails(d))
    <3>0. sess[c] \in Session
      BY DEF TypeOK
    <3>1. sess'[c].seen = sess[c].seen
      <4>1. CASE Recover(c)
        <5> DEFINE hi == LastRecovered(sess[c].from)
        <5>1. sess'[c] \in {[sess[c] EXCEPT !.pc = "replying", !.hi = hi,
                              !.recovered = hi > sess[c].from],
                           [sess[c] EXCEPT !.pc = "replying", !.recover = FALSE],
                           [sess[c] EXCEPT !.pc = "replying"]}
          BY <4>1 DEF Recover, TypeOK
        <5> HIDE DEF hi
        <5> QED
          BY <3>0, <5>1 DEF Session
      <4>2. CASE Reply(c)
        BY <3>0, <4>2 DEF Reply, TypeOK, Session
      <4>3. CASE ReplyFails(c)
        BY <3>0, <4>3 DEF ReplyFails, TypeOK, Session
      <4> QED
        BY <2>4, <4>1, <4>2, <4>3
    <3>4. Settled(c)
      BY <2>4 DEF Recover, Reply, ReplyFails, Settled
    <3>2. received[c] \subseteq received'[c]
      BY <2>4 DEF Recover, Reply, ReplyFails, TypeOK
    <3>3. UNCHANGED <<stream, pub, tasks, results, subscribers>>
      BY <2>4 DEF Recover, Reply, ReplyFails
    <3> QED
      BY <1>c, <3>1, <3>2, <3>3, <3>4 DEF Online
  <2>5. 0 \in 0 .. Len(stream) /\ TRUE \in BOOLEAN /\ FALSE \in BOOLEAN
    BY <1>a
  <2> QED
    BY <1>5, <2>1, <2>2, <2>3, <2>4, <2>5 DEF SessionStep
<1>6. ASSUME NEW p \in Publishers, PublishStep(p) PROVE Accounted(q, c)'
  <2>0. UNCHANGED <<subscribers, sess, received>>
    BY <1>6 DEF PublishStep, PublishBegin, Persist, PersistFails, Broadcast,
                BroadcastReturn, BroadcastTimeout
  <2>1. c \in Online /\ Settled(c) /\ sess'[c].seen = sess[c].seen
    BY <2>0 DEF Online, Settled
  <2>2. CASE pub'[q] \in {"persisted", "error"}
    BY <2>2 DEF Accounted
  <2>3. CASE pub'[q] \notin {"persisted", "error"}
    <3>0. i \in DOMAIN stream /\ stream[i] = q
      <4>1. CASE UNCHANGED stream
        BY <4>1
      <4>2. CASE stream' = Append(stream, p)
        BY <1>6, <4>2, <2>3, <1>a DEF PublishStep, PublishBegin, Persist,
           PersistFails, Broadcast, BroadcastReturn, BroadcastTimeout, TypeOK
      <4> QED
        BY <1>6, <4>1, <4>2 DEF PublishStep, PublishBegin, Persist,
           PersistFails, Broadcast, BroadcastReturn, BroadcastTimeout
    <3>1. Accounted(q, c)
      BY <1>a, <1>b, <2>1, <3>0
    <3>5. results' \in {results, [results EXCEPT ![p] = @ \cup OfflineOf(p)]}
      BY <1>6 DEF PublishStep, PublishBegin, Persist, PersistFails,
         Broadcast, BroadcastReturn, BroadcastTimeout
    <3>6. tasks \subseteq tasks'
      BY <1>6 DEF PublishStep, PublishBegin, Persist, PersistFails,
         Broadcast, BroadcastReturn, BroadcastTimeout
    <3>2. results[q] \subseteq results'[q] /\ tasks \subseteq tasks'
      <4>1. CASE results' = results
        BY <3>6, <4>1
      <4>2. CASE results' = [results EXCEPT ![p] = @ \cup OfflineOf(p)]
        <5>1. results'[q] \in {results[q], results[q] \cup OfflineOf(p)}
          BY <4>2, <1>a DEF TypeOK
        <5> QED
          BY <3>6, <5>1
      <4> QED
        BY <3>5, <4>1, <4>2
    <3>3. CASE pub[q] \notin {"persisted", "error"}
      BY <2>0, <3>0, <3>1, <3>2, <3>3, StaysAccounted
    <3>4. CASE pub[q] \in {"persisted", "error"}
      <4>1. p = q /\ Broadcast(p)
        BY <1>6, <2>3, <3>0, <3>1, <3>4 DEF PublishStep, PublishBegin, Persist,
           PersistFails, Broadcast, BroadcastReturn, BroadcastTimeout, TypeOK
      <4>2. CASE Skips(p, UserOf[c])
        BY <3>0, <4>1, <4>2 DEF Accounted, Skips
      <4>3. CASE ~Skips(p, UserOf[c])
        <5> DEFINE t == [p |-> p, c |-> c, attempt |-> 0]
        <5>1. t \in tasks' /\ t.p = p /\ t.c = c
          BY <2>1, <4>1, <4>3 DEF Broadcast
        <5> HIDE DEF t
        <5> QED
          BY <3>0, <4>1, <5>1 DEF Accounted
      <4> QED
        BY <4>2, <4>3
    <3> QED
      BY <3>3, <3>4
  <2> QED
    BY <2>2, <2>3
<1> QED
  BY <1>1, <1>2, <1>3, <1>4, <1>5, <1>6 DEF Next

(* The inductive step of Answered: one step per kind of action. *)
LEMMA AnsweredStep ==
  ASSUME TypeOK, Answered, [Next]_vars PROVE Answered'
<1> USE RoomAssumption
<1> SUFFICES ASSUME NEW c \in Conns, sess'[c].recover
             PROVE  /\ sess'[c].pc \in {"replying", "done"} =>
                         sess'[c].hi <= Len(stream')
                    /\ sess'[c].pc = "replying" =>
                         (sess'[c].recovered <=> sess'[c].hi > sess'[c].from)
                    /\ sess'[c].pc = "done" =>
                         \A i \in DOMAIN stream' :
                           sess'[c].from < i /\ i <= sess'[c].hi =>
                             stream'[i] \in received'[c]
  BY DEF Answered
<1>0. /\ sess[c] \in Session /\ stream \in Seq(Publishers)
      /\ received \in [Conns -> SUBSET Publishers]
  BY DEF TypeOK
<1>1. ASSUME sess'[c] = sess[c], received[c] \subseteq received'[c],
             stream' = stream \/ \E p \in Publishers : stream' = Append(stream, p)
      PROVE  /\ sess'[c].pc \in {"replying", "done"} =>
                  sess'[c].hi <= Len(stream')
             /\ sess'[c].pc = "replying" =>
                  (sess'[c].recovered <=> sess'[c].hi > sess'[c].from)
             /\ sess'[c].pc = "done" =>
                  \A i \in DOMAIN stream' :
                    sess'[c].from < i /\ i <= sess'[c].hi =>
                      stream'[i] \in received'[c]
  <2>1. sess[c].hi \in Nat /\ sess[c].from \in Nat
    BY <1>0 DEF Session
  <2>2. CASE stream' = stream
    BY <1>1, <2>2 DEF Answered
  <2>3. ASSUME NEW p \in Publishers, stream' = Append(stream, p)
        PROVE  /\ Len(stream') = Len(stream) + 1
               /\ DOMAIN stream' = 1 .. Len(stream) + 1
               /\ \A i \in 1 .. Len(stream) : stream'[i] = stream[i]
    BY <1>0, <2>3
  <2>4. CASE \E p \in Publishers : stream' = Append(stream, p)
    <3>1. /\ Len(stream') = Len(stream) + 1
          /\ DOMAIN stream' = 1 .. Len(stream) + 1
          /\ \A i \in 1 .. Len(stream) : stream'[i] = stream[i]
      BY <2>3, <2>4
    <3>2. Len(stream) \in Nat /\ DOMAIN stream = 1 .. Len(stream)
      BY <1>0
    <3> QED
      BY <1>1, <2>1, <3>1, <3>2 DEF Answered
  <2> QED
    BY <1>1, <2>2, <2>4
<1>2. ASSUME NEW u \in Users, RoomStep(u)
      PROVE  sess' = sess /\ received' = received /\ stream' = stream
  BY <1>2 DEF RoomStep, Unsubscribe, AddMember, RemoveMember, Reap
<1>3. CASE DeleteRoom \/ UNCHANGED vars
  BY <1>1, <1>3 DEF DeleteRoom, vars
<1>4. ASSUME NEW t \in tasks, DeliveryStep(t)
      PROVE  sess' = sess /\ received[c] \subseteq received'[c] /\ stream' = stream
  <2>1. t.c \in Conns
    BY DEF TypeOK, Task
  <2> QED
    BY <1>0, <1>4, <2>1 DEF DeliveryStep, DeliverOk, DeliverError, DeliverPanic
<1>5. ASSUME NEW p \in Publishers, PublishStep(p)
      PROVE  sess' = sess /\ received' = received
               /\ stream' \in {stream, Append(stream, p)}
  BY <1>5 DEF PublishStep, PublishBegin, Persist, PersistFails, Broadcast,
              BroadcastReturn, BroadcastTimeout
<1>6. ASSUME NEW d \in Conns, SessionStep(d), c # d
      PROVE  sess'[c] = sess[c] /\ received[c] \subseteq received'[c]
               /\ stream' = stream
  BY <1>6 DEF SessionStep, SubscribeBegin, Subscribe, Recover, Reply, ReplyFails,
              TypeOK
<1>7. ASSUME SessionStep(c)
      PROVE  /\ sess'[c].pc \in {"replying", "done"} =>
                  sess'[c].hi <= Len(stream')
             /\ sess'[c].pc = "replying" =>
                  (sess'[c].recovered <=> sess'[c].hi > sess'[c].from)
             /\ sess'[c].pc = "done" =>
                  \A i \in DOMAIN stream' :
                    sess'[c].from < i /\ i <= sess'[c].hi =>
                      stream'[i] \in received'[c]
  <2>1. CASE sess'[c].pc \notin {"replying", "done"}
    BY <2>1
  <2>2. CASE Recover(c)
    <3> DEFINE hi == LastRecovered(sess[c].from)
    <3>1. hi \in Nat /\ hi <= Len(stream)
      BY <1>0 DEF LastRecovered, Session
    <3>2. \/ sess'[c] = [sess[c] EXCEPT !.pc = "replying", !.hi = hi,
                                         !.recovered = hi > sess[c].from]
          \/ sess'[c] = [sess[c] EXCEPT !.pc = "replying", !.recover = FALSE]
          \/ ~sess[c].recover
               /\ sess'[c] = [sess[c] EXCEPT !.pc = "replying"]
      BY <2>2 DEF Recover, TypeOK
    <3>3. stream' = stream
      BY <2>2 DEF Recover
    <3> HIDE DEF hi
    <3>4. sess'[c] = [sess[c] EXCEPT !.pc = "replying", !.hi = hi,
                                     !.recovered = hi > sess[c].from]
      <4>1. sess'[c] # [sess[c] EXCEPT !.pc = "replying", !.recover = FALSE]
        BY <1>0 DEF Session
      <4>2. ~sess[c].recover =>
              sess'[c] # [sess[c] EXCEPT !.pc = "replying"]
        BY <1>0 DEF Session
      <4> QED
        BY <3>2, <4>1, <4>2
    <3>5. /\ sess'[c].pc = "replying" /\ sess'[c].hi = hi
          /\ sess'[c].recovered = (hi > sess[c].from)
          /\ sess'[c].from = sess[c].from
      BY <1>0, <3>4 DEF Session
    <3> QED
      BY <3>1, <3>3, <3>5
  <2>3. CASE Reply(c)
    <3>1. sess'[c] = [sess[c] EXCEPT !.pc = "done"] /\ stream' = stream
      BY <2>3 DEF Reply, TypeOK
    <3>2. /\ sess'[c].pc = "done" /\ sess'[c].hi = sess[c].hi
          /\ sess'[c].from = sess[c].from /\ sess'[c].recover = sess[c].recover
          /\ sess[c].pc = "replying"
      <4>1. PICK r \in Session : r = sess[c]
        BY <1>0
      <4>2. PICK s : s = [r EXCEPT !.pc = "done"]
        OBVIOUS
      <4>3. s.pc = "done" /\ s.hi = r.hi /\ s.from = r.from /\ s.recover = r.recover
        BY <4>2 DEF Session
      <4>4. sess'[c] = s
        BY <3>1, <4>1, <4>2
      <4> QED
        BY <2>3, <4>1, <4>3, <4>4 DEF Reply
    <3>3. sess[c].hi <= Len(stream)
            /\ (sess[c].recovered <=> sess[c].hi > sess[c].from)
      BY <3>2 DEF Answered
    <3>4. sess[c].recovered => Publications(c) \subseteq received'[c]
      BY <1>0, <2>3 DEF Reply
    <3>5. sess[c].hi \in Nat /\ sess[c].from \in Nat
      BY <1>0 DEF Session
    <3>6. \A i \in DOMAIN stream : sess[c].from < i /\ i <= sess[c].hi =>
             stream[i] \in Publications(c) /\ sess[c].recovered
      BY <1>0, <3>3, <3>5 DEF Publications
    <3> QED
      BY <3>1, <3>2, <3>3, <3>4, <3>6
  <2>4. CASE ReplyFails(c)
    <3>1. sess'[c] = [sess[c] EXCEPT !.pc = "done", !.recover = FALSE,
                                     !.recovered = FALSE]
      BY <2>4 DEF ReplyFails, TypeOK
    <3> QED
      BY <1>0, <3>1 DEF Session
  <2>5. CASE Subscribe(c)
    <3>1. sess'[c] = [sess[c] EXCEPT !.pc = "subscribed", !.seen = Len(stream)]
      BY <2>5 DEF Subscribe, TypeOK
    <3> QED
      BY <1>0, <2>1, <3>1 DEF Session
  <2>6. ASSUME NEW r \in BOOLEAN, NEW from \in Nat, SubscribeBegin(c, r, from)
        PROVE  sess'[c].pc = "found"
    BY <2>6 DEF SubscribeBegin, TypeOK, NoSession
  <2>7. 0 \in Nat /\ TRUE \in BOOLEAN /\ FALSE \in BOOLEAN
          /\ 0 .. Len(stream) \subseteq Nat
    BY <1>0
  <2> QED
    BY <1>7, <2>1, <2>2, <2>3, <2>4, <2>5, <2>6, <2>7 DEF SessionStep
<1> QED
  BY <1>0, <1>1, <1>2, <1>3, <1>4, <1>5, <1>6, <1>7 DEF Next

(* A room begins well typed. *)
LEMMA InitType == ASSUME Init PROVE TypeOK
<1>1. NoSession \in Session
  BY DEF NoSession, Session, SessStates
<1>2. sess \in [Conns -> Session]
  BY <1>1 DEF Init
<1>3. budget \in [faults : Nat, admin : Nat, subscribes : Nat]
  BY RoomAssumption DEF Init
<1>4. pub \in [Publishers -> PubStates]
  BY DEF Init, PubStates
<1> QED
  BY <1>2, <1>3, <1>4 DEF Init, TypeOK

(* The variables keep their types. *)
THEOREM TypeCorrect == Spec => []TypeOK
<1>1. Init => TypeOK
  BY InitType
<1>2. TypeOK /\ [Next]_vars => TypeOK'
  BY TypeStep
<1> QED
  BY <1>1, <1>2, PTL DEF Spec

(***************************************************************************)
(* Subscribe-then-recover leaves no gap, for any number of connections,    *)
(* Publish calls, retries and faults.                                      *)
(***************************************************************************)
THEOREM RecoveryLeavesNoGap == Spec => []NoGap
<1>1. Init => GapInv
  <2> SUFFICES ASSUME Init PROVE GapInv
    OBVIOUS
  <2>1. DOMAIN stream = {} /\ \A c \in Conns : ~sess[c].recover
    BY DEF Init, NoSession
  <2> QED
    BY <2>1, InitType DEF GapInv, Published, Followed, Answered
<1>2. GapInv /\ [Next]_vars => GapInv'
  BY TypeStep, PublishedStep, FollowedStep, AnsweredStep DEF GapInv
<1>3. GapInv => NoGap
  <2> SUFFICES ASSUME GapInv, NEW c \in Online, sess[c].pc = "done",
                      sess[c].recover, sess[c].hi >= sess[c].seen,
                      NEW i \in DOMAIN stream, i > sess[c].from
               PROVE  Accounted(stream[i], c)
    BY DEF NoGap
  <2>1. c \in Conns /\ sess[c] \in Session /\ stream \in Seq(Publishers)
    BY DEF Online, GapInv, TypeOK
  <2>2. /\ sess[c].hi \in Nat /\ sess[c].seen \in Nat /\ sess[c].from \in Nat
        /\ i \in Nat /\ stream[i] \in Publishers
    BY <2>1 DEF Session
  <2>3. CASE i <= sess[c].hi
    <3>1. stream[i] \in received[c]
      BY <2>1, <2>2, <2>3 DEF GapInv, Answered
    <3> QED
      BY <3>1 DEF Accounted
  <2>4. CASE i > sess[c].hi
    <3>1. i > sess[c].seen
      BY <2>2, <2>4
    <3> QED
      BY <2>1, <2>2, <3>1 DEF GapInv, Followed, Settled
  <2> QED
    BY <2>2, <2>3, <2>4
<1> QED
  BY <1>1, <1>2, <1>3, PTL DEF Spec

-----------------------------------------------------------------------------
(* What was delivered is in the stream *)

Durable(p) == p \in Ephemeral \/ \E i \in DOMAIN stream : stream[i] = p

(* A call is past its XADD before anything of it can reach a connection. *)
Stored ==
  /\ \A p \in Publishers :
       pub[p] \in {"persisted", "waiting", "returned", "timedout"} => Durable(p)
  /\ \A t \in tasks : Durable(t.p)

DurableInv == TypeOK /\ Stored /\ DeliveredIsDurable

(* The stream only grows, so that what is durable stays so. *)
LEMMA StaysDurable ==
  ASSUME TypeOK, [Next]_vars, NEW p \in Publishers, Durable(p)
  PROVE  Durable(p)'
<1>0. stream \in Seq(Publishers)
  BY DEF TypeOK
<1>1. stream' = stream \/ \E q \in Publishers : stream' = Append(stream, q)
  BY DEF Next, vars, PublishStep, PublishBegin, Persist, PersistFails, Broadcast,
         BroadcastReturn, BroadcastTimeout, DeliveryStep, DeliverOk, DeliverError,
         DeliverPanic, SessionStep, SubscribeBegin, Subscribe, Recover, Reply,
         ReplyFails, RoomStep, Unsubscribe, AddMember, RemoveMember, Reap,
         DeleteRoom
<1>2. CASE stream' = stream
  BY <1>2 DEF Durable
<1>3. ASSUME NEW q \in Publishers, stream' = Append(stream, q)
      PROVE  Durable(p)'
  BY <1>0, <1>3 DEF Durable
<1> QED
  BY <1>1, <1>2, <1>3

(* The inductive step of DurableInv. *)
LEMMA DurableStep == ASSUME DurableInv, [Next]_vars PROVE DurableInv'
<1> USE RoomAssumption
<1>0. TypeOK /\ TypeOK' /\ Stored /\ DeliveredIsDurable
  BY TypeStep DEF DurableInv
<1>1. \A p \in Publishers : Durable(p) => Durable(p)'
  BY <1>0, StaysDurable
<1>2. \A t \in tasks : t.p \in Publishers /\ t.c \in Conns
  BY <1>0 DEF TypeOK, Task
<1>3. ASSUME UNCHANGED <<pub, tasks, received>> PROVE DurableInv'
  <2>1. Stored'
    BY <1>0, <1>1, <1>2, <1>3 DEF Stored
  <2>2. DeliveredIsDurable'
    BY <1>0, <1>1, <1>3 DEF DeliveredIsDurable, Durable, TypeOK
  <2> QED
    BY <1>0, <2>1, <2>2 DEF DurableInv
<1>4. ASSUME NEW p \in Publishers, PublishStep(p) PROVE DurableInv'
  <2>1. received' = received
    BY <1>4 DEF PublishStep, PublishBegin, Persist, PersistFails, Broadcast,
                BroadcastReturn, BroadcastTimeout
  <2>2. DeliveredIsDurable'
    BY <1>0, <1>1, <2>1 DEF DeliveredIsDurable, Durable, TypeOK
  <2>3. ASSUME NEW q \in Publishers,
               pub'[q] \in {"persisted", "waiting", "returned", "timedout"}
        PROVE  Durable(q)'
    <3>1. CASE Persist(p) /\ q = p
      <4>1. CASE p \in Ephemeral
        BY <3>1, <4>1 DEF Durable
      <4>2. CASE p \notin Ephemeral
        <5>1. stream' = Append(stream, p) /\ stream \in Seq(Publishers)
          BY <1>0, <3>1, <4>2 DEF Persist, TypeOK
        <5>2. Len(stream) + 1 \in DOMAIN stream' /\ stream'[Len(stream) + 1] = p
          BY <5>1
        <5> QED
          BY <3>1, <5>2 DEF Durable
      <4> QED
        BY <4>1, <4>2
    <3>2. CASE ~(Persist(p) /\ q = p)
      <4>1. pub[q] \in {"persisted", "waiting", "returned", "timedout"}
        BY <1>0, <1>4, <2>3, <3>2 DEF PublishStep, PublishBegin, Persist,
           PersistFails, Broadcast, BroadcastReturn, BroadcastTimeout, TypeOK
      <4> QED
        BY <1>0, <1>1, <4>1 DEF Stored
    <3> QED
      BY <3>1, <3>2
  <2>4. ASSUME NEW t \in tasks' PROVE Durable(t.p)'
    <3>1. CASE t \in tasks
      BY <1>0, <1>1, <1>2, <3>1 DEF Stored
    <3>2. CASE t \notin tasks
      <4>1. Broadcast(p)
        BY <1>4, <2>4, <3>2 DEF PublishStep, PublishBegin, Persist,
           PersistFails, BroadcastReturn, BroadcastTimeout
      <4>2. t.p = p
        BY <2>4, <3>2, <4>1 DEF Broadcast
      <4>3. Durable(p)
        BY <1>0, <4>1 DEF Broadcast, Stored
      <4> QED
        BY <1>1, <4>2, <4>3
    <3> QED
      BY <3>1, <3>2
  <2> QED
    BY <1>0, <2>2, <2>3, <2>4 DEF DurableInv, Stored
<1>5. ASSUME NEW t \in tasks, DeliveryStep(t) PROVE DurableInv'
  <2>1. pub' = pub
    BY <1>5 DEF DeliveryStep, DeliverOk, DeliverError, DeliverPanic
  <2>2. ASSUME NEW s \in tasks' PROVE s.p \in Publishers /\ Durable(s.p)
    <3>1. CASE s \in tasks
      BY <1>0, <1>2, <3>1 DEF Stored
    <3>2. CASE s \notin tasks
      <4>1. s = [t EXCEPT !.attempt = @ + 1]
        BY <1>5, <2>2, <3>2 DEF DeliveryStep, DeliverOk, DeliverError,
                                DeliverPanic, Report
      <4>2. t \in Task
        BY <1>0 DEF TypeOK
      <4>3. s.p = t.p
        BY <4>1, <4>2 DEF Task
      <4> QED
        BY <1>0, <1>2, <4>3 DEF Stored
    <3> QED
      BY <3>1, <3>2
  <2>3. Stored'
    <3>1. \A s \in tasks' : Durable(s.p)'
      BY <1>1, <2>2
    <3>2. \A p \in Publishers :
            pub'[p] \in {"persisted", "waiting", "returned", "timedout"}
              => Durable(p)'
      BY <1>0, <1>1, <2>1 DEF Stored
    <3> QED
      BY <3>1, <3>2 DEF Stored
  <2>4. ASSUME NEW c \in Conns, NEW p \in received'[c] PROVE Durable(p)'
    <3>1. CASE p \in received[c]
      BY <1>0, <1>1, <3>1 DEF DeliveredIsDurable, Durable, TypeOK
    <3>2. CASE p \notin received[c]
      <4>1. p = t.p
        <5>1. received' # received
          BY <2>4, <3>2
        <5>2. DeliverOk(t)
          BY <1>5, <5>1 DEF DeliveryStep, DeliverError, DeliverPanic
        <5>3. received' = [received EXCEPT ![t.c] = @ \cup {t.p}]
          BY <5>2 DEF DeliverOk
        <5> QED
          BY <1>0, <2>4, <3>2, <5>3 DEF TypeOK
      <4> QED
        BY <1>0, <1>1, <1>2, <4>1 DEF Stored
    <3> QED
      BY <3>1, <3>2
  <2>5. DeliveredIsDurable'
    BY <2>4 DEF DeliveredIsDurable, Durable
  <2> QED
    BY <1>0, <2>3, <2>5 DEF DurableInv
<1>6. ASSUME NEW d \in Conns, SessionStep(d) PROVE DurableInv'
  <2>1. UNCHANGED <<pub, tasks>>
    BY <1>6 DEF SessionStep, SubscribeBegin, Subscribe, Recover, Reply, ReplyFails
  <2>2. Stored'
    BY <1>0, <1>1, <1>2, <2>1 DEF Stored
  <2>3. ASSUME NEW c \in Conns, NEW p \in received'[c] PROVE Durable(p)'
    <3>1. CASE p \in received[c]
      BY <1>0, <1>1, <3>1 DEF DeliveredIsDurable, Durable, TypeOK
    <3>2. CASE p \notin received[c]
      <4>1. Reply(d) /\ p \in Publications(d)
        <5>1. received' # received
          BY <2>3, <3>2
        <5>2. Reply(d)
          BY <1>6, <5>1 DEF SessionStep, SubscribeBegin, Subscribe, Recover,
                            ReplyFails
        <5>3. received' = [received EXCEPT ![d] = @ \cup Publications(d)]
          BY <5>1, <5>2 DEF Reply
        <5> QED
          BY <1>0, <2>3, <3>2, <5>2, <5>3 DEF TypeOK
      <4>2. \E i \in DOMAIN stream : stream[i] = p
        BY <4>1 DEF Publications
      <4>3. Durable(p) /\ p \in Publishers
        BY <1>0, <4>2 DEF Durable, TypeOK
      <4> QED
        BY <1>1, <4>3
    <3> QED
      BY <3>1, <3>2
  <2>4. DeliveredIsDurable'
    BY <2>3 DEF DeliveredIsDurable, Durable
  <2> QED
    BY <1>0, <2>2, <2>4 DEF DurableInv
<1>7. ASSUME NEW u \in Users, RoomStep(u) PROVE DurableInv'
  BY <1>3, <1>7 DEF RoomStep, Unsubscribe, AddMember, RemoveMember, Reap
<1>8. CASE DeleteRoom \/ UNCHANGED vars
  BY <1>3, <1>8 DEF DeleteRoom, vars
<1> QED
  BY <1>4, <1>5, <1>6, <1>7, <1>8 DEF Next

(* What one client has seen another can recover: a message is delivered     *)
(* only after its XADD has succeeded, or is not to be stored at all.        *)
THEOREM OnlyStoredIsDelivered == Spec => []DeliveredIsDurable
<1>1. Init => DurableInv
  <2> SUFFICES ASSUME Init PROVE DurableInv
    OBVIOUS
  <2>1. /\ \A p \in Publishers : pub[p] = "idle"
        /\ tasks = {}
        /\ \A c \in Conns : received[c] = {}
    BY DEF Init
  <2> QED
    BY <2>1, InitType DEF DurableInv, Stored, DeliveredIsDurable
<1>2. DurableInv /\ [Next]_vars => DurableInv'
  BY DurableStep
<1>3. DurableInv => DeliveredIsDurable
  BY DEF DurableInv
<1> QED
  BY <1>1, <1>2, <1>3, PTL DEF Spec

-----------------------------------------------------------------------------
(* Connections that leave the map are closed *)

(* The inductive step of ReplacedAreClosed: each of the four calls that     *)
(* take a connection out of the map closes it first.                        *)
LEMMA ClosedStep ==
  ASSUME TypeOK, ReplacedAreClosed, [Next]_vars PROVE ReplacedAreClosed'
<1> USE RoomAssumption
<1> SUFFICES ASSUME NEW c \in Conns, Settled(c)'
             PROVE  c \in Online' \/ c \in closed'
  BY DEF ReplacedAreClosed, Settled
<1>1. ASSUME Settled(c), c \in Online => c \in Online' \/ c \in closed',
             closed \subseteq closed'
      PROVE  c \in Online' \/ c \in closed'
  BY <1>1 DEF ReplacedAreClosed, Settled
<1>2. ASSUME UNCHANGED <<subscribers, closed>>, Settled(c)
      PROVE  c \in Online' \/ c \in closed'
  BY <1>1, <1>2 DEF Online
<1>3. ASSUME NEW u \in Users, DropUser(u), sess' = sess
      PROVE  c \in Online' \/ c \in closed'
  <2>1. closed \subseteq closed' /\ Settled(c)
    BY <1>3 DEF DropUser, Settled
  <2>2. ASSUME c \in Online PROVE c \in Online' \/ c \in closed'
    <3>1. subscribers[UserOf[c]] = c /\ UserOf[c] \in Users
      BY <2>2 DEF Online
    <3>2. CASE UserOf[c] = u
      BY <1>3, <3>1, <3>2 DEF DropUser
    <3>3. CASE UserOf[c] # u
      BY <1>3, <3>1, <3>3 DEF DropUser, Online, TypeOK
    <3> QED
      BY <3>2, <3>3
  <2> QED
    BY <1>1, <2>1, <2>2
<1>4. ASSUME NEW u \in Users, RoomStep(u) PROVE c \in Online' \/ c \in closed'
  <2>1. CASE AddMember(u)
    BY <1>2, <2>1 DEF AddMember, Settled
  <2>2. CASE Unsubscribe(u) \/ RemoveMember(u) \/ Reap(u)
    BY <1>3, <2>2 DEF Unsubscribe, RemoveMember, Reap
  <2> QED
    BY <1>4, <2>1, <2>2 DEF RoomStep
<1>5. CASE DeleteRoom
  <2>1. sess' = sess /\ closed \subseteq closed'
    BY <1>5 DEF DeleteRoom
  <2>2. ASSUME c \in Online PROVE c \in closed'
    <3>1. subscribers[UserOf[c]] = c /\ UserOf[c] \in Users /\ c # NoConn
      BY <2>2 DEF Online
    <3>2. Subscribed(UserOf[c])
      BY <3>1 DEF Subscribed
    <3> QED
      BY <1>5, <3>1, <3>2 DEF DeleteRoom
  <2> QED
    BY <1>1, <2>1, <2>2 DEF Settled
<1>6. ASSUME NEW p \in Publishers, PublishStep(p)
      PROVE  c \in Online' \/ c \in closed'
  BY <1>2, <1>6 DEF PublishStep, PublishBegin, Persist, PersistFails, Broadcast,
                    BroadcastReturn, BroadcastTimeout, Settled
<1>7. ASSUME NEW t \in tasks, DeliveryStep(t)
      PROVE  c \in Online' \/ c \in closed'
  BY <1>2, <1>7 DEF DeliveryStep, DeliverOk, DeliverError, DeliverPanic, Settled
<1>8. ASSUME NEW d \in Conns, SessionStep(d)
      PROVE  c \in Online' \/ c \in closed'
  <2>0. stream \in Seq(Publishers) /\ UserOf[c] \in Users /\ UserOf[d] \in Users
    BY DEF TypeOK
  <2>1. ASSUME NEW r \in BOOLEAN, NEW from \in 0 .. Len(stream),
               SubscribeBegin(d, r, from)
        PROVE  c \in Online' \/ c \in closed'
    <3>1. c # d
      BY <2>1 DEF SubscribeBegin, Settled, TypeOK, NoSession
    <3> QED
      BY <1>2, <2>1, <3>1 DEF SubscribeBegin, Settled, TypeOK
  <2>2. CASE Subscribe(d)
    <3>1. CASE c = d
      BY <2>0, <2>2, <3>1 DEF Subscribe, Online, TypeOK
    <3>2. CASE c # d
      <4>1. Settled(c) /\ closed \subseteq closed'
        BY <2>2, <3>2 DEF Subscribe, Settled, TypeOK
      <4>2. ASSUME c \in Online PROVE c \in Online' \/ c \in closed'
        <5>1. subscribers[UserOf[c]] = c
          BY <4>2 DEF Online
        <5>2. CASE UserOf[c] = UserOf[d]
          BY <2>2, <5>1, <5>2 DEF Subscribe
        <5>3. CASE UserOf[c] # UserOf[d]
          BY <2>0, <2>2, <5>1, <5>3 DEF Subscribe, Online, TypeOK
        <5> QED
          BY <5>2, <5>3
      <4> QED
        BY <1>1, <4>1, <4>2
    <3> QED
      BY <3>1, <3>2
  <2>3. CASE Recover(d) \/ Reply(d) \/ ReplyFails(d)
    <3>1. Settled(c)
      <4>1. CASE c = d
        BY <2>3, <4>1 DEF Recover, Reply, ReplyFails, Settled
      <4>2. CASE c # d
        BY <2>3, <4>2 DEF Recover, Reply, ReplyFails, Settled, TypeOK
      <4> QED
        BY <4>1, <4>2
    <3> QED
      BY <1>2, <2>3, <3>1 DEF Recover, Reply, ReplyFails
  <2>4. 0 \in 0 .. Len(stream) /\ TRUE \in BOOLEAN /\ FALSE \in BOOLEAN
    BY <2>0
  <2> QED
    BY <1>8, <2>1, <2>2, <2>3, <2>4 DEF SessionStep
<1>9. CASE UNCHANGED vars
  BY <1>2, <1>9 DEF vars, Settled
<1> QED
  BY <1>4, <1>5, <1>6, <1>7, <1>8, <1>9 DEF Next

(* No connection leaks, whichever call took it out of the map and however   *)
(* the calls are interleaved.                                               *)
THEOREM NoConnectionLeaks == Spec => []ReplacedAreClosed
<1>1. Init => TypeOK /\ ReplacedAreClosed
  <2> SUFFICES ASSUME Init PROVE TypeOK /\ ReplacedAreClosed
    OBVIOUS
  <2>1. \A c \in Conns : sess[c].pc = "idle"
    BY DEF Init, NoSession
  <2> QED
    BY <2>1, InitType DEF ReplacedAreClosed
<1>2. TypeOK /\ ReplacedAreClosed /\ [Next]_vars => TypeOK' /\ ReplacedAreClosed'
  BY TypeStep, ClosedStep
<1> QED
  BY <1>1, <1>2, PTL DEF Spec

-----------------------------------------------------------------------------
(* A Publish that returned accounts for everybody *)

(* The goroutine that delivers p to c runs, or has appended its result. *)
Outcome(p, c) ==
  \/ Skips(p, UserOf[c])
  \/ \E t \in tasks : t.p = p /\ t.c = c
  \/ p \in received[c] /\ <<UserOf[c], "success">> \in results[p]
  \/ <<UserOf[c], "failed">> \in results[p]

(* Goroutines of p run only while Broadcast waits for them or has given up. *)
Running == \A t \in tasks : pub[t.p] \in {"waiting", "timedout"}

Outcomes ==
  \A p \in Publishers : pub[p] \in {"waiting", "timedout", "returned"} =>
    \A c \in snap[p].conns : Outcome(p, c)

ReturnInv == TypeOK /\ Running /\ Outcomes /\ ReturnedAccounts

(* A step that is not one of p's own, and neither takes a goroutine or a    *)
(* result away nor touches the copies of the maps, keeps what holds of p.   *)
LEMMA OutcomeStays ==
  ASSUME NEW p \in Publishers, NEW c \in Conns, Outcome(p, c),
         \A t \in tasks : t.p = p /\ t.c = c =>
            \/ \E s \in tasks' : s.p = p /\ s.c = c
            \/ p \in received'[c] /\ <<UserOf[c], "success">> \in results'[p]
            \/ <<UserOf[c], "failed">> \in results'[p],
         received[c] \subseteq received'[c],
         results[p] \subseteq results'[p]
  PROVE  Outcome(p, c)'
BY DEF Outcome, Skips

(* The inductive step of ReturnInv: one step per kind of action. *)
LEMMA ReturnStep == ASSUME ReturnInv, [Next]_vars PROVE ReturnInv'
<1> USE RoomAssumption
<1>0. TypeOK /\ TypeOK' /\ Running /\ Outcomes /\ ReturnedAccounts
  BY TypeStep DEF ReturnInv
<1>1. \A t \in tasks : t \in Task /\ t.p \in Publishers /\ t.c \in Conns
  BY <1>0 DEF TypeOK, Task
<1>2. \A p \in Publishers : snap[p].conns \subseteq Conns
  BY <1>0 DEF TypeOK
<1>3. ASSUME NEW p \in Publishers, snap'[p] = snap[p],
             pub'[p] = "returned" => pub[p] = "returned",
             pub'[p] \in {"waiting", "timedout", "returned"} =>
               pub[p] \in {"waiting", "timedout", "returned"},
             results[p] \subseteq results'[p],
             \A c \in Conns : received[c] \subseteq received'[c],
             \A t \in tasks : t.p = p =>
               \/ \E s \in tasks' : s.p = p /\ s.c = t.c
               \/ p \in received'[t.c]
                    /\ <<UserOf[t.c], "success">> \in results'[p]
               \/ <<UserOf[t.c], "failed">> \in results'[p]
      PROVE  /\ pub'[p] \in {"waiting", "timedout", "returned"} =>
                  \A c \in snap'[p].conns : Outcome(p, c)'
             /\ pub'[p] = "returned" =>
                  /\ \A c \in snap'[p].conns : ~Skips(p, UserOf[c]) =>
                       p \in received'[c] \/ <<UserOf[c], "failed">> \in results'[p]
                  /\ \A u \in snap'[p].members : ~Skips(p, u) =>
                       \E s \in Statuses : <<u, s>> \in results'[p]
  <2>1. ASSUME pub'[p] \in {"waiting", "timedout", "returned"},
               NEW c \in snap'[p].conns
        PROVE  Outcome(p, c)'
    <3>1. c \in Conns /\ Outcome(p, c)
      BY <1>0, <1>2, <1>3, <2>1 DEF Outcomes
    <3>2. \A t \in tasks : t.p = p /\ t.c = c =>
            \/ \E s \in tasks' : s.p = p /\ s.c = c
            \/ p \in received'[c] /\ <<UserOf[c], "success">> \in results'[p]
            \/ <<UserOf[c], "failed">> \in results'[p]
      BY <1>3
    <3>3. received[c] \subseteq received'[c] /\ results[p] \subseteq results'[p]
      BY <1>3, <3>1
    <3> QED
      BY <3>1, <3>2, <3>3, OutcomeStays
  <2>2. CASE pub'[p] = "returned"
    <3>1. /\ \A c \in snap[p].conns : ~Skips(p, UserOf[c]) =>
               p \in received[c] \/ <<UserOf[c], "failed">> \in results[p]
          /\ \A u \in snap[p].members : ~Skips(p, u) =>
               \E s \in Statuses : <<u, s>> \in results[p]
      BY <1>0, <1>3, <2>2 DEF ReturnedAccounts
    <3>2. \A c \in snap[p].conns : received[c] \subseteq received'[c]
      BY <1>2, <1>3
    <3>3. snap'[p] = snap[p] /\ results[p] \subseteq results'[p]
      BY <1>3
    <3>4. \A c \in snap'[p].conns : ~Skips(p, UserOf[c]) =>
            p \in received'[c] \/ <<UserOf[c], "failed">> \in results'[p]
      BY <3>1, <3>2, <3>3
    <3>5. \A u \in snap'[p].members : ~Skips(p, u) =>
            \E s \in Statuses : <<u, s>> \in results'[p]
      BY <3>1, <3>3
    <3> QED
      BY <2>1, <3>4, <3>5
  <2> QED
    BY <2>1, <2>2
<1>4. ASSUME UNCHANGED <<snap, pub, tasks, results>>,
             \A c \in Conns : received[c] \subseteq received'[c]
      PROVE  ReturnInv'
  <2>1. Running'
    BY <1>0, <1>4 DEF Running
  <2>2. Outcomes' /\ ReturnedAccounts'
    BY <1>3, <1>4 DEF Outcomes, ReturnedAccounts, Skips
  <2> QED
    BY <1>0, <2>1, <2>2 DEF ReturnInv
<1>5. ASSUME NEW d \in Conns, SessionStep(d) PROVE ReturnInv'
  <2>1. UNCHANGED <<snap, pub, tasks, results>>
    BY <1>5 DEF SessionStep, SubscribeBegin, Subscribe, Recover, Reply, ReplyFails
  <2>2. received' \in {received, [received EXCEPT ![d] = @ \cup Publications(d)]}
    BY <1>5 DEF SessionStep, SubscribeBegin, Subscribe, Recover, Reply, ReplyFails
  <2>3. \A c \in Conns : received[c] \subseteq received'[c]
    <3>1. CASE received' = received
      BY <3>1
    <3>2. CASE received' = [received EXCEPT ![d] = @ \cup Publications(d)]
      BY <1>0, <3>2 DEF TypeOK
    <3> QED
      BY <2>2, <3>1, <3>2
  <2> QED
    BY <1>4, <2>1, <2>3
<1>6. ASSUME NEW u \in Users, RoomStep(u) PROVE ReturnInv'
  BY <1>4, <1>6 DEF RoomStep, Unsubscribe, AddMember, RemoveMember, Reap
<1>7. CASE DeleteRoom \/ UNCHANGED vars
  BY <1>4, <1>7 DEF DeleteRoom, vars
<1>8. ASSUME NEW t \in tasks, DeliveryStep(t) PROVE ReturnInv'
  <2>0. UNCHANGED <<snap, pub>> /\ t \in Task /\ t.p \in Publishers /\ t.c \in Conns
    BY <1>1, <1>8 DEF DeliveryStep, DeliverOk, DeliverError, DeliverPanic
  <2>1. /\ \A p \in Publishers : results[p] \subseteq results'[p]
        /\ \A c \in Conns : received[c] \subseteq received'[c]
        /\ \A s \in tasks : s # t => s \in tasks'
        /\ \A s \in tasks' : s \in tasks \/ s.p = t.p
        /\ \/ \E s \in tasks' : s.p = t.p /\ s.c = t.c
           \/ t.p \in received'[t.c]
                /\ <<UserOf[t.c], "success">> \in results'[t.p]
           \/ <<UserOf[t.c], "failed">> \in results'[t.p]
    <3>1. CASE DeliverOk(t)
      <4>1. /\ tasks' = tasks \ {t}
            /\ results' = [results EXCEPT ![t.p] = @ \cup {<<UserOf[t.c], "success">>}]
            /\ received' = [received EXCEPT ![t.c] = @ \cup {t.p}]
        BY <3>1 DEF DeliverOk, Report
      <4> QED
        BY <1>0, <2>0, <4>1 DEF TypeOK
    <3>2. CASE DeliverError(t) /\ t.attempt < MaxAttempts - 1
      <4>1. PICK s : s = [t EXCEPT !.attempt = @ + 1]
        OBVIOUS
      <4>2. s.p = t.p /\ s.c = t.c
        BY <2>0, <4>1 DEF Task
      <4>3. tasks' = (tasks \ {t}) \cup {s} /\ UNCHANGED <<results, received>>
        BY <3>2, <4>1 DEF DeliverError
      <4> QED
        BY <4>2, <4>3
    <3>3. CASE \/ DeliverPanic(t)
               \/ DeliverError(t) /\ ~(t.attempt < MaxAttempts - 1)
      <4>1. /\ tasks' = tasks \ {t}
            /\ results' = [results EXCEPT ![t.p] = @ \cup {<<UserOf[t.c], "failed">>}]
            /\ received' = received
        BY <3>3 DEF DeliverPanic, DeliverError, Report
      <4> QED
        BY <1>0, <2>0, <4>1 DEF TypeOK
    <3>4. DeliverOk(t) \/ DeliverError(t) \/ DeliverPanic(t)
      BY <1>8 DEF DeliveryStep
    <3> QED
      BY <3>1, <3>2, <3>3, <3>4
  <2>2. Running'
    BY <1>0, <2>0, <2>1 DEF Running
  <2>3. ASSUME NEW p \in Publishers, NEW s \in tasks, s.p = p
        PROVE  \/ \E r \in tasks' : r.p = p /\ r.c = s.c
               \/ p \in received'[s.c]
                    /\ <<UserOf[s.c], "success">> \in results'[p]
               \/ <<UserOf[s.c], "failed">> \in results'[p]
    <3>1. CASE s = t
      BY <2>1, <2>3, <3>1
    <3>2. CASE s # t
      BY <2>1, <2>3, <3>2
    <3> QED
      BY <3>1, <3>2
  <2>4. Outcomes' /\ ReturnedAccounts'
    BY <1>3, <2>0, <2>1, <2>3 DEF Outcomes, ReturnedAccounts, Skips
  <2> QED
    BY <1>0, <2>2, <2>4 DEF ReturnInv
<1>9. ASSUME NEW p \in Publishers, PublishStep(p) PROVE ReturnInv'
  <2>0. /\ received' = received /\ tasks \subseteq tasks'
        /\ \A q \in Publishers \ {p} :
             pub'[q] = pub[q] /\ snap'[q] = snap[q] /\ results'[q] = results[q]
    BY <1>0, <1>9 DEF PublishStep, PublishBegin, Persist, PersistFails, Broadcast,
                      BroadcastReturn, BroadcastTimeout, TypeOK
  <2>1. /\ pub[p] = "waiting" => pub'[p] \in {"returned", "timedout"}
        /\ pub[p] # "timedout" /\ pub[p] # "returned"
    BY <1>0, <1>9 DEF PublishStep, PublishBegin, Persist, PersistFails, Broadcast,
                      BroadcastReturn, BroadcastTimeout, TypeOK
  <2>2. Running'
    <3> SUFFICES ASSUME NEW t \in tasks' PROVE pub'[t.p] \in {"waiting", "timedout"}
      BY DEF Running
    <3>1. CASE t \in tasks /\ t.p # p
      BY <1>0, <1>1, <2>0, <3>1 DEF Running
    <3>2. CASE t \in tasks /\ t.p = p
      <4>1. pub[p] = "waiting"
        BY <1>0, <2>1, <3>2 DEF Running
      <4>2. BroadcastTimeout(p)
        BY <1>9, <3>2, <4>1 DEF PublishStep, PublishBegin, Persist, PersistFails,
                                Broadcast, BroadcastReturn
      <4> QED
        BY <1>0, <3>2, <4>2 DEF BroadcastTimeout, TypeOK
    <3>3. CASE t \notin tasks
      <4>1. Broadcast(p)
        BY <1>9, <3>3 DEF PublishStep, PublishBegin, Persist, PersistFails,
                          BroadcastReturn, BroadcastTimeout
      <4>2. t.p = p
        BY <3>3, <4>1 DEF Broadcast
      <4> QED
        BY <1>0, <4>1, <4>2 DEF Broadcast, TypeOK
    <3> QED
      BY <3>1, <3>2, <3>3
  <2> DEFINE Good(q) ==
        /\ pub[q] \in {"waiting", "timedout", "returned"} =>
             \A c \in snap[q].conns : Outcome(q, c)
        /\ pub[q] = "returned" =>
             /\ \A c \in snap[q].conns : ~Skips(q, UserOf[c]) =>
                  q \in received[c] \/ <<UserOf[c], "failed">> \in results[q]
             /\ \A u \in snap[q].members : ~Skips(q, u) =>
                  \E s \in Statuses : <<u, s>> \in results[q]
  <2>3. ASSUME NEW q \in Publishers, q # p PROVE Good(q)'
    BY <1>3, <2>0, <2>3 DEF Skips
  <2>4. Good(p)'
    <3>1. CASE PublishBegin(p) \/ Persist(p) \/ PersistFails(p)
      <4>1. pub'[p] \notin {"waiting", "timedout", "returned"}
        BY <1>0, <3>1 DEF PublishBegin, Persist, PersistFails, TypeOK
      <4> QED
        BY <4>1
    <3>2. CASE Broadcast(p)
      <4>1. pub'[p] = "waiting" /\ snap'[p] = [conns |-> Online, members |-> members]
        BY <1>0, <3>2 DEF Broadcast, TypeOK
      <4>2. ASSUME NEW c \in Online PROVE Outcome(p, c)'
        <5>1. CASE Skips(p, UserOf[c])
          BY <5>1 DEF Outcome, Skips
        <5>2. CASE ~Skips(p, UserOf[c])
          <6>1. PICK t : t = [p |-> p, c |-> c, attempt |-> 0]
            OBVIOUS
          <6>2. t \in tasks' /\ t.p = p /\ t.c = c
            BY <3>2, <5>2, <6>1 DEF Broadcast
          <6> QED
            BY <6>2 DEF Outcome
        <5> QED
          BY <5>1, <5>2
      <4> QED
        BY <4>1, <4>2
    <3>3. CASE BroadcastReturn(p) \/ BroadcastTimeout(p)
      <4>1. /\ pub[p] = "waiting" /\ UNCHANGED <<snap, tasks, received>>
            /\ results' = [results EXCEPT ![p] = @ \cup OfflineOf(p)]
        BY <3>3 DEF BroadcastReturn, BroadcastTimeout
      <4>2. results'[p] = results[p] \cup OfflineOf(p)
        BY <1>0, <4>1 DEF TypeOK
      <4>3. \A c \in snap[p].conns : c \in Conns /\ Outcome(p, c)
        BY <1>0, <1>2, <4>1 DEF Outcomes
      <4>4. ASSUME NEW c \in snap[p].conns PROVE Outcome(p, c)'
        <5>1. c \in Conns /\ Outcome(p, c)
          BY <4>3
        <5> QED
          BY <4>1, <4>2, <5>1 DEF Outcome, Skips
      <4>5. CASE BroadcastTimeout(p)
        <5>1. pub'[p] = "timedout"
          BY <1>0, <4>5 DEF BroadcastTimeout, TypeOK
        <5> QED
          BY <4>1, <4>4, <5>1
      <4>6. CASE BroadcastReturn(p)
        <5>1. ASSUME NEW c \in snap[p].conns, ~Skips(p, UserOf[c])
              PROVE  \/ p \in received[c] /\ <<UserOf[c], "success">> \in results[p]
                     \/ <<UserOf[c], "failed">> \in results[p]
          BY <4>3, <4>6, <5>1 DEF Outcome, BroadcastReturn
        <5>2. ASSUME NEW u \in snap[p].members, ~Skips(p, u)
              PROVE  \E s \in Statuses : <<u, s>> \in results'[p]
          <6>1. CASE \A c \in snap[p].conns : UserOf[c] # u
            <7>1. <<u, "offline">> \in OfflineOf(p)
              BY <5>2, <6>1 DEF OfflineOf
            <7> QED
              BY <4>2, <7>1 DEF Statuses
          <6>2. ASSUME NEW c \in snap[p].conns, UserOf[c] = u
                PROVE  \E s \in Statuses : <<u, s>> \in results'[p]
            BY <4>2, <5>1, <5>2, <6>2 DEF Statuses
          <6> QED
            BY <6>1, <6>2
        <5>3. ASSUME NEW c \in snap[p].conns, ~Skips(p, UserOf[c])
              PROVE  p \in received'[c] \/ <<UserOf[c], "failed">> \in results'[p]
          BY <4>1, <4>2, <5>1, <5>3
        <5> QED
          BY <4>1, <4>4, <5>2, <5>3 DEF Skips
      <4> QED
        BY <3>3, <4>5, <4>6
    <3> QED
      BY <1>9, <3>1, <3>2, <3>3 DEF PublishStep
  <2>5. \A q \in Publishers : Good(q)'
    BY <2>3, <2>4
  <2>6. Outcomes' /\ ReturnedAccounts'
    BY <2>5 DEF Outcomes, ReturnedAccounts
  <2> QED
    BY <1>0, <2>2, <2>6 DEF ReturnInv
<1> QED
  BY <1>5, <1>6, <1>7, <1>8, <1>9 DEF Next

(* A Publish that returned without a timeout tells the truth about every    *)
(* user it copied: Broadcast waits for all of its goroutines, and each of   *)
(* them reports.                                                            *)
THEOREM PublishAccounts == Spec => []ReturnedAccounts
<1>1. Init => ReturnInv
  <2> SUFFICES ASSUME Init PROVE ReturnInv
    OBVIOUS
  <2>1. tasks = {} /\ \A p \in Publishers : pub[p] = "idle"
    BY DEF Init
  <2> QED
    BY <2>1, InitType DEF ReturnInv, Running, Outcomes, ReturnedAccounts
<1>2. ReturnInv /\ [Next]_vars => ReturnInv'
  BY ReturnStep
<1>3. ReturnInv => ReturnedAccounts
  BY DEF ReturnInv
<1> QED
  BY <1>1, <1>2, <1>3, PTL DEF Spec
=============================================================================
