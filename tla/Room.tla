-------------------------------- MODULE Room --------------------------------
(***************************************************************************)
(* One room of the Redis-backed relay: its subscriber and presence maps,   *)
(* the Publish path (XADD, snapshot, one delivery goroutine per            *)
(* subscriber), the subscribe-then-recover path of the client handler and  *)
(* the deletion of the room.                                               *)
(*                                                                         *)
(* Source: engine/room.go, engine/relay.go, and the subscription part of   *)
(* engine/handler.go.  A critical section of r.mu is one action; what      *)
(* happens between two critical sections is interleaved.  A connection is  *)
(* a Subscriber object whose Close returns at once (the re-entrant Close   *)
(* of ClientHandler is the subject of ClientSession).                      *)
(*                                                                         *)
(* A message is identified with the Publish call that sends it, and the ID *)
(* Redis gives it with its position in the stream.                         *)
(***************************************************************************)
EXTENDS Naturals, Sequences, FiniteSets

CONSTANTS
  Users,          \* user IDs
  Conns,          \* Subscriber objects
  NoConn,         \* "no entry in the map"
  UserOf,         \* UserOf[c]: the user ID connection c reports
  Publishers,     \* Publish calls, each sending one message
  SenderOf,       \* SenderOf[p]: the SenderID of the message of p
  Ephemeral,      \* calls with opts.Persist = false
  Echo,           \* calls with opts.SkipSender = false
  RecoveryLimit,  \* RecoveryOptions.Limit of the handler (100)
  MaxFaults,      \* bound: Receive errors and panics, Redis errors
  MaxAdmin,       \* bound: Unsubscribe, AddMember, RemoveMember calls
  MaxSubscribes   \* bound: handleSubscribe calls

ASSUME RoomAssumption ==
  /\ UserOf \in [Conns -> Users]
  /\ SenderOf \in [Publishers -> Users]
  /\ NoConn \notin Conns
  /\ Ephemeral \subseteq Publishers
  /\ Echo \subseteq Publishers
  /\ RecoveryLimit \in Nat \ {0}
  /\ MaxFaults \in Nat /\ MaxAdmin \in Nat /\ MaxSubscribes \in Nat

VARIABLES
  open,         \* the room is registered in Relay.rooms
  subscribers,  \* Room.subscribers
  presence,     \* Room.presence: the connection the entry describes
  members,      \* Room.config.Members
  closed,       \* connections whose Close has been called
  stream,       \* the Redis stream of the room; entry i has ID i
  pub,          \* pub[p]: where the Publish call p is
  tasks,        \* the running delivery goroutines
  results,      \* results[p]: what the goroutines of p have appended
  snap,         \* snap[p]: the subscribers and members Broadcast copied
  received,     \* received[c]: the messages c has been handed
  reapers,      \* reapers[u]: pending "go r.Unsubscribe(u)" goroutines
  sess,         \* sess[c]: where handleSubscribe of c is
  budget        \* what is left of the bounds

vars == <<open, subscribers, presence, members, closed, stream, pub, tasks,
          results, snap, received, reapers, sess, budget>>

MaxAttempts == 3

Statuses == {"success", "failed", "offline"}

PubStates == {"idle", "found", "persisted", "waiting", "returned", "timedout",
              "error"}

SessStates == {"idle", "found", "subscribed", "replying", "done"}

Task == [p : Publishers, c : Conns, attempt : 0 .. MaxAttempts - 1]

(* seen is a history variable: the length of the stream at room.Subscribe. *)
Session == [pc : SessStates, recover : BOOLEAN, from : Nat, hi : Nat,
            recovered : BOOLEAN, seen : Nat]

NoSession == [pc |-> "idle", recover |-> FALSE, from |-> 0, hi |-> 0,
              recovered |-> FALSE, seen |-> 0]

TypeOK ==
  /\ open \in BOOLEAN
  /\ subscribers \in [Users -> Conns \cup {NoConn}]
  /\ presence \in [Users -> Conns \cup {NoConn}]
  /\ members \subseteq Users
  /\ closed \subseteq Conns
  /\ stream \in Seq(Publishers)
  /\ pub \in [Publishers -> PubStates]
  /\ tasks \subseteq Task
  /\ results \in [Publishers -> SUBSET (Users \X Statuses)]
  /\ snap \in [Publishers -> [conns : SUBSET Conns, members : SUBSET Users]]
  /\ received \in [Conns -> SUBSET Publishers]
  /\ reapers \in [Users -> Nat]
  /\ sess \in [Conns -> Session]
  /\ budget \in [faults : Nat, admin : Nat, subscribes : Nat]

Init ==
  /\ open = TRUE
  /\ subscribers = [u \in Users |-> NoConn]
  /\ presence = [u \in Users |-> NoConn]
  /\ members = {}
  /\ closed = {}
  /\ stream = << >>
  /\ pub = [p \in Publishers |-> "idle"]
  /\ tasks = {}
  /\ results = [p \in Publishers |-> {}]
  /\ snap = [p \in Publishers |-> [conns |-> {}, members |-> {}]]
  /\ received = [c \in Conns |-> {}]
  /\ reapers = [u \in Users |-> 0]
  /\ sess = [c \in Conns |-> NoSession]
  /\ budget = [faults |-> MaxFaults, admin |-> MaxAdmin,
               subscribes |-> MaxSubscribes]

-----------------------------------------------------------------------------
(* The room's maps. *)

Subscribed(u) == subscribers[u] # NoConn

Online == {c \in Conns : subscribers[UserOf[c]] = c}

Fault == /\ budget.faults > 0
         /\ budget' = [budget EXCEPT !.faults = @ - 1]

Admin == /\ budget.admin > 0
         /\ budget' = [budget EXCEPT !.admin = @ - 1]

(* Mutant of DropUser: the entries go, the connection stays open. *)
DropUserNoClose(u) ==
  /\ subscribers' = [subscribers EXCEPT ![u] = NoConn]
  /\ presence' = [presence EXCEPT ![u] = NoConn]
  /\ UNCHANGED closed

(* Close the connection of u, if any, and delete both of its entries. *)
DropUser(u) ==
  /\ closed' = closed \cup ({subscribers[u]} \ {NoConn})
  /\ subscribers' = [subscribers EXCEPT ![u] = NoConn]
  /\ presence' = [presence EXCEPT ![u] = NoConn]

(* Room.Unsubscribe, called by a user of the library or of the relay. *)
Unsubscribe(u) ==
  /\ Admin
  /\ DropUser(u)
  /\ UNCHANGED <<open, members, stream, pub, tasks, results, snap, received,
                 reapers, sess>>

(* Room.AddMember *)
AddMember(u) ==
  /\ Admin
  /\ members' = members \cup {u}
  /\ UNCHANGED <<open, subscribers, presence, closed, stream, pub, tasks,
                 results, snap, received, reapers, sess>>

(* Room.RemoveMember: the member is also unsubscribed. *)
RemoveMember(u) ==
  /\ Admin
  /\ members' = members \ {u}
  /\ DropUser(u)
  /\ UNCHANGED <<open, stream, pub, tasks, results, snap, received,
                 reapers, sess>>

(* Relay.DeleteRoom and Room.Close; the listener's Stop is StreamListener's. *)
DeleteRoom ==
  /\ open
  /\ open' = FALSE
  /\ closed' = closed \cup {subscribers[u] : u \in {v \in Users : Subscribed(v)}}
  /\ subscribers' = [u \in Users |-> NoConn]
  /\ presence' = [u \in Users |-> NoConn]
  /\ UNCHANGED <<members, stream, pub, tasks, results, snap, received,
                 reapers, sess, budget>>

-----------------------------------------------------------------------------
(* Publish *)

(* GetRoom at the head of Publish. *)
PublishBegin(p) ==
  /\ pub[p] = "idle"
  /\ pub' = [pub EXCEPT ![p] = IF open THEN "found" ELSE "error"]
  /\ UNCHANGED <<open, subscribers, presence, members, closed, stream, tasks,
                 results, snap, received, reapers, sess, budget>>

(* publishToStream succeeds; an ephemeral message skips it. *)
Persist(p) ==
  /\ pub[p] = "found"
  /\ pub' = [pub EXCEPT ![p] = "persisted"]
  /\ stream' = IF p \in Ephemeral THEN stream ELSE Append(stream, p)
  /\ UNCHANGED <<open, subscribers, presence, members, closed, tasks, results,
                 snap, received, reapers, sess, budget>>

(* Mutant of PersistFails: the error of XADD is ignored. *)
PersistIgnoresError(p) ==
  /\ pub[p] = "found"
  /\ p \notin Ephemeral
  /\ Fault
  /\ pub' = [pub EXCEPT ![p] = "persisted"]
  /\ stream' \in {stream, Append(stream, p)}
  /\ UNCHANGED <<open, subscribers, presence, members, closed, tasks, results,
                 snap, received, reapers, sess>>

(* XADD fails: Publish returns the error.  The entry may be in the stream   *)
(* all the same, when it is the reply that was lost.                        *)
PersistFails(p) ==
  /\ pub[p] = "found"
  /\ p \notin Ephemeral
  /\ Fault
  /\ pub' = [pub EXCEPT ![p] = "error"]
  /\ stream' \in {stream, Append(stream, p)}
  /\ UNCHANGED <<open, subscribers, presence, members, closed, tasks, results,
                 snap, received, reapers, sess>>

(* "opts.SkipSender && userID == msg.SenderID" *)
Skips(p, u) == p \notin Echo /\ u = SenderOf[p]

(* Broadcast copies the maps under RLock and starts the deliveries. *)
Broadcast(p) ==
  /\ pub[p] = "persisted"
  /\ pub' = [pub EXCEPT ![p] = "waiting"]
  /\ snap' = [snap EXCEPT ![p] = [conns |-> Online, members |-> members]]
  /\ tasks' = tasks \cup {[p |-> p, c |-> c, attempt |-> 0] :
                            c \in {d \in Online : ~Skips(p, UserOf[d])}}
  /\ UNCHANGED <<open, subscribers, presence, members, closed, stream, results,
                 received, reapers, sess, budget>>

Report(t, status) ==
  /\ tasks' = tasks \ {t}
  /\ results' = [results EXCEPT ![t.p] = @ \cup {<<UserOf[t.c], status>>}]

(* safeDeliver: Receive returns nil. *)
DeliverOk(t) ==
  /\ t.c \notin closed
  /\ Report(t, "success")
  /\ received' = [received EXCEPT ![t.c] = @ \cup {t.p}]
  /\ UNCHANGED <<open, subscribers, presence, members, closed, stream, pub,
                 snap, reapers, sess, budget>>

(* Mutant of DeliverError: no end to the retries. *)
DeliverErrorForever(t) ==
  /\ IF t.c \in closed THEN UNCHANGED budget ELSE Fault
  /\ tasks' = (tasks \ {t}) \cup {[t EXCEPT !.attempt = @ + 1]}
  /\ UNCHANGED <<open, subscribers, presence, members, closed, stream, pub,
                 results, snap, received, reapers, sess>>

(* safeDeliver: Receive returns an error, as a closed connection always     *)
(* does; retried until the third attempt.                                   *)
DeliverError(t) ==
  /\ IF t.c \in closed THEN UNCHANGED budget ELSE Fault
  /\ IF t.attempt < MaxAttempts - 1
       THEN /\ tasks' = (tasks \ {t}) \cup {[t EXCEPT !.attempt = @ + 1]}
            /\ UNCHANGED results
       ELSE Report(t, "failed")
  /\ UNCHANGED <<open, subscribers, presence, members, closed, stream, pub,
                 snap, received, reapers, sess>>

(* safeDeliver: Receive panics; the recovery starts "go r.Unsubscribe". *)
DeliverPanic(t) ==
  /\ Fault
  /\ Report(t, "failed")
  /\ reapers' = [reapers EXCEPT ![UserOf[t.c]] = @ + 1]
  /\ UNCHANGED <<open, subscribers, presence, members, closed, stream, pub,
                 snap, received, sess>>

(* The goroutine started by DeliverPanic reaches the room's lock. *)
Reap(u) ==
  /\ reapers[u] > 0
  /\ reapers' = [reapers EXCEPT ![u] = @ - 1]
  /\ DropUser(u)
  /\ UNCHANGED <<open, members, stream, pub, tasks, results, snap, received,
                 sess, budget>>

(* The results for members that were offline when the maps were copied. *)
OfflineOf(p) ==
  {<<u, "offline">> : u \in {m \in snap[p].members :
     /\ ~Skips(p, m)
     /\ \A c \in snap[p].conns : UserOf[c] # m}}

(* Mutant of BroadcastReturn: no wait for the goroutines. *)
BroadcastReturnEarly(p) ==
  /\ pub[p] = "waiting"
  /\ pub' = [pub EXCEPT ![p] = "returned"]
  /\ results' = [results EXCEPT ![p] = @ \cup OfflineOf(p)]
  /\ UNCHANGED <<open, subscribers, presence, members, closed, stream, tasks,
                 snap, received, reapers, sess, budget>>

(* Broadcast returns: every goroutine is done ... *)
BroadcastReturn(p) ==
  /\ pub[p] = "waiting"
  /\ \A t \in tasks : t.p # p
  /\ pub' = [pub EXCEPT ![p] = "returned"]
  /\ results' = [results EXCEPT ![p] = @ \cup OfflineOf(p)]
  /\ UNCHANGED <<open, subscribers, presence, members, closed, stream, tasks,
                 snap, received, reapers, sess, budget>>

(* Mutant of BroadcastTimeout: the select has no timeout arm. *)
BroadcastNoTimeout(p) ==
  /\ pub[p] = "waiting"
  /\ \A t \in tasks : t.p # p
  /\ pub' = [pub EXCEPT ![p] = "timedout"]
  /\ results' = [results EXCEPT ![p] = @ \cup OfflineOf(p)]
  /\ UNCHANGED <<open, subscribers, presence, members, closed, stream, tasks,
                 snap, received, reapers, sess, budget>>

(* ... or ten seconds have passed, or the context is cancelled; the         *)
(* goroutines go on appending to the slice that was returned.               *)
BroadcastTimeout(p) ==
  /\ pub[p] = "waiting"
  /\ \E t \in tasks : t.p = p
  /\ pub' = [pub EXCEPT ![p] = "timedout"]
  /\ results' = [results EXCEPT ![p] = @ \cup OfflineOf(p)]
  /\ UNCHANGED <<open, subscribers, presence, members, closed, stream, tasks,
                 snap, received, reapers, sess, budget>>

-----------------------------------------------------------------------------
(* handleSubscribe *)

(* GetOrCreateRoom returns this room; the request asks for recovery after   *)
(* the offset "from", or for none.                                          *)
SubscribeBegin(c, recover, from) ==
  /\ open
  /\ sess[c].pc \in {"idle", "done"}
  /\ budget.subscribes > 0
  /\ budget' = [budget EXCEPT !.subscribes = @ - 1]
  /\ sess' = [sess EXCEPT ![c] = [NoSession EXCEPT !.pc = "found",
                                    !.recover = recover, !.from = from]]
  /\ UNCHANGED <<open, subscribers, presence, members, closed, stream, pub,
                 tasks, results, snap, received, reapers>>

(* Room.Subscribe: an existing connection of the user is closed first. *)
Subscribe(c) ==
  /\ sess[c].pc = "found"
  /\ sess' = [sess EXCEPT ![c] = [@ EXCEPT !.pc = "subscribed",
                                             !.seen = Len(stream)]]
  /\ closed' = closed \cup ({subscribers[UserOf[c]]} \ {NoConn})
  /\ subscribers' = [subscribers EXCEPT ![UserOf[c]] = c]
  /\ presence' = [presence EXCEPT ![UserOf[c]] = c]
  /\ UNCHANGED <<open, members, stream, pub, tasks, results, snap, received,
                 reapers, budget>>

(* The last entry an XRANGE of at most RecoveryLimit entries returns. *)
LastRecovered(from) == IF Len(stream) <= from + RecoveryLimit
                         THEN Len(stream) ELSE from + RecoveryLimit

(* RecoverMessages: XRANGE (from + COUNT limit; an error is ignored. *)
Recover(c) ==
  /\ sess[c].pc = "subscribed"
  /\ LET hi == LastRecovered(sess[c].from) IN
     \/ /\ sess[c].recover
        /\ sess' = [sess EXCEPT ![c] = [@ EXCEPT !.pc = "replying", !.hi = hi,
                                            !.recovered = hi > sess[c].from]]
        /\ UNCHANGED budget
     \/ /\ sess[c].recover
        /\ Fault
        /\ sess' = [sess EXCEPT ![c] = [@ EXCEPT !.pc = "replying",
                                                   !.recover = FALSE]]
     \/ /\ ~sess[c].recover
        /\ sess' = [sess EXCEPT ![c] = [@ EXCEPT !.pc = "replying"]]
        /\ UNCHANGED budget
  /\ UNCHANGED <<open, subscribers, presence, members, closed, stream, pub,
                 tasks, results, snap, received, reapers>>

(* Mutant of Publications: the range skips the entry after the offset. *)
PublicationsOffByOne(c) ==
  {stream[i] : i \in {j \in DOMAIN stream :
                        sess[c].from + 1 < j /\ j <= sess[c].hi}}

(* The messages a recovered reply carries. *)
Publications(c) == {stream[i] : i \in {j \in DOMAIN stream :
                                          sess[c].from < j /\ j <= sess[c].hi}}

(* sendResult carries the recovered messages ... *)
Reply(c) ==
  /\ sess[c].pc = "replying"
  /\ c \notin closed
  /\ sess' = [sess EXCEPT ![c] = [@ EXCEPT !.pc = "done"]]
  /\ received' = IF sess[c].recovered
                   THEN [received EXCEPT ![c] = @ \cup Publications(c)]
                   ELSE received
  /\ UNCHANGED <<open, subscribers, presence, members, closed, stream, pub,
                 tasks, results, snap, reapers, budget>>

(* ... or fails, as it does on a closed transport. *)
ReplyFails(c) ==
  /\ sess[c].pc = "replying"
  /\ IF c \in closed THEN UNCHANGED budget ELSE Fault
  /\ sess' = [sess EXCEPT ![c] = [@ EXCEPT !.pc = "done", !.recover = FALSE,
                                             !.recovered = FALSE]]
  /\ UNCHANGED <<open, subscribers, presence, members, closed, stream, pub,
                 tasks, results, snap, received, reapers>>

-----------------------------------------------------------------------------
PublishStep(p) == \/ PublishBegin(p) \/ Persist(p) \/ PersistFails(p)
                  \/ Broadcast(p) \/ BroadcastReturn(p) \/ BroadcastTimeout(p)

DeliveryStep(t) == DeliverOk(t) \/ DeliverError(t) \/ DeliverPanic(t)

SessionStep(c) == \/ SubscribeBegin(c, FALSE, 0)
                  \/ \E from \in 0 .. Len(stream) : SubscribeBegin(c, TRUE, from)
                  \/ Subscribe(c) \/ Recover(c) \/ Reply(c) \/ ReplyFails(c)

RoomStep(u) == Unsubscribe(u) \/ AddMember(u) \/ RemoveMember(u) \/ Reap(u)

Next == \/ \E p \in Publishers : PublishStep(p)
        \/ \E t \in tasks : DeliveryStep(t)
        \/ \E c \in Conns : SessionStep(c)
        \/ \E u \in Users : RoomStep(u)
        \/ DeleteRoom

(***************************************************************************)
(* A goroutine that can run does run: the scheduler and Redis's replies    *)
(* give the steps of a Publish call that has begun weak fairness, and      *)
(* time.After gives the timeout the same.  Nothing is assumed of Receive,  *)
(* which may block for ever on a slow transport.                           *)
(***************************************************************************)
Fairness == \A p \in Publishers :
              WF_vars(Persist(p) \/ Broadcast(p) \/ BroadcastReturn(p)
                        \/ BroadcastTimeout(p))

Spec == Init /\ [][Next]_vars

FairSpec == Spec /\ Fairness

-----------------------------------------------------------------------------
(* Properties *)

(* No connection leaks: one that has been subscribed and is no longer in    *)
(* the subscriber map has been closed, whichever call took it out           *)
(* (Subscribe of the same user, Unsubscribe, RemoveMember, Close, or the    *)
(* goroutine of a panicked delivery).                                       *)
ReplacedAreClosed ==
  \A c \in Conns : sess[c].pc \in {"subscribed", "replying", "done"}
                     => c \in Online \/ c \in closed

(* The message of p is on its way to connection c, has reached it, or its   *)
(* failure has been or will be reported to the publisher.                   *)
Accounted(p, c) ==
  \/ pub[p] \in {"persisted", "error"}
  \/ Skips(p, UserOf[c])
  \/ \E t \in tasks : t.p = p /\ t.c = c
  \/ p \in received[c]
  \/ <<UserOf[c], "failed">> \in results[p]

(* Subscribe-then-recover leaves no gap: when the reply to a subscription   *)
(* with recovery has been sent and the recovery was not cut by the limit,   *)
(* every stream entry after the client's offset was in the reply or reached *)
(* the subscription (handler.go subscribes before it reads the stream,      *)
(* relay.go writes the stream before it copies the subscribers).            *)
NoGap ==
  \A c \in Online :
    sess[c].pc = "done" /\ sess[c].recover /\ sess[c].hi >= sess[c].seen =>
      \A i \in DOMAIN stream :
        i > sess[c].from => Accounted(stream[i], c)

(* A Publish that returned without a timeout tells the truth about every    *)
(* user: a connected one has the message or is reported failed, an absent   *)
(* member is reported offline.                                              *)
ReturnedAccounts ==
  \A p \in Publishers : pub[p] = "returned" =>
    /\ \A c \in snap[p].conns : ~Skips(p, UserOf[c]) =>
         p \in received[c] \/ <<UserOf[c], "failed">> \in results[p]
    /\ \A u \in snap[p].members : ~Skips(p, u) =>
         \E s \in Statuses : <<u, s>> \in results[p]

(* A message is handed to a connection live or in a reply only if it is in  *)
(* the stream or is ephemeral: what one client saw another can recover.     *)
DeliveredIsDurable ==
  \A c \in Conns : \A p \in received[c] :
    p \in Ephemeral \/ \E i \in DOMAIN stream : stream[i] = p

(* Every Publish call that found the room returns, however long a Receive   *)
(* blocks (the select of Broadcast has a ten second arm).                   *)
PublishReturns ==
  \A p \in Publishers :
    pub[p] = "found" ~> pub[p] \in {"returned", "timedout", "error"}
=============================================================================
