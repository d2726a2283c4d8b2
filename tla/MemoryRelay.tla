----------------------------- MODULE MemoryRelay -----------------------------
(***************************************************************************)
(* One room of the in-memory relay: Publish (number, store, broadcast),    *)
(* the subscriber map, and a client that subscribes and then calls         *)
(* RecoverAndDeliver, which reads the ring buffer.                         *)
(*                                                                         *)
(* Source: engine/memory_relay.go.  A critical section of the room's or of *)
(* the buffer's lock is one action.  A message is identified with the      *)
(* Publish call that sends it, or with the record that is loaded from      *)
(* external storage; its ID has an atomically incremented number in it and *)
(* is unique.  The presence map has the keys of the subscriber map in      *)
(* every critical section and is left out.  The three attempts of a        *)
(* delivery are one step: only their outcome is used.                      *)
(***************************************************************************)
EXTENDS Integers, Sequences, FiniteSets

CONSTANTS
  Publishers,    \* Publish calls
  Ephemeral,     \* those with opts.Persist = false
  Skip,          \* <<p, u>>: call p has SkipSender, and u is its sender
  External,      \* messages LoadExternalMessages adds
  Users, Conns, NoConn,
  UserOf,        \* UserOf[c]: the user ID of connection c
  Members,       \* RoomConfig.Members, a slice: without a name twice
  Size,          \* size of the room's ring buffer
  Limits,        \* values of RecoveryOptions.Limit, 0 for none
  Nil,           \* an empty slot of the buffer, no FromID
  MaxEvents      \* bound: deliveries that fail or panic, Unsubscribe calls

Message == Publishers \cup External

ASSUME MemoryAssumption ==
  /\ Publishers \cap External = {} /\ Ephemeral \subseteq Publishers
  /\ Skip \subseteq Publishers \X Users /\ Members \subseteq Users
  /\ UserOf \in [Conns -> Users] /\ NoConn \notin Conns
  /\ Size \in Nat \ {0} /\ Limits \subseteq Nat /\ Nil \notin Message
  /\ MaxEvents \in Nat

VARIABLES
  open,         \* the room is in MemoryRelay.rooms
  subscribers,  \* MemoryRoom.subscribers
  closed,       \* connections whose Close has been called
  history,      \* MemoryRoom.history
  pub,          \* pub[p]: where the Publish call p is
  tasks,        \* running deliveries <<p, c>>
  results,      \* <<p, u, c, status>>: the results of Broadcast (c: history only)
  reapers,      \* reapers[u]: pending "go r.Unsubscribe(u)"
  received,     \* received[c]: the messages c has been handed
  rec,          \* rec[c]: the client's Subscribe and RecoverAndDeliver
  stored,       \* history variable: every message ever added, in order
  budget

vars == <<open, subscribers, closed, history, pub, tasks, results, reapers,
          received, rec, stored, budget>>

R == INSTANCE RingBuffer

(* The buffer as the bounded log it stands for. *)
Log == INSTANCE BoundedLog WITH log <- R!GetAll(history)

(* from is the message whose ID is FromID, Nil when there is none; todo is  *)
(* what RecoverAndDeliver has yet to hand over; whole is a history variable *)
(* (the buffer still had the message, and the limit cut nothing).           *)
Recovery == [pc : {"idle", "found", "subscribed", "delivering", "done", "error"},
             from : Message \cup {Nil}, todo : Seq(Message), whole : BOOLEAN]

Statuses == {"success", "failed", "offline"}

TypeOK ==
  /\ open \in BOOLEAN
  /\ subscribers \in [Users -> Conns \cup {NoConn}]
  /\ closed \subseteq Conns
  /\ history \in R!Buffer
  /\ pub \in [Publishers -> {"idle", "found", "added", "waiting", "returned",
                             "timedout", "error"}]
  /\ tasks \subseteq Publishers \X Conns
  /\ results \subseteq Publishers \X Users \X (Conns \cup {NoConn}) \X Statuses
  /\ reapers \in [Users -> Nat]
  /\ received \in [Conns -> SUBSET Message]
  /\ rec \in [Conns -> Recovery]
  /\ stored \in Seq(Message)
  /\ budget \in Nat

Init ==
  /\ open = TRUE
  /\ subscribers = [u \in Users |-> NoConn]
  /\ closed = {}
  /\ history = R!NewRingBuffer
  /\ pub = [p \in Publishers |-> "idle"]
  /\ tasks = {}
  /\ results = {}
  /\ reapers = [u \in Users |-> 0]
  /\ received = [c \in Conns |-> {}]
  /\ rec = [c \in Conns |-> [pc |-> "idle", from |-> Nil, todo |-> << >>,
                             whole |-> FALSE]]
  /\ stored = << >>
  /\ budget = MaxEvents

Spend == budget > 0 /\ budget' = budget - 1

-----------------------------------------------------------------------------
(* Publish *)

PublishBegin(p) ==
  /\ pub[p] = "idle"
  /\ pub' = [pub EXCEPT ![p] = IF open THEN "found" ELSE "error"]
  /\ UNCHANGED <<open, subscribers, closed, history, tasks, results, reapers,
                 received, rec, stored, budget>>

Keep(m) == /\ history' = R!Add(history, m)
           /\ stored' = Append(stored, m)

(* The message gets its ID and, "if opts.Persist", a place in the buffer.   *)
(* One step for both (memory_relay.go:283, 287): IDs are compared for       *)
(* equality only, so when an ID was made does not show.                     *)
(* The room may be deleted by now: the call has its pointer.                *)
AddToHistory(p) ==
  /\ pub[p] = "found"
  /\ pub' = [pub EXCEPT ![p] = "added"]
  /\ IF p \in Ephemeral THEN UNCHANGED <<history, stored>> ELSE Keep(p)
  /\ UNCHANGED <<open, subscribers, closed, tasks, results, reapers, received,
                 rec, budget>>

Subscribed(u) == subscribers[u] # NoConn

(* Mutant of Broadcast: the members without a connection are not reported. *)
BroadcastNoOffline(p) ==
  /\ pub[p] = "added"
  /\ pub' = [pub EXCEPT ![p] = "waiting"]
  /\ tasks' = tasks \cup {<<p, subscribers[u]>> :
                          u \in {v \in Users : Subscribed(v) /\ <<p, v>> \notin Skip}}
  /\ UNCHANGED <<open, subscribers, closed, history, results, reapers, received,
                 rec, stored, budget>>

(* The copy of the map: a goroutine for each connection in it, and          *)
(* "offline" for the members that are not (appended when the wait is over). *)
Broadcast(p) ==
  /\ pub[p] = "added"
  /\ pub' = [pub EXCEPT ![p] = "waiting"]
  /\ tasks' = tasks \cup {<<p, subscribers[u]>> :
                          u \in {v \in Users : Subscribed(v) /\ <<p, v>> \notin Skip}}
  /\ results' = results \cup {<<p, u, NoConn, "offline">> :
                   u \in {v \in Members : ~Subscribed(v) /\ <<p, v>> \notin Skip}}
  /\ UNCHANGED <<open, subscribers, closed, history, reapers, received, rec,
                 stored, budget>>

Pending(p) == {t \in tasks : t[1] = p}

(* The wait ends when every delivery has, ... *)
Return(p) ==
  /\ pub[p] = "waiting"
  /\ Pending(p) = {}
  /\ pub' = [pub EXCEPT ![p] = "returned"]
  /\ UNCHANGED <<open, subscribers, closed, history, tasks, results, reapers,
                 received, rec, stored, budget>>

(* ... or at the timeout or the end of the context, with the results so far. *)
ReturnEarly(p) ==
  /\ pub[p] = "waiting"
  /\ Pending(p) # {}
  /\ pub' = [pub EXCEPT ![p] = "timedout"]
  /\ UNCHANGED <<open, subscribers, closed, history, tasks, results, reapers,
                 received, rec, stored, budget>>

Report(p, c, status) ==
  /\ tasks' = tasks \ {<<p, c>>}
  /\ results' = results \cup {<<p, UserOf[c], c, status>>}

DeliverOk(p, c) ==
  /\ <<p, c>> \in tasks /\ c \notin closed
  /\ received' = [received EXCEPT ![c] = @ \cup {p}]
  /\ Report(p, c, "success")
  /\ UNCHANGED <<open, subscribers, closed, history, pub, reapers, rec, stored,
                 budget>>

(* All three attempts fail, as they do on a closed connection. *)
DeliverFails(p, c) ==
  /\ <<p, c>> \in tasks
  /\ IF c \in closed THEN UNCHANGED budget ELSE Spend
  /\ Report(p, c, "failed")
  /\ UNCHANGED <<open, subscribers, closed, history, pub, reapers, received,
                 rec, stored>>

(* Receive panics: "go r.Unsubscribe(userID)". *)
DeliverPanic(p, c) ==
  /\ <<p, c>> \in tasks
  /\ Spend
  /\ Report(p, c, "failed")
  /\ reapers' = [reapers EXCEPT ![UserOf[c]] = @ + 1]
  /\ UNCHANGED <<open, subscribers, closed, history, pub, received, rec, stored>>

-----------------------------------------------------------------------------
(* The subscriber map *)

DropUser(u) ==
  /\ closed' = closed \cup ({subscribers[u]} \ {NoConn})
  /\ subscribers' = [subscribers EXCEPT ![u] = NoConn]

Reap(u) ==
  /\ reapers[u] > 0
  /\ reapers' = [reapers EXCEPT ![u] = @ - 1]
  /\ DropUser(u)
  /\ UNCHANGED <<open, history, pub, tasks, results, received, rec, stored, budget>>

Unsubscribe(u) ==
  /\ open
  /\ Spend
  /\ DropUser(u)
  /\ UNCHANGED <<open, history, pub, tasks, results, reapers, received, rec, stored>>

(* MemoryRelay.Subscribe looks the room up, ... *)
SubscribeBegin(c) ==
  /\ rec[c].pc = "idle" /\ c \notin closed
  /\ rec' = [rec EXCEPT ![c].pc = IF open THEN "found" ELSE "error"]
  /\ UNCHANGED <<open, subscribers, closed, history, pub, tasks, results,
                 reapers, received, stored, budget>>

(* ... and MemoryRoom.Subscribe closes the user's other connection. *)
Subscribe(c) ==
  LET u == UserOf[c] IN
  /\ rec[c].pc = "found"
  /\ closed' = closed \cup ({subscribers[u]} \ {NoConn})
  /\ subscribers' = [subscribers EXCEPT ![u] = c]
  /\ rec' = [rec EXCEPT ![c].pc = "subscribed"]
  /\ UNCHANGED <<open, history, pub, tasks, results, reapers, received, stored,
                 budget>>

(* DeleteRoom, or MemoryRelay.Close: MemoryRoom.Close under the relay's     *)
(* lock, and the room is gone from the relay's map.                         *)
DeleteRoom ==
  /\ open
  /\ open' = FALSE
  /\ closed' = closed \cup {subscribers[u] : u \in {v \in Users : Subscribed(v)}}
  /\ subscribers' = [u \in Users |-> NoConn]
  /\ UNCHANGED <<history, pub, tasks, results, reapers, received, rec, stored,
                 budget>>

-----------------------------------------------------------------------------
(* History *)

(* One step of the loop of LoadExternalMessages; nobody is told. *)
LoadExternal(m) ==
  /\ m \notin {stored[i] : i \in DOMAIN stored}
  /\ Keep(m)
  /\ UNCHANGED <<open, subscribers, closed, pub, tasks, results, reapers,
                 received, rec, budget>>

(* The messages an earlier or the same connection of the user has received: *)
(* the ones a client can name as FromID.                                    *)
Known(c) == UNION {received[d] : d \in {e \in Conns : UserOf[e] = UserOf[c]}}

History(from) == IF from = Nil THEN R!GetAll(history)
                               ELSE R!GetSince(history, from)

Limited(s, limit) == IF limit > 0 THEN R!LastOf(s, limit) ELSE s

(* RecoverMessages: the buffer behind FromID, cut to the newest limit.      *)
RecoverMessages(c, from, limit) ==
  LET found == History(from)
      sent == Limited(found, limit)
  IN
  /\ rec[c].pc = "subscribed"
  /\ rec' = [rec EXCEPT ![c] =
               IF open
               THEN [pc |-> "delivering", from |-> from, todo |-> sent,
                     whole |-> /\ sent = found
                               /\ IF from = Nil
                                  THEN stored = R!GetAll(history)
                                  ELSE \E i \in DOMAIN R!GetAll(history) :
                                          R!GetAll(history)[i] = from]
               ELSE [@ EXCEPT !.pc = "error"]]
  /\ UNCHANGED <<open, subscribers, closed, history, pub, tasks, results,
                 reapers, received, stored, budget>>

(* The loop of RecoverAndDeliver: Receive returns nil, ... *)
DeliverRecovered(c) ==
  /\ rec[c].pc = "delivering" /\ rec[c].todo # << >> /\ c \notin closed
  /\ received' = [received EXCEPT ![c] = @ \cup {Head(rec[c].todo)}]
  /\ rec' = [rec EXCEPT ![c].todo = Tail(@)]
  /\ UNCHANGED <<open, subscribers, closed, history, pub, tasks, results,
                 reapers, stored, budget>>

(* ... or an error, which ends it, ... *)
DeliverRecoveredFails(c) ==
  /\ rec[c].pc = "delivering" /\ rec[c].todo # << >>
  /\ IF c \in closed THEN UNCHANGED budget ELSE Spend
  /\ rec' = [rec EXCEPT ![c].pc = "error", ![c].todo = << >>]
  /\ UNCHANGED <<open, subscribers, closed, history, pub, tasks, results,
                 reapers, received, stored>>

(* ... or the messages are used up. *)
RecoveryDone(c) ==
  /\ rec[c].pc = "delivering" /\ rec[c].todo = << >>
  /\ rec' = [rec EXCEPT ![c].pc = "done"]
  /\ UNCHANGED <<open, subscribers, closed, history, pub, tasks, results,
                 reapers, received, stored, budget>>

-----------------------------------------------------------------------------
Next == \/ \E p \in Publishers : PublishBegin(p) \/ AddToHistory(p) \/ Broadcast(p)
                                 \/ Return(p) \/ ReturnEarly(p)
        \/ \E p \in Publishers, c \in Conns :
              DeliverOk(p, c) \/ DeliverFails(p, c) \/ DeliverPanic(p, c)
        \/ \E u \in Users : Reap(u) \/ Unsubscribe(u)
        \/ \E c \in Conns : SubscribeBegin(c) \/ Subscribe(c)
                            \/ DeliverRecovered(c) \/ DeliverRecoveredFails(c)
                            \/ RecoveryDone(c)
        \/ \E c \in Conns : \E from \in Known(c) \cup {Nil}, limit \in Limits :
              RecoverMessages(c, from, limit)
        \/ \E m \in External : LoadExternal(m)
        \/ DeleteRoom

Spec == Init /\ [][Next]_vars

-----------------------------------------------------------------------------
(* Properties *)

Position(m) == CHOOSE i \in DOMAIN stored : stored[i] = m

(* A client that subscribes and whose RecoverAndDeliver then succeeds on a  *)
(* buffer that still reached back to its FromID misses no published message *)
(* stored after it: it has it, or its delivery is running or was reported   *)
(* as failed, or Publish has not copied the subscriber map yet, as long as  *)
(* the connection is still the user's.  Publish stores before it            *)
(* broadcasts, and the client subscribes before it reads.                   *)
NoGap ==
  \A c \in Conns :
    LET u == UserOf[c]
        from == rec[c].from
        after == {m \in Publishers : \E i \in DOMAIN stored :
                    stored[i] = m /\ (from = Nil \/ i > Position(from))}
    IN  rec[c].pc = "done" /\ rec[c].whole /\ subscribers[u] = c
        => \A m \in after :
              \/ m \in received[c]
              \/ pub[m] = "added"
              \/ <<m, c>> \in tasks
              \/ <<m, u, c, "failed">> \in results
              \/ <<m, u>> \in Skip

(* The circular buffer, read by GetAll, is at every moment the last Size    *)
(* messages in the order in which Add was called, for concurrent publishers *)
(* and external loads, and no other operation of the relay disturbs it.     *)
RingIsBoundedLog == Log!Spec

(* When the wait of Broadcast has ended because the deliveries have, every  *)
(* member of the room other than a skipped sender has exactly one status    *)
(* in the results of the call.                                              *)
MembersReported ==
  \A p \in Publishers : pub[p] = "returned"
    => \A u \in Members : <<p, u>> \notin Skip
          => Cardinality({r \in results : r[1] = p /\ r[2] = u}) = 1
=============================================================================
