------------------------------ MODULE Cluster ------------------------------
(***************************************************************************)
(* A room on the nodes of a cluster.  A published message is stored in the *)
(* Redis stream, broadcast on its own node, and sent to the other nodes by *)
(* Redis Pub/Sub; the listener of the room reads the stream on every node. *)
(*                                                                         *)
(* Source: engine/broker.go (RedisBroker, ClusterRelay), with the pool of  *)
(* the subscription client from redis/client.go.  The listener of a room   *)
(* is what StreamListener shows it to be: from the position of its XREAD   *)
(* on, the entries of the stream in order; until it has received one, the  *)
(* position is "$" anew for each XREAD.  A broadcast is one step; Room     *)
(* looks into it.  A node whose subscription loop panics is down: the loop *)
(* has no recover.                                                         *)
(***************************************************************************)
EXTENDS Integers, Sequences, FiniteSets

CONSTANTS
  Nodes,
  Publishers,    \* ClusterRelay.Publish calls, and the messages they send
  NodeOf,        \* NodeOf[p]: the node on which p is called
  Ephemeral,     \* the calls with opts.Persist = false
  EmptyID,       \* the ID "" of a message that is not stored
  Confirm,       \* the confirmation of a PSUBSCRIBE
  Nil,
  PoolSize, MinIdle,   \* of the subscription client
  BufferSize,          \* capacity of msgChan
  DedupeSize,
  MaxRetries,          \* attempts of a PUBLISH
  MaxConsecutive,      \* failed PSUBSCRIBEs before a new client is made
  MaxEvents,     \* bound: failed commands, reads and dials, and dedupe
                 \*        entries that outlive their TTL
  Closers,       \* the nodes on which Close may be called
  Deaf           \* the nodes on which Subscribe has failed before the start

ASSUME ClusterAssumption ==
  /\ NodeOf \in [Publishers -> Nodes]
  /\ Ephemeral \subseteq Publishers /\ Closers \subseteq Nodes
  /\ Deaf \subseteq Nodes
  /\ Confirm \notin Publishers /\ Nil \notin Publishers
  /\ EmptyID \notin Publishers
  /\ PoolSize \in Nat \ {0} /\ MinIdle \in 0 .. PoolSize
  /\ BufferSize \in Nat /\ DedupeSize \in Nat \ {0}
  /\ MaxRetries \in Nat \ {0} /\ MaxConsecutive \in Nat \ {0}
  /\ MaxEvents \in Nat

Routes == {"publish", "listener", "broker"}
Conns == 1 .. PoolSize

VARIABLES
  stream,    \* the room's stream
  pub,       \* pub[p]: where the Publish call p is
  tries,     \* tries[p]: failed attempts to PUBLISH
  room,      \* room[n]: the room is open on n
  lastID,    \* lastID[n]: position of the listener of n, -1 for "$"
  sub,       \* sub[n]: the subscription loop and its client's pool
  inbox,     \* inbox[n][c]: what Redis has pushed on connection c of n
  dedupe,    \* dedupe[n]: RedisBroker.dedupe
  msgChan,   \* msgChan[n]: RedisBroker.msgChan
  consumer,  \* consumer[n]: the goroutine of listenForBrokerMessages
  closing,   \* closing[n]: how far ClusterRelay.Close is
  casts,     \* casts[n][<<p, route>>]: how often n has broadcast p
  forgot,    \* history: forgot[n], the keys that left the dedupe cache
  fate,      \* history: fate[n][p], whether the loop of n has read p, and
             \* dropped it for a full channel
  budget

vars == <<stream, pub, tries, room, lastID, sub, inbox, dedupe,
          msgChan, consumer, closing, casts, forgot, fate, budget>>

D == INSTANCE DedupeCache WITH Key <- Publishers \cup {EmptyID},
                               MaxSize <- DedupeSize

(* Mutant of KeyOf: the envelope has no MessageID. *)
KeyOfNone(p) == EmptyID

(* The deduplication key is the message ID, which only XADD gives. *)
KeyOf(p) == IF p \in Ephemeral THEN EmptyID ELSE p

(* idle is the channel of the pool, subs the connections that PSUBSCRIBE    *)
(* was executed on and somebody may still read; held is the connection of   *)
(* ReadPubSubMessage, hand the message on its way to msgChan.               *)
Loop == [pc : {"off", "top", "psubscribe", "next", "get", "read", "send",
               "ended", "crashed"},
         idle : Seq(Conns), created : 0 .. PoolSize, subs : SUBSET Conns,
         broken : SUBSET Conns, held : 0 .. PoolSize,
         hand : Publishers \cup {Nil}, errors : Nat]

Stages == {"no", "cancelled", "subclosed", "chanclosed", "done"}

TypeOK ==
  /\ stream \in Seq(Publishers)
  /\ pub \in [Publishers -> {"idle", "found", "stored", "shown", "done",
                          "error"}]
  /\ tries \in [Publishers -> 0 .. MaxRetries]
  /\ room \in [Nodes -> BOOLEAN]
  /\ lastID \in [Nodes -> -1 .. Len(stream)]
  /\ sub \in [Nodes -> Loop]
  /\ inbox \in [Nodes -> [Conns -> Seq(Publishers \cup {Confirm})]]
  /\ dedupe \in [Nodes -> D!Cache]
  /\ \A n \in Nodes : dedupe[n].old <= Len(dedupe[n].order)
                      /\ Len(dedupe[n].order) <= DedupeSize
  /\ msgChan \in [Nodes -> Seq(Publishers)]
  /\ \A n \in Nodes : Len(msgChan[n]) <= BufferSize
  /\ consumer \in [Nodes -> {"start", "range", "ended"}]
  /\ closing \in [Nodes -> Stages]
  /\ casts \in [Nodes -> [Publishers \X Routes -> Nat]]
  /\ forgot \in [Nodes -> SUBSET (Publishers \cup {EmptyID})]
  /\ fate \in [Nodes -> [Publishers -> {"unheard", "heard", "dropped"}]]
  /\ budget \in Nat

(* redis.NewClient has dialled MinIdle connections. *)
NewClient(pc) ==
  [pc |-> pc, idle |-> [i \in 1 .. MinIdle |-> i], created |-> MinIdle,
   subs |-> {}, broken |-> {}, held |-> 0, hand |-> Nil, errors |-> 0]

Init ==
  /\ stream = << >>
  /\ pub = [p \in Publishers |-> "idle"]
  /\ tries = [p \in Publishers |-> 0]
  /\ room = [n \in Nodes |-> TRUE]
  /\ lastID = [n \in Nodes |-> -1]
  /\ sub = [n \in Nodes |-> NewClient(IF n \in Deaf THEN "ended" ELSE "off")]
  /\ inbox = [n \in Nodes |-> [c \in Conns |-> << >>]]
  /\ dedupe = [n \in Nodes |-> D!NewDedupeCache]
  /\ msgChan = [n \in Nodes |-> << >>]
  /\ consumer = [n \in Nodes |-> IF n \in Deaf THEN "ended" ELSE "start"]
  /\ closing = [n \in Nodes |-> "no"]
  /\ casts = [n \in Nodes |-> [x \in Publishers \X Routes |-> 0]]
  /\ forgot = [n \in Nodes |-> {}]
  /\ fate = [n \in Nodes |-> [p \in Publishers |-> "unheard"]]
  /\ budget = MaxEvents

Up(n) == sub[n].pc # "crashed"
Cancelled(n) == closing[n] # "no"
SubClosed(n) == closing[n] \in {"subclosed", "chanclosed", "done"}

(* Mutant of ChanClosed: Close leaves the channel open. *)
ChanNeverClosed(n) == closing[n] = "never"

ChanClosed(n) == closing[n] \in {"chanclosed", "done"}

Spend == budget > 0 /\ budget' = budget - 1

(* A broadcast to the subscribers on node n; a closed room has none. *)
Show(n, p, route) ==
  casts' = IF room[n] THEN [casts EXCEPT ![n][<<p, route>>] = @ + 1] ELSE casts

-----------------------------------------------------------------------------
(* ClusterRelay.Publish *)

subVars == <<sub, inbox, dedupe, msgChan, consumer, closing, forgot, fate>>

PublishBegin(p) ==
  /\ pub[p] = "idle" /\ Up(NodeOf[p])
  /\ pub' = [pub EXCEPT ![p] = IF room[NodeOf[p]] THEN "found" ELSE "error"]
  /\ UNCHANGED <<stream, tries, room, lastID, casts, budget, subVars>>

(* XADD.  A listener that has yet to receive its first entry, whose XREADs  *)
(* all start from "$", gets this one only if one of them is waiting for it. *)
XAdd(p) ==
  /\ stream' = Append(stream, p)
  /\ \E waiting \in SUBSET {n \in Nodes : lastID[n] = -1} :
       lastID' = [n \in Nodes |-> IF n \in waiting THEN Len(stream)
                                                  ELSE lastID[n]]

(* Relay.Publish: XADD, unless the message is ephemeral. *)
Persist(p) ==
  /\ pub[p] = "found" /\ Up(NodeOf[p])
  /\ pub' = [pub EXCEPT ![p] = "stored"]
  /\ IF p \in Ephemeral THEN UNCHANGED <<stream, lastID>> ELSE XAdd(p)
  /\ UNCHANGED <<tries, room, casts, budget, subVars>>

(* Mutant of PersistFails: the error is not looked at. *)
PersistFailsOn(p) ==
  /\ pub[p] = "found" /\ p \notin Ephemeral /\ Up(NodeOf[p])
  /\ Spend
  /\ pub' = [pub EXCEPT ![p] = "stored"]
  /\ UNCHANGED <<stream, tries, room, lastID, casts, subVars>>

(* XADD fails, executed or not: nothing is broadcast. *)
PersistFails(p) ==
  /\ pub[p] = "found" /\ p \notin Ephemeral /\ Up(NodeOf[p])
  /\ Spend
  /\ pub' = [pub EXCEPT ![p] = "error"]
  /\ XAdd(p) \/ UNCHANGED <<stream, lastID>>
  /\ UNCHANGED <<tries, room, casts, subVars>>

BroadcastHere(p) ==
  /\ pub[p] = "stored" /\ Up(NodeOf[p])
  /\ pub' = [pub EXCEPT ![p] = "shown"]
  /\ Show(NodeOf[p], p, "publish")
  /\ UNCHANGED <<stream, tries, room, lastID, budget, subVars>>

(* Redis pushes the message on every subscribed connection. *)
Push(p) == inbox' = [n \in Nodes |-> [c \in Conns |->
                       IF c \in sub[n].subs THEN Append(inbox[n][c], p)
                                            ELSE inbox[n][c]]]

(* PublishMessage: PUBLISH succeeds, ... *)
Publish(p) ==
  /\ pub[p] = "shown" /\ Up(NodeOf[p])
  /\ pub' = [pub EXCEPT ![p] = "done"]
  /\ tries' = [tries EXCEPT ![p] = 0]
  /\ Push(p)
  /\ UNCHANGED <<stream, room, lastID, sub, dedupe, msgChan,
                 consumer, closing, casts, forgot, fate, budget>>

(* ... or returns an error, after or without having been executed, and is   *)
(* repeated until the attempts are used up or the caller's context is over, *)
(* which is only reported.                                                  *)
PublishFails(p) ==
  /\ pub[p] = "shown" /\ Up(NodeOf[p])
  /\ Spend
  /\ \/ /\ tries[p] + 1 < MaxRetries
        /\ tries' = [tries EXCEPT ![p] = @ + 1]
        /\ UNCHANGED pub
     \/ /\ tries' = [tries EXCEPT ![p] = 0]
        /\ pub' = [pub EXCEPT ![p] = "done"]
  /\ Push(p) \/ UNCHANGED inbox
  /\ UNCHANGED <<stream, room, lastID, sub, dedupe, msgChan, consumer,
                 closing, casts, forgot, fate>>

(* listenLoop of the room: the next entry of the stream. *)
Listen(n) ==
  /\ Up(n) /\ room[n]
  /\ lastID[n] \in 0 .. Len(stream) - 1
  /\ lastID' = [lastID EXCEPT ![n] = @ + 1]
  /\ Show(n, stream[lastID[n] + 1], "listener")
  /\ UNCHANGED <<stream, pub, tries, room, budget, subVars>>

-----------------------------------------------------------------------------
(* RedisBroker.Subscribe and subscriptionLoop *)

rest == <<stream, pub, tries, room, lastID, closing, casts>>
past == <<forgot, fate>>

Subscribe(n) ==
  /\ consumer[n] = "start"
  /\ consumer' = [consumer EXCEPT ![n] = "range"]
  /\ sub' = [sub EXCEPT ![n].pc = "top"]
  /\ UNCHANGED <<inbox, dedupe, msgChan, past, budget, rest>>

(* No client for the subscription: the node never hears of the others. *)
SubscribeFails(n) ==
  /\ consumer[n] = "start"
  /\ Spend
  /\ consumer' = [consumer EXCEPT ![n] = "ended"]
  /\ sub' = [sub EXCEPT ![n].pc = "ended"]
  /\ UNCHANGED <<inbox, dedupe, msgChan, past, rest>>

(* The client at node n is replaced, or no longer used by anybody. *)
Renew(n, pc) == /\ sub' = [sub EXCEPT ![n] = NewClient(pc)]
                /\ inbox' = [inbox EXCEPT ![n] = [c \in Conns |-> << >>]]

(* The selects at the head of the two loops. *)
Select(n) ==
  /\ sub[n].pc \in {"top", "next"}
  /\ IF Cancelled(n) THEN Renew(n, "ended")
     ELSE /\ sub' = [sub EXCEPT ![n].pc = IF @ = "top" THEN "psubscribe"
                                                       ELSE "get"]
          /\ UNCHANGED inbox
  /\ UNCHANGED <<dedupe, msgChan, consumer, past, budget, rest>>

(* The loop is at a Pool.Get, and gets connection c: the first idle one, or *)
(* a new one.  Without either it waits.                                     *)
Gets(n, c) ==
  /\ sub[n].pc \in {"psubscribe", "get"} /\ ~SubClosed(n)
  /\ IF sub[n].idle # << >> THEN c = Head(sub[n].idle)
     ELSE sub[n].created < PoolSize /\ c = sub[n].created + 1

(* The pool after Get has returned c. *)
Taken(s, c) == IF s.idle # << >> THEN [s EXCEPT !.idle = Tail(@)]
                                 ELSE [s EXCEPT !.created = @ + 1]

(* PSUBSCRIBE, after which the connection goes back to the pool.  On a      *)
(* connection that is subscribed already, what Redis has pushed is taken    *)
(* for the reply, and the confirmation stays behind.                        *)
Psubscribe(n, c) ==
  /\ sub[n].pc = "psubscribe" /\ Gets(n, c) /\ c \notin sub[n].broken
  /\ LET s == Taken(sub[n], c) IN
     sub' = [sub EXCEPT ![n] = [s EXCEPT !.pc = "next",
               !.idle = Append(s.idle, c), !.subs = s.subs \cup {c},
               !.errors = 0]]
  /\ inbox' = [inbox EXCEPT ![n][c] =
                 IF @ = << >> THEN @ ELSE Append(Tail(@), Confirm)]
  /\ UNCHANGED <<dedupe, msgChan, consumer, past, budget, rest>>

(* One more failed PSUBSCRIBE; once there are MaxConsecutive of them (errors *)
(* counts no further) each makes a new client, which takes the place of the *)
(* old one, unless NewClient fails too.                                     *)
Failed(n, s) ==
  LET failed == [s EXCEPT !.pc = "top",
                          !.errors = IF @ < MaxConsecutive THEN @ + 1 ELSE @] IN
  \/ failed.errors = MaxConsecutive /\ Renew(n, "top")
  \/ /\ sub' = [sub EXCEPT ![n] = failed]
     /\ UNCHANGED inbox

(* The command fails on its connection, which is put back as it is. *)
PsubscribeFails(n, c) ==
  /\ sub[n].pc = "psubscribe" /\ Gets(n, c)
  /\ IF c \in sub[n].broken THEN UNCHANGED budget ELSE Spend
  /\ Failed(n, [Taken(sub[n], c) EXCEPT !.idle = Append(@, c),
                                        !.broken = @ \cup {c}])
  /\ UNCHANGED <<dedupe, msgChan, consumer, past, rest>>

(* ReadPubSubMessage takes a connection of its own from the pool ... *)
ReadGet(n, c) ==
  /\ sub[n].pc = "get" /\ Gets(n, c)
  /\ sub' = [sub EXCEPT ![n] = [Taken(@, c) EXCEPT !.pc = "read", !.held = c]]
  /\ UNCHANGED <<inbox, dedupe, msgChan, consumer, past, budget, rest>>

(* A message of another node that has not been seen. *)
Relevant(n, m) ==
  m # Confirm /\ NodeOf[m] # n /\ ~D!IsDuplicate(dedupe[n], KeyOf(m))

Forget(n, d) ==
  forgot' = [forgot EXCEPT ![n] = @ \cup (D!Fresh(dedupe[n]) \ D!Fresh(d))]

Heard(n, m) ==
  fate' = IF m # Confirm /\ NodeOf[m] # n /\ fate[n][m] = "unheard"
            THEN [fate EXCEPT ![n][m] = "heard"] ELSE fate

(* ... and does not return it: nobody reads it again. *)
Read(n) ==
  LET c == sub[n].held
      m == Head(inbox[n][c])
      left == [sub[n] EXCEPT !.held = 0, !.subs = @ \ {c}]
  IN
  /\ sub[n].pc = "read" /\ c \notin sub[n].broken
  /\ inbox[n][c] # << >>
  /\ inbox' = [inbox EXCEPT ![n][c] = << >>]
  /\ IF Relevant(n, m)
     THEN /\ sub' = [sub EXCEPT ![n] = [left EXCEPT !.pc = "send", !.hand = m]]
          /\ dedupe' = [dedupe EXCEPT ![n] = D!Mark(@, KeyOf(m))]
          /\ Forget(n, dedupe'[n])
     ELSE /\ sub' = [sub EXCEPT ![n] = [left EXCEPT !.pc = "next"]]
          /\ UNCHANGED <<dedupe, forgot>>
  /\ Heard(n, m)
  /\ UNCHANGED <<msgChan, consumer, budget, rest>>

(* The read fails and closes the connection: "break // Reconnect". *)
ReadFails(n) ==
  LET c == sub[n].held IN
  /\ sub[n].pc = "read"
  /\ IF c \in sub[n].broken THEN UNCHANGED budget ELSE Spend
  /\ sub' = [sub EXCEPT ![n].pc = "top", ![n].held = 0, ![n].subs = @ \ {c}]
  /\ inbox' = [inbox EXCEPT ![n][c] = << >>]
  /\ UNCHANGED <<dedupe, msgChan, consumer, past, rest>>

(* A dial fails: PSUBSCRIBE's error is counted, the reader subscribes anew. *)
DialFails(n) ==
  /\ \E c \in Conns : Gets(n, c)
  /\ sub[n].idle = << >>
  /\ Spend
  /\ IF sub[n].pc = "psubscribe" THEN Failed(n, Taken(sub[n], 0))
     ELSE /\ sub' = [sub EXCEPT ![n] = [Taken(@, 0) EXCEPT !.pc = "top"]]
          /\ UNCHANGED inbox
  /\ UNCHANGED <<dedupe, msgChan, consumer, past, rest>>

(* Get on the client that Close has closed: an error, after which the loop  *)
(* finds its context cancelled, or, when Get was already past its check, a  *)
(* nil connection, whose use panics.                                        *)
GetClosed(n) ==
  /\ sub[n].pc \in {"psubscribe", "get"} /\ Cancelled(n)
  /\ \/ Renew(n, "ended")
     \/ SubClosed(n) /\ Renew(n, "crashed")
  /\ UNCHANGED <<dedupe, msgChan, consumer, past, budget, rest>>

(* To the channel, or dropped when it is full; a closed channel panics. *)
Send(n) ==
  /\ sub[n].pc = "send"
  /\ IF ChanClosed(n) THEN Renew(n, "crashed") /\ UNCHANGED <<msgChan, fate>>
     ELSE /\ sub' = [sub EXCEPT ![n].pc = "next", ![n].hand = Nil]
          /\ IF Len(msgChan[n]) = BufferSize
             THEN /\ fate' = [fate EXCEPT ![n][sub[n].hand] = "dropped"]
                  /\ UNCHANGED msgChan
             ELSE /\ msgChan' = [msgChan EXCEPT ![n] = Append(@, sub[n].hand)]
                  /\ UNCHANGED fate
          /\ UNCHANGED inbox
  /\ UNCHANGED <<dedupe, consumer, forgot, budget, rest>>

(* A second Close of the node closes a closed channel and panics. *)
CloseAgain(n) ==
  /\ n \in Closers /\ Up(n) /\ ChanClosed(n)
  /\ Renew(n, "crashed")
  /\ UNCHANGED <<dedupe, msgChan, consumer, past, budget, rest>>

(* cleanupLoop *)
Cleanup(n) ==
  /\ Up(n) /\ ~Cancelled(n) /\ dedupe[n].old > 0
  /\ dedupe' = [dedupe EXCEPT ![n] = D!Cleanup(@)]
  /\ UNCHANGED <<sub, inbox, msgChan, consumer, past, budget, rest>>

(* Time passes. *)
Expire(n) ==
  /\ D!Fresh(dedupe[n]) # {}
  /\ Spend
  /\ dedupe' = [dedupe EXCEPT ![n] = D!Expire(@)]
  /\ Forget(n, dedupe'[n])
  /\ UNCHANGED <<sub, inbox, msgChan, consumer, fate, rest>>

-----------------------------------------------------------------------------
(* listenForBrokerMessages, handleBrokerMessage *)

Handle(n) ==
  /\ Up(n) /\ consumer[n] = "range" /\ msgChan[n] # << >>
  /\ msgChan' = [msgChan EXCEPT ![n] = Tail(@)]
  /\ Show(n, Head(msgChan[n]), "broker")
  /\ UNCHANGED <<stream, pub, tries, room, lastID, sub, inbox, dedupe,
                 consumer, closing, past, budget>>

RangeEnds(n) ==
  /\ Up(n) /\ consumer[n] = "range" /\ msgChan[n] = << >> /\ ChanClosed(n)
  /\ consumer' = [consumer EXCEPT ![n] = "ended"]
  /\ UNCHANGED <<sub, inbox, dedupe, msgChan, past, budget, rest>>

-----------------------------------------------------------------------------
(* ClusterRelay.Close *)

Stage(n, from, to) ==
  /\ Up(n) /\ closing[n] = from
  /\ closing' = [closing EXCEPT ![n] = to]
  /\ UNCHANGED <<stream, pub, tries, lastID, sub, inbox, dedupe,
                 msgChan, consumer, casts, past, budget>>

(* cr.cancel and b.cancel *)
CloseCancel(n) == n \in Closers /\ Stage(n, "no", "cancelled") /\ UNCHANGED room

(* b.subConn.Close, if there is one *)
CloseSub(n) == Stage(n, "cancelled", "subclosed") /\ UNCHANGED room

CloseChan(n) == Stage(n, "subclosed", "chanclosed") /\ UNCHANGED room

(* Relay.Close: the rooms are closed, their listeners end. *)
CloseRelay(n) == /\ Stage(n, "chanclosed", "done")
                 /\ room' = [room EXCEPT ![n] = FALSE]

-----------------------------------------------------------------------------
PublishStep(p) == \/ Persist(p) \/ PersistFails(p) \/ BroadcastHere(p)
                  \/ Publish(p) \/ PublishFails(p)

LoopStep(n) == \/ Select(n) \/ Read(n) \/ ReadFails(n) \/ DialFails(n)
               \/ GetClosed(n) \/ Send(n) \/ CloseAgain(n)
               \/ \E c \in Conns : \/ Psubscribe(n, c) \/ PsubscribeFails(n, c)
                                   \/ ReadGet(n, c)

ConsumerStep(n) == Subscribe(n) \/ SubscribeFails(n) \/ Handle(n) \/ RangeEnds(n)

CloseStep(n) == CloseSub(n) \/ CloseChan(n) \/ CloseRelay(n)

Next == \/ \E p \in Publishers : PublishBegin(p) \/ PublishStep(p)
        \/ \E n \in Nodes : \/ Listen(n)
                            \/ Subscribe(n) \/ SubscribeFails(n)
                            \/ LoopStep(n) \/ Cleanup(n) \/ Expire(n)
                            \/ Handle(n) \/ RangeEnds(n)
                            \/ CloseCancel(n) \/ CloseStep(n)

Spec == Init /\ [][Next]_vars

(***************************************************************************)
(* The listener of an open room, the goroutine that consumes the channel,  *)
(* and Close go on, and so does the loop once it has a message in hand:    *)
(* its send does not block.  Nothing else is assumed of it, for it may be  *)
(* waiting for a message or a connection, nor of Publish calls.            *)
(***************************************************************************)
FairSpec == /\ Spec
            /\ \A n \in Nodes : /\ WF_vars(Listen(n)) /\ WF_vars(Send(n))
                                /\ WF_vars(ConsumerStep(n))
                                /\ WF_vars(CloseStep(n))

-----------------------------------------------------------------------------
(* Properties *)

(* "Message deduplication to prevent double delivery": a node relays at     *)
(* most one message for each deduplication key that its cache has not lost  *)
(* to its size or to time, however often PUBLISH is repeated and the        *)
(* subscription is made anew, and none of its own.  Ephemeral messages all  *)
(* have the key "", so of them only one is relayed.                         *)
OncePerKey ==
  \A n \in Nodes :
    /\ \A p \in Publishers : NodeOf[p] = n => casts[n][<<p, "broker">>] = 0
    /\ \A p, q \in Publishers :
         /\ KeyOf(p) = KeyOf(q) /\ KeyOf(p) \notin forgot[n]
         /\ casts[n][<<p, "broker">>] > 0 /\ casts[n][<<q, "broker">>] > 0
         => p = q /\ casts[n][<<p, "broker">>] = 1

(* What a client of any node sees is in the stream, by whichever route it   *)
(* came ("Already persisted by origin node"), ephemeral messages apart.     *)
SeenIsStored ==
  \A n \in Nodes, p \in Publishers \ Ephemeral, route \in Routes :
    casts[n][<<p, route>>] > 0 => \E i \in DOMAIN stream : stream[i] = p

(* broker.go:410-421: what the loop has read of another node it does not    *)
(* lose, although the same key is marked when it is read and looked up for  *)
(* every later copy: the consumer broadcasts the message in the end, unless *)
(* the channel was full, or the node is closed or has gone down, or it is   *)
(* an ephemeral message and another one, with the same key "", was read.    *)
HeardIsShown ==
  \A n \in Nodes, p \in Publishers :
    fate[n][p] = "heard" ~>
      \/ casts[n][<<p, "broker">>] > 0
      \/ fate[n][p] = "dropped"
      \/ Cancelled(n) \/ ~Up(n)
      \/ p \in Ephemeral /\ \E q \in Ephemeral \ {p} : fate[n][q] # "unheard"

(* "Close shuts down the broker": the goroutine that ranges over the        *)
(* channel ends, unless the loop has brought the process down.              *)
CloseEndsConsumer ==
  \A n \in Closers : Cancelled(n) ~> consumer[n] = "ended" \/ ~Up(n)

(* broker.go:447 "Deduplication prevents double delivery": no node          *)
(* broadcasts a message twice.                                              *)
AtMostOnce ==
  \A n \in Nodes, p \in Publishers :
    casts[n][<<p, "publish">>] + casts[n][<<p, "listener">>]
      + casts[n][<<p, "broker">>] <= 1
=============================================================================
