--------------------------- MODULE ClientSession ---------------------------
(***************************************************************************)
(* Client handlers on a relay, at the level of its locks.  The relay's map *)
(* of rooms is guarded by Relay.mu, the subscriber map of a room by        *)
(* Room.mu, and both are held across calls of ClientHandler.Close, which   *)
(* itself calls Relay.Unsubscribe and so takes both locks again.  Go's     *)
(* mutexes are not re-entrant.                                             *)
(*                                                                         *)
(* Source: engine/handler.go (Close, handleConnect, handleSubscribe,       *)
(* handleUnsubscribe, startPingTimer), engine/relay.go (CreateRoom,        *)
(* GetRoom, GetOrCreateRoom, DeleteRoom, Unsubscribe, Close),              *)
(* engine/room.go (Subscribe, Unsubscribe, SubscriberCount, Stop, Close).  *)
(*                                                                         *)
(* A goroutine is a stack of frames, one per function it is in; an action  *)
(* takes one goroutine from one lock operation to the next.                *)
(***************************************************************************)
EXTENDS Naturals, Sequences, FiniteSets

CONSTANTS
  Handlers,        \* ClientHandler objects
  Users,
  UserOf,          \* UserOf[h]: the user ID with which h connects first
  NewNames,        \* the user IDs of later connect commands
  Channels,
  MaxSubscribers,  \* NamespaceOptions.MaxSubscribers, 0 for no limit
  Resubscribes,    \* whether a client repeats a subscribe to the same channel
  Apps,            \* goroutines of the application
  Nobody,          \* a free lock, an absent subscriber
  MaxRooms,        \* bound: Room objects created
  MaxCommands,     \* bound: connect, subscribe and unsubscribe commands
  MaxShutdowns     \* bound: DeleteRoom and Relay.Close calls

Reader(h) == <<"reader", h>>   \* the goroutine that calls HandleMessage
Timer(h) == <<"timer", h>>     \* the goroutine of the ping timer
App(a) == <<"app", a>>

Threads == {Reader(h) : h \in Handlers} \cup {Timer(h) : h \in Handlers}
             \cup {App(a) : a \in Apps}

ASSUME SessionAssumption ==
  /\ UserOf \in [Handlers -> Users] /\ NewNames \subseteq Users
  /\ Nobody \notin Handlers /\ Nobody \notin Threads
  /\ Resubscribes \in BOOLEAN
  /\ MaxSubscribers \in Nat /\ MaxRooms \in Nat /\ MaxCommands \in Nat
  /\ MaxShutdowns \in Nat

Objects == 1 .. MaxRooms

VARIABLES
  rooms,          \* Relay.rooms: the room object of a channel, 0 if none
  created,        \* number of Room objects created
  running,        \* Relay.running
  relayMu,        \* who holds Relay.mu for writing
  roomMu,         \* roomMu[o]: who holds Room.mu of object o for writing
  subscribers,    \* subscribers[o][u]: Room.subscribers of object o
  subscriptions,  \* subscriptions[h]: the channels in the handler's table
  closed,         \* closed[h]: ClientHandler.closed
  gone,           \* gone[h]: Close has returned, the transport is closed
  userID,         \* userID[h]: ClientHandler.userID
  stray,          \* history: a subscribe command overlapped the Close of h, or
                  \* h took another name when it was closed or in a room
  crowded,        \* history: crowded[o], two subscribes found room in o before
                  \* either had entered
  stack,          \* stack[t]: the frames of goroutine t, innermost last
  budget

vars == <<rooms, created, running, relayMu, roomMu, subscribers, subscriptions,
          closed, gone, userID, stray, crowded, stack, budget>>

maps == <<rooms, created, running, subscribers>>
table == <<subscriptions, closed, gone, userID, stray, crowded>>

Functions == {"subscribe", "unsubscribe", "relayUnsubscribe", "close",
              "shutdown"}

Places == {"get", "create", "check", "lock", "set", "store", "delete", "swap",
           "copy", "loop", "stop", "closing", "end"}

Frame == [fn : Functions, at : Places, h : Handlers \cup {Nobody},
          ch : Channels \cup {Nobody}, u : Users \cup {Nobody},
          o : 0 .. MaxRooms,
          chans : SUBSET Channels, conns : SUBSET Handlers, all : BOOLEAN]

TypeOK ==
  /\ rooms \in [Channels -> 0 .. MaxRooms]
  /\ created \in 0 .. MaxRooms
  /\ running \in BOOLEAN
  /\ relayMu \in Threads \cup {Nobody}
  /\ roomMu \in [Objects -> Threads \cup {Nobody}]
  /\ subscribers \in [Objects -> [Users -> Handlers \cup {Nobody}]]
  /\ subscriptions \in [Handlers -> SUBSET Channels]
  /\ closed \in [Handlers -> BOOLEAN]
  /\ gone \in [Handlers -> BOOLEAN]
  /\ userID \in [Handlers -> Users]
  /\ stray \in [Handlers -> BOOLEAN]
  /\ crowded \in [Objects -> BOOLEAN]
  /\ stack \in [Threads -> Seq(Frame)]
  /\ budget \in [commands : Nat, shutdowns : Nat]

Init ==
  /\ rooms = [ch \in Channels |-> 0]
  /\ created = 0
  /\ running = TRUE
  /\ relayMu = Nobody
  /\ roomMu = [o \in Objects |-> Nobody]
  /\ subscribers = [o \in Objects |-> [u \in Users |-> Nobody]]
  /\ subscriptions = [h \in Handlers |-> {}]
  /\ closed = [h \in Handlers |-> FALSE]
  /\ gone = [h \in Handlers |-> FALSE]
  /\ userID = UserOf
  /\ stray = [h \in Handlers |-> FALSE]
  /\ crowded = [o \in Objects |-> FALSE]
  /\ stack = [t \in Threads |-> << >>]
  /\ budget = [commands |-> MaxCommands, shutdowns |-> MaxShutdowns]

-----------------------------------------------------------------------------
(* Frames. *)

NewFrame(fn, at) == [fn |-> fn, at |-> at, h |-> Nobody, ch |-> Nobody,
                     u |-> Nobody, o |-> 0, chans |-> {}, conns |-> {},
                     all |-> FALSE]

CloseFrame(h) == [NewFrame("close", "swap") EXCEPT !.h = h]

(* Mutant of UnsubscribeFrame: the client ID instead of the user ID. *)
UnsubscribeFrameClient(h, ch) ==
  [NewFrame("relayUnsubscribe", "get") EXCEPT !.h = h, !.ch = ch, !.u = h]

(* Relay.Unsubscribe is given the name that h has when it is called. *)
UnsubscribeFrame(h, ch) ==
  [NewFrame("relayUnsubscribe", "get") EXCEPT !.h = h, !.ch = ch,
                                              !.u = userID[h]]

Top(t) == stack[t][Len(stack[t])]

Below(t) == SubSeq(stack[t], 1, Len(stack[t]) - 1)

In(t, fn, at) == stack[t] # << >> /\ Top(t).fn = fn /\ Top(t).at = at

Goto(t, frame) == stack' = [stack EXCEPT ![t] = Append(Below(t), frame)]

At(t, at) == [Top(t) EXCEPT !.at = at]

(* Go on at place "at" of the current function once "callee" has returned. *)
Call(t, at, callee) ==
  stack' = [stack EXCEPT ![t] = Below(t) \o <<At(t, at), callee>>]

Return(t) == stack' = [stack EXCEPT ![t] = Below(t)]

Begin(t, frame) == /\ stack[t] = << >>
                   /\ stack' = [stack EXCEPT ![t] = <<frame>>]

RelayFree == relayMu = Nobody
RoomFree(o) == roomMu[o] = Nobody

Members(o) == {u \in Users : subscribers[o][u] # Nobody}

-----------------------------------------------------------------------------
(* Commands, the ping timer, the application. *)

Command(h) ==
  /\ ~gone[h]
  /\ budget.commands > 0
  /\ budget' = [budget EXCEPT !.commands = @ - 1]

(* handleConnect of a client that is connected.  The rooms it is in and the *)
(* Close that may be running are not told.  (A second ping timer does what  *)
(* the first does.)                                                         *)
Connect(h, u) ==
  /\ Command(h) /\ stack[Reader(h)] = << >>
  /\ userID' = [userID EXCEPT ![h] = u]
  /\ stray' = [stray EXCEPT ![h] =
                 \/ @
                 \/ u # userID[h] /\ (closed[h] \/ subscriptions[h] # {})]
  /\ UNCHANGED <<maps, relayMu, roomMu, subscriptions, closed, gone, crowded,
                 stack>>

SubscribeCommand(h, ch) ==
  /\ Command(h)
  /\ Resubscribes \/ ch \notin subscriptions[h]
  /\ Begin(Reader(h), [NewFrame("subscribe", "get") EXCEPT !.h = h, !.ch = ch])
  /\ stray' = [stray EXCEPT ![h] = @ \/ closed[h]]
  /\ UNCHANGED <<maps, relayMu, roomMu, subscriptions, closed, gone, userID,
                 crowded>>

UnsubscribeCommand(h, ch) ==
  /\ Command(h)
  /\ Begin(Reader(h), [NewFrame("unsubscribe", "delete") EXCEPT !.h = h,
                                                                !.ch = ch])
  /\ UNCHANGED <<maps, relayMu, roomMu, table>>

(* The client has been silent for pingInterval + pongTimeout. *)
PingTimeout(h) ==
  /\ ~closed[h]
  /\ Begin(Timer(h), CloseFrame(h))
  /\ UNCHANGED <<maps, relayMu, roomMu, table, budget>>

Shutdown(a, chans, all) ==
  /\ budget.shutdowns > 0
  /\ budget' = [budget EXCEPT !.shutdowns = @ - 1]
  /\ Begin(App(a), [NewFrame("shutdown", "lock") EXCEPT !.chans = chans,
                                                        !.all = all])
  /\ UNCHANGED <<maps, relayMu, roomMu, table>>

DeleteRoom(a, ch) == Shutdown(a, {ch}, FALSE)

RelayClose(a) == Shutdown(a, Channels, TRUE)

-----------------------------------------------------------------------------
(* handleSubscribe *)

(* GetOrCreateRoom: GetRoom under RLock. *)
SubscribeGet(t) ==
  /\ In(t, "subscribe", "get")
  /\ RelayFree
  /\ LET o == rooms[Top(t).ch] IN
       Goto(t, IF o = 0 THEN At(t, "create")
                        ELSE [At(t, "check") EXCEPT !.o = o])
  /\ UNCHANGED <<maps, relayMu, roomMu, table, budget>>

(* GetOrCreateRoom: CreateRoom, an error when the room exists by now. *)
SubscribeCreate(t) ==
  /\ In(t, "subscribe", "create")
  /\ RelayFree
  /\ \/ /\ rooms[Top(t).ch] # 0
        /\ Return(t)
        /\ UNCHANGED <<rooms, created>>
     \/ /\ rooms[Top(t).ch] = 0
        /\ created < MaxRooms
        /\ created' = created + 1
        /\ rooms' = [rooms EXCEPT ![Top(t).ch] = created + 1]
        /\ Goto(t, [At(t, "check") EXCEPT !.o = created + 1])
  /\ UNCHANGED <<running, subscribers, relayMu, roomMu, table, budget>>

(* Between the count and the entry. *)
Admitted(o) ==
  {t \in Threads : /\ In(t, "subscribe", "lock") \/ In(t, "subscribe", "set")
                   /\ Top(t).o = o}

Admit(t, full) ==
  /\ IF full THEN Return(t) ELSE Goto(t, At(t, "lock"))
  /\ crowded' = [crowded EXCEPT ![Top(t).o] =
                   @ \/ /\ MaxSubscribers > 0 /\ ~full
                        /\ Admitted(Top(t).o) # {}]
  /\ UNCHANGED <<maps, relayMu, roomMu, subscriptions, closed, gone, userID,
                 stray, budget>>

(* Mutant of SubscribeCheck: > instead of >=. *)
SubscribeCheckOver(t) ==
  /\ In(t, "subscribe", "check")
  /\ RoomFree(Top(t).o)
  /\ Admit(t, MaxSubscribers > 0 /\ Cardinality(Members(Top(t).o)) > MaxSubscribers)

(* room.SubscriberCount() >= MaxSubscribers: "channel is full". *)
SubscribeCheck(t) ==
  /\ In(t, "subscribe", "check")
  /\ RoomFree(Top(t).o)
  /\ Admit(t, MaxSubscribers > 0 /\ Cardinality(Members(Top(t).o)) >= MaxSubscribers)

(* Mutant of SubscribeLock: the old connection is removed by Unsubscribe,   *)
(* which takes Room.mu again.                                               *)
SubscribeLockAgain(t) ==
  /\ In(t, "subscribe", "lock")
  /\ RoomFree(Top(t).o)
  /\ roomMu' = [roomMu EXCEPT ![Top(t).o] = t]
  /\ LET old == subscribers[Top(t).o][userID[Top(t).h]] IN
       IF old = Nobody THEN Goto(t, At(t, "set"))
                       ELSE Call(t, "set", UnsubscribeFrame(old, Top(t).ch))
  /\ UNCHANGED <<maps, relayMu, table, budget>>

(* Room.Subscribe takes Room.mu and closes the user's old connection. *)
SubscribeLock(t) ==
  /\ In(t, "subscribe", "lock")
  /\ RoomFree(Top(t).o)
  /\ roomMu' = [roomMu EXCEPT ![Top(t).o] = t]
  /\ LET old == subscribers[Top(t).o][userID[Top(t).h]] IN
       IF old = Nobody THEN Goto(t, At(t, "set"))
                       ELSE Call(t, "set", CloseFrame(old))
  /\ UNCHANGED <<maps, relayMu, table, budget>>

SubscribeSet(t) ==
  /\ In(t, "subscribe", "set")
  /\ subscribers' = [subscribers EXCEPT ![Top(t).o][userID[Top(t).h]] = Top(t).h]
  /\ roomMu' = [roomMu EXCEPT ![Top(t).o] = Nobody]
  /\ Goto(t, At(t, "store"))
  /\ UNCHANGED <<rooms, created, running, relayMu, table, budget>>

SubscribeStore(t) ==
  /\ In(t, "subscribe", "store")
  /\ subscriptions' = [subscriptions EXCEPT ![Top(t).h] = @ \cup {Top(t).ch}]
  /\ Return(t)
  /\ UNCHANGED <<maps, relayMu, roomMu, closed, gone, userID, stray, crowded,
                 budget>>

-----------------------------------------------------------------------------
(* handleUnsubscribe and Relay.Unsubscribe *)

(* Mutant of UnsubscribeDelete: the table keeps the channel. *)
UnsubscribeKeep(t) ==
  /\ In(t, "unsubscribe", "delete")
  /\ LET h == Top(t).h  ch == Top(t).ch IN
       IF ch \in subscriptions[h]
         THEN Call(t, "end", UnsubscribeFrame(h, ch)) ELSE Return(t)
  /\ UNCHANGED <<maps, relayMu, roomMu, table, budget>>

UnsubscribeDelete(t) ==
  /\ In(t, "unsubscribe", "delete")
  /\ LET h == Top(t).h  ch == Top(t).ch IN
       /\ subscriptions' = [subscriptions EXCEPT ![h] = @ \ {ch}]
       /\ IF ch \in subscriptions[h]
            THEN Call(t, "end", UnsubscribeFrame(h, ch)) ELSE Return(t)
  /\ UNCHANGED <<maps, relayMu, roomMu, closed, gone, userID, stray, crowded,
                 budget>>

UnsubscribeEnd(t) ==
  /\ In(t, "unsubscribe", "end")
  /\ Return(t)
  /\ UNCHANGED <<maps, relayMu, roomMu, table, budget>>

RelayUnsubscribeGet(t) ==
  /\ In(t, "relayUnsubscribe", "get")
  /\ RelayFree
  /\ LET o == rooms[Top(t).ch] IN
       IF o = 0 THEN Return(t)
                ELSE Goto(t, [At(t, "lock") EXCEPT !.o = o])
  /\ UNCHANGED <<maps, relayMu, roomMu, table, budget>>

(* Mutant of RelayUnsubscribeLock: an early return that keeps the lock. *)
RelayUnsubscribeLeak(t) ==
  /\ In(t, "relayUnsubscribe", "lock")
  /\ RoomFree(Top(t).o)
  /\ roomMu' = [roomMu EXCEPT ![Top(t).o] = t]
  /\ LET sub == subscribers[Top(t).o][Top(t).u] IN
       IF sub = Nobody THEN Return(t) ELSE Call(t, "delete", CloseFrame(sub))
  /\ UNCHANGED <<maps, relayMu, table, budget>>

(* Room.Unsubscribe closes whatever connection the user has now. *)
RelayUnsubscribeLock(t) ==
  /\ In(t, "relayUnsubscribe", "lock")
  /\ RoomFree(Top(t).o)
  /\ LET sub == subscribers[Top(t).o][Top(t).u] IN
       IF sub = Nobody
         THEN Return(t) /\ UNCHANGED roomMu
         ELSE /\ Call(t, "delete", CloseFrame(sub))
              /\ roomMu' = [roomMu EXCEPT ![Top(t).o] = t]
  /\ UNCHANGED <<maps, relayMu, table, budget>>

RelayUnsubscribeDelete(t) ==
  /\ In(t, "relayUnsubscribe", "delete")
  /\ subscribers' = [subscribers EXCEPT ![Top(t).o][Top(t).u] = Nobody]
  /\ roomMu' = [roomMu EXCEPT ![Top(t).o] = Nobody]
  /\ Return(t)
  /\ UNCHANGED <<rooms, created, running, relayMu, table, budget>>

-----------------------------------------------------------------------------
(* ClientHandler.Close *)

(* Mutant of CloseSwap: a second Close is not turned away. *)
CloseAgain(t) ==
  /\ In(t, "close", "swap")
  /\ closed' = [closed EXCEPT ![Top(t).h] = TRUE]
  /\ Goto(t, At(t, "copy"))
  /\ UNCHANGED <<maps, relayMu, roomMu, subscriptions, gone, userID, stray,
                 crowded, budget>>

CloseSwap(t) ==
  /\ In(t, "close", "swap")
  /\ LET h == Top(t).h IN
       /\ closed' = [closed EXCEPT ![h] = TRUE]
       /\ IF closed[h] THEN Return(t) ELSE Goto(t, At(t, "copy"))
  /\ UNCHANGED <<maps, relayMu, roomMu, subscriptions, gone, userID, stray,
                 crowded, budget>>

Subscribing(h) == stack[Reader(h)] # << >> /\ stack[Reader(h)][1].fn = "subscribe"

(* Mutant of CloseCopy: the copy is made of an emptied table. *)
CloseCopyEmpty(t) ==
  /\ In(t, "close", "copy")
  /\ LET h == Top(t).h IN
       /\ Goto(t, [At(t, "loop") EXCEPT !.chans = {}])
       /\ stray' = [stray EXCEPT ![h] = @ \/ Subscribing(h)]
  /\ UNCHANGED <<maps, relayMu, roomMu, subscriptions, closed, gone, userID,
                 crowded, budget>>

CloseCopy(t) ==
  /\ In(t, "close", "copy")
  /\ LET h == Top(t).h IN
       /\ Goto(t, [At(t, "loop") EXCEPT !.chans = subscriptions[h]])
       /\ stray' = [stray EXCEPT ![h] = @ \/ Subscribing(h)]
  /\ UNCHANGED <<maps, relayMu, roomMu, subscriptions, closed, gone, userID,
                 crowded, budget>>

(* The next channel of the copy, or transport.Close when there is none. *)
CloseLoop(t) ==
  /\ In(t, "close", "loop")
  /\ LET h == Top(t).h IN
     \/ \E ch \in Top(t).chans :
          /\ stack' = [stack EXCEPT ![t] =
               Below(t) \o <<[Top(t) EXCEPT !.chans = @ \ {ch}],
                             UnsubscribeFrame(h, ch)>>]
          /\ UNCHANGED gone
     \/ /\ Top(t).chans = {}
        /\ gone' = [gone EXCEPT ![h] = TRUE]
        /\ Return(t)
  /\ UNCHANGED <<maps, relayMu, roomMu, subscriptions, closed, userID, stray,
                 crowded, budget>>

-----------------------------------------------------------------------------
(* Relay.DeleteRoom, Relay.Close and, for each room, Room.Close. *)

ShutdownLock(t) ==
  /\ In(t, "shutdown", "lock")
  /\ RelayFree
  /\ LET chans == {ch \in Top(t).chans : rooms[ch] # 0} IN
     IF IF Top(t).all THEN ~running ELSE chans = {}
       THEN Return(t) /\ UNCHANGED <<relayMu, running>>
       ELSE /\ relayMu' = t
            /\ running' = (running /\ ~Top(t).all)
            /\ Goto(t, [At(t, "loop") EXCEPT !.chans = chans])
  /\ UNCHANGED <<rooms, created, subscribers, roomMu, table, budget>>

(* Room.Close begins with Stop, a critical section of Room.mu of its own,   *)
(* and the room leaves the map once its Close has returned.                 *)
ShutdownNext(t) ==
  /\ In(t, "shutdown", "loop")
  /\ \/ \E ch \in Top(t).chans :
          /\ RoomFree(rooms[ch])
          /\ Goto(t, [At(t, "stop") EXCEPT !.ch = ch, !.o = rooms[ch],
                                           !.chans = @ \ {ch}])
          /\ UNCHANGED <<rooms, relayMu>>
     \/ /\ Top(t).chans = {}
        /\ rooms' = [ch \in Channels |->
                       IF Top(t).all \/ ch = Top(t).ch THEN 0 ELSE rooms[ch]]
        /\ relayMu' = Nobody
        /\ Return(t)
  /\ UNCHANGED <<created, running, subscribers, roomMu, table, budget>>

ShutdownRoomLock(t) ==
  /\ In(t, "shutdown", "stop")
  /\ RoomFree(Top(t).o)
  /\ roomMu' = [roomMu EXCEPT ![Top(t).o] = t]
  /\ Goto(t, [At(t, "closing") EXCEPT
                !.conns = {subscribers[Top(t).o][u] : u \in Members(Top(t).o)}])
  /\ UNCHANGED <<maps, relayMu, table, budget>>

ShutdownRoom(t) ==
  /\ In(t, "shutdown", "closing")
  /\ \/ \E h \in Top(t).conns :
          /\ stack' = [stack EXCEPT ![t] =
               Below(t) \o <<[Top(t) EXCEPT !.conns = @ \ {h}], CloseFrame(h)>>]
          /\ UNCHANGED <<subscribers, roomMu>>
     \/ /\ Top(t).conns = {}
        /\ subscribers' = [subscribers EXCEPT ![Top(t).o] =
                             [u \in Users |-> Nobody]]
        /\ roomMu' = [roomMu EXCEPT ![Top(t).o] = Nobody]
        /\ Goto(t, At(t, "loop"))
  /\ UNCHANGED <<rooms, created, running, relayMu, table, budget>>

-----------------------------------------------------------------------------
Step(t) ==
  \/ SubscribeGet(t) \/ SubscribeCreate(t) \/ SubscribeCheck(t)
  \/ SubscribeLock(t) \/ SubscribeSet(t) \/ SubscribeStore(t)
  \/ UnsubscribeDelete(t) \/ UnsubscribeEnd(t)
  \/ RelayUnsubscribeGet(t) \/ RelayUnsubscribeLock(t)
  \/ RelayUnsubscribeDelete(t)
  \/ CloseSwap(t) \/ CloseCopy(t) \/ CloseLoop(t)
  \/ ShutdownLock(t) \/ ShutdownNext(t) \/ ShutdownRoomLock(t)
  \/ ShutdownRoom(t)

Next ==
  \/ \E t \in Threads : Step(t)
  \/ \E h \in Handlers, ch \in Channels :
       SubscribeCommand(h, ch) \/ UnsubscribeCommand(h, ch)
  \/ \E h \in Handlers, u \in NewNames : Connect(h, u)
  \/ \E h \in Handlers : PingTimeout(h)
  \/ \E a \in Apps : RelayClose(a) \/ \E ch \in Channels : DeleteRoom(a, ch)

Spec == Init /\ [][Next]_vars

(* A goroutine that is not blocked runs. *)
FairSpec == Spec /\ \A t \in Threads : WF_vars(Step(t))

-----------------------------------------------------------------------------
(* Properties *)

(* The lock the next step of t has to take, if it is held: its holder. *)
WaitsFor(t) ==
  IF stack[t] = << >> THEN {} ELSE
  LET f == Top(t)
      relay == \/ f.fn = "subscribe" /\ f.at \in {"get", "create"}
               \/ f.fn = "relayUnsubscribe" /\ f.at = "get"
               \/ f.fn = "shutdown" /\ f.at = "lock"
      room == IF \/ f.fn = "subscribe" /\ f.at \in {"check", "lock"}
                 \/ f.fn = "relayUnsubscribe" /\ f.at = "lock"
                 \/ f.fn = "shutdown" /\ f.at = "stop"
                THEN {f.o}
              ELSE IF f.fn = "shutdown" /\ f.at = "loop"
                THEN {rooms[ch] : ch \in f.chans} ELSE {}
  IN  ((IF relay THEN {relayMu} ELSE {}) \cup {roomMu[o] : o \in room})
        \ {Nobody}

(* room.go:56 "Close existing connection if any (handle reconnection)",     *)
(* room.go:461 "closes the room and disconnects all subscribers": no group  *)
(* of goroutines waits for locks that only the group can release.           *)
NoDeadlock ==
  LET Waiting == {t \in Threads : WaitsFor(t) # {}} IN
  \A S \in (SUBSET Waiting) \ {{}} : \E t \in S : ~(WaitsFor(t) \subseteq S)

(* room.go:58, 92 and 469 call Close with Room.mu held: a group of          *)
(* goroutines that waits for locks only the group can release always has a  *)
(* member inside a Close that a method of Room has called.                  *)
OnlyCloseDeadlocks ==
  LET Waiting == {t \in Threads : WaitsFor(t) # {}} IN
  \A S \in (SUBSET Waiting) \ {{}} :
    (\A t \in S : WaitsFor(t) \subseteq S)
      => \E t \in S : \E i \in DOMAIN stack[t] : i > 1 /\ stack[t][i].fn = "close"

(* A goroutine between two commands holds no lock, and one that holds the   *)
(* lock of a room is in a function that will release it.                    *)
LocksAreScoped ==
  /\ relayMu # Nobody =>
       \E i \in DOMAIN stack[relayMu] :
         stack[relayMu][i].fn = "shutdown" /\ stack[relayMu][i].at # "lock"
  /\ \A o \in Objects : roomMu[o] # Nobody =>
       \E i \in DOMAIN stack[roomMu[o]] :
         /\ stack[roomMu[o]][i].o = o
         /\ stack[roomMu[o]][i].at \in {"set", "delete", "closing"}

(* handler.go:196 "Unsubscribe from all channels": once Close has returned  *)
(* and the handler's reader is idle, no room of the relay still lists the   *)
(* handler under any name, provided that no subscribe command overlapped    *)
(* the Close and that the handler kept its name while it was in rooms: Close *)
(* has it leave under the name of its last connect (handler.go:204, 262).   *)
ClosedLeavesRooms ==
  \A h \in Handlers, ch \in Channels :
    gone[h] /\ ~stray[h] /\ stack[Reader(h)] = << >> /\ rooms[ch] # 0
      => \A u \in Users : subscribers[rooms[ch]][u] # h

(* handler.go:326 "Check max subscribers": the count and the entry are two  *)
(* critical sections of Room.mu.  A room has more subscribers than its      *)
(* namespace allows only if two handlers counted before either entered.     *)
NotOverfull ==
  \A o \in Objects : MaxSubscribers > 0 /\ Cardinality(Members(o)) > MaxSubscribers
                       => crowded[o]

(* Every session that times out is eventually closed and its transport too. *)
CloseReturns == \A h \in Handlers : closed[h] ~> gone[h]
=============================================================================
