------------------------------ MODULE ConnPool ------------------------------
(***************************************************************************)
(* The connection pool of the Redis client: Get, Put, Close, and the two   *)
(* kinds of call made on it, Client.Do (which puts its connection back)    *)
(* and Client.ReadPubSubMessage (which does not).                          *)
(*                                                                         *)
(* Source: redis/client.go.  p.conns is a buffered channel; a critical     *)
(* section of p.mu and an operation on the channel are one action each.    *)
(* The network is external: a dial may fail and a connection may break.    *)
(* No deadline is ever set on a connection, so a command ends with its     *)
(* reply or with an error of the connection.                               *)
(***************************************************************************)
EXTENDS Naturals, Sequences, FiniteSets

CONSTANTS
  Conns,        \* Conn objects that may be created
  NoConn,
  Callers,      \* goroutines that use the client
  Readers,      \* the callers of ReadPubSubMessage; the others call Do
  PoolSize,     \* Config.PoolSize
  Initial,      \* the MinIdleConns connections NewPool creates
  MaxCalls,     \* bound: calls of Do and ReadPubSubMessage
  MaxDials,     \* bound: failed dials
  MaxBreaks,    \* bound: connections that break
  MaxCancels    \* bound: Gets whose context is cancelled while they wait

ASSUME PoolAssumption ==
  /\ IsFiniteSet(Conns) /\ NoConn \notin Conns
  /\ IsFiniteSet(Callers) /\ Readers \subseteq Callers
  /\ PoolSize \in Nat \ {0}
  /\ Initial \subseteq Conns /\ Cardinality(Initial) <= PoolSize
  /\ MaxCalls \in Nat /\ MaxDials \in Nat /\ MaxBreaks \in Nat
  /\ MaxCancels \in Nat

VARIABLES
  conns,     \* Pool.conns: the connections buffered in the channel
  created,   \* Pool.created
  closer,    \* Pool.Close: "no", "flagged", "draining", "done"
  state,     \* state[c]: "new", "open", "broken", "closed"
  pc,        \* pc[g]: where caller g is
  held,      \* held[g]: the connection g works with
  lost,      \* history: units of created that will never come back
  abandoned, \* history: connections kept by ReadPubSubMessage
  budget     \* what is left of the bounds

vars == <<conns, created, closer, state, pc, held, lost, abandoned,
          budget>>

PCs == {"idle", "try", "limit", "wait", "dial", "do", "put", "send", "panicked"}

TypeOK ==
  /\ conns \in Seq(Conns) /\ Len(conns) <= PoolSize
  /\ created \in 0 .. PoolSize
  /\ closer \in {"no", "flagged", "draining", "done"}
  /\ state \in [Conns -> {"new", "open", "broken", "closed"}]
  /\ pc \in [Callers -> PCs]
  /\ held \in [Callers -> Conns \cup {NoConn}]
  /\ lost \in Nat
  /\ abandoned \subseteq Conns
  /\ budget \in [{"calls", "dials", "breaks", "cancels"} -> Nat]

(* NewPool has dialled the initial connections. *)
Init ==
  /\ conns \in {s \in [1 .. Cardinality(Initial) -> Initial] :
                  \A c \in Initial : \E i \in DOMAIN s : s[i] = c}
  /\ created = Cardinality(Initial)
  /\ closer = "no"
  /\ state = [c \in Conns |-> IF c \in Initial THEN "open" ELSE "new"]
  /\ pc = [g \in Callers |-> "idle"]
  /\ held = [g \in Callers |-> NoConn]
  /\ lost = 0
  /\ abandoned = {}
  /\ budget = [k \in {"calls", "dials", "breaks", "cancels"} |->
                 CASE k = "calls" -> MaxCalls [] k = "dials" -> MaxDials
                   [] k = "breaks" -> MaxBreaks [] k = "cancels" -> MaxCancels]

Closed == closer # "no"                    \* Pool.closed
ChanClosed == closer \in {"draining", "done"}

Spend(k) == /\ budget[k] > 0
            /\ budget' = [budget EXCEPT ![k] = @ - 1]

Goto(g, place) == pc' = [pc EXCEPT ![g] = place]

Hold(g, c, place) == /\ held' = [held EXCEPT ![g] = c]
                     /\ Goto(g, place)

-----------------------------------------------------------------------------
(* Get *)

(* "if p.closed return ErrClosed" *)
Get(g) ==
  /\ pc[g] = "idle"
  /\ Spend("calls")
  /\ Goto(g, IF Closed THEN "idle" ELSE "try")
  /\ UNCHANGED <<conns, created, closer, state, held, lost, abandoned>>

(* A receive that succeeds: a closed connection is replaced by a new one. *)
Receive(g) ==
  /\ conns # << >>
  /\ conns' = Tail(conns)
  /\ IF state[Head(conns)] = "closed"
       THEN Goto(g, "dial") /\ UNCHANGED held
       ELSE Hold(g, Head(conns), "do")
  /\ UNCHANGED <<created, closer, state, lost, abandoned, budget>>

(* A receive on the closed, empty channel yields nil: conn.IsClosed panics. *)
ReceiveNil(g) ==
  /\ conns = << >> /\ ChanClosed
  /\ Goto(g, "panicked")
  /\ UNCHANGED <<conns, created, closer, state, held, lost, abandoned, budget>>

(* The first select, with a default arm. *)
GetTry(g) ==
  /\ pc[g] = "try"
  /\ \/ Receive(g)
     \/ ReceiveNil(g)
     \/ /\ conns = << >> /\ ~ChanClosed
        /\ Goto(g, "limit")
        /\ UNCHANGED <<conns, created, closer, state, held, lost, abandoned, budget>>

(* Mutant of GetLimit: the new connection is not counted. *)
GetLimitUncounted(g) ==
  /\ pc[g] = "limit"
  /\ Goto(g, IF created < PoolSize THEN "dial" ELSE "wait")
  /\ UNCHANGED <<conns, created, closer, state, held, lost, abandoned, budget>>

(* Mutant of GetLimit: room for one connection too many. *)
GetLimitOff(g) ==
  /\ pc[g] = "limit"
  /\ IF created <= PoolSize
       THEN created' = created + 1 /\ Goto(g, "dial")
       ELSE UNCHANGED created /\ Goto(g, "wait")
  /\ UNCHANGED <<conns, closer, state, held, lost, abandoned, budget>>

GetLimit(g) ==
  /\ pc[g] = "limit"
  /\ IF created < PoolSize
       THEN created' = created + 1 /\ Goto(g, "dial")
       ELSE UNCHANGED created /\ Goto(g, "wait")
  /\ UNCHANGED <<conns, closer, state, held, lost, abandoned, budget>>

(* The second select: a connection, or the end of the context. *)
GetWait(g) == pc[g] = "wait" /\ (Receive(g) \/ ReceiveNil(g))

GetCancelled(g) ==
  /\ pc[g] = "wait"
  /\ Spend("cancels")
  /\ Goto(g, "idle")
  /\ UNCHANGED <<conns, created, closer, state, held, lost, abandoned>>

(* createConn *)
Dial(g) ==
  /\ pc[g] = "dial"
  /\ \E c \in Conns :
       /\ state[c] = "new"
       /\ state' = [state EXCEPT ![c] = "open"]
       /\ Hold(g, c, "do")
  /\ UNCHANGED <<conns, created, closer, lost, abandoned, budget>>

(* The error is returned; p.created keeps counting the connection. *)
DialFails(g) ==
  /\ pc[g] = "dial"
  /\ Spend("dials")
  /\ lost' = lost + 1
  /\ Goto(g, "idle")
  /\ UNCHANGED <<conns, created, closer, state, held, abandoned>>

-----------------------------------------------------------------------------
(* The commands *)

(* Conn.Do returns a reply. *)
Do(g) ==
  /\ pc[g] = "do" /\ g \notin Readers
  /\ state[held[g]] = "open"
  /\ Goto(g, "put")
  /\ UNCHANGED <<conns, created, closer, state, held, lost, abandoned, budget>>

(* The connection of g is broken, or breaks now. *)
Breaks(g) == IF state[held[g]] = "broken" THEN UNCHANGED budget
                                          ELSE Spend("breaks")

(* Mutant of DoFails: the broken connection is closed, the count stays. *)
DoFailsDrops(g) ==
  /\ pc[g] = "do" /\ g \notin Readers
  /\ Breaks(g)
  /\ state' = [state EXCEPT ![held[g]] = "closed"]
  /\ Hold(g, NoConn, "idle")
  /\ UNCHANGED <<conns, created, closer, lost, abandoned>>

(* Conn.Do returns an error of the connection, which stays open. *)
DoFails(g) ==
  /\ pc[g] = "do" /\ g \notin Readers
  /\ Breaks(g)
  /\ state' = [state EXCEPT ![held[g]] = "broken"]
  /\ Goto(g, "put")
  /\ UNCHANGED <<conns, created, closer, held, lost, abandoned>>

(* Mutant of Read: the subscribed connection is also put back. *)
ReadPutsBack(g) ==
  /\ pc[g] = "do" /\ g \in Readers
  /\ state[held[g]] = "open"
  /\ abandoned' = abandoned \cup {held[g]}
  /\ Goto(g, "put")
  /\ UNCHANGED <<conns, created, closer, state, held, lost, budget>>

(* ReadPubSubMessage returns a message and keeps the connection ... *)
Read(g) ==
  /\ pc[g] = "do" /\ g \in Readers
  /\ state[held[g]] = "open"
  /\ lost' = lost + 1
  /\ abandoned' = abandoned \cup {held[g]}
  /\ Hold(g, NoConn, "idle")
  /\ UNCHANGED <<conns, created, closer, state, budget>>

(* ... or fails and closes it. *)
ReadFails(g) ==
  /\ pc[g] = "do" /\ g \in Readers
  /\ Breaks(g)
  /\ lost' = lost + 1
  /\ state' = [state EXCEPT ![held[g]] = "closed"]
  /\ Hold(g, NoConn, "idle")
  /\ UNCHANGED <<conns, created, closer, abandoned>>

-----------------------------------------------------------------------------
(* Put *)

(* Mutant of Put: a closed pool is not noticed. *)
PutBlindly(g) ==
  /\ pc[g] = "put"
  /\ IF ChanClosed THEN Hold(g, NoConn, "idle")
                   ELSE Goto(g, "send") /\ UNCHANGED held
  /\ UNCHANGED <<conns, created, closer, state, lost, abandoned, budget>>

(* A closed pool closes the connection. *)
Put(g) ==
  /\ pc[g] = "put"
  /\ IF Closed
       THEN /\ state' = [state EXCEPT ![held[g]] = "closed"]
            /\ Hold(g, NoConn, "idle")
       ELSE /\ Goto(g, "send")
            /\ UNCHANGED <<state, held>>
  /\ UNCHANGED <<conns, created, closer, lost, abandoned, budget>>

(* The select of Put: back to the channel, or closed when it is full.  A    *)
(* send on the closed channel panics.                                       *)
PutSend(g) ==
  /\ pc[g] = "send" /\ ~ChanClosed
  /\ Hold(g, NoConn, "idle")
  /\ IF Len(conns) < PoolSize
       THEN conns' = Append(conns, held[g]) /\ UNCHANGED <<created, state>>
       ELSE /\ state' = [state EXCEPT ![held[g]] = "closed"]
            /\ created' = created - 1
            /\ UNCHANGED conns
  /\ UNCHANGED <<closer, lost, abandoned, budget>>

PutPanics(g) ==
  /\ pc[g] = "send" /\ ChanClosed
  /\ Goto(g, "panicked")
  /\ UNCHANGED <<conns, created, closer, state, held, lost, abandoned, budget>>

-----------------------------------------------------------------------------
(* Pool.Close: the flag under p.mu, then the channel, then the connections *)
(* left in it, one by one.                                                  *)
Close ==
  /\ closer = "no"
  /\ closer' = "flagged"
  /\ UNCHANGED <<conns, created, state, pc, held, lost, abandoned, budget>>

CloseChannel ==
  /\ closer = "flagged"
  /\ closer' = "draining"
  /\ UNCHANGED <<conns, created, state, pc, held, lost, abandoned, budget>>

Drain ==
  /\ closer = "draining"
  /\ \/ /\ conns # << >>
        /\ conns' = Tail(conns)
        /\ state' = [state EXCEPT ![Head(conns)] = "closed"]
        /\ UNCHANGED closer
     \/ /\ conns = << >>
        /\ closer' = "done"
        /\ UNCHANGED <<conns, state>>
  /\ UNCHANGED <<created, pc, held, lost, abandoned, budget>>

-----------------------------------------------------------------------------
CallStep(g) == \/ GetTry(g) \/ GetLimit(g) \/ GetWait(g)
               \/ Dial(g) \/ DialFails(g)
               \/ Do(g) \/ DoFails(g)
               \/ Put(g) \/ PutSend(g) \/ PutPanics(g)

Next == \/ \E g \in Callers : \/ Get(g) \/ CallStep(g) \/ GetCancelled(g)
                              \/ Read(g) \/ ReadFails(g)
        \/ Close \/ CloseChannel \/ Drain

Spec == Init /\ [][Next]_vars

(***************************************************************************)
(* A goroutine that can run does, Pool.Close included; Redis answers a     *)
(* command or the connection fails; a dial ends.  Nothing is assumed of    *)
(* ReadPubSubMessage, which waits for a message, nor of the contexts.      *)
(***************************************************************************)
FairSpec == /\ Spec
            /\ \A g \in Callers : WF_vars(CallStep(g))
            /\ WF_vars(CloseChannel \/ Drain)

-----------------------------------------------------------------------------
(* Properties *)

(* Units of the pool that do not come back by themselves. *)
Out == lost + Cardinality({g \in Readers : pc[g] = "do"})

(* A connection serves one command at a time: it is buffered once or held   *)
(* by one caller, so replies cannot be mixed up (client.go:199-269).        *)
Exclusive ==
  /\ \A i, j \in DOMAIN conns : conns[i] = conns[j] => i = j
  /\ \A g \in Callers : held[g] # NoConn =>
       /\ \A i \in DOMAIN conns : conns[i] # held[g]
       /\ \A f \in Callers : held[f] = held[g] => f = g
       /\ held[g] \notin abandoned

(* Every unit of p.created is a buffered connection, one in use, one being  *)
(* dialled, or one of those a failed dial or a ReadPubSubMessage has lost:  *)
(* no other path of Get and Put loses capacity or creates too much of it.   *)
Accounting ==
  ~Closed =>
    created = Len(conns) + lost
                + Cardinality({g \in Callers :
                                 pc[g] \in {"dial", "do", "put", "send"}})

(* After Pool.Close no connection stays open but those still in use, those  *)
(* of a Put that met the closed channel, and those ReadPubSubMessage kept.  *)
ClosedIsEmpty ==
  closer = "done" =>
    \A c \in Conns : state[c] \in {"open", "broken"} =>
      c \in abandoned \/ \E g \in Callers : held[g] = c

(* A Get that waits is served while the pool has capacity left, although    *)
(* other callers take and return connections and some of them break.        *)
Served == \A g \in Callers : pc[g] = "wait" ~> pc[g] # "wait" \/ Out >= PoolSize
=============================================================================
