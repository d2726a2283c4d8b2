--------------------------- MODULE StreamListener ---------------------------
(***************************************************************************)
(* The listener of a room: Start, Stop and the goroutine that reads the    *)
(* room's Redis stream with blocking XREADs and broadcasts what it reads.  *)
(*                                                                         *)
(* Source: engine/room.go (Start, Stop, listenLoop, Close),                *)
(* engine/relay.go (readFromStream, Close), redis/stream.go (XRead).  The  *)
(* stream is external: entry i is the i-th XADD, by this node or by        *)
(* another one.                                                            *)
(***************************************************************************)
EXTENDS Integers

CONSTANTS
  Loops,       \* goroutines that may run listenLoop
  Dollar,      \* the special ID "$": whatever comes after this XREAD
  Count,       \* COUNT of the XREAD (100)
  MaxStream,   \* bound: entries added
  MaxCalls,    \* bound: calls of Start and Stop
  MaxErrors,   \* bound: failed XREADs
  MaxPanics    \* bound: panics that reach listenLoop's recover

ASSUME ListenerAssumption ==
  /\ Dollar \notin Int
  /\ Count \in Nat \ {0}
  /\ MaxStream \in Nat /\ MaxCalls \in Nat /\ MaxErrors \in Nat
  /\ MaxPanics \in Nat

VARIABLES
  running,     \* Room.running
  stopChan,    \* Room.stopChan: the number of the channel the field holds
  closedChans, \* the channels that have been closed
  cancelled,   \* Relay.ctx is done
  length,      \* number of entries in the stream
  loop,        \* loop[l]: program counter and local variables of listenLoop
  relayed,     \* relayed[l]: the entries loop l has broadcast
  toStop,      \* history: loops that were alive when the last Stop took effect
               \* and that no Start has overtaken
  overtaken,   \* history: a Start found a listener that had yet to end
  budget       \* what is left of the bounds

vars == <<running, stopChan, closedChans, cancelled, length, loop, relayed,
          toStop, overtaken, budget>>

PCs == {"none", "select", "calling", "blocked", "handling", "sleeping", "exited"}

(* base is what Redis took lastID to mean; next .. hi is what is left of    *)
(* the batch being broadcast.                                               *)
Loop == [pc : PCs, lastID : Nat \cup {Dollar}, base : Nat, next : Nat,
         hi : Nat]

NoLoop == [pc |-> "none", lastID |-> Dollar, base |-> 0, next |-> 0, hi |-> 0]

NewLoop == [NoLoop EXCEPT !.pc = "select"]

Alive(l) == loop[l].pc \notin {"none", "exited"}

(* The batch in hand: what an XREAD with COUNT has returned of the stream. *)
InHand(l) ==
  loop[l].pc = "handling" =>
    /\ loop[l].base < loop[l].next /\ loop[l].next <= loop[l].hi
    /\ loop[l].hi <= length /\ loop[l].hi <= loop[l].base + Count

TypeOK ==
  /\ running \in BOOLEAN
  /\ stopChan \in Nat
  /\ closedChans \subseteq Nat
  /\ cancelled \in BOOLEAN
  /\ length \in Nat
  /\ loop \in [Loops -> Loop]
  /\ relayed \in [Loops -> SUBSET Nat]
  /\ toStop \subseteq Loops
  /\ overtaken \in BOOLEAN
  /\ \A l \in Loops : InHand(l)
  /\ budget \in [{"calls", "errors", "panics"} -> Nat]

Init ==
  /\ running = FALSE
  /\ stopChan = 0
  /\ closedChans = {}
  /\ cancelled = FALSE
  /\ length = 0
  /\ loop = [l \in Loops |-> NoLoop]
  /\ relayed = [l \in Loops |-> {}]
  /\ toStop = {}
  /\ overtaken = FALSE
  /\ budget = [kind \in {"calls", "errors", "panics"} |->
                 IF kind = "calls" THEN MaxCalls
                 ELSE IF kind = "errors" THEN MaxErrors ELSE MaxPanics]

-----------------------------------------------------------------------------
Spend(kind) == /\ budget[kind] > 0
               /\ budget' = [budget EXCEPT ![kind] = @ - 1]

(* The next goroutine: they are interchangeable, so one of the unused ones. *)
Unused(l) == /\ loop[l].pc = "none"
             /\ l = CHOOSE k \in Loops : loop[k].pc = "none"

(* Another XADD on the room's stream, by any node. *)
Append ==
  /\ length < MaxStream
  /\ length' = length + 1
  /\ UNCHANGED <<running, stopChan, closedChans, cancelled, loop, relayed,
                 toStop, overtaken, budget>>

(* Room.Start on a room that is not running: a new stop channel and a new   *)
(* goroutine.  A listener that has yet to notice a Stop goes on.            *)
Start(l) ==
  /\ Spend("calls")
  /\ ~running
  /\ Unused(l)
  /\ running' = TRUE
  /\ stopChan' = stopChan + 1
  /\ loop' = [loop EXCEPT ![l] = NewLoop]
  /\ toStop' = {}
  /\ overtaken' = (overtaken \/ \E k \in Loops : Alive(k))
  /\ UNCHANGED <<closedChans, cancelled, length, relayed>>

(* Room.Start on a running room returns at once. *)
StartAgain ==
  /\ Spend("calls")
  /\ running
  /\ UNCHANGED <<running, stopChan, closedChans, cancelled, length, loop,
                 relayed, toStop, overtaken>>

(* Mutant of Stop: the flag is reset, the channel is not closed. *)
StopNoClose ==
  /\ Spend("calls")
  /\ running
  /\ running' = FALSE
  /\ toStop' = toStop \cup {l \in Loops : Alive(l)}
  /\ UNCHANGED <<stopChan, closedChans, cancelled, length, loop, relayed,
                 overtaken>>

(* Room.Stop, also at the head of Room.Close. *)
Stop ==
  /\ Spend("calls")
  /\ running
  /\ running' = FALSE
  /\ closedChans' = closedChans \cup {stopChan}
  /\ toStop' = toStop \cup {l \in Loops : Alive(l)}
  /\ UNCHANGED <<stopChan, cancelled, length, loop, relayed, overtaken>>

(* Relay.Close cancels the context and closes the room. *)
RelayClose ==
  /\ ~cancelled
  /\ cancelled' = TRUE
  /\ running' = FALSE
  /\ closedChans' = IF running THEN closedChans \cup {stopChan} ELSE closedChans
  /\ toStop' = toStop \cup {l \in Loops : Alive(l)}
  /\ UNCHANGED <<stopChan, length, loop, relayed, overtaken, budget>>

-----------------------------------------------------------------------------
(* The loop.  The select reads the field r.stopChan, not the channel that   *)
(* existed when the goroutine was started.                                  *)
Select(l) ==
  /\ loop[l].pc = "select"
  /\ loop' = [loop EXCEPT ![l].pc = IF cancelled \/ stopChan \in closedChans
                                      THEN "exited" ELSE "calling"]
  /\ UNCHANGED <<running, stopChan, closedChans, cancelled, length, relayed,
                 toStop, overtaken, budget>>

(* Redis receives XREAD COUNT n BLOCK 5000 and resolves "$" (external). *)
XRead(l) ==
  /\ loop[l].pc = "calling"
  /\ loop' = [loop EXCEPT ![l] = [@ EXCEPT !.pc = "blocked",
                !.base = IF loop[l].lastID = Dollar THEN length
                                                    ELSE loop[l].lastID]]
  /\ UNCHANGED <<running, stopChan, closedChans, cancelled, length, relayed,
                 toStop, overtaken, budget>>

(* Mutant of XReadReply: the XREAD was sent without COUNT. *)
XReadReplyUncounted(l, hi) ==
  /\ loop[l].pc = "blocked"
  /\ loop[l].base < hi /\ hi <= length
  /\ loop' = [loop EXCEPT ![l] = [@ EXCEPT !.pc = "handling",
                !.next = loop[l].base + 1, !.hi = hi]]
  /\ UNCHANGED <<running, stopChan, closedChans, cancelled, length, relayed,
                 toStop, overtaken, budget>>

(* The reply: some of the entries after base, in order, at most Count. *)
XReadReply(l, hi) ==
  /\ loop[l].pc = "blocked"
  /\ loop[l].base < hi /\ hi <= length /\ hi <= loop[l].base + Count
  /\ loop' = [loop EXCEPT ![l] = [@ EXCEPT !.pc = "handling",
                !.next = loop[l].base + 1, !.hi = hi]]
  /\ UNCHANGED <<running, stopChan, closedChans, cancelled, length, relayed,
                 toStop, overtaken, budget>>

(* Five seconds without an entry: a null reply, an empty batch. *)
XReadTimeout(l) ==
  /\ loop[l].pc = "blocked"
  /\ length = loop[l].base
  /\ loop' = [loop EXCEPT ![l].pc = "select"]
  /\ UNCHANGED <<running, stopChan, closedChans, cancelled, length, relayed,
                 toStop, overtaken, budget>>

(* Mutant of XReadError: the loop forgets where it was. *)
XReadErrorResets(l) ==
  /\ loop[l].pc \in {"calling", "blocked"}
  /\ Spend("errors")
  /\ loop' = [loop EXCEPT ![l] = [@ EXCEPT !.pc = "select",
                                             !.lastID = Dollar]]
  /\ UNCHANGED <<running, stopChan, closedChans, cancelled, length, relayed,
                 toStop, overtaken>>

(* readFromStream fails: back off and try again from the same lastID. *)
XReadError(l) ==
  /\ loop[l].pc \in {"calling", "blocked"}
  /\ Spend("errors")
  /\ loop' = [loop EXCEPT ![l].pc = "select"]
  /\ UNCHANGED <<running, stopChan, closedChans, cancelled, length, relayed,
                 toStop, overtaken>>

(* Mutant of Handle: lastID is the end of the batch from its start. *)
HandleAhead(l) ==
  /\ loop[l].pc = "handling"
  /\ relayed' = [relayed EXCEPT ![l] = @ \cup {loop[l].next}]
  /\ loop' = [loop EXCEPT ![l] = [@ EXCEPT !.lastID = loop[l].hi,
                !.next = loop[l].next + 1,
                !.pc = IF loop[l].next = loop[l].hi THEN "select"
                                                    ELSE "handling"]]
  /\ UNCHANGED <<running, stopChan, closedChans, cancelled, length, toStop,
                 overtaken, budget>>

(* One iteration over the batch: Broadcast, then lastID = msg.ID. *)
Handle(l) ==
  /\ loop[l].pc = "handling"
  /\ relayed' = [relayed EXCEPT ![l] = @ \cup {loop[l].next}]
  /\ loop' = [loop EXCEPT ![l] = [@ EXCEPT !.lastID = loop[l].next,
                !.next = loop[l].next + 1,
                !.pc = IF loop[l].next = loop[l].hi THEN "select"
                                                    ELSE "handling"]]
  /\ UNCHANGED <<running, stopChan, closedChans, cancelled, length, toStop,
                 overtaken, budget>>

(* A panic unwinds to the deferred function (an event handler that panics,  *)
(* a nil connection from a closed pool): a running room sleeps a second.    *)
Panic(l) ==
  /\ loop[l].pc \in {"calling", "blocked", "handling"}
  /\ Spend("panics")
  /\ loop' = [loop EXCEPT ![l].pc = IF running THEN "sleeping" ELSE "exited"]
  /\ UNCHANGED <<running, stopChan, closedChans, cancelled, length, relayed,
                 toStop, overtaken>>

(* Mutant of Restart: the old goroutine goes on as well. *)
RestartKeepsOld(l, k) ==
  /\ loop[l].pc = "sleeping"
  /\ Unused(k)
  /\ loop' = [loop EXCEPT ![l].pc = "select", ![k] = NewLoop]
  /\ toStop' = IF l \in toStop THEN toStop \cup {k} ELSE toStop
  /\ UNCHANGED <<running, stopChan, closedChans, cancelled, length, relayed,
                 overtaken, budget>>

(* "go r.listenLoop(ctx)": a new goroutine that starts from "$" again. *)
Restart(l, k) ==
  /\ loop[l].pc = "sleeping"
  /\ Unused(k)
  /\ loop' = [loop EXCEPT ![l].pc = "exited", ![k] = NewLoop]
  /\ toStop' = IF l \in toStop THEN toStop \cup {k} ELSE toStop
  /\ UNCHANGED <<running, stopChan, closedChans, cancelled, length, relayed,
                 overtaken, budget>>

-----------------------------------------------------------------------------
LoopStep(l) == \/ Select(l) \/ XRead(l) \/ XReadTimeout(l)
               \/ \E hi \in 1 .. length : XReadReply(l, hi)
               \/ Handle(l)
               \/ \E k \in Loops : Restart(l, k)

Next == \/ Append \/ StartAgain \/ Stop \/ RelayClose
        \/ \E l \in Loops : Start(l)
        \/ \E l \in Loops : LoopStep(l) \/ XReadError(l) \/ Panic(l)

Spec == Init /\ [][Next]_vars

(***************************************************************************)
(* A goroutine that can run does, and Redis answers an XREAD within its    *)
(* BLOCK time.  Errors and panics are never forced.                        *)
(***************************************************************************)
FairSpec == Spec /\ \A l \in Loops : WF_vars(LoopStep(l))

-----------------------------------------------------------------------------
(* Properties *)

(* What a loop has broadcast has no hole: once it knows an ID it skips no   *)
(* entry, whatever fails and is retried in between, and lastID is the last  *)
(* entry it has broadcast (room.go:402-456).                                *)
NoSkip ==
  \A l \in Loops :
    /\ loop[l].lastID = Dollar <=> relayed[l] = {}
    /\ \A i \in relayed[l] : i <= loop[l].lastID /\ i <= length
    /\ \A i \in relayed[l] : i .. loop[l].lastID \subseteq relayed[l]

(* A room has one listener, and each entry is broadcast by the listener at  *)
(* most once, through panics, restarts, Stop and Start, unless a Start came *)
(* while the stopped listener was still in its XREAD (room.go:336 looks at  *)
(* running only; a restart follows the end of the loop it replaces).        *)
OneListener ==
  ~overtaken =>
    \A l, k \in Loops : l # k => /\ ~(Alive(l) /\ Alive(k))
                                 /\ relayed[l] \cap relayed[k] = {}

(* A listener that has an ID in hand eventually broadcasts every later      *)
(* entry, or is stopped, or panics.                                         *)
CatchesUp ==
  \A l \in Loops : \A i \in 2 .. MaxStream :
    (loop[l].lastID # Dollar /\ i <= length /\ \E j \in relayed[l] : j < i)
      ~> (i \in relayed[l] \/ ~Alive(l) \/ loop[l].pc = "sleeping")

(* room.go:349 "Stop stops listening to the Redis stream": every goroutine  *)
(* that was listening when Stop (or Close) was called ends, whatever it was *)
(* doing, unless Start is called before it has looked at the channel.  The  *)
(* select reads the field stopChan (room.go:412), which Start replaces: a   *)
(* goroutine that a Start has overtaken ends with the next Stop.            *)
StopStops == \A l \in Loops : l \in toStop ~> ~Alive(l) \/ l \notin toStop
=============================================================================
