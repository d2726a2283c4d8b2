------------------------------ MODULE Recovery ------------------------------
(***************************************************************************)
(* How far a user has read a room, and how a room's stream is filled from  *)
(* the application's own storage.                                          *)
(*                                                                         *)
(* Source: engine/relay.go (RecoverMessages, RecoverAndDeliver,            *)
(* SaveOffset, GetOffset), engine/history.go, redis/stream.go.  Each Redis *)
(* command is a step, so calls interleave between any two of them; nothing *)
(* but Redis is shared.  A batch that has been read belongs to its call,   *)
(* so its delivery is one step, which may stop at any message.             *)
(***************************************************************************)
EXTENDS Integers, Sequences, FiniteSets

CONSTANTS
  Users,
  Calls,         \* slots for RecoverAndDeliver calls, used again and again
  UserOf,        \* UserOf[c]: the subscriber of the calls in slot c
  Loads,         \* LoadHistoryWithFallback and LoadExternalHistory calls
  NumExternal,   \* messages 1 .. NumExternal are in the external storage
  RecoverLimit, LoadLimit,
  TrimLen,       \* maxLen of TrimRedisHistory
  Scenarios,     \* the sets of callers that may be at work together
  MaxEntries,    \* bound: entries ever added to the stream
  MaxExplicit,   \* bound: recoveries from an ID that the client names
  MaxFaults      \* bound: failed commands and failed deliveries

ASSUME RecoveryAssumption ==
  /\ UserOf \in [Calls -> Users]
  /\ Scenarios \subseteq SUBSET (Calls \cup Loads)
  /\ NumExternal \in Nat /\ TrimLen \in Nat
  /\ RecoverLimit \in Nat \ {0} /\ LoadLimit \in Nat \ {0}
  /\ MaxEntries \in Nat /\ MaxExplicit \in Nat /\ MaxFaults \in Nat

VARIABLES
  callers,    \* which of Calls and Loads are made
  log,        \* log[id]: the message of the id-th entry ever added
  entries,    \* the IDs that are in the stream now
  offset,     \* offset[u]: the stored offset, 0 for none
  call,       \* call[c]: the RecoverAndDeliver call in slot c
  load,       \* load[l]: the call l that loads history
  delivered,  \* history: delivered[u], the entries u has received
  skipped,    \* history: skipped[u], the entries u said to have
  injected,   \* history: the loads that have added an entry
  peers,      \* history: peers[l], the loads injecting when l read the stream
  removed,    \* history: the stream has been trimmed or cleared
  calm,       \* history: only loads filled the stream, one at a time
  budget

vars == <<callers, log, entries, offset, call, load, delivered, skipped,
          injected, peers, removed, calm, budget>>

IDs == 1 .. MaxEntries
Published == 0          \* what log holds for a message of Publish

CallState == [pc : {"idle", "offset", "range", "deliver", "save"},
              from : 0 .. MaxEntries, todo : SUBSET IDs, last : 0 .. MaxEntries]
LoadState == [pc : {"idle", "inject", "deliver", "done", "error"},
              kind : {"fallback", "external"}, source : {"redis", "given"},
              todo : SUBSET Nat, next : Nat, shown : SUBSET (Nat \X Nat)]

TypeOK ==
  /\ callers \in Scenarios
  /\ log \in Seq(0 .. NumExternal) /\ Len(log) <= MaxEntries
  /\ entries \subseteq DOMAIN log
  /\ offset \in [Users -> 0 .. Len(log)]
  /\ call \in [Calls -> CallState]
  /\ \A c \in Calls : Cardinality(call[c].todo) <= RecoverLimit
  /\ load \in [Loads -> LoadState]
  /\ \A l \in Loads : Cardinality(load[l].todo) <= LoadLimit
  /\ delivered \in [Users -> SUBSET DOMAIN log]
  /\ skipped \in [Users -> SUBSET DOMAIN log]
  /\ injected \subseteq Loads
  /\ peers \in [Loads -> SUBSET Loads]
  /\ removed \in BOOLEAN /\ calm \in BOOLEAN
  /\ budget \in [faults : Nat, explicit : Nat]

Init ==
  /\ callers \in Scenarios
  /\ log = << >> /\ entries = {}
  /\ offset = [u \in Users |-> 0]
  /\ call = [c \in Calls |-> [pc |-> "idle", from |-> 0, todo |-> {}, last |-> 0]]
  /\ load = [l \in Loads |-> [pc |-> "idle", kind |-> "fallback",
                              source |-> "given", todo |-> {}, next |-> 1,
                              shown |-> {}]]
  /\ delivered = [u \in Users |-> {}] /\ skipped = [u \in Users |-> {}]
  /\ injected = {} /\ peers = [l \in Loads |-> {}]
  /\ removed = FALSE /\ calm = TRUE
  /\ budget = [faults |-> MaxFaults, explicit |-> MaxExplicit]

Fault == /\ budget.faults > 0
         /\ budget' = [budget EXCEPT !.faults = @ - 1]

-----------------------------------------------------------------------------
(* The stream *)

(* XADD with ID "*": later entries have greater IDs.  Redis promises this   *)
(* while the stream exists; after ClearRedisHistory, which is a DEL, it is  *)
(* an assumption: the clock of Redis has gone on in between.                *)
XAdd(m) == /\ Len(log) < MaxEntries
           /\ log' = Append(log, m)
           /\ entries' = entries \cup {Len(log) + 1}

(* Mutant of After: the bounds are swapped, "-" .. "(id". *)
AfterSwapped(id) == {i \in entries : id = 0 \/ i < id}

(* Mutant of After: the range starts at "-" whatever the ID. *)
AfterAll(id) == {i \in entries : i >= 0}

(* The entries of the range "(id" .. "+"; with no ID, "-" .. "+". *)
After(id) == {i \in entries : i > id}

(* Mutant of First: no COUNT. *)
FirstAll(s, limit) == s

(* COUNT limit: the first entries of a range. *)
First(s, limit) == {i \in s : Cardinality({j \in s : j <= i}) <= limit}

(* A prefix of s that is not the whole: what is delivered before an error. *)
Prefixes(s) == {{j \in s : j < i} : i \in s}

streamVars == <<log, entries, removed>>

-----------------------------------------------------------------------------
(* RecoverAndDeliver *)

callOnly == <<callers, streamVars, load, injected, peers, calm>>

(* With an empty FromID the stored offset is asked for. *)
Recover(c) ==
  /\ c \in callers /\ call[c].pc = "idle"
  /\ call' = [call EXCEPT ![c].pc = "offset"]
  /\ UNCHANGED <<offset, delivered, skipped, budget, callOnly>>

(* The client names the ID of an entry, and asks for what came later. *)
RecoverFrom(c, id) ==
  /\ c \in callers /\ call[c].pc = "idle" /\ budget.explicit > 0
  /\ budget' = [budget EXCEPT !.explicit = @ - 1]
  /\ call' = [call EXCEPT ![c].pc = "range", ![c].from = id]
  /\ skipped' = [skipped EXCEPT ![UserOf[c]] = @ \cup 1 .. id]
  /\ UNCHANGED <<offset, delivered, callOnly>>

GetOffset(c) ==
  /\ call[c].pc = "offset"
  /\ call' = [call EXCEPT ![c].pc = "range", ![c].from = offset[UserOf[c]]]
  /\ UNCHANGED <<offset, delivered, skipped, budget, callOnly>>

(* The error is ignored: the recovery starts at the beginning. *)
GetOffsetFails(c) ==
  /\ call[c].pc = "offset"
  /\ Fault
  /\ call' = [call EXCEPT ![c].pc = "range", ![c].from = 0]
  /\ UNCHANGED <<offset, delivered, skipped, callOnly>>

Return(c) == [pc |-> "idle", from |-> 0, todo |-> {}, last |-> 0]

XRange(c) ==
  LET batch == First(After(call[c].from), RecoverLimit) IN
  /\ call[c].pc = "range"
  /\ call' = [call EXCEPT ![c] = IF batch = {} THEN Return(c)
                                 ELSE [@ EXCEPT !.pc = "deliver", !.todo = batch]]
  /\ UNCHANGED <<offset, delivered, skipped, budget, callOnly>>

XRangeFails(c) ==
  /\ call[c].pc = "range"
  /\ Fault
  /\ call' = [call EXCEPT ![c] = Return(c)]
  /\ UNCHANGED <<offset, delivered, skipped, callOnly>>

(* Every Receive succeeds: the ID of the last one is saved next. *)
Deliver(c) ==
  /\ call[c].pc = "deliver"
  /\ delivered' = [delivered EXCEPT ![UserOf[c]] = @ \cup call[c].todo]
  /\ \E id \in call[c].todo :
       /\ \A j \in call[c].todo : j <= id
       /\ call' = [call EXCEPT ![c].pc = "save", ![c].last = id, ![c].todo = {}]
  /\ UNCHANGED <<offset, skipped, budget, callOnly>>

(* Mutant of DeliverFails: the error is logged, and the offset saved. *)
DeliverFailsSaves(c) ==
  /\ call[c].pc = "deliver"
  /\ Fault
  /\ \E done \in Prefixes(call[c].todo) :
       delivered' = [delivered EXCEPT ![UserOf[c]] = @ \cup done]
  /\ \E id \in call[c].todo :
       /\ \A j \in call[c].todo : j <= id
       /\ call' = [call EXCEPT ![c].pc = "save", ![c].last = id, ![c].todo = {}]
  /\ UNCHANGED <<offset, skipped, callOnly>>

(* A Receive fails: the call returns, and nothing is saved. *)
DeliverFails(c) ==
  /\ call[c].pc = "deliver"
  /\ Fault
  /\ \E done \in Prefixes(call[c].todo) :
       delivered' = [delivered EXCEPT ![UserOf[c]] = @ \cup done]
  /\ call' = [call EXCEPT ![c] = Return(c)]
  /\ UNCHANGED <<offset, skipped, callOnly>>

SaveOffset(c) ==
  /\ call[c].pc = "save"
  /\ offset' = [offset EXCEPT ![UserOf[c]] = call[c].last]
  /\ call' = [call EXCEPT ![c] = Return(c)]
  /\ UNCHANGED <<delivered, skipped, budget, callOnly>>

(* SET fails, executed or not; nobody looks at the error. *)
SaveOffsetFails(c) ==
  /\ call[c].pc = "save"
  /\ Fault
  /\ offset' \in {offset, [offset EXCEPT ![UserOf[c]] = call[c].last]}
  /\ call' = [call EXCEPT ![c] = Return(c)]
  /\ UNCHANGED <<delivered, skipped, callOnly>>

-----------------------------------------------------------------------------
(* LoadHistoryWithFallback, LoadExternalHistory, InjectHistoryToRedis *)

loadOnly == <<callers, offset, call, delivered, skipped, removed>>

Given == 1 .. (IF NumExternal < LoadLimit THEN NumExternal ELSE LoadLimit)

(* Goes on with the messages that the application has given: "inject" first *)
(* when there are any and that is wanted.                                   *)
UseGiven(l, kind, inject) ==
  load' = [load EXCEPT ![l] = [@ EXCEPT
             !.pc = IF inject /\ Given # {} THEN "inject" ELSE "deliver",
             !.kind = kind, !.source = "given", !.todo = Given]]

(* The stream has entries, and they are delivered; or it is empty. *)
LoadHistoryWithFallback(l) ==
  LET busy == {k \in Loads : load[k].pc = "inject"} IN
  /\ l \in callers /\ load[l].pc = "idle"
  /\ IF entries # {}
     THEN load' = [load EXCEPT ![l] = [@ EXCEPT !.pc = "deliver",
                     !.source = "redis", !.todo = First(entries, LoadLimit)]]
     ELSE UseGiven(l, "fallback", TRUE)
  /\ peers' = [peers EXCEPT ![l] = busy]
  /\ calm' = (calm /\ busy = {})
  /\ UNCHANGED <<log, entries, injected, budget, loadOnly>>

(* Mutant of LoadFails: a stream that cannot be read is taken for empty. *)
LoadFailsEmpty(l) ==
  /\ l \in callers /\ load[l].pc = "idle"
  /\ Fault
  /\ UseGiven(l, "fallback", TRUE)
  /\ UNCHANGED <<log, entries, injected, peers, calm, loadOnly>>

LoadFails(l) ==
  /\ l \in callers /\ load[l].pc = "idle"
  /\ Fault
  /\ load' = [load EXCEPT ![l].pc = "error"]
  /\ UNCHANGED <<log, entries, injected, peers, calm, loadOnly>>

LoadExternalHistory(l, inject) ==
  /\ l \in callers /\ load[l].pc = "idle"
  /\ UseGiven(l, "external", inject)
  /\ calm' = (calm /\ ~inject)
  /\ UNCHANGED <<log, entries, injected, peers, budget, loadOnly>>

(* Mutant of Inject: the newest message first. *)
InjectReversed(l) ==
  /\ load[l].pc = "inject"
  /\ XAdd(Cardinality(load[l].todo) + 1 - load[l].next)
  /\ load' = [load EXCEPT
                ![l].next = @ + 1,
                ![l].pc = IF load[l].next + 1 \in load[l].todo THEN @ ELSE "deliver"]
  /\ injected' = injected \cup {l}
  /\ UNCHANGED <<peers, calm, budget, loadOnly>>

(* The next message is added to the stream. *)
Inject(l) ==
  /\ load[l].pc = "inject"
  /\ XAdd(load[l].next)
  /\ load' = [load EXCEPT
                ![l].next = @ + 1,
                ![l].pc = IF load[l].next + 1 \in load[l].todo THEN @ ELSE "deliver"]
  /\ injected' = injected \cup {l}
  /\ UNCHANGED <<peers, calm, budget, loadOnly>>

(* XADD fails, executed or not: the injection ends.  The fallback is        *)
(* delivered all the same; an external load returns the error.              *)
InjectFails(l) ==
  /\ load[l].pc = "inject"
  /\ Fault
  /\ \/ XAdd(load[l].next) /\ injected' = injected \cup {l}
     \/ UNCHANGED <<log, entries, injected>>
  /\ load' = [load EXCEPT ![l].pc = IF load[l].kind = "fallback" THEN "deliver"
                                                                 ELSE "error"]
  /\ calm' = FALSE
  /\ UNCHANGED <<peers, loadOnly>>

(* What the subscriber sees: <<place, message>> for each item of the batch. *)
Shown(l) ==
  LET batch == load[l].todo IN
  {<<Cardinality({j \in batch : j <= i}),
     IF load[l].source = "redis" THEN log[i] ELSE i>> : i \in batch}

LoadDeliver(l) ==
  /\ load[l].pc = "deliver"
  /\ load' = [load EXCEPT ![l].pc = "done", ![l].shown = Shown(l)]
  /\ UNCHANGED <<log, entries, injected, peers, calm, budget, loadOnly>>

LoadDeliverFails(l) ==
  /\ load[l].pc = "deliver"
  /\ Fault
  /\ load' = [load EXCEPT ![l].pc = "error"]
  /\ UNCHANGED <<log, entries, injected, peers, calm, loadOnly>>

-----------------------------------------------------------------------------
(* Publish, TrimRedisHistory, ClearRedisHistory *)

adminVars == <<callers, offset, call, load, delivered, skipped, injected,
               peers, budget>>

Publish ==
  /\ XAdd(Published)
  /\ calm' = FALSE
  /\ UNCHANGED <<removed, adminVars>>

Remove(ids) == /\ ids # {}
               /\ entries' = entries \ ids
               /\ removed' = TRUE /\ calm' = FALSE
               /\ UNCHANGED <<log, adminVars>>

(* MAXLEN ~: the oldest go, and TrimLen entries or more stay. *)
TrimRedisHistory ==
  \E id \in entries :
    /\ Cardinality(After(id)) >= TrimLen
    /\ Remove(entries \ After(id))

(* DEL: the offsets of the users stay. *)
ClearRedisHistory == Remove(entries)

-----------------------------------------------------------------------------
CallStep(c) == \/ GetOffset(c) \/ GetOffsetFails(c)
               \/ XRange(c) \/ XRangeFails(c)
               \/ Deliver(c) \/ DeliverFails(c)
               \/ SaveOffset(c) \/ SaveOffsetFails(c)

LoadStep(l) == \/ Inject(l) \/ InjectFails(l)
               \/ LoadDeliver(l) \/ LoadDeliverFails(l)

Next == \/ \E c \in Calls : \/ Recover(c) \/ CallStep(c)
                            \/ \E id \in 0 .. Len(log) : RecoverFrom(c, id)
        \/ \E l \in Loads : \/ LoadHistoryWithFallback(l) \/ LoadFails(l)
                            \/ \E inject \in BOOLEAN : LoadExternalHistory(l, inject)
                            \/ LoadStep(l)
        \/ Publish \/ TrimRedisHistory \/ ClearRedisHistory

Spec == Init /\ [][Next]_vars

(***************************************************************************)
(* Calls go on, and the application calls RecoverAndDeliver again after    *)
(* each return: one call fetches RecoverLimit messages at most, and        *)
(* nothing in the relay fetches the rest.                                  *)
(***************************************************************************)
FairSpec == /\ Spec
            /\ \A c \in Calls : WF_vars(Recover(c)) /\ WF_vars(CallStep(c))

-----------------------------------------------------------------------------
(* Properties *)

(* "Update offset after successful delivery": whatever calls overlap,       *)
(* fail, or are repeated, the stored offset of a user never passes an       *)
(* entry that is still in the stream and that the user has neither received *)
(* nor skipped by naming a later ID.                                        *)
OffsetCovered ==
  \A u \in Users : \A id \in entries :
    id <= offset[u] => id \in delivered[u] \cup skipped[u]

(* SaveOffset overwrites.  The stored offset goes back only when the call   *)
(* did not start from the offset it replaces: an overlapping call has saved *)
(* in between, the client named an ID, or GetOffset failed.                 *)
OffsetForward ==
  [][\A u \in Users : offset'[u] < offset[u] =>
       \E c \in Calls : /\ UserOf[c] = u /\ call[c].pc = "save"
                        /\ call[c].from # offset[u]]_vars

(* Repeated recoveries page through the stream, RecoverLimit at a time,     *)
(* even when two of them run side by side and set the offset back.          *)
CatchesUp ==
  \A c \in Calls, id \in IDs :
    c \in callers /\ id \in entries
      ~> \/ id \notin entries
         \/ id \in delivered[UserOf[c]] \cup skipped[UserOf[c]]

(* LoadHistoryWithFallback fills an empty stream.  Of two loads that both   *)
(* put the fallback into the stream, one read it while the other was        *)
(* injecting, unless entries were removed or LoadExternalHistory was used.  *)
InjectedOnce ==
  \A k, l \in {m \in injected : load[m].kind = "fallback"} :
    k # l /\ ~removed => k \in peers[l] \/ l \in peers[k]

(* With loads one after the other and nothing else filling the stream,      *)
(* every load shows the first LoadLimit messages of the fallback in their   *)
(* order, whether they come from Redis or from the caller.                  *)
SerialLoads ==
  calm => \A l \in Loads :
            load[l].pc = "done" => load[l].shown = {<<i, i>> : i \in Given}
=============================================================================
