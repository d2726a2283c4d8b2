-------------------------- MODULE MemoryRelayProofs --------------------------
(***************************************************************************)
(* The in-memory room, for any number of publishers, users, connections    *)
(* and messages and any size of its buffer: the ring implements the        *)
(* bounded log, a recovery leaves no gap, and every member is reported.    *)
(***************************************************************************)
EXTENDS MemoryRelay, FiniteSetTheorems, SequenceTheorems, TLAPS

USE MemoryAssumption

-----------------------------------------------------------------------------
(* The ring buffer *)

(* Indices are taken round at most once. *)
LEMMA ModSize ==
  ASSUME NEW x \in 0 .. 2 * Size - 1
  PROVE  x % Size = IF x < Size THEN x ELSE x - Size
  OBVIOUS

(* The slot of the i-th message of the buffer, oldest first. *)
Place(head, count, i) == LET k == head - count + i - 1
                         IN  IF k < 0 THEN k + Size ELSE k

Slot(rb, i) == Place(rb.head, rb.count, i)

(* A buffer whose last count slots are filled. *)
Ring == {rb \in R!Buffer :
           \A i \in 1 .. rb.count : rb.messages[Slot(rb, i)] \in Message}

(* GetAll reads the last count slots before the head. *)
LEMMA GetAllFacts ==
  ASSUME NEW rb \in Ring
  PROVE  /\ R!GetAll(rb) \in Seq(Message)
         /\ Len(R!GetAll(rb)) = rb.count
         /\ \A i \in 1 .. rb.count : R!GetAll(rb)[i] = rb.messages[Slot(rb, i)]
<1> DEFINE start == (rb.head - rb.count + Size) % Size
<1>1. rb.head \in 0 .. Size - 1 /\ rb.count \in 0 .. Size
  BY DEF R!Buffer, Ring
<1>2. rb.head - rb.count + Size \in 0 .. 2 * Size - 1
  BY <1>1
<1>3. start = IF rb.head - rb.count < 0 THEN rb.head - rb.count + Size
                                        ELSE rb.head - rb.count
  BY <1>1, <1>2, ModSize
<1> HIDE DEF start
<1>4. ASSUME NEW i \in 1 .. rb.count
      PROVE  (start + i - 1) % Size = Slot(rb, i)
  <2>1. PICK x : x = start + i - 1
    OBVIOUS
  <2>2. x \in 0 .. 2 * Size - 1
    BY <1>1, <1>3, <2>1
  <2>3. x % Size = IF x < Size THEN x ELSE x - Size
    BY <2>2, ModSize
  <2> QED
    BY <1>1, <1>3, <2>1, <2>3 DEF Slot, Place
<1>5. R!GetAll(rb) = [i \in 1 .. rb.count |-> rb.messages[(start + i - 1) % Size]]
  BY DEF R!GetAll, start
<1>6. \A i \in 1 .. rb.count : rb.messages[Slot(rb, i)] \in Message
  BY DEF Ring
<1> QED
  BY <1>1, <1>4, <1>5, <1>6

(* Add moves the head on by one. *)
LEMMA NextPlace ==
  ASSUME NEW head \in 0 .. Size - 1, NEW count \in 0 .. Size,
         NEW h, h = IF head + 1 < Size THEN head + 1 ELSE 0,
         NEW n, n = IF count < Size THEN count + 1 ELSE Size
  PROVE  /\ Place(h, n, n) = head
         /\ \A i \in 1 .. n - 1 :
              LET j == IF count < Size THEN i ELSE i + 1 IN
              /\ j \in 1 .. count
              /\ Place(h, n, i) = Place(head, count, j)
              /\ Place(head, count, j) \in 0 .. Size - 1
              /\ Place(head, count, j) # head
  BY DEF Place

(* Add fills the slot at the head, and the others move up one place when    *)
(* the buffer was full.                                                     *)
LEMMA AddFacts ==
  ASSUME NEW rb \in Ring, NEW m \in Message, NEW new, new = R!Add(rb, m)
  PROVE  /\ new \in Ring
         /\ new.count = IF rb.count < Size THEN rb.count + 1 ELSE Size
         /\ new.messages[Slot(new, new.count)] = m
         /\ \A i \in 1 .. new.count - 1 :
              new.messages[Slot(new, i)] =
                rb.messages[Slot(rb, IF rb.count < Size THEN i ELSE i + 1)]
<1>0. rb.head \in 0 .. Size - 1 /\ rb.count \in 0 .. Size
  BY DEF R!Buffer, Ring
<1>1. /\ rb.messages \in [0 .. Size - 1 -> Message \cup {Nil}]
      /\ \A i \in 1 .. rb.count : rb.messages[Slot(rb, i)] \in Message
  BY DEF R!Buffer, Ring
<1>2. PICK x : x = rb.head + 1
  OBVIOUS
<1>3. x % Size = IF x < Size THEN x ELSE 0
  <2>1. x \in 0 .. 2 * Size - 1
    BY <1>0, <1>1, <1>2
  <2> QED
    BY <1>0, <1>1, <1>2, <2>1, ModSize
<1>4. /\ new.head = IF x < Size THEN x ELSE 0
      /\ new.count = IF rb.count < Size THEN rb.count + 1 ELSE Size
      /\ new.messages = [rb.messages EXCEPT ![rb.head] = m]
  BY <1>0, <1>1, <1>2, <1>3 DEF R!Add
<1>5. /\ new.head \in 0 .. Size - 1 /\ new.count \in 1 .. Size
      /\ new.messages \in [0 .. Size - 1 -> Message \cup {Nil}]
  BY <1>0, <1>1, <1>2, <1>4
<1>6. new \in R!Buffer
  BY <1>5 DEF R!Add, R!Buffer
<1>a. /\ new.head = IF rb.head + 1 < Size THEN rb.head + 1 ELSE 0
      /\ new.count = IF rb.count < Size THEN rb.count + 1 ELSE Size
  BY <1>2, <1>4
<1>7. Slot(new, new.count) = rb.head
  BY <1>0, <1>a, NextPlace DEF Slot
<1>8. new.messages[Slot(new, new.count)] = m
  BY <1>0, <1>1, <1>4, <1>7
<1>9. \A i \in 1 .. new.count - 1 :
        LET j == IF rb.count < Size THEN i ELSE i + 1 IN
        /\ j \in 1 .. rb.count
        /\ Slot(new, i) = Slot(rb, j)
        /\ Slot(rb, j) \in 0 .. Size - 1
        /\ Slot(rb, j) # rb.head
  <2>1. PICK h, n : h = new.head /\ n = new.count
    OBVIOUS
  <2>2. PICK head, count : head = rb.head /\ count = rb.count
    OBVIOUS
  <2>3. \A i \in 1 .. n - 1 :
          LET j == IF count < Size THEN i ELSE i + 1 IN
          /\ j \in 1 .. count
          /\ Place(h, n, i) = Place(head, count, j)
          /\ Place(head, count, j) \in 0 .. Size - 1
          /\ Place(head, count, j) # head
    <3>1. /\ head \in 0 .. Size - 1 /\ count \in 0 .. Size
          /\ h = IF head + 1 < Size THEN head + 1 ELSE 0
          /\ n = IF count < Size THEN count + 1 ELSE Size
      BY <1>0, <1>a, <2>1, <2>2
    <3> QED
      BY <3>1, NextPlace
  <2> QED
    BY <2>1, <2>2, <2>3 DEF Slot
<1>10. \A i \in 1 .. new.count - 1 :
         LET j == IF rb.count < Size THEN i ELSE i + 1 IN
         j \in 1 .. rb.count /\ new.messages[Slot(new, i)] = rb.messages[Slot(rb, j)]
  BY <1>0, <1>1, <1>4, <1>9
<1>11. \A i \in 1 .. new.count : new.messages[Slot(new, i)] \in Message
  <2> SUFFICES ASSUME NEW i \in 1 .. new.count
               PROVE  new.messages[Slot(new, i)] \in Message
    OBVIOUS
  <2>1. CASE i = new.count
    BY <1>8, <2>1
  <2>2. CASE i \in 1 .. new.count - 1
    BY <1>1, <1>10, <2>2
  <2> QED
    BY <1>5, <2>1, <2>2
<1> QED
  BY <1>4, <1>6, <1>8, <1>10, <1>11 DEF Ring

(* Add, read through GetAll, is what the bounded log does. *)
LEMMA AddIsStore ==
  ASSUME NEW rb \in Ring, NEW m \in Message
  PROVE  R!GetAll(R!Add(rb, m)) =
           Append(IF Len(R!GetAll(rb)) < Size THEN R!GetAll(rb)
                                              ELSE Tail(R!GetAll(rb)), m)
<1>1. PICK new : new = R!Add(rb, m)
  OBVIOUS
<1>2. PICK s : s = R!GetAll(rb)
  OBVIOUS
<1>3. PICK t : t = R!GetAll(new)
  OBVIOUS
<1>4. /\ new \in Ring
      /\ new.count = IF rb.count < Size THEN rb.count + 1 ELSE Size
      /\ new.messages[Slot(new, new.count)] = m
      /\ \A i \in 1 .. new.count - 1 :
           new.messages[Slot(new, i)] =
             rb.messages[Slot(rb, IF rb.count < Size THEN i ELSE i + 1)]
  BY <1>1, AddFacts
<1>5. rb.count \in 0 .. Size /\ new.count \in 0 .. Size
  BY <1>4 DEF Ring, R!Buffer
<1>6. /\ s \in Seq(Message) /\ Len(s) = rb.count
      /\ \A i \in 1 .. rb.count : s[i] = rb.messages[Slot(rb, i)]
  BY <1>2, GetAllFacts
<1>7. /\ t \in Seq(Message) /\ Len(t) = new.count
      /\ \A i \in 1 .. new.count : t[i] = new.messages[Slot(new, i)]
  BY <1>3, <1>4, GetAllFacts
<1>8. PICK b : b = IF Len(s) < Size THEN s ELSE Tail(s)
  OBVIOUS
<1>9. /\ b \in Seq(Message) /\ Len(b) = new.count - 1
      /\ \A i \in 1 .. Len(b) : b[i] = s[IF rb.count < Size THEN i ELSE i + 1]
  <2>1. CASE rb.count < Size
    BY <1>4, <1>5, <1>6, <1>8, <2>1
  <2>2. CASE rb.count = Size
    <3>1. s # << >>
      BY <1>6, <2>2
    <3> QED
      BY <1>4, <1>6, <1>8, <2>2, <3>1, HeadTailProperties
  <2> QED
    BY <1>5, <2>1, <2>2
<1>10. /\ Append(b, m) \in Seq(Message) /\ Len(Append(b, m)) = Len(t)
       /\ \A i \in 1 .. Len(b) : Append(b, m)[i] = b[i]
       /\ Append(b, m)[Len(b) + 1] = m
  BY <1>5, <1>7, <1>9, AppendProperties
<1>11. \A i \in 1 .. Len(t) : t[i] = Append(b, m)[i]
  <2> SUFFICES ASSUME NEW i \in 1 .. new.count PROVE t[i] = Append(b, m)[i]
    BY <1>7
  <2>1. CASE i = new.count
    <3>1. Len(b) + 1 = i
      BY <1>5, <1>9, <2>1
    <3>2. Append(b, m)[i] = m
      BY <1>10, <3>1
    <3> QED
      BY <1>4, <1>7, <2>1, <3>2
  <2>2. CASE i \in 1 .. new.count - 1
    <3>1. PICK j : j = IF rb.count < Size THEN i ELSE i + 1
      OBVIOUS
    <3>2. j \in 1 .. rb.count
      BY <1>4, <1>5, <2>2, <3>1
    <3>3. t[i] = rb.messages[Slot(rb, j)] /\ b[i] = s[j] /\ Append(b, m)[i] = b[i]
      BY <1>4, <1>5, <1>7, <1>9, <1>10, <2>2, <3>1
    <3> QED
      BY <1>6, <3>2, <3>3
  <2>3. i = new.count \/ i \in 1 .. new.count - 1
    BY <1>5
  <2> QED
    BY <2>1, <2>2, <2>3
<1>12. t = Append(b, m)
  BY <1>7, <1>10, <1>11, SeqEqual
<1> QED
  BY <1>1, <1>2, <1>3, <1>8, <1>12

(* The new buffer is empty. *)
LEMMA NewRing == R!NewRingBuffer \in Ring /\ R!GetAll(R!NewRingBuffer) = << >>
<1>1. PICK rb : rb = R!NewRingBuffer
  OBVIOUS
<1>2. /\ rb.head = 0 /\ rb.count = 0
      /\ rb.messages \in [0 .. Size - 1 -> Message \cup {Nil}]
  BY <1>1 DEF R!NewRingBuffer
<1>3. rb \in R!Buffer
  BY <1>1, <1>2 DEF R!NewRingBuffer, R!Buffer
<1>4. rb \in Ring
  BY <1>2, <1>3 DEF Ring
<1>5. R!GetAll(rb) \in Seq(Message) /\ Len(R!GetAll(rb)) = 0
  BY <1>2, <1>4, GetAllFacts
<1>6. R!GetAll(rb) = << >>
  BY <1>5, EmptySeq
<1> QED
  BY <1>1, <1>4, <1>6

-----------------------------------------------------------------------------
(* The history of the room *)

(* A step stores one message, or leaves the history alone. *)
LEMMA HistorySteps ==
  ASSUME [Next]_vars
  PROVE  UNCHANGED <<history, stored>> \/ \E m \in Message : Keep(m)
<1> USE DEF Message
<1>1. ASSUME NEW p \in Publishers,
             PublishBegin(p) \/ AddToHistory(p) \/ Broadcast(p) \/ Return(p)
             \/ ReturnEarly(p)
      PROVE  UNCHANGED <<history, stored>> \/ Keep(p)
  BY <1>1 DEF PublishBegin, AddToHistory, Broadcast, Return, ReturnEarly
<1>2. ASSUME NEW p \in Publishers, NEW c \in Conns,
             DeliverOk(p, c) \/ DeliverFails(p, c) \/ DeliverPanic(p, c)
      PROVE  UNCHANGED <<history, stored>>
  BY <1>2 DEF DeliverOk, DeliverFails, DeliverPanic
<1>3. ASSUME NEW u \in Users, Reap(u) \/ Unsubscribe(u)
      PROVE  UNCHANGED <<history, stored>>
  BY <1>3 DEF Reap, Unsubscribe
<1>4. ASSUME NEW c \in Conns,
             \/ SubscribeBegin(c) \/ Subscribe(c) \/ DeliverRecovered(c)
             \/ DeliverRecoveredFails(c) \/ RecoveryDone(c)
             \/ \E from \in Known(c) \cup {Nil}, limit \in Limits :
                  RecoverMessages(c, from, limit)
      PROVE  UNCHANGED <<history, stored>>
  BY <1>4 DEF SubscribeBegin, Subscribe, DeliverRecovered,
              DeliverRecoveredFails, RecoveryDone, RecoverMessages
<1>5. ASSUME NEW m \in External, LoadExternal(m) PROVE Keep(m)
  BY <1>5 DEF LoadExternal
<1>6. CASE DeleteRoom \/ UNCHANGED vars
  BY <1>6 DEF DeleteRoom, vars
<1> QED
  BY <1>1, <1>2, <1>3, <1>4, <1>5, <1>6 DEF Next

(* The buffer stays a ring, and every step is one of the bounded log or     *)
(* none at all.                                                             *)
LEMMA RingStep ==
  ASSUME history \in Ring, [Next]_vars
  PROVE  history' \in Ring /\ [Log!Next]_(R!GetAll(history))
<1>1. CASE UNCHANGED history
  BY <1>1
<1>2. ASSUME NEW m \in Message, Keep(m)
      PROVE  history' \in Ring /\ Log!Next
  <2>1. history' = R!Add(history, m)
    BY <1>2 DEF Keep
  <2>2. history' \in Ring
    BY <2>1, AddFacts
  <2>3. Log!Store(m)
    BY <2>1, AddIsStore DEF Log!Store
  <2> QED
    BY <2>2, <2>3 DEF Log!Next
<1> QED
  BY <1>1, <1>2, HistorySteps

(* The circular buffer of a room, read by GetAll, implements the bounded    *)
(* log: it begins empty, and whatever the relay does it is left alone or    *)
(* has one message appended and the oldest dropped when it is full          *)
(* (memory_relay.go:56-94).                                                 *)
THEOREM RingImplementsLog == Spec => RingIsBoundedLog
<1>1. Init => history \in Ring /\ Log!Init
  BY NewRing DEF Init, Log!Init
<1>2. history \in Ring /\ [Next]_vars
      => (history \in Ring)' /\ [Log!Next]_(R!GetAll(history))
  BY RingStep
<1> QED
  BY <1>1, <1>2, PTL DEF Spec, RingIsBoundedLog, Log!Spec

-----------------------------------------------------------------------------
(* Types *)

(* What a recovery reads, with or without a limit, is messages. *)
LEMMA HistoryType ==
  ASSUME history \in Ring, NEW from, NEW limit \in Nat
  PROVE  Limited(History(from), limit) \in Seq(Message)
<1>1. R!GetAll(history) \in Seq(Message)
  BY GetAllFacts
<1>2. History(from) \in Seq(Message)
  <2>1. PICK all : all = R!GetAll(history)
    OBVIOUS
  <2>2. ASSUME NEW i \in DOMAIN all PROVE SubSeq(all, i + 1, Len(all)) \in Seq(Message)
    BY <1>1, <2>1, <2>2
  <2>3. ASSUME \E j \in DOMAIN all : all[j] = from
        PROVE  (CHOOSE j \in DOMAIN all : all[j] = from) \in DOMAIN all
    BY <2>3
  <2>4. R!GetSince(history, from) \in Seq(Message)
    BY <2>1, <2>2, <2>3 DEF R!GetSince
  <2> QED
    BY <1>1, <2>4 DEF History
<1>3. \A t \in Seq(Message) : R!LastOf(t, limit) \in Seq(Message)
  BY DEF R!LastOf
<1> QED
  BY <1>2, <1>3 DEF Limited

(* The client's record, part by part. *)
LEMMA RecordType ==
  ASSUME TypeOK, NEW c \in Conns
  PROVE  /\ rec[c] \in Recovery /\ rec[c].todo \in Seq(Message)
         /\ \A place \in {"idle", "found", "subscribed", "delivering", "done",
                          "error"} :
              [rec EXCEPT ![c].pc = place] \in [Conns -> Recovery]
         /\ \A t \in Seq(Message) :
              /\ [rec EXCEPT ![c].todo = t] \in [Conns -> Recovery]
              /\ [rec EXCEPT ![c].pc = "error", ![c].todo = t]
                   \in [Conns -> Recovery]
         /\ \A new \in Recovery : [rec EXCEPT ![c] = new] \in [Conns -> Recovery]
<1>1. rec \in [Conns -> Recovery]
  BY DEF TypeOK
<1>2. rec[c] \in Recovery /\ rec[c].todo \in Seq(Message)
  BY <1>1 DEF Recovery
<1>3. \A new \in Recovery : [rec EXCEPT ![c] = new] \in [Conns -> Recovery]
  BY <1>1
<1>4. ASSUME NEW place \in {"idle", "found", "subscribed", "delivering", "done",
                            "error"}
      PROVE  [rec EXCEPT ![c].pc = place] \in [Conns -> Recovery]
  <2>1. [rec[c] EXCEPT !.pc = place] \in Recovery
    BY <1>2 DEF Recovery
  <2> QED
    BY <1>1, <2>1
<1>5. ASSUME NEW t \in Seq(Message)
      PROVE  /\ [rec EXCEPT ![c].todo = t] \in [Conns -> Recovery]
             /\ [rec EXCEPT ![c].pc = "error", ![c].todo = t]
                  \in [Conns -> Recovery]
  <2>1. /\ [rec[c] EXCEPT !.todo = t] \in Recovery
        /\ [rec[c] EXCEPT !.pc = "error", !.todo = t] \in Recovery
    BY <1>2 DEF Recovery
  <2> QED
    BY <1>1, <2>1
<1> QED
  BY <1>2, <1>3, <1>4, <1>5

(* The initial state has the types, ... *)
LEMMA TypeInit == Init => TypeOK
<1> SUFFICES ASSUME Init PROVE TypeOK
  OBVIOUS
<1>1. history \in R!Buffer
  BY NewRing DEF Init, Ring
<1>2. rec \in [Conns -> Recovery]
  BY DEF Init, Recovery
<1>3. /\ open \in BOOLEAN /\ stored \in Seq(Message) /\ budget \in Nat
      /\ subscribers \in [Users -> Conns \cup {NoConn}]
      /\ reapers \in [Users -> Nat]
      /\ received \in [Conns -> SUBSET Message]
  BY DEF Init
<1>4. /\ closed = {} /\ tasks = {} /\ results = {}
      /\ pub = [p \in Publishers |-> "idle"]
  BY DEF Init
<1> QED
  BY <1>1, <1>2, <1>3, <1>4 DEF TypeOK

(* ... and every step keeps them. *)
LEMMA TypeNext ==
  ASSUME TypeOK, history \in Ring, [Next]_vars
  PROVE  TypeOK'
<1>0. history' \in R!Buffer /\ stored' \in Seq(Message)
  <2>1. history' \in R!Buffer
    BY RingStep DEF Ring
  <2>2. stored' = stored \/ \E m \in Message : stored' = Append(stored, m)
    BY HistorySteps DEF Keep
  <2>3. stored \in Seq(Message)
    BY DEF TypeOK
  <2>4. stored' \in Seq(Message)
    BY <2>2, <2>3
  <2> QED
    BY <2>1, <2>4
<1> USE <1>0
<1>1. ASSUME NEW p \in Publishers,
             PublishBegin(p) \/ AddToHistory(p) \/ Return(p) \/ ReturnEarly(p)
      PROVE  TypeOK'
  BY <1>1 DEF TypeOK, PublishBegin, AddToHistory, Return, ReturnEarly
<1>2. ASSUME NEW p \in Publishers, Broadcast(p) PROVE TypeOK'
  <2>1. \A u \in Users : Subscribed(u) => subscribers[u] \in Conns
    BY DEF Subscribed, TypeOK
  <2>2. tasks' \subseteq Publishers \X Conns
    <3>1. \A u \in Users : Subscribed(u) => <<p, subscribers[u]>> \in Publishers \X Conns
      BY <2>1
    <3>2. tasks' = tasks \cup {<<p, subscribers[u]>> :
                   u \in {v \in Users : Subscribed(v) /\ <<p, v>> \notin Skip}}
      BY <1>2 DEF Broadcast
    <3>3. tasks \subseteq Publishers \X Conns
      BY DEF TypeOK
    <3> QED
      BY <3>1, <3>2, <3>3
  <2>3. results' \subseteq Publishers \X Users \X (Conns \cup {NoConn}) \X Statuses
    <3>1. results' = results \cup {<<p, u, NoConn, "offline">> :
                   u \in {v \in Members : ~Subscribed(v) /\ <<p, v>> \notin Skip}}
      BY <1>2 DEF Broadcast
    <3>2. \A u \in Members : <<p, u, NoConn, "offline">>
            \in Publishers \X Users \X (Conns \cup {NoConn}) \X Statuses
      BY DEF Statuses
    <3>3. results \subseteq Publishers \X Users \X (Conns \cup {NoConn}) \X Statuses
      BY DEF TypeOK
    <3> QED
      BY <3>1, <3>2, <3>3
  <2> QED
    BY <1>2, <2>2, <2>3 DEF Broadcast, TypeOK
<1>3. ASSUME NEW p \in Publishers, NEW c \in Conns,
             DeliverOk(p, c) \/ DeliverFails(p, c) \/ DeliverPanic(p, c)
      PROVE  TypeOK'
  <2>1. tasks' \subseteq Publishers \X Conns
    BY <1>3 DEF DeliverOk, DeliverFails, DeliverPanic, Report, TypeOK
  <2>2. results' \subseteq Publishers \X Users \X (Conns \cup {NoConn}) \X Statuses
    BY <1>3 DEF DeliverOk, DeliverFails, DeliverPanic, Report, TypeOK, Statuses
  <2>3. received' \in [Conns -> SUBSET Message] /\ reapers' \in [Users -> Nat]
    BY <1>3 DEF DeliverOk, DeliverFails, DeliverPanic, TypeOK, Message
  <2>4. budget' \in Nat
    BY <1>3 DEF DeliverOk, DeliverFails, DeliverPanic, TypeOK, Spend
  <2> QED
    BY <1>3, <2>1, <2>2, <2>3, <2>4
    DEF DeliverOk, DeliverFails, DeliverPanic, TypeOK
<1>4. ASSUME NEW u \in Users, Reap(u) \/ Unsubscribe(u) PROVE TypeOK'
  <2>1. subscribers' \in [Users -> Conns \cup {NoConn}] /\ closed' \subseteq Conns
    <3>1. DropUser(u)
      BY <1>4 DEF Reap, Unsubscribe
    <3>2. subscribers \in [Users -> Conns \cup {NoConn}] /\ closed \subseteq Conns
      BY DEF TypeOK
    <3> QED
      BY <3>1, <3>2 DEF DropUser
  <2>2. reapers' \in [Users -> Nat] /\ budget' \in Nat
    BY <1>4 DEF TypeOK, Reap, Unsubscribe, Spend
  <2> QED
    BY <1>4, <2>1, <2>2 DEF TypeOK, Reap, Unsubscribe
<1>5. ASSUME NEW c \in Conns, SubscribeBegin(c) \/ RecoveryDone(c)
      PROVE  TypeOK'
  <2>1. rec' \in [Conns -> Recovery]
    <3>1. PICK place \in {"found", "error", "done"} :
            rec' = [rec EXCEPT ![c].pc = place]
      BY <1>5 DEF SubscribeBegin, RecoveryDone
    <3> QED
      BY <3>1, RecordType
  <2> QED
    BY <1>5, <2>1 DEF TypeOK, SubscribeBegin, RecoveryDone
<1>6. ASSUME NEW c \in Conns, Subscribe(c) PROVE TypeOK'
  <2>1. rec' \in [Conns -> Recovery]
    BY <1>6, RecordType DEF Subscribe
  <2>2. subscribers' \in [Users -> Conns \cup {NoConn}] /\ closed' \subseteq Conns
    BY <1>6 DEF TypeOK, Subscribe
  <2> QED
    BY <1>6, <2>1, <2>2 DEF TypeOK, Subscribe
<1>7. ASSUME NEW c \in Conns, DeliverRecovered(c) \/ DeliverRecoveredFails(c)
      PROVE  TypeOK'
  <2>1. rec[c].todo \in Seq(Message) /\ rec[c].todo # << >>
    BY <1>7, RecordType DEF DeliverRecovered, DeliverRecoveredFails
  <2>2. Head(rec[c].todo) \in Message /\ Tail(rec[c].todo) \in Seq(Message)
    BY <2>1, HeadTailProperties
  <2>3. rec' \in [Conns -> Recovery]
    <3>1. PICK t \in Seq(Message) :
            \/ rec' = [rec EXCEPT ![c].todo = t]
            \/ rec' = [rec EXCEPT ![c].pc = "error", ![c].todo = t]
      <4>1. << >> \in Seq(Message)
        OBVIOUS
      <4> QED
        BY <1>7, <2>2, <4>1 DEF DeliverRecovered, DeliverRecoveredFails
    <3>2. /\ [rec EXCEPT ![c].todo = t] \in [Conns -> Recovery]
          /\ [rec EXCEPT ![c].pc = "error", ![c].todo = t] \in [Conns -> Recovery]
      BY RecordType
    <3> QED
      BY <3>1, <3>2
  <2>4. received' \in [Conns -> SUBSET Message]
    <3>1. received \in [Conns -> SUBSET Message]
      BY DEF TypeOK
    <3> QED
      BY <1>7, <2>2, <3>1 DEF DeliverRecovered, DeliverRecoveredFails
  <2>5. budget' \in Nat
    BY <1>7 DEF TypeOK, DeliverRecovered, DeliverRecoveredFails, Spend
  <2> QED
    BY <1>7, <2>3, <2>4, <2>5 DEF TypeOK, DeliverRecovered, DeliverRecoveredFails
<1>8. ASSUME NEW c \in Conns, NEW from \in Known(c) \cup {Nil},
             NEW limit \in Limits, RecoverMessages(c, from, limit)
      PROVE  TypeOK'
  <2>1. from \in Message \cup {Nil} /\ limit \in Nat
    BY DEF Known, TypeOK
  <2>2. Limited(History(from), limit) \in Seq(Message)
    BY <2>1, HistoryType
  <2>3. rec' \in [Conns -> Recovery]
    <3>1. PICK whole \in BOOLEAN :
            rec' = [rec EXCEPT ![c] =
                      IF open THEN [pc |-> "delivering", from |-> from,
                                    todo |-> Limited(History(from), limit),
                                    whole |-> whole]
                              ELSE [@ EXCEPT !.pc = "error"]]
      BY <1>8 DEF RecoverMessages
    <3>2. [pc |-> "delivering", from |-> from,
           todo |-> Limited(History(from), limit), whole |-> whole] \in Recovery
      BY <2>1, <2>2 DEF Recovery
    <3>3. [rec[c] EXCEPT !.pc = "error"] \in Recovery
      <4>1. PICK r \in Recovery : r = rec[c]
        BY RecordType
      <4>2. [r EXCEPT !.pc = "error"] \in Recovery
        BY DEF Recovery
      <4> QED
        BY <4>1, <4>2
    <3>4. PICK r \in Recovery : rec' = [rec EXCEPT ![c] = r]
      BY <3>1, <3>2, <3>3
    <3> QED
      BY <3>4, RecordType
  <2> QED
    BY <1>8, <2>3 DEF TypeOK, RecoverMessages
<1>9. ASSUME NEW m \in External, LoadExternal(m) PROVE TypeOK'
  BY <1>9 DEF TypeOK, LoadExternal
<1>10. CASE DeleteRoom
  BY <1>10 DEF TypeOK, DeleteRoom, Subscribed
<1>11. CASE UNCHANGED vars
  BY <1>11 DEF TypeOK, vars
<1> QED
  BY <1>1, <1>2, <1>3, <1>4, <1>5, <1>6, <1>7, <1>8, <1>9, <1>10, <1>11 DEF Next

-----------------------------------------------------------------------------
(* Recovery *)

Stored(m) == \E i \in DOMAIN stored : stored[i] = m

(* A message is stored once, by a call that is past AddToHistory. *)
Once ==
  /\ \A i, j \in DOMAIN stored : stored[i] = stored[j] => i = j
  /\ \A p \in Publishers : Stored(p) => pub[p] \notin {"idle", "found"}

(* The buffer has the end of what was stored. *)
Tracks ==
  LET all == R!GetAll(history) IN
  /\ Len(all) = IF Len(stored) < Size THEN Len(stored) ELSE Size
  /\ \A i \in 1 .. Len(all) : all[i] = stored[Len(stored) - Len(all) + i]

(* The i-th message that was stored lies behind the one called from. *)
Behind(from, i) ==
  from = Nil \/ \E j \in DOMAIN stored : stored[j] = from /\ i > j

(* The ways in which message m gets, or has got, to connection c; until it  *)
(* is done, RecoverAndDeliver may also have it in hand.                     *)
Reached(c, m) ==
  \/ m \in received[c]
  \/ pub[m] = "added"
  \/ <<m, c>> \in tasks
  \/ <<m, UserOf[c], c, "failed">> \in results
  \/ <<m, UserOf[c]>> \in Skip

InHand(c, m) == \E k \in DOMAIN rec[c].todo : rec[c].todo[k] = m

Kept(c) == rec[c].pc \in {"delivering", "done"} /\ rec[c].whole

Follows(c) ==
  /\ rec[c].pc = "done" => rec[c].todo = << >>
  /\ Kept(c) =>
       /\ rec[c].from # Nil => Stored(rec[c].from)
       /\ subscribers[UserOf[c]] = c =>
            \A i \in DOMAIN stored :
              stored[i] \in Publishers /\ Behind(rec[c].from, i)
              => Reached(c, stored[i]) \/ InHand(c, stored[i])

Storage == TypeOK /\ history \in Ring /\ Once /\ Tracks

GapInv == Storage /\ \A c \in Conns : Follows(c)

(* The end of stored, and its length. *)
LEMMA StoreFacts ==
  ASSUME stored \in Seq(Message), NEW m \in Message, stored' = Append(stored, m)
  PROVE  /\ Len(stored) \in Nat /\ DOMAIN stored = 1 .. Len(stored)
         /\ Len(stored') = Len(stored) + 1 /\ DOMAIN stored' = 1 .. Len(stored) + 1
         /\ \A i \in 1 .. Len(stored) : stored'[i] = stored[i]
         /\ stored'[Len(stored) + 1] = m
  BY AppendProperties

(* Storing a message that is new keeps the buffer at the end of stored. *)
LEMMA KeepTracks ==
  ASSUME Storage, NEW m \in Message, Keep(m)
  PROVE  Tracks'
<1>1. PICK all : all = R!GetAll(history)
  OBVIOUS
<1>2. PICK new : new = R!GetAll(history')
  OBVIOUS
<1>3. PICK n : n = Len(stored)
  OBVIOUS
<1>4. /\ n \in Nat /\ Len(stored') = n + 1
      /\ \A i \in 1 .. n : stored'[i] = stored[i]
      /\ stored'[n + 1] = m
  BY <1>3, StoreFacts DEF Storage, TypeOK, Keep
<1>5. all \in Seq(Message) /\ Len(all) \in Nat
  BY <1>1, GetAllFacts DEF Storage
<1>6. /\ Len(all) = IF n < Size THEN n ELSE Size
      /\ \A i \in 1 .. Len(all) : all[i] = stored[n - Len(all) + i]
  BY <1>1, <1>3 DEF Storage, Tracks
<1>7. new = Append(IF Len(all) < Size THEN all ELSE Tail(all), m)
  BY <1>1, <1>2, AddIsStore DEF Keep, Storage
<1>8. /\ Len(new) = IF n + 1 < Size THEN n + 1 ELSE Size
      /\ \A i \in 1 .. Len(new) : new[i] = stored'[n + 1 - Len(new) + i]
  <2>1. CASE Len(all) < Size
    <3>1. /\ Len(new) = Len(all) + 1 /\ new[Len(all) + 1] = m
          /\ \A i \in 1 .. Len(all) : new[i] = all[i]
      BY <1>5, <1>7, <2>1, AppendProperties
    <3>2. Len(all) = n
      BY <1>4, <1>6, <2>1
    <3>3. ASSUME NEW i \in 1 .. n + 1 PROVE new[i] = stored'[i]
      BY <1>4, <1>6, <3>1, <3>2
    <3>4. Len(new) = n + 1 /\ Len(new) = IF n + 1 < Size THEN n + 1 ELSE Size
      BY <1>4, <2>1, <3>1, <3>2
    <3>5. ASSUME NEW i \in 1 .. Len(new) PROVE new[i] = stored'[n + 1 - Len(new) + i]
      <4>1. n + 1 - Len(new) + i = i /\ i \in 1 .. n + 1
        BY <1>4, <3>4
      <4> QED
        BY <3>3, <4>1
    <3> QED
      BY <3>4, <3>5
  <2>2. CASE Len(all) = Size
    <3>1. PICK b : b = Tail(all)
      OBVIOUS
    <3>2. all # << >>
      BY <2>2
    <3>3. /\ b \in Seq(Message) /\ Len(b) = Size - 1
          /\ \A i \in 1 .. Len(b) : b[i] = all[i + 1]
      BY <1>5, <2>2, <3>1, <3>2, HeadTailProperties
    <3>4. new = Append(b, m)
      BY <1>7, <2>2, <3>1
    <3>5. /\ Len(new) = Size /\ new[Size] = m
          /\ \A i \in 1 .. Size - 1 : new[i] = all[i + 1]
      BY <3>3, <3>4, AppendProperties
    <3>6. n >= Size
      BY <1>4, <1>6, <2>2
    <3>7. ASSUME NEW i \in 1 .. Size PROVE new[i] = stored'[n + 1 - Size + i]
      <4>1. CASE i = Size
        <5>1. n + 1 - Size + i = n + 1
          BY <1>4, <4>1
        <5> QED
          BY <1>4, <3>5, <4>1, <5>1
      <4>2. CASE i \in 1 .. Size - 1
        <5>1. PICK k : k = i + 1
          OBVIOUS
        <5>2. k \in 1 .. Len(all) /\ new[i] = all[k]
          BY <2>2, <3>5, <4>2, <5>1
        <5>3. n - Size + k \in 1 .. n /\ n - Size + k = n + 1 - Size + i
          BY <1>4, <3>6, <4>2, <5>1
        <5>4. all[k] = stored[n - Size + k]
          BY <1>6, <2>2, <5>2
        <5> QED
          BY <1>4, <5>2, <5>3, <5>4
      <4> QED
        BY <4>1, <4>2
    <3> QED
      BY <1>4, <3>5, <3>6, <3>7
  <2> QED
    BY <1>4, <1>5, <1>6, <2>1, <2>2
<1> QED
  BY <1>2, <1>4, <1>8 DEF Tracks

(* What a recovery that found the whole of its past reads: every message    *)
(* behind FromID.                                                           *)
LEMMA FoundAll ==
  ASSUME Storage, NEW from,
         IF from = Nil THEN stored = R!GetAll(history)
         ELSE \E k \in DOMAIN R!GetAll(history) : R!GetAll(history)[k] = from
  PROVE  /\ from # Nil => Stored(from)
         /\ \A i \in DOMAIN stored : Behind(from, i) =>
              \E k \in DOMAIN History(from) : History(from)[k] = stored[i]
<1>1. PICK all : all = R!GetAll(history)
  OBVIOUS
<1>2. PICK n : n = Len(stored)
  OBVIOUS
<1>3. n \in Nat /\ DOMAIN stored = 1 .. n
  BY <1>2 DEF Storage, TypeOK
<1>4. all \in Seq(Message) /\ Len(all) \in Nat /\ DOMAIN all = 1 .. Len(all)
  BY <1>1, GetAllFacts DEF Storage
<1>5. /\ Len(all) = IF n < Size THEN n ELSE Size
      /\ \A i \in 1 .. Len(all) : all[i] = stored[n - Len(all) + i]
  BY <1>1, <1>2 DEF Storage, Tracks
<1>6. CASE from = Nil
  BY <1>6 DEF History
<1>7. CASE from # Nil
  <2>1. PICK k : k = CHOOSE j \in DOMAIN all : all[j] = from
    OBVIOUS
  <2>2. k \in 1 .. Len(all) /\ all[k] = from
    BY <1>1, <1>4, <1>7, <2>1
  <2>3. History(from) = SubSeq(all, k + 1, Len(all))
    BY <1>1, <1>7, <2>1 DEF History, R!GetSince
  <2>4. PICK p : p = n - Len(all) + k
    OBVIOUS
  <2>5. p \in 1 .. n /\ stored[p] = from
    BY <1>3, <1>4, <1>5, <2>2, <2>4
  <2>6. ASSUME NEW i \in 1 .. n, NEW j \in 1 .. n, stored[j] = from, i > j
        PROVE  \E h \in DOMAIN History(from) : History(from)[h] = stored[i]
    <3>1. j = p
      BY <1>3, <2>5, <2>6 DEF Storage, Once
    <3>2. PICK h : h = i - p
      OBVIOUS
    <3>3. /\ h \in 1 .. Len(all) - k
          /\ k + h \in 1 .. Len(all) /\ n - Len(all) + (k + h) = i
      BY <1>3, <1>4, <2>2, <2>4, <2>5, <2>6, <3>1, <3>2
    <3>4. /\ DOMAIN History(from) = 1 .. Len(all) - k
          /\ History(from)[h] = all[k + h]
      <4>1. SubSeq(all, k + 1, Len(all))
              = [x \in 1 .. Len(all) - k |-> all[k + x]]
        BY <1>4, <2>2
      <4> QED
        BY <2>3, <3>3, <4>1
    <3>5. all[k + h] = stored[i]
      BY <1>5, <3>3
    <3> QED
      BY <3>3, <3>4, <3>5
  <2> QED
    BY <1>3, <1>7, <2>5, <2>6 DEF Behind, Stored
<1> QED
  BY <1>6, <1>7

(* What a step does to a client whose record it leaves alone: a message is  *)
(* only stored by its own Publish call, which has yet to broadcast it, and  *)
(* one that has reached the connection or is on its way is not lost.        *)
Aside(c) ==
  /\ rec'[c] = rec[c]
  /\ subscribers'[UserOf[c]] = c => subscribers[UserOf[c]] = c
  /\ \/ stored' = stored
     \/ \E m \in Message : /\ stored' = Append(stored, m)
                           /\ m \in Publishers => pub'[m] = "added"
  /\ received[c] \subseteq received'[c] /\ results \subseteq results'
  /\ \A m \in Publishers : pub[m] = "added" =>
        pub'[m] = "added" \/ (subscribers[UserOf[c]] = c => Reached(c, m)')
  /\ \A m \in Publishers : <<m, c>> \in tasks => Reached(c, m)'

(* Such a step keeps what the recovery of that client promises. *)
LEMMA FollowsStep ==
  ASSUME Storage, NEW c \in Conns, Follows(c), Aside(c)
  PROVE  Follows(c)'
<1> USE DEF Aside
<1>1. PICK n : n = Len(stored)
  OBVIOUS
<1>2. n \in Nat /\ DOMAIN stored = 1 .. n
  BY <1>1 DEF Storage, TypeOK
<1>3. /\ DOMAIN stored \subseteq DOMAIN stored'
      /\ \A i \in DOMAIN stored : stored'[i] = stored[i]
      /\ \A i \in DOMAIN stored' \ DOMAIN stored :
           i = n + 1 /\ (stored'[i] \in Publishers => pub'[stored'[i]] = "added")
  <2>1. CASE stored' = stored
    BY <2>1
  <2>2. ASSUME NEW m \in Message, stored' = Append(stored, m),
               m \in Publishers => pub'[m] = "added"
        PROVE  /\ DOMAIN stored \subseteq DOMAIN stored'
               /\ \A i \in DOMAIN stored : stored'[i] = stored[i]
               /\ \A i \in DOMAIN stored' \ DOMAIN stored :
                    /\ i = n + 1
                    /\ stored'[i] \in Publishers => pub'[stored'[i]] = "added"
    <3>1. /\ DOMAIN stored' = 1 .. n + 1
          /\ \A i \in 1 .. n : stored'[i] = stored[i]
          /\ stored'[n + 1] = m
      BY <1>1, <2>2, StoreFacts DEF Storage, TypeOK
    <3> QED
      BY <1>2, <2>2, <3>1
  <2> QED
    BY <2>1, <2>2
<1>4. PICK from : from = rec[c].from
  OBVIOUS
<1>5. rec'[c].from = from
  BY <1>4
<1>6. Kept(c)' <=> Kept(c)
  BY DEF Kept
<1>7. Stored(from) => Stored(from)'
  BY <1>3 DEF Stored
<1>8. ASSUME Kept(c), subscribers'[UserOf[c]] = c, NEW i \in DOMAIN stored',
             NEW m \in Publishers, m = stored'[i], Behind(from, i)'
      PROVE  Reached(c, m)' \/ InHand(c, m)'
  <2>1. CASE i \in DOMAIN stored
    <3>1. m = stored[i]
      BY <1>3, <1>8, <2>1
    <3>2. Behind(from, i)
      <4>1. CASE from = Nil
        BY <4>1 DEF Behind
      <4>2. ASSUME NEW j \in DOMAIN stored', stored'[j] = from, i > j
            PROVE  Behind(from, i)
        <5>1. j \in DOMAIN stored
          BY <1>2, <1>3, <2>1, <4>2
        <5> QED
          BY <1>3, <4>2, <5>1 DEF Behind
      <4> QED
        BY <1>8, <4>1, <4>2 DEF Behind
    <3>3. Reached(c, m) \/ InHand(c, m)
      BY <1>4, <1>8, <2>1, <3>1, <3>2 DEF Follows
    <3>4. InHand(c, m) => InHand(c, m)'
      BY DEF InHand
    <3>5. Reached(c, m) => Reached(c, m)'
      BY <1>8 DEF Reached
    <3> QED
      BY <3>3, <3>4, <3>5
  <2>2. CASE i \notin DOMAIN stored
    BY <1>3, <1>8, <2>2 DEF Reached
  <2> QED
    BY <2>1, <2>2
<1>9. ASSUME Kept(c), subscribers'[UserOf[c]] = c, NEW i \in DOMAIN stored',
             stored'[i] \in Publishers, Behind(rec[c].from, i)'
      PROVE  (Reached(c, stored[i]) \/ InHand(c, stored[i]))'
  <2>1. PICK m \in Publishers : m = stored'[i]
    BY <1>9
  <2>2. Behind(from, i)'
    BY <1>5, <1>9 DEF Behind
  <2>3. Reached(c, m)' \/ InHand(c, m)'
    BY <1>8, <1>9, <2>1, <2>2
  <2> QED
    BY <2>1, <2>3 DEF Reached, InHand
<1>10. Kept(c) => (rec[c].from # Nil => Stored(rec[c].from))'
  <2>1. Kept(c) => (from # Nil => Stored(from)')
    BY <1>4, <1>7 DEF Follows
  <2> QED
    BY <1>5, <2>1 DEF Stored
<1>11. (rec[c].pc = "done" => rec[c].todo = << >>)'
  BY DEF Follows
<1> QED
  BY <1>6, <1>9, <1>10, <1>11 DEF Follows

(* A new message behind the others is stored once. *)
LEMMA OnceKeep ==
  ASSUME Storage, NEW m \in Message, Keep(m), ~Stored(m)
  PROVE  /\ \A i, j \in DOMAIN stored' : stored'[i] = stored'[j] => i = j
         /\ \A p \in Publishers : Stored(p)' => Stored(p) \/ p = m
<1>1. PICK n : n = Len(stored)
  OBVIOUS
<1>2. /\ n \in Nat /\ DOMAIN stored = 1 .. n /\ DOMAIN stored' = 1 .. n + 1
      /\ \A i \in 1 .. n : stored'[i] = stored[i]
      /\ stored'[n + 1] = m
  BY <1>1, StoreFacts DEF Storage, TypeOK, Keep
<1>3. \A i \in 1 .. n : stored[i] # m
  BY <1>2 DEF Stored
<1>4. \A i, j \in 1 .. n : stored[i] = stored[j] => i = j
  BY <1>2 DEF Storage, Once
<1>5. \A i \in 1 .. n + 1 : i \in 1 .. n \/ i = n + 1
  BY <1>2
<1>6. \A i, j \in DOMAIN stored' : stored'[i] = stored'[j] => i = j
  BY <1>2, <1>3, <1>4, <1>5
<1> QED
  BY <1>2, <1>5, <1>6 DEF Stored

(* The calls that store: a Publish call its own message, and the load of a  *)
(* record that is not there yet.                                            *)
LEMMA StoreSteps ==
  ASSUME [Next]_vars
  PROVE  \/ UNCHANGED <<history, stored>>
         \/ \E p \in Publishers : /\ pub[p] = "found" /\ Keep(p)
                                  /\ pub' = [pub EXCEPT ![p] = "added"]
         \/ \E m \in External : ~Stored(m) /\ Keep(m) /\ UNCHANGED pub
<1>1. ASSUME NEW p \in Publishers, AddToHistory(p)
      PROVE  \/ UNCHANGED <<history, stored>>
             \/ /\ pub[p] = "found" /\ Keep(p)
                /\ pub' = [pub EXCEPT ![p] = "added"]
  BY <1>1 DEF AddToHistory
<1>2. ASSUME NEW p \in Publishers,
             PublishBegin(p) \/ Broadcast(p) \/ Return(p) \/ ReturnEarly(p)
      PROVE  UNCHANGED <<history, stored>>
  BY <1>2 DEF PublishBegin, Broadcast, Return, ReturnEarly
<1>3. ASSUME NEW p \in Publishers, NEW c \in Conns,
             DeliverOk(p, c) \/ DeliverFails(p, c) \/ DeliverPanic(p, c)
      PROVE  UNCHANGED <<history, stored>>
  BY <1>3 DEF DeliverOk, DeliverFails, DeliverPanic
<1>4. ASSUME NEW u \in Users, Reap(u) \/ Unsubscribe(u)
      PROVE  UNCHANGED <<history, stored>>
  BY <1>4 DEF Reap, Unsubscribe
<1>5. ASSUME NEW c \in Conns,
             \/ SubscribeBegin(c) \/ Subscribe(c) \/ DeliverRecovered(c)
             \/ DeliverRecoveredFails(c) \/ RecoveryDone(c)
             \/ \E from \in Known(c) \cup {Nil}, limit \in Limits :
                  RecoverMessages(c, from, limit)
      PROVE  UNCHANGED <<history, stored>>
  BY <1>5 DEF SubscribeBegin, Subscribe, DeliverRecovered,
              DeliverRecoveredFails, RecoveryDone, RecoverMessages
<1>6. ASSUME NEW m \in External, LoadExternal(m)
      PROVE  ~Stored(m) /\ Keep(m) /\ UNCHANGED pub
  BY <1>6 DEF LoadExternal, Stored
<1>7. CASE DeleteRoom \/ UNCHANGED vars
  BY <1>7 DEF DeleteRoom, vars
<1> QED
  BY <1>1, <1>2, <1>3, <1>4, <1>5, <1>6, <1>7 DEF Next

(* No step takes a Publish call back to before AddToHistory. *)
LEMMA PubForward ==
  ASSUME TypeOK, [Next]_vars, NEW p \in Publishers,
         pub[p] \notin {"idle", "found"}
  PROVE  pub'[p] \notin {"idle", "found"}
<1>0. pub \in [Publishers -> {"idle", "found", "added", "waiting", "returned",
                              "timedout", "error"}]
  BY DEF TypeOK
<1>1. ASSUME NEW q \in Publishers,
             PublishBegin(q) \/ AddToHistory(q) \/ Broadcast(q) \/ Return(q)
             \/ ReturnEarly(q)
      PROVE  pub'[p] \notin {"idle", "found"}
  BY <1>0, <1>1 DEF PublishBegin, AddToHistory, Broadcast, Return, ReturnEarly
<1>2. ASSUME NEW q \in Publishers, NEW c \in Conns,
             DeliverOk(q, c) \/ DeliverFails(q, c) \/ DeliverPanic(q, c)
      PROVE  UNCHANGED pub
  BY <1>2 DEF DeliverOk, DeliverFails, DeliverPanic
<1>3. ASSUME NEW u \in Users, Reap(u) \/ Unsubscribe(u) PROVE UNCHANGED pub
  BY <1>3 DEF Reap, Unsubscribe
<1>4. ASSUME NEW c \in Conns,
             \/ SubscribeBegin(c) \/ Subscribe(c) \/ DeliverRecovered(c)
             \/ DeliverRecoveredFails(c) \/ RecoveryDone(c)
             \/ \E from \in Known(c) \cup {Nil}, limit \in Limits :
                  RecoverMessages(c, from, limit)
      PROVE  UNCHANGED pub
  BY <1>4 DEF SubscribeBegin, Subscribe, DeliverRecovered,
              DeliverRecoveredFails, RecoveryDone, RecoverMessages
<1>5. ASSUME NEW m \in External, LoadExternal(m) PROVE UNCHANGED pub
  BY <1>5 DEF LoadExternal
<1>6. CASE DeleteRoom \/ UNCHANGED vars
  BY <1>6 DEF DeleteRoom, vars
<1> QED
  BY <1>1, <1>2, <1>3, <1>4, <1>5, <1>6 DEF Next

(* Every step keeps the facts about the buffer and what was stored. *)
LEMMA StorageStep == Storage /\ [Next]_vars => Storage'
<1> SUFFICES ASSUME Storage, [Next]_vars PROVE Storage'
  OBVIOUS
<1>1. TypeOK' /\ history' \in Ring
  BY TypeNext, RingStep DEF Storage
<1>2. CASE UNCHANGED <<history, stored>>
  <2>1. \A p \in Publishers : Stored(p)' => Stored(p)
    BY <1>2 DEF Stored
  <2>2. \A p \in Publishers : Stored(p)' => pub'[p] \notin {"idle", "found"}
    BY <2>1, PubForward DEF Storage, Once
  <2>3. Once'
    BY <1>2, <2>2 DEF Storage, Once
  <2>4. Tracks'
    BY <1>2 DEF Storage, Tracks
  <2> QED
    BY <1>1, <2>3, <2>4 DEF Storage
<1>3. ASSUME NEW m \in Message, ~Stored(m), Keep(m),
             m \in Publishers => pub'[m] = "added"
      PROVE  Storage'
  <2>1. Tracks'
    BY <1>3, KeepTracks
  <2>2. /\ \A i, j \in DOMAIN stored' : stored'[i] = stored'[j] => i = j
        /\ \A p \in Publishers : Stored(p)' => Stored(p) \/ p = m
    BY <1>3, OnceKeep
  <2>3. \A p \in Publishers : Stored(p)' => pub'[p] \notin {"idle", "found"}
    <3>1. \A p \in Publishers : Stored(p) => pub[p] \notin {"idle", "found"}
      BY DEF Storage, Once
    <3>2. \A p \in Publishers : Stored(p) => pub'[p] \notin {"idle", "found"}
      BY <3>1, PubForward DEF Storage
    <3> QED
      BY <1>3, <2>2, <3>2
  <2>4. Once'
    BY <2>2, <2>3 DEF Once
  <2> QED
    BY <1>1, <2>1, <2>4 DEF Storage
<1>4. ASSUME NEW p \in Publishers, pub[p] = "found", Keep(p),
             pub' = [pub EXCEPT ![p] = "added"]
      PROVE  Storage'
  <2>1. p \in Message /\ ~Stored(p)
    BY <1>4 DEF Storage, Once, Message
  <2>2. pub'[p] = "added"
    BY <1>4 DEF Storage, TypeOK
  <2> QED
    BY <1>3, <1>4, <2>1, <2>2
<1>5. ASSUME NEW m \in External, ~Stored(m), Keep(m) PROVE Storage'
  <2>1. m \in Message /\ m \notin Publishers
    BY MemoryAssumption DEF Message
  <2> QED
    BY <1>3, <1>5, <2>1
<1> QED
  BY <1>2, <1>4, <1>5, StoreSteps

(* The steps of Publish, the deliveries and the map are Aside steps of      *)
(* every client.                                                            *)
LEMMA OthersAside ==
  ASSUME Storage, NEW c \in Conns,
         \/ \E p \in Publishers : PublishBegin(p) \/ AddToHistory(p)
                                  \/ Broadcast(p) \/ Return(p) \/ ReturnEarly(p)
         \/ \E p \in Publishers, d \in Conns :
              DeliverOk(p, d) \/ DeliverFails(p, d) \/ DeliverPanic(p, d)
         \/ \E u \in Users : Reap(u) \/ Unsubscribe(u)
         \/ \E m \in External : LoadExternal(m)
         \/ DeleteRoom
  PROVE  Aside(c)
<1>0. /\ pub \in [Publishers -> {"idle", "found", "added", "waiting", "returned",
                                 "timedout", "error"}]
      /\ received \in [Conns -> SUBSET Message]
      /\ subscribers \in [Users -> Conns \cup {NoConn}]
      /\ UserOf[c] \in Users /\ c # NoConn
  BY MemoryAssumption DEF Storage, TypeOK
<1>1. ASSUME NEW p \in Publishers, PublishBegin(p) \/ Return(p) \/ ReturnEarly(p)
      PROVE  Aside(c)
  BY <1>0, <1>1 DEF Aside, Reached, PublishBegin, Return, ReturnEarly
<1>2. ASSUME NEW p \in Publishers, AddToHistory(p) PROVE Aside(c)
  BY <1>0, <1>2 DEF Aside, Reached, AddToHistory, Keep, Message
<1>3. ASSUME NEW p \in Publishers, Broadcast(p) PROVE Aside(c)
  <2>1. /\ pub' = [pub EXCEPT ![p] = "waiting"]
        /\ tasks \subseteq tasks' /\ results \subseteq results'
        /\ UNCHANGED <<rec, subscribers, stored, received>>
    BY <1>3 DEF Broadcast
  <2>2. ASSUME subscribers[UserOf[c]] = c, <<p, UserOf[c]>> \notin Skip
        PROVE  <<p, c>> \in tasks'
    <3>1. Subscribed(UserOf[c])
      BY <1>0, <2>2 DEF Subscribed
    <3> QED
      BY <1>0, <1>3, <2>2, <3>1 DEF Broadcast
  <2>3. subscribers[UserOf[c]] = c => Reached(c, p)'
    BY <2>2 DEF Reached
  <2>4. \A m \in Publishers : m # p => pub'[m] = pub[m]
    BY <1>0, <2>1
  <2>5. \A m \in Publishers : <<m, c>> \in tasks => Reached(c, m)'
    BY <2>1 DEF Reached
  <2> QED
    BY <2>1, <2>3, <2>4, <2>5 DEF Aside
<1>4. ASSUME NEW p \in Publishers, NEW d \in Conns, DeliverOk(p, d)
      PROVE  Aside(c)
  <2>1. /\ UNCHANGED <<rec, subscribers, stored, pub>>
        /\ received' = [received EXCEPT ![d] = @ \cup {p}]
        /\ tasks' = tasks \ {<<p, d>>} /\ results \subseteq results'
    BY <1>4 DEF DeliverOk, Report
  <2>2. received[c] \subseteq received'[c]
    BY <1>0, <2>1
  <2>3. c = d => p \in received'[c]
    BY <1>0, <2>1
  <2>4. \A m \in Publishers : <<m, c>> \in tasks => Reached(c, m)'
    BY <2>1, <2>3 DEF Reached
  <2> QED
    BY <2>1, <2>2, <2>4 DEF Aside
<1>5. ASSUME NEW p \in Publishers, NEW d \in Conns,
             DeliverFails(p, d) \/ DeliverPanic(p, d)
      PROVE  Aside(c)
  <2>1. /\ UNCHANGED <<rec, subscribers, stored, pub, received>>
        /\ tasks' = tasks \ {<<p, d>>}
        /\ results' = results \cup {<<p, UserOf[d], d, "failed">>}
    BY <1>5 DEF DeliverFails, DeliverPanic, Report
  <2>2. \A m \in Publishers : <<m, c>> \in tasks => Reached(c, m)'
    BY <2>1 DEF Reached
  <2> QED
    BY <2>1, <2>2 DEF Aside
<1>6. ASSUME NEW u \in Users, Reap(u) \/ Unsubscribe(u) PROVE Aside(c)
  <2>1. /\ UNCHANGED <<rec, stored, pub, received, tasks, results>>
        /\ subscribers' = [subscribers EXCEPT ![u] = NoConn]
    BY <1>6 DEF Reap, Unsubscribe, DropUser
  <2>2. subscribers'[UserOf[c]] = c => subscribers[UserOf[c]] = c
    BY <1>0, <2>1
  <2> QED
    BY <2>1, <2>2 DEF Aside, Reached
<1>7. ASSUME NEW m \in External, LoadExternal(m) PROVE Aside(c)
  <2>1. m \in Message /\ m \notin Publishers
    BY MemoryAssumption DEF Message
  <2> QED
    BY <1>7, <2>1 DEF Aside, Reached, LoadExternal, Keep
<1>8. CASE DeleteRoom
  <2>1. /\ UNCHANGED <<rec, stored, pub, received, tasks, results>>
        /\ subscribers'[UserOf[c]] = NoConn
    BY <1>0, <1>8 DEF DeleteRoom
  <2> QED
    BY <1>0, <2>1 DEF Aside, Reached
<1> QED
  BY <1>1, <1>2, <1>3, <1>4, <1>5, <1>6, <1>7, <1>8

(* A client that subscribes, reads and delivers is Aside of the others. *)
LEMMA ClientAside ==
  ASSUME Storage, NEW d \in Conns, NEW c \in Conns, c # d,
         \/ SubscribeBegin(d) \/ Subscribe(d) \/ DeliverRecovered(d)
         \/ DeliverRecoveredFails(d) \/ RecoveryDone(d)
         \/ \E from \in Known(d) \cup {Nil}, limit \in Limits :
              RecoverMessages(d, from, limit)
  PROVE  Aside(c)
<1>0. /\ rec \in [Conns -> Recovery]
      /\ received \in [Conns -> SUBSET Message]
      /\ subscribers \in [Users -> Conns \cup {NoConn}]
      /\ UserOf[c] \in Users /\ UserOf[d] \in Users
  BY MemoryAssumption DEF Storage, TypeOK
<1>1. UNCHANGED <<stored, pub, tasks, results>>
  BY DEF SubscribeBegin, Subscribe, DeliverRecovered, DeliverRecoveredFails,
         RecoveryDone, RecoverMessages
<1>2. rec'[c] = rec[c]
  BY <1>0, ZenonT(30) DEF SubscribeBegin, Subscribe, DeliverRecovered,
         DeliverRecoveredFails, RecoveryDone, RecoverMessages
<1>3. received[c] \subseteq received'[c]
  <2>1. CASE DeliverRecovered(d)
    BY <1>0, <2>1 DEF DeliverRecovered
  <2>2. CASE UNCHANGED received
    BY <2>2
  <2> QED
    BY <2>1, <2>2 DEF SubscribeBegin, Subscribe, DeliverRecoveredFails,
                      RecoveryDone, RecoverMessages
<1>4. subscribers'[UserOf[c]] = c => subscribers[UserOf[c]] = c
  <2>1. CASE Subscribe(d)
    BY <1>0, <2>1 DEF Subscribe
  <2>2. CASE UNCHANGED subscribers
    BY <2>2
  <2> QED
    BY <2>1, <2>2 DEF SubscribeBegin, DeliverRecovered, DeliverRecoveredFails,
                      RecoveryDone, RecoverMessages
<1> QED
  BY <1>1, <1>2, <1>3, <1>4 DEF Aside, Reached

(* What the recovery of a client promises holds from its read to its end:   *)
(* the client subscribed before it read, so what is stored after the read   *)
(* is broadcast to it.                                                      *)
LEMMA ClientFollows ==
  ASSUME Storage, NEW c \in Conns, Follows(c),
         \/ SubscribeBegin(c) \/ Subscribe(c) \/ DeliverRecovered(c)
         \/ DeliverRecoveredFails(c) \/ RecoveryDone(c)
         \/ \E from \in Known(c) \cup {Nil}, limit \in Limits :
              RecoverMessages(c, from, limit)
  PROVE  Follows(c)'
<1>0. /\ rec \in [Conns -> Recovery] /\ rec[c] \in Recovery
      /\ rec[c].todo \in Seq(Message)
      /\ received \in [Conns -> SUBSET Message]
  BY RecordType DEF Storage, TypeOK
<1>1. ASSUME rec'[c].pc \notin {"delivering", "done"} PROVE Follows(c)'
  BY <1>1 DEF Follows, Kept
<1>2. CASE SubscribeBegin(c) \/ Subscribe(c) \/ DeliverRecoveredFails(c)
  <2>1. PICK place \in {"found", "error", "subscribed"}, t \in Seq(Message) :
          \/ rec' = [rec EXCEPT ![c].pc = place]
          \/ rec' = [rec EXCEPT ![c].pc = place, ![c].todo = t]
    <3>1. << >> \in Seq(Message)
      OBVIOUS
    <3> QED
      BY <1>2, <3>1 DEF SubscribeBegin, Subscribe, DeliverRecoveredFails
  <2>2. rec'[c].pc = place
    BY <1>0, <2>1 DEF Recovery
  <2> QED
    BY <1>1, <2>2
<1>3. ASSUME NEW from \in Known(c) \cup {Nil}, NEW limit \in Limits,
             RecoverMessages(c, from, limit)
      PROVE  Follows(c)'
  <2>1. PICK all : all = R!GetAll(history)
    OBVIOUS
  <2>2. PICK sent : sent = Limited(History(from), limit)
    OBVIOUS
  <2>3. PICK whole \in BOOLEAN :
          whole <=> /\ sent = History(from)
                    /\ IF from = Nil THEN stored = all
                       ELSE \E k \in DOMAIN all : all[k] = from
    OBVIOUS
  <2>4. CASE ~open
    <3>1. rec' = [rec EXCEPT ![c] = [@ EXCEPT !.pc = "error"]]
      BY <1>3, <2>4 DEF RecoverMessages
    <3>2. rec'[c].pc = "error"
      BY <1>0, <3>1 DEF Recovery
    <3> QED
      BY <1>1, <3>2
  <2>5. CASE open
    <3>1. rec' = [rec EXCEPT ![c] = [pc |-> "delivering", from |-> from,
                                     todo |-> sent, whole |-> whole]]
      BY <1>3, <2>1, <2>2, <2>3, <2>5 DEF RecoverMessages
    <3>2. rec'[c] = [pc |-> "delivering", from |-> from, todo |-> sent,
                     whole |-> whole]
      BY <1>0, <3>1
    <3>3. CASE ~whole
      BY <3>2, <3>3 DEF Follows, Kept
    <3>4. CASE whole
      <4>1. /\ from # Nil => Stored(from)
            /\ \A i \in DOMAIN stored : Behind(from, i) =>
                 \E k \in DOMAIN History(from) : History(from)[k] = stored[i]
        BY <2>1, <2>3, <3>4, FoundAll
      <4>2. \A i \in DOMAIN stored : Behind(from, i) =>
              \E k \in DOMAIN sent : sent[k] = stored[i]
        BY <2>3, <3>4, <4>1
      <4>3. stored' = stored
        BY <1>3 DEF RecoverMessages
      <4>4. /\ rec'[c].pc = "delivering" /\ rec'[c].from = from
            /\ rec'[c].todo = sent
        BY <3>2
      <4>5. (rec[c].from # Nil => Stored(rec[c].from))'
        BY <4>1, <4>3, <4>4 DEF Stored
      <4>6. ASSUME NEW i \in DOMAIN stored', Behind(rec[c].from, i)'
            PROVE  InHand(c, stored[i])'
        <5>1. Behind(from, i)
          BY <4>3, <4>4, <4>6 DEF Behind
        <5>2. \E k \in DOMAIN sent : sent[k] = stored'[i]
          BY <4>2, <4>3, <4>6, <5>1
        <5> QED
          BY <4>4, <5>2 DEF InHand
      <4> QED
        BY <4>4, <4>5, <4>6 DEF Follows
    <3> QED
      BY <3>3, <3>4
  <2> QED
    BY <2>4, <2>5
<1>4. CASE DeliverRecovered(c)
  <2>1. PICK s \in Seq(Message) : s = rec[c].todo
    BY <1>0
  <2>2. s # << >>
    BY <1>4, <2>1 DEF DeliverRecovered
  <2>3. /\ UNCHANGED <<stored, pub, tasks, results, subscribers>>
        /\ received'[c] = received[c] \cup {Head(s)}
    BY <1>0, <1>4, <2>1 DEF DeliverRecovered
  <2>4. /\ rec'[c].pc = "delivering" /\ rec[c].pc = "delivering"
        /\ rec'[c].todo = Tail(s) /\ rec'[c].from = rec[c].from
        /\ rec'[c].whole = rec[c].whole
    <3>1. PICK t : t = Tail(s)
      OBVIOUS
    <3>2. rec' = [rec EXCEPT ![c].todo = t] /\ rec[c].pc = "delivering"
      BY <1>4, <2>1, <3>1 DEF DeliverRecovered
    <3> QED
      BY <1>0, <3>1, <3>2 DEF Recovery
  <2>5. ASSUME NEW m, NEW k \in DOMAIN s, s[k] = m
        PROVE  m = Head(s) \/ \E h \in DOMAIN Tail(s) : Tail(s)[h] = m
    <3>1. PICK n : n = Len(s)
      OBVIOUS
    <3>2. PICK t : t = Tail(s)
      OBVIOUS
    <3>3. /\ n \in Nat /\ DOMAIN s = 1 .. n /\ Head(s) = s[1]
          /\ t \in Seq(Message) /\ Len(t) = n - 1
          /\ \A h \in 1 .. n - 1 : t[h] = s[h + 1]
      BY <2>2, <3>1, <3>2, HeadTailProperties
    <3>4. CASE k = 1
      BY <2>5, <3>3, <3>4
    <3>5. CASE k # 1
      <4>1. PICK h : h = k - 1
        OBVIOUS
      <4>2. h \in 1 .. n - 1 /\ h + 1 = k
        BY <3>3, <3>5, <4>1
      <4>3. DOMAIN t = 1 .. n - 1
        BY <3>3
      <4> QED
        BY <2>5, <3>2, <3>3, <4>2, <4>3
    <3> QED
      BY <3>4, <3>5
  <2>6. ASSUME NEW m, Reached(c, m) \/ InHand(c, m)
        PROVE  Reached(c, m)' \/ InHand(c, m)'
    <3>1. Reached(c, m) => Reached(c, m)'
      BY <2>3 DEF Reached
    <3>2. InHand(c, m) => m = Head(s) \/ \E h \in DOMAIN Tail(s) : Tail(s)[h] = m
      BY <2>1, <2>5 DEF InHand
    <3> QED
      BY <2>3, <2>4, <2>6, <3>1, <3>2 DEF Reached, InHand
  <2>7. PICK from : from = rec[c].from
    OBVIOUS
  <2>8. Kept(c)' => /\ from # Nil => Stored(from)
                    /\ subscribers[UserOf[c]] = c =>
                         \A i \in DOMAIN stored :
                           stored[i] \in Publishers /\ Behind(from, i)
                           => Reached(c, stored[i]) \/ InHand(c, stored[i])
    BY <2>4, <2>7 DEF Follows, Kept
  <2>9. Kept(c)' => (rec[c].from # Nil => Stored(rec[c].from))'
    BY <2>3, <2>4, <2>7, <2>8 DEF Stored
  <2>10. ASSUME Kept(c)', subscribers'[UserOf[c]] = c, NEW i \in DOMAIN stored',
                stored'[i] \in Publishers, Behind(rec[c].from, i)'
         PROVE  (Reached(c, stored[i]) \/ InHand(c, stored[i]))'
    <3>1. PICK m : m = stored[i]
      OBVIOUS
    <3>2. Behind(from, i)
      BY <2>3, <2>4, <2>7, <2>10 DEF Behind
    <3>3. Reached(c, m) \/ InHand(c, m)
      BY <2>3, <2>8, <2>10, <3>1, <3>2
    <3>4. Reached(c, m)' \/ InHand(c, m)'
      BY <2>6, <3>3
    <3>5. m = stored'[i]
      BY <2>3, <3>1
    <3> QED
      BY <3>4, <3>5 DEF Reached, InHand
  <2> QED
    BY <2>4, <2>9, <2>10 DEF Follows
<1>5. CASE RecoveryDone(c)
  <2>1. /\ UNCHANGED <<stored, pub, tasks, results, subscribers, received>>
        /\ rec[c].pc = "delivering" /\ rec[c].todo = << >>
        /\ rec'[c] = [rec[c] EXCEPT !.pc = "done"]
    BY <1>0, <1>5 DEF RecoveryDone
  <2>2. /\ rec'[c].pc = "done" /\ rec'[c].todo = << >>
        /\ rec'[c].from = rec[c].from /\ rec'[c].whole = rec[c].whole
    BY <1>0, <2>1 DEF Recovery
  <2> QED
    BY <2>1, <2>2 DEF Follows, Kept, Stored, Behind, Reached, InHand
<1> QED
  BY <1>2, <1>3, <1>4, <1>5

(* The invariant behind NoGap holds initially and is kept by every step. *)
LEMMA GapInvariant == Init /\ [][Next]_vars => []GapInv
<1>1. Init => GapInv
  <2> SUFFICES ASSUME Init PROVE GapInv
    OBVIOUS
  <2>1. TypeOK
    BY TypeInit
  <2>2. history \in Ring /\ R!GetAll(history) = << >>
    BY NewRing DEF Init
  <2>3. stored = << >> /\ DOMAIN stored = {} /\ Len(stored) = 0
    BY DEF Init
  <2>4. Once
    BY <2>3 DEF Once, Stored
  <2>5. Tracks
    BY <2>2, <2>3, MemoryAssumption DEF Tracks
  <2>6. \A c \in Conns : Follows(c)
    BY DEF Init, Follows, Kept
  <2> QED
    BY <2>1, <2>2, <2>4, <2>5, <2>6 DEF GapInv, Storage
<1>2. GapInv /\ [Next]_vars => GapInv'
  <2> SUFFICES ASSUME Storage, \A c \in Conns : Follows(c), [Next]_vars
               PROVE  GapInv'
    BY DEF GapInv
  <2>1. Storage'
    BY StorageStep
  <2>2. ASSUME NEW c \in Conns PROVE Follows(c)'
    <3>1. CASE UNCHANGED vars
      BY <3>1 DEF vars, Follows, Kept, Stored, Behind, Reached, InHand
    <3>2. CASE Aside(c)
      BY <3>2, FollowsStep
    <3>3. ASSUME NEW d \in Conns,
                 \/ SubscribeBegin(d) \/ Subscribe(d) \/ DeliverRecovered(d)
                 \/ DeliverRecoveredFails(d) \/ RecoveryDone(d)
                 \/ \E from \in Known(d) \cup {Nil}, limit \in Limits :
                      RecoverMessages(d, from, limit)
          PROVE  Follows(c)'
      <4>1. CASE c = d
        BY <3>3, <4>1, ClientFollows
      <4>2. CASE c # d
        BY <3>2, <3>3, <4>2, ClientAside
      <4> QED
        BY <4>1, <4>2
    <3> QED
      BY <3>1, <3>2, <3>3, OthersAside DEF Next
  <2> QED
    BY <2>1, <2>2 DEF GapInv
<1> QED
  BY <1>1, <1>2, PTL

(* Every reachable state of the in-memory room is well typed; the ring      *)
(* buffer's indexes stay in the array, whoever adds to it.                  *)
THEOREM TypeCorrect == Spec => []TypeOK
<1>1. GapInv => TypeOK
  BY DEF GapInv, Storage
<1> QED
  BY <1>1, GapInvariant, PTL DEF Spec

(* A client whose RecoverAndDeliver succeeded on a buffer that reached back *)
(* to its FromID misses no message published after it: the client           *)
(* subscribes before it reads the buffer, and Publish stores a message      *)
(* before it copies the subscriber map (memory_relay.go, Publish and        *)
(* RecoverAndDeliver), for any number of clients, publishers and records    *)
(* loaded from external storage.                                            *)
THEOREM RecoveryLeavesNoGap == Spec => []NoGap
<1>1. GapInv => NoGap
  <2> SUFFICES ASSUME GapInv, NEW c \in Conns, rec[c].pc = "done", rec[c].whole,
                      subscribers[UserOf[c]] = c,
                      NEW m \in Publishers, NEW i \in DOMAIN stored,
                      stored[i] = m,
                      rec[c].from = Nil \/ i > Position(rec[c].from)
               PROVE  Reached(c, m)
    BY DEF NoGap, Reached
  <2>1. Follows(c) /\ Kept(c)
    BY DEF GapInv, Kept
  <2>2. Behind(rec[c].from, i)
    <3>1. CASE rec[c].from = Nil
      BY <3>1 DEF Behind
    <3>2. CASE rec[c].from # Nil
      <4>1. Stored(rec[c].from)
        BY <2>1, <3>2 DEF Follows
      <4>2. /\ Position(rec[c].from) \in DOMAIN stored
            /\ stored[Position(rec[c].from)] = rec[c].from
        BY <4>1 DEF Stored, Position
      <4> QED
        BY <3>2, <4>2 DEF Behind
    <3> QED
      BY <3>1, <3>2
  <2>3. Reached(c, m) \/ InHand(c, m)
    BY <2>1, <2>2 DEF Follows
  <2>4. ~InHand(c, m)
    BY <2>1 DEF Follows, InHand
  <2> QED
    BY <2>3, <2>4
<1> QED
  BY <1>1, GapInvariant, PTL DEF Spec

-----------------------------------------------------------------------------
(* The results of Broadcast *)

(* A user's entry in the map is a connection of that user. *)
Mapped == \A u \in Users : Subscribed(u) => UserOf[subscribers[u]] = u

TasksOf(p, u) == {t \in tasks : t[1] = p /\ UserOf[t[2]] = u}
ResultsOf(p, u) == {r \in results : r[1] = p /\ r[2] = u}

(* From the copy of the map on, a user has one running delivery of the call *)
(* or one result, and never both.                                           *)
OneEach(p, u) ==
  \/ ResultsOf(p, u) = {} /\ \E t : TasksOf(p, u) = {t}
  \/ TasksOf(p, u) = {} /\ \E r : ResultsOf(p, u) = {r}

Reporting(p) ==
  /\ pub[p] \in {"idle", "found", "added", "error"}
       => \A u \in Users : TasksOf(p, u) = {} /\ ResultsOf(p, u) = {}
  /\ pub[p] \in {"waiting", "returned", "timedout"}
       => \A u \in Members : <<p, u>> \notin Skip => OneEach(p, u)
  /\ pub[p] = "returned" => Pending(p) = {}

ReportInv == TypeOK /\ Mapped /\ \A p \in Publishers : Reporting(p)

(* Only Subscribe puts a connection into the map, under its own user. *)
LEMMA MappedStep == TypeOK /\ Mapped /\ [Next]_vars => Mapped'
<1> SUFFICES ASSUME TypeOK, Mapped, [Next]_vars PROVE Mapped'
  OBVIOUS
<1>0. subscribers \in [Users -> Conns \cup {NoConn}]
  BY DEF TypeOK
<1>1. ASSUME NEW u \in Users, subscribers' = [subscribers EXCEPT ![u] = NoConn]
      PROVE  Mapped'
  BY <1>0, <1>1 DEF Mapped, Subscribed
<1>2. ASSUME NEW c \in Conns, Subscribe(c) PROVE Mapped'
  <2>1. UserOf[c] \in Users
    BY MemoryAssumption
  <2>2. subscribers' = [subscribers EXCEPT ![UserOf[c]] = c]
    BY <1>2 DEF Subscribe
  <2> QED
    BY <1>0, <2>1, <2>2 DEF Mapped, Subscribed
<1>3. CASE DeleteRoom
  BY <1>3 DEF DeleteRoom, Mapped, Subscribed
<1>4. CASE UNCHANGED subscribers
  BY <1>4 DEF Mapped, Subscribed
<1>5. ASSUME NEW u \in Users, Reap(u) \/ Unsubscribe(u) PROVE Mapped'
  BY <1>1, <1>5 DEF Reap, Unsubscribe, DropUser
<1>6. ASSUME NEW p \in Publishers,
             PublishBegin(p) \/ AddToHistory(p) \/ Broadcast(p) \/ Return(p)
             \/ ReturnEarly(p)
      PROVE  UNCHANGED subscribers
  BY <1>6 DEF PublishBegin, AddToHistory, Broadcast, Return, ReturnEarly
<1>7. ASSUME NEW p \in Publishers, NEW c \in Conns,
             DeliverOk(p, c) \/ DeliverFails(p, c) \/ DeliverPanic(p, c)
      PROVE  UNCHANGED subscribers
  BY <1>7 DEF DeliverOk, DeliverFails, DeliverPanic
<1>8. ASSUME NEW c \in Conns,
             \/ SubscribeBegin(c) \/ DeliverRecovered(c)
             \/ DeliverRecoveredFails(c) \/ RecoveryDone(c)
             \/ \E from \in Known(c) \cup {Nil}, limit \in Limits :
                  RecoverMessages(c, from, limit)
      PROVE  UNCHANGED subscribers
  BY <1>8 DEF SubscribeBegin, DeliverRecovered, DeliverRecoveredFails,
              RecoveryDone, RecoverMessages
<1>9. ASSUME NEW m \in External, LoadExternal(m) PROVE UNCHANGED subscribers
  BY <1>9 DEF LoadExternal
<1>10. CASE UNCHANGED vars
  BY <1>4, <1>10 DEF vars
<1> QED
  BY <1>2, <1>3, <1>4, <1>5, <1>6, <1>7, <1>8, <1>9, <1>10 DEF Next

(* The copy of the map gives every member that is not skipped one delivery, *)
(* or the status "offline".                                                 *)
LEMMA BroadcastReports ==
  ASSUME ReportInv, NEW p \in Publishers, Broadcast(p)
  PROVE  \A q \in Publishers : Reporting(q)'
<1>0. /\ pub \in [Publishers -> {"idle", "found", "added", "waiting", "returned",
                                 "timedout", "error"}]
      /\ subscribers \in [Users -> Conns \cup {NoConn}]
      /\ tasks \subseteq Publishers \X Conns
      /\ results \subseteq Publishers \X Users \X (Conns \cup {NoConn}) \X Statuses
  BY DEF ReportInv, TypeOK
<1>1. PICK T : T = {<<p, subscribers[u]>> :
                    u \in {v \in Users : Subscribed(v) /\ <<p, v>> \notin Skip}}
  OBVIOUS
<1>2. PICK O : O = {<<p, u, NoConn, "offline">> :
                    u \in {v \in Members : ~Subscribed(v) /\ <<p, v>> \notin Skip}}
  OBVIOUS
<1>3. /\ pub[p] = "added" /\ pub' = [pub EXCEPT ![p] = "waiting"]
      /\ tasks' = tasks \cup T /\ results' = results \cup O
  BY <1>1, <1>2 DEF Broadcast
<1>4. (\A t \in T : t[1] = p) /\ (\A r \in O : r[1] = p)
  <2>1. ASSUME NEW t \in T PROVE t[1] = p
    <3>1. PICK v \in Users : t = <<p, subscribers[v]>>
      BY <1>1, <2>1
    <3> QED
      BY <3>1
  <2>2. ASSUME NEW r \in O PROVE r[1] = p
    <3>1. PICK v \in Members : r = <<p, v, NoConn, "offline">>
      BY <1>2, <2>2
    <3> QED
      BY <3>1
  <2> QED
    BY <2>1, <2>2
<1>5. ASSUME NEW q \in Publishers, q # p PROVE Reporting(q)'
  <2>1. pub'[q] = pub[q]
    BY <1>0, <1>3, <1>5
  <2>2. \A u \in Users : TasksOf(q, u)' = TasksOf(q, u)
    BY <1>3, <1>4, <1>5 DEF TasksOf
  <2>3. \A u \in Users : ResultsOf(q, u)' = ResultsOf(q, u)
    BY <1>3, <1>4, <1>5 DEF ResultsOf
  <2>4. Pending(q)' = Pending(q)
    BY <1>3, <1>4, <1>5 DEF Pending
  <2>5. \A u \in Members : u \in Users /\ (OneEach(q, u) => OneEach(q, u)')
    BY <2>2, <2>3, MemoryAssumption DEF OneEach
  <2> QED
    BY <2>1, <2>2, <2>3, <2>4, <2>5 DEF ReportInv, Reporting
<1>6. Reporting(p)'
  <2>1. pub'[p] = "waiting"
    BY <1>0, <1>3
  <2>2. ASSUME NEW u \in Members, <<p, u>> \notin Skip PROVE OneEach(p, u)'
    <3>1. u \in Users /\ TasksOf(p, u) = {} /\ ResultsOf(p, u) = {}
      BY <1>3, MemoryAssumption DEF ReportInv, Reporting
    <3>2. CASE Subscribed(u)
      <4>1. PICK c : c = subscribers[u]
        OBVIOUS
      <4>2. <<p, c>> \in T /\ UserOf[c] = u
        BY <1>1, <2>2, <3>1, <3>2, <4>1 DEF ReportInv, Mapped
      <4>3. ASSUME NEW t \in T, UserOf[t[2]] = u PROVE t = <<p, c>>
        <5>1. PICK v \in Users : Subscribed(v) /\ t = <<p, subscribers[v]>>
          BY <1>1, <4>3
        <5>2. UserOf[subscribers[v]] = v
          BY <5>1 DEF ReportInv, Mapped
        <5>3. v = u
          BY <4>3, <5>1, <5>2
        <5> QED
          BY <4>1, <5>1, <5>3
      <4>4. TasksOf(p, u)' = {<<p, c>>}
        BY <1>3, <3>1, <4>2, <4>3 DEF TasksOf
      <4>5. ResultsOf(p, u)' = {}
        <5>1. ASSUME NEW r \in O PROVE r[2] # u
          <6>1. PICK v \in Members : ~Subscribed(v) /\ r = <<p, v, NoConn, "offline">>
            BY <1>2, <5>1
          <6> QED
            BY <3>2, <6>1
        <5> QED
          BY <1>3, <3>1, <5>1 DEF ResultsOf
      <4> QED
        BY <4>4, <4>5 DEF OneEach
    <3>3. CASE ~Subscribed(u)
      <4>1. PICK r : r = <<p, u, NoConn, "offline">>
        OBVIOUS
      <4>2. r \in O /\ \A x \in O : x[2] = u => x = r
        <5>1. r \in O
          BY <1>2, <2>2, <3>3, <4>1
        <5>2. ASSUME NEW x \in O, x[2] = u PROVE x = r
          <6>1. PICK v \in Members : x = <<p, v, NoConn, "offline">>
            BY <1>2, <5>2
          <6> QED
            BY <4>1, <5>2, <6>1
        <5> QED
          BY <5>1, <5>2
      <4>3. ResultsOf(p, u)' = {r}
        BY <1>3, <3>1, <4>1, <4>2 DEF ResultsOf
      <4>4. \A t \in T : UserOf[t[2]] # u
        <5>1. ASSUME NEW t \in T, UserOf[t[2]] = u PROVE FALSE
          <6>1. PICK v \in Users : Subscribed(v) /\ t = <<p, subscribers[v]>>
            BY <1>1, <5>1
          <6>2. UserOf[subscribers[v]] = v
            BY <6>1 DEF ReportInv, Mapped
          <6> QED
            BY <3>3, <5>1, <6>1, <6>2
        <5> QED
          BY <5>1
      <4>5. TasksOf(p, u)' = {}
        BY <1>3, <3>1, <4>4 DEF TasksOf
      <4> QED
        BY <4>3, <4>5 DEF OneEach
    <3> QED
      BY <3>2, <3>3
  <2> QED
    BY <2>1, <2>2 DEF Reporting
<1> QED
  BY <1>5, <1>6

(* A delivery that ends leaves its user one result in its place. *)
LEMMA DeliveryReports ==
  ASSUME ReportInv, NEW p \in Publishers, NEW c \in Conns, NEW status,
         <<p, c>> \in tasks, Report(p, c, status), UNCHANGED pub
  PROVE  \A q \in Publishers : Reporting(q)'
<1>1. PICK t : t = <<p, c>>
  OBVIOUS
<1>2. PICK w : w = UserOf[c]
  OBVIOUS
<1>3. PICK r : r = <<p, w, c, status>>
  OBVIOUS
<1>4. /\ t[1] = p /\ UserOf[t[2]] = w /\ r[1] = p /\ r[2] = w
      /\ w \in Users /\ t \in tasks
      /\ tasks' = tasks \ {t} /\ results' = results \cup {r}
  BY <1>1, <1>2, <1>3, MemoryAssumption DEF Report
<1>5. \A q \in Publishers, u \in Users : <<q, u>> # <<p, w>> =>
        TasksOf(q, u)' = TasksOf(q, u) /\ ResultsOf(q, u)' = ResultsOf(q, u)
  BY <1>4 DEF TasksOf, ResultsOf
<1>6. t \in TasksOf(p, w) /\ TasksOf(p, w) # {}
  BY <1>4 DEF TasksOf
<1>7. pub[p] \notin {"idle", "found", "added", "error"}
  BY <1>4, <1>6 DEF ReportInv, Reporting
<1>8. pub[p] # "returned"
  BY <1>4 DEF ReportInv, Reporting, Pending
<1>9. ASSUME NEW q \in Publishers, NEW u \in Users, OneEach(q, u)
      PROVE  OneEach(q, u)'
  <2>1. CASE <<q, u>> # <<p, w>>
    BY <1>5, <1>9, <2>1 DEF OneEach
  <2>2. CASE q = p /\ u = w
    <3>1. ResultsOf(p, w) = {} /\ TasksOf(p, w) = {t}
      BY <1>6, <1>9, <2>2 DEF OneEach
    <3>2. TasksOf(p, w)' = {}
      BY <1>4, <3>1 DEF TasksOf
    <3>3. ResultsOf(p, w)' = {r}
      BY <1>4, <3>1 DEF ResultsOf
    <3> QED
      BY <2>2, <3>2, <3>3 DEF OneEach
  <2> QED
    BY <2>1, <2>2
<1>10. \A q \in Publishers : Pending(q) = {} => Pending(q)' = {}
  BY <1>4 DEF Pending
<1>11. ASSUME NEW q \in Publishers PROVE Reporting(q)'
  <2>1. \A u \in Members : u \in Users
    BY MemoryAssumption
  <2>2. Reporting(q)
    BY DEF ReportInv
  <2>3. pub[q] \in {"idle", "found", "added", "error"}
          => \A u \in Users : TasksOf(q, u)' = {} /\ ResultsOf(q, u)' = {}
    BY <1>5, <1>7, <2>2 DEF Reporting
  <2>4. pub[q] \in {"waiting", "returned", "timedout"}
          => \A u \in Members : <<q, u>> \notin Skip => OneEach(q, u)'
    BY <1>9, <2>1, <2>2 DEF Reporting
  <2> QED
    BY <1>10, <2>2, <2>3, <2>4 DEF Reporting
<1> QED
  BY <1>11

(* A call that moves on without touching the deliveries or the results. *)
LEMMA PublishReports ==
  ASSUME ReportInv, NEW p \in Publishers,
         PublishBegin(p) \/ AddToHistory(p) \/ Return(p) \/ ReturnEarly(p)
  PROVE  \A q \in Publishers : Reporting(q)'
<1>0. pub \in [Publishers -> {"idle", "found", "added", "waiting", "returned",
                              "timedout", "error"}]
  BY DEF ReportInv, TypeOK
<1>1. UNCHANGED <<tasks, results>>
  BY DEF PublishBegin, AddToHistory, Return, ReturnEarly
<1>2. ASSUME NEW q \in Publishers, NEW u
      PROVE  /\ TasksOf(q, u)' = TasksOf(q, u) /\ ResultsOf(q, u)' = ResultsOf(q, u)
             /\ Pending(q)' = Pending(q) /\ (OneEach(q, u)' <=> OneEach(q, u))
  BY <1>1 DEF TasksOf, ResultsOf, OneEach, Pending
<1>3. ASSUME NEW q \in Publishers PROVE Reporting(q)'
  <2>1. Reporting(q)
    BY DEF ReportInv
  <2>2. \/ pub'[q] = pub[q]
        \/ /\ pub[q] \in {"idle", "found"}
           /\ pub'[q] \in {"found", "error", "added"}
        \/ /\ pub[q] = "waiting"
           /\ pub'[q] = "timedout" \/ (pub'[q] = "returned" /\ Pending(q) = {})
    BY <1>0 DEF PublishBegin, AddToHistory, Return, ReturnEarly
  <2> QED
    BY <1>2, <2>1, <2>2 DEF Reporting
<1> QED
  BY <1>3

(* When Broadcast has waited for its deliveries, every member of the room   *)
(* other than a skipped sender has exactly one status in its results        *)
(* (memory_relay.go:488-546), however the map changes in between.           *)
THEOREM EveryMemberReported == Spec => []MembersReported
<1>1. Init => ReportInv
  <2> SUFFICES ASSUME Init PROVE ReportInv
    OBVIOUS
  <2>1. TypeOK
    BY TypeInit
  <2>2. Mapped
    BY DEF Init, Mapped, Subscribed
  <2>3. \A p \in Publishers : Reporting(p)
    BY DEF Init, Reporting, TasksOf, ResultsOf
  <2> QED
    BY <2>1, <2>2, <2>3 DEF ReportInv
<1>2. ReportInv /\ TypeOK' /\ [Next]_vars => ReportInv'
  <2> SUFFICES ASSUME ReportInv, TypeOK', [Next]_vars PROVE ReportInv'
    OBVIOUS
  <2>1. Mapped'
    BY MappedStep DEF ReportInv
  <2>2. CASE UNCHANGED <<pub, tasks, results>>
    <3>1. ASSUME NEW p \in Publishers PROVE Reporting(p)'
      <4>1. Reporting(p)
        BY DEF ReportInv
      <4>2. \A u : (OneEach(p, u)' <=> OneEach(p, u)) /\ TasksOf(p, u)' = TasksOf(p, u)
                   /\ ResultsOf(p, u)' = ResultsOf(p, u)
        BY <2>2 DEF OneEach, TasksOf, ResultsOf
      <4>3. Pending(p)' = Pending(p)
        BY <2>2 DEF Pending
      <4> QED
        BY <2>2, <4>1, <4>2, <4>3 DEF Reporting
    <3> QED
      BY <2>1, <3>1 DEF ReportInv
  <2>3. ASSUME NEW p \in Publishers,
               PublishBegin(p) \/ AddToHistory(p) \/ Return(p) \/ ReturnEarly(p)
               \/ Broadcast(p)
        PROVE  \A q \in Publishers : Reporting(q)'
    BY <2>3, PublishReports, BroadcastReports
  <2>4. ASSUME NEW p \in Publishers, NEW c \in Conns,
               DeliverOk(p, c) \/ DeliverFails(p, c) \/ DeliverPanic(p, c)
        PROVE  \A q \in Publishers : Reporting(q)'
    <3>1. PICK status : Report(p, c, status)
      BY <2>4 DEF DeliverOk, DeliverFails, DeliverPanic
    <3>2. <<p, c>> \in tasks /\ UNCHANGED pub
      BY <2>4 DEF DeliverOk, DeliverFails, DeliverPanic
    <3> QED
      BY <3>1, <3>2, DeliveryReports
  <2>5. ASSUME NEW u \in Users, Reap(u) \/ Unsubscribe(u)
        PROVE  UNCHANGED <<pub, tasks, results>>
    BY <2>5 DEF Reap, Unsubscribe
  <2>6. ASSUME NEW c \in Conns,
               \/ SubscribeBegin(c) \/ Subscribe(c) \/ DeliverRecovered(c)
               \/ DeliverRecoveredFails(c) \/ RecoveryDone(c)
               \/ \E from \in Known(c) \cup {Nil}, limit \in Limits :
                    RecoverMessages(c, from, limit)
        PROVE  UNCHANGED <<pub, tasks, results>>
    BY <2>6 DEF SubscribeBegin, Subscribe, DeliverRecovered,
                DeliverRecoveredFails, RecoveryDone, RecoverMessages
  <2>7. ASSUME NEW m \in External, LoadExternal(m)
        PROVE  UNCHANGED <<pub, tasks, results>>
    BY <2>7 DEF LoadExternal
  <2>8. CASE DeleteRoom \/ UNCHANGED vars
    BY <2>2, <2>8 DEF DeleteRoom, vars
  <2> QED
    BY <2>1, <2>2, <2>3, <2>4, <2>5, <2>6, <2>7, <2>8 DEF Next, ReportInv
<1>3. ReportInv => MembersReported
  <2> SUFFICES ASSUME ReportInv, NEW p \in Publishers, pub[p] = "returned",
                      NEW u \in Members, <<p, u>> \notin Skip
               PROVE  Cardinality(ResultsOf(p, u)) = 1
    BY DEF MembersReported, ResultsOf
  <2>1. Pending(p) = {} /\ OneEach(p, u)
    BY DEF ReportInv, Reporting
  <2>2. TasksOf(p, u) = {}
    BY <2>1 DEF TasksOf, Pending
  <2>3. PICK r : ResultsOf(p, u) = {r}
    BY <2>1, <2>2 DEF OneEach
  <2> QED
    BY <2>3, FS_Singleton
<1> QED
  BY <1>1, <1>2, <1>3, TypeCorrect, PTL DEF Spec
=============================================================================
