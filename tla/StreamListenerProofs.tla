------------------------ MODULE StreamListenerProofs ------------------------
(***************************************************************************)
(* Proofs about StreamListener, for any number of goroutines, any COUNT    *)
(* and any bounds.                                                         *)
(*                                                                         *)
(* NoSkip is not inductive: that Handle broadcasts the successor of lastID *)
(* depends on what the XREAD was asked and what it answered.  Cursor ties  *)
(* the two together.  OneListener needs Sole: one goroutine is alive, and  *)
(* what it broadcasts comes after all that the ended ones have broadcast.  *)
(***************************************************************************)
EXTENDS StreamListener, TLAPS

(* The local variables of a goroutine agree with what it has broadcast. *)
Cursor(l) ==
  /\ loop[l].pc = "none" => loop[l].lastID = Dollar
  /\ loop[l].lastID = Dollar <=> relayed[l] = {}
  /\ loop[l].lastID # Dollar => loop[l].lastID <= length
  /\ \A i \in relayed[l] : i <= loop[l].lastID
  /\ \A i \in relayed[l] : \A j \in Nat :
       i <= j /\ j <= loop[l].lastID => j \in relayed[l]
  /\ loop[l].pc = "blocked" =>
       /\ loop[l].base <= length
       /\ loop[l].lastID # Dollar => loop[l].base = loop[l].lastID
  /\ loop[l].pc = "handling" =>
       /\ loop[l].next <= loop[l].hi /\ loop[l].hi <= length
       /\ loop[l].lastID # Dollar => loop[l].next = loop[l].lastID + 1

CursorInv == TypeOK /\ \A l \in Loops : Cursor(l)

(* The goroutine that Start and the restart create. *)
LEMMA NewLoopType == NewLoop \in Loop /\ NewLoop.pc = "select"
                       /\ NewLoop.lastID = Dollar
BY DEF NewLoop, NoLoop, Loop, PCs

(* The record updates of XRead, XReadReply and Handle keep the type. *)
LEMMA LoopUpdates ==
  ASSUME NEW r \in Loop, NEW b \in Nat, NEW c \in Nat, NEW p \in PCs
  PROVE  /\ [r EXCEPT !.pc = p, !.base = b] \in Loop
         /\ [r EXCEPT !.pc = p, !.next = b, !.hi = c] \in Loop
         /\ [r EXCEPT !.lastID = b, !.next = c, !.pc = p] \in Loop
         /\ [r EXCEPT !.pc = p] \in Loop
<1>1. [r EXCEPT !.pc = p, !.base = b] \in Loop
  BY DEF Loop
<1>2. [r EXCEPT !.pc = p, !.next = b, !.hi = c] \in Loop
  BY DEF Loop
<1>3. [r EXCEPT !.lastID = b, !.next = c, !.pc = p] \in Loop
  BY DEF Loop
<1>4. [r EXCEPT !.pc = p] \in Loop
  BY DEF Loop
<1> QED
  BY <1>1, <1>2, <1>3, <1>4

(* The batch in hand stays within the stream and within COUNT. *)
LEMMA HandStep == ASSUME TypeOK, [Next]_vars, NEW k \in Loops PROVE InHand(k)'
<1> USE ListenerAssumption
<1>a. /\ loop[k] \in Loop /\ loop \in [Loops -> Loop] /\ length \in Nat
      /\ InHand(k)
  BY DEF TypeOK
<1>b. loop[k] \in [pc : PCs, lastID : Nat \cup {Dollar}, base : Nat, next : Nat,
                  hi : Nat]
  BY <1>a DEF Loop
<1>1. ASSUME loop'[k] = loop[k], length' >= length, length' \in Nat
      PROVE  InHand(k)'
  BY <1>1, <1>a, <1>b DEF InHand
<1>2. ASSUME loop'[k].pc # "handling" PROVE InHand(k)'
  BY <1>2 DEF InHand
<1>3. ASSUME NEW l \in Loops, Start(l) PROVE InHand(k)'
  <2>1. CASE k # l
    BY <1>1, <1>3, <1>a, <2>1 DEF Start
  <2>2. CASE k = l
    BY <1>2, <1>3, <1>a, <2>2, NewLoopType DEF Start
  <2> QED
    BY <2>1, <2>2
<1>4. ASSUME NEW l \in Loops,
             \/ Select(l) \/ XRead(l) \/ XReadTimeout(l) \/ XReadError(l) \/ Panic(l)
      PROVE  InHand(k)'
  <2>1. CASE k # l
    <3>1. loop'[k] = loop[k]
      BY <1>4, <1>a, <2>1 DEF Select, XRead, XReadTimeout, XReadError, Panic
    <3>2. length' = length
      BY <1>4 DEF Select, XRead, XReadTimeout, XReadError, Panic
    <3> QED
      BY <1>1, <1>a, <3>1, <3>2
  <2>2. CASE k = l
    <3>1. loop'[k].pc # "handling"
      BY <1>4, <1>a, <1>b, <2>2 DEF Select, XRead, XReadTimeout, XReadError, Panic
    <3> QED
      BY <1>2, <3>1
  <2> QED
    BY <2>1, <2>2
<1>5. ASSUME NEW l \in Loops, NEW hi \in 1 .. length, XReadReply(l, hi)
      PROVE  InHand(k)'
  <2>1. CASE k # l
    BY <1>1, <1>5, <1>a, <2>1 DEF XReadReply
  <2>2. CASE k = l
    <3>1. /\ loop'[k].base = loop[k].base /\ loop'[k].next = loop[k].base + 1
          /\ loop'[k].hi = hi /\ length' = length
          /\ loop[k].base < hi /\ hi <= length /\ hi <= loop[k].base + Count
      BY <1>5, <1>a, <1>b, <2>2 DEF XReadReply
    <3>2. loop[k].base < loop[k].base + 1 /\ loop[k].base + 1 <= hi
      BY <1>b, <3>1
    <3> QED
      BY <3>1, <3>2 DEF InHand
  <2> QED
    BY <2>1, <2>2
<1>6. ASSUME NEW l \in Loops, Handle(l) PROVE InHand(k)'
  <2>1. CASE k # l
    BY <1>1, <1>6, <1>a, <2>1 DEF Handle
  <2>2. CASE k = l /\ loop[k].next = loop[k].hi
    <3>1. loop'[k].pc = "select"
      BY <1>6, <1>a, <1>b, <2>2 DEF Handle
    <3> QED
      BY <1>2, <3>1
  <2>3. CASE k = l /\ loop[k].next # loop[k].hi
    <3>1. /\ loop'[k].base = loop[k].base /\ loop'[k].next = loop[k].next + 1
          /\ loop'[k].hi = loop[k].hi /\ length' = length
      BY <1>6, <1>a, <1>b, <2>3 DEF Handle
    <3>2. /\ loop[k].base < loop[k].next /\ loop[k].next <= loop[k].hi
          /\ loop[k].hi <= length /\ loop[k].hi <= loop[k].base + Count
      BY <1>6, <1>a, <2>3 DEF Handle, InHand
    <3>3. loop[k].base < loop[k].next + 1 /\ loop[k].next + 1 <= loop[k].hi
      BY <1>b, <2>3, <3>2
    <3> QED
      BY <3>1, <3>2, <3>3 DEF InHand
  <2> QED
    BY <2>1, <2>2, <2>3
<1>7. ASSUME NEW l \in Loops, NEW m \in Loops, Restart(l, m) PROVE InHand(k)'
  <2>1. CASE k = m
    BY <1>2, <1>7, <1>a, <2>1, NewLoopType DEF Restart
  <2>2. CASE k # m /\ k = l
    <3>1. loop'[k].pc = "exited"
      BY <1>7, <1>a, <1>b, <2>2 DEF Restart
    <3> QED
      BY <1>2, <3>1
  <2>3. CASE k # m /\ k # l
    BY <1>1, <1>7, <1>a, <2>3 DEF Restart
  <2> QED
    BY <2>1, <2>2, <2>3
<1>8. CASE Append
  BY <1>1, <1>8, <1>a DEF Append
<1>9. CASE StartAgain \/ Stop \/ RelayClose \/ UNCHANGED vars
  BY <1>1, <1>9, <1>a DEF StartAgain, Stop, RelayClose, vars
<1> QED
  BY <1>3, <1>4, <1>5, <1>6, <1>7, <1>8, <1>9 DEF Next, LoopStep

(* Type correctness: one step per action of the specification. *)
LEMMA TypeStep == ASSUME TypeOK, [Next]_vars PROVE TypeOK'
<1>0. \A l \in Loops : InHand(l)'
  BY HandStep
<1> USE ListenerAssumption, <1>0 DEF TypeOK
<1>1. CASE Append
  BY <1>1 DEF Append
<1>2. ASSUME NEW l \in Loops, Start(l) PROVE TypeOK'
  <2>1. loop' \in [Loops -> Loop]
    BY <1>2, NewLoopType DEF Start
  <2>2. budget' \in [{"calls", "errors", "panics"} -> Nat]
    BY <1>2 DEF Start, Spend
  <2> QED
    BY <1>2, <2>1, <2>2 DEF Start, Alive
<1>3. CASE StartAgain
  BY <1>3 DEF StartAgain, Spend
<1>4. CASE Stop
  <2>1. budget' \in [{"calls", "errors", "panics"} -> Nat]
    BY <1>4 DEF Stop, Spend
  <2> QED
    BY <1>4, <2>1 DEF Stop
<1>5. CASE RelayClose
  BY <1>5 DEF RelayClose
<1>6. ASSUME NEW l \in Loops, Select(l) PROVE TypeOK'
  <2>0. loop[l] \in Loop /\ "exited" \in PCs /\ "calling" \in PCs
    BY DEF PCs
  <2>1. loop' \in [Loops -> Loop]
    BY <1>6, <2>0, LoopUpdates DEF Select
  <2> QED
    BY <1>6, <2>1 DEF Select
<1>7. ASSUME NEW l \in Loops, XRead(l) PROVE TypeOK'
  <2> DEFINE b == IF loop[l].lastID = Dollar THEN length ELSE loop[l].lastID
  <2>0. loop[l] \in Loop /\ b \in Nat /\ "blocked" \in PCs
    BY DEF Loop, PCs
  <2> HIDE DEF b
  <2>2. [loop[l] EXCEPT !.pc = "blocked", !.base = b] \in Loop
    BY <2>0, LoopUpdates
  <2>1. loop' \in [Loops -> Loop]
    BY <1>7, <2>2 DEF XRead, b
  <2> QED
    BY <1>7, <2>1 DEF XRead
<1>8. ASSUME NEW l \in Loops, NEW hi \in 1 .. length, XReadReply(l, hi)
      PROVE TypeOK'
  <2> DEFINE b == loop[l].base + 1
  <2>0. loop[l] \in Loop /\ b \in Nat /\ hi \in Nat /\ "handling" \in PCs
    BY DEF Loop, PCs
  <2> HIDE DEF b
  <2>2. [loop[l] EXCEPT !.pc = "handling", !.next = b, !.hi = hi] \in Loop
    BY <2>0, LoopUpdates
  <2>1. loop' \in [Loops -> Loop]
    BY <1>8, <2>2 DEF XReadReply, b
  <2> QED
    BY <1>8, <2>1 DEF XReadReply
<1>9. ASSUME NEW l \in Loops, XReadTimeout(l) PROVE TypeOK'
  BY <1>9 DEF XReadTimeout, Loop, PCs
<1>10. ASSUME NEW l \in Loops, XReadError(l) PROVE TypeOK'
  BY <1>10 DEF XReadError, Spend, Loop, PCs
<1>11. ASSUME NEW l \in Loops, Handle(l) PROVE TypeOK'
  <2> DEFINE b == loop[l].next
             c == loop[l].next + 1
             p == IF loop[l].next = loop[l].hi THEN "select" ELSE "handling"
  <2>0. loop[l] \in Loop /\ b \in Nat /\ c \in Nat /\ p \in PCs
    BY DEF Loop, PCs
  <2> HIDE DEF b, c, p
  <2>2. [loop[l] EXCEPT !.lastID = b, !.next = c, !.pc = p] \in Loop
    BY <2>0, LoopUpdates
  <2>1. loop' \in [Loops -> Loop]
    BY <1>11, <2>2 DEF Handle, b, c, p
  <2>3. relayed' \in [Loops -> SUBSET Nat]
    BY <1>11, <2>0 DEF Handle, b
  <2> QED
    BY <1>11, <2>1, <2>3 DEF Handle
<1>12. ASSUME NEW l \in Loops, Panic(l) PROVE TypeOK'
  BY <1>12 DEF Panic, Spend, Loop, PCs
<1>13. ASSUME NEW l \in Loops, NEW k \in Loops, Restart(l, k) PROVE TypeOK'
  <2>0. loop[l] \in Loop /\ "exited" \in PCs
    BY DEF Loop, PCs
  <2>2. [loop[l] EXCEPT !.pc = "exited"] \in Loop
    BY <2>0, LoopUpdates
  <2>1. loop' \in [Loops -> Loop]
    BY <1>13, <2>2, NewLoopType DEF Restart
  <2> QED
    BY <1>13, <2>1 DEF Restart
<1>14. CASE UNCHANGED vars
  BY <1>14 DEF vars
<1> QED
  BY <1>1, <1>2, <1>3, <1>4, <1>5, <1>6, <1>7, <1>8, <1>9, <1>10, <1>11, <1>12,
     <1>13, <1>14 DEF Next, LoopStep

(* The inductive step of CursorInv. *)
LEMMA CursorStep == ASSUME CursorInv, [Next]_vars PROVE CursorInv'
<1> USE ListenerAssumption
<1>0. TypeOK'
  BY TypeStep DEF CursorInv
<1> SUFFICES ASSUME NEW k \in Loops PROVE Cursor(k)'
  BY <1>0 DEF CursorInv
<1>a. TypeOK /\ Cursor(k) /\ loop[k] \in Loop /\ length \in Nat
  BY DEF CursorInv, TypeOK
<1>b. loop[k] \in [pc : PCs, lastID : Nat \cup {Dollar}, base : Nat, next : Nat,
                  hi : Nat]
  BY <1>a DEF Loop
<1>c. relayed[k] \subseteq Nat /\ loop \in [Loops -> Loop]
  BY DEF CursorInv, TypeOK
<1>1. ASSUME loop'[k] = loop[k], relayed'[k] = relayed[k], length' >= length,
             length' \in Nat
      PROVE  Cursor(k)'
  BY <1>1, <1>a, <1>b, <1>c DEF Cursor
<1>2. ASSUME NEW l \in Loops, Start(l) PROVE Cursor(k)'
  <2>1. CASE k # l
    BY <1>1, <1>2, <1>a, <2>1 DEF Start, TypeOK
  <2>2. CASE k = l
    BY <1>2, <1>a, <1>c, <2>2, NewLoopType DEF Start, Unused, Cursor
  <2> QED
    BY <2>1, <2>2
<1>3. ASSUME NEW l \in Loops, LoopStep(l) \/ XReadError(l) \/ Panic(l)
      PROVE  Cursor(k)'
  <2>1. CASE k # l /\ \A m \in Loops : ~Restart(l, m)
    <3>1. ASSUME NEW m \in Loops PROVE ~Restart(l, m)
      BY <2>1
    <3>2. loop'[k] = loop[k]
      BY <1>3, <1>c, <2>1, <3>1
      DEF LoopStep, Select, XRead, XReadReply, XReadTimeout, XReadError, Handle,
          Panic
    <3>3. relayed'[k] = relayed[k] /\ length' = length
      BY <1>3, <1>a, <2>1, <3>1
      DEF LoopStep, Select, XRead, XReadReply, XReadTimeout, XReadError, Handle,
          Panic, TypeOK
    <3> QED
      BY <1>1, <1>a, <3>2, <3>3
  <2>2. CASE k = l /\ Select(l)
    BY <2>2, <1>a, <1>b, <1>c DEF Select, Cursor
  <2>3. CASE k = l /\ XRead(l)
    BY <2>3, <1>a, <1>b, <1>c DEF XRead, Cursor
  <2>4. ASSUME NEW hi \in 1 .. length, k = l, XReadReply(l, hi) PROVE Cursor(k)'
    BY <2>4, <1>a, <1>b, <1>c DEF XReadReply, Cursor
  <2>5. CASE k = l /\ XReadTimeout(l)
    BY <2>5, <1>a, <1>b, <1>c DEF XReadTimeout, Cursor
  <2>6. CASE k = l /\ XReadError(l)
    BY <2>6, <1>a, <1>b, <1>c DEF XReadError, Cursor
  <2>7. CASE k = l /\ Handle(l)
    <3> DEFINE n == loop[k].next
    <3>1. n \in Nat /\ loop[k].hi \in Nat /\ n <= loop[k].hi /\ loop[k].hi <= length
      BY <2>7, <1>a, <1>b DEF Handle, Cursor
    <3>2. /\ loop'[k].lastID = n /\ loop'[k].next = n + 1
          /\ loop'[k].hi = loop[k].hi
          /\ loop'[k].pc = IF n = loop[k].hi THEN "select" ELSE "handling"
      BY <2>7, <1>b, <1>c DEF Handle
    <3>3. relayed'[k] = relayed[k] \cup {n} /\ length' = length
      BY <2>7, <1>a DEF Handle, TypeOK
    <3>4. \A i \in relayed[k] : i <= n
      BY <2>7, <1>a, <1>b, <1>c, <3>1 DEF Handle, Cursor
    <3>5. \A i \in relayed[k] : \A j \in Nat : i <= j /\ j <= n =>
             j \in relayed[k] \cup {n}
      BY <2>7, <1>a, <1>b, <1>c, <3>1 DEF Handle, Cursor
    <3>6. n # Dollar
      BY <3>1
    <3> HIDE DEF n
    <3>7. loop'[k].pc = "handling" =>
            loop'[k].next <= loop'[k].hi /\ loop'[k].hi <= length'
      BY <3>1, <3>2, <3>3, <1>a
    <3>8. loop'[k].pc # "none" /\ loop'[k].pc # "blocked"
      BY <3>2
    <3>9. /\ loop'[k].lastID # Dollar /\ relayed'[k] # {}
          /\ loop'[k].lastID <= length'
      BY <3>1, <3>2, <3>3, <3>6, <1>a
    <3>10. \A i \in relayed'[k] : i <= loop'[k].lastID
      BY <3>1, <3>2, <3>3, <3>4
    <3>11. \A i \in relayed'[k] : \A j \in Nat :
             i <= j /\ j <= loop'[k].lastID => j \in relayed'[k]
      BY <3>1, <3>2, <3>3, <3>5
    <3> QED
      BY <3>2, <3>7, <3>8, <3>9, <3>10, <3>11 DEF Cursor
  <2>8. CASE k = l /\ Panic(l)
    BY <2>8, <1>a, <1>b, <1>c DEF Panic, Cursor
  <2>9. ASSUME NEW m \in Loops, Restart(l, m) PROVE Cursor(k)'
    <3>1. CASE k = m
      BY <2>9, <3>1, <1>a, <1>c, NewLoopType DEF Restart, Unused, Cursor
    <3>2. CASE k # m /\ k = l
      BY <2>9, <3>2, <1>a, <1>b, <1>c DEF Restart, Cursor
    <3>3. CASE k # m /\ k # l
      BY <1>1, <2>9, <3>3, <1>a, <1>c DEF Restart
    <3> QED
      BY <3>1, <3>2, <3>3
  <2> QED
    BY <1>3, <2>1, <2>2, <2>3, <2>4, <2>5, <2>6, <2>7, <2>8, <2>9 DEF LoopStep
<1>4. CASE Append
  BY <1>1, <1>4, <1>a DEF Append
<1>5. CASE StartAgain \/ Stop \/ RelayClose \/ UNCHANGED vars
  BY <1>1, <1>5, <1>a DEF StartAgain, Stop, RelayClose, vars
<1> QED
  BY <1>2, <1>3, <1>4, <1>5 DEF Next

(* The initial state is well typed: nobody has a batch. *)
LEMMA InitType == ASSUME Init PROVE TypeOK
<1>1. NoLoop \in Loop
  BY DEF NoLoop, Loop, PCs
<1>2. loop \in [Loops -> Loop]
  BY <1>1 DEF Init
<1>3. budget \in [{"calls", "errors", "panics"} -> Nat]
  BY ListenerAssumption DEF Init
<1> QED
  BY <1>2, <1>3 DEF Init, TypeOK, InHand, NoLoop

(* The variables keep their types. *)
THEOREM TypeCorrect == Spec => []TypeOK
<1>1. Init => TypeOK
  BY InitType
<1>2. TypeOK /\ [Next]_vars => TypeOK'
  BY TypeStep
<1> QED
  BY <1>1, <1>2, PTL DEF Spec

(* The cursor of every goroutine agrees with the stream at all times. *)
LEMMA CursorAlways == Spec => []CursorInv
<1>1. Init => CursorInv
  <2> SUFFICES ASSUME Init PROVE CursorInv
    OBVIOUS
  <2>1. TypeOK
    BY InitType
  <2> QED
    BY <2>1, ListenerAssumption DEF Init, CursorInv, Cursor, NoLoop
<1>2. CursorInv /\ [Next]_vars => CursorInv'
  BY CursorStep
<1> QED
  BY <1>1, <1>2, PTL DEF Spec

(***************************************************************************)
(* A listener that has an ID in hand skips no entry of the stream,         *)
(* whatever XREADs fail or time out, for any number of goroutines.         *)
(***************************************************************************)
THEOREM NeverSkips == Spec => []NoSkip
<1>1. CursorInv => NoSkip
  <2> SUFFICES ASSUME CursorInv, NEW l \in Loops
               PROVE  /\ loop[l].lastID = Dollar <=> relayed[l] = {}
                      /\ \A i \in relayed[l] : i <= loop[l].lastID /\ i <= length
                      /\ \A i \in relayed[l] :
                           i .. loop[l].lastID \subseteq relayed[l]
    BY DEF NoSkip
  <2>1. Cursor(l) /\ loop[l] \in Loop /\ relayed[l] \subseteq Nat /\ length \in Nat
    BY DEF CursorInv, TypeOK
  <2>2. loop[l].lastID # Dollar => loop[l].lastID \in Nat
    BY <2>1 DEF Loop
  <2> QED
    BY <2>1, <2>2 DEF Cursor
<1> QED
  BY <1>1, CursorAlways, PTL

-----------------------------------------------------------------------------
(* One listener *)

(* What goroutine k has broadcast and will broadcast comes after entry i:   *)
(* "$" is resolved to the end of the stream, which is past what any other   *)
(* goroutine has read.                                                      *)
Later(k, i) ==
  /\ \A j \in relayed[k] : i < j
  /\ loop[k].lastID = Dollar /\ loop[k].pc = "blocked" => i <= loop[k].base
  /\ loop[k].lastID = Dollar /\ loop[k].pc = "handling" => i < loop[k].next

Separate(l, k) ==
  /\ ~(Alive(l) /\ Alive(k))
  /\ relayed[l] \cap relayed[k] = {}
  /\ Alive(k) => \A i \in relayed[l] : Later(k, i)

Sole == \A l, k \in Loops : l # k => Separate(l, k)

(* A step of the listener itself keeps it later than all that others have   *)
(* broadcast.                                                               *)
LEMMA ListenerMoves ==
  ASSUME CursorInv, NEW l \in Loops,
         \/ Select(l) \/ XRead(l) \/ XReadTimeout(l) \/ Handle(l)
         \/ XReadError(l) \/ Panic(l)
         \/ \E hi \in 1 .. length : XReadReply(l, hi)
  PROVE  /\ Alive(l)
         /\ \A k \in Loops \ {l} : loop'[k] = loop[k] /\ relayed'[k] = relayed[k]
         /\ \A i \in 0 .. length : Later(l, i) =>
              Later(l, i)' /\ (i \notin relayed[l] => i \notin relayed'[l])
<1> USE ListenerAssumption
<1>0. /\ loop \in [Loops -> Loop] /\ loop[l] \in Loop /\ length \in Nat
      /\ relayed \in [Loops -> SUBSET Nat] /\ relayed[l] \subseteq Nat /\ Cursor(l)
  BY DEF CursorInv, TypeOK
<1>1. loop[l] \in [pc : PCs, lastID : Nat \cup {Dollar}, base : Nat, next : Nat,
                  hi : Nat]
  BY <1>0 DEF Loop
<1>2. Alive(l)
  BY DEF Alive, Select, XRead, XReadTimeout, Handle, XReadError, Panic, XReadReply
<1>3. \A k \in Loops \ {l} : loop'[k] = loop[k] /\ relayed'[k] = relayed[k]
  BY <1>0 DEF Select, XRead, XReadTimeout, Handle, XReadError, Panic, XReadReply
<1>4. ASSUME NEW i \in 0 .. length, Later(l, i)
      PROVE  Later(l, i)' /\ (i \notin relayed[l] => i \notin relayed'[l])
  <2>1. CASE Select(l) \/ XReadTimeout(l) \/ XReadError(l) \/ Panic(l)
    <3>1. PICK place \in {"exited", "calling", "select", "sleeping"} :
            loop' = [loop EXCEPT ![l].pc = place]
      BY <2>1 DEF Select, XReadTimeout, XReadError, Panic
    <3>2. loop'[l].pc = place
      BY <1>0, <1>1, <3>1
    <3>3. relayed' = relayed
      BY <2>1 DEF Select, XReadTimeout, XReadError, Panic
    <3> QED
      BY <1>4, <3>2, <3>3 DEF Later
  <2>2. CASE XRead(l)
    <3>1. /\ relayed' = relayed /\ loop'[l].pc = "blocked"
          /\ loop'[l].lastID = loop[l].lastID
          /\ loop[l].lastID = Dollar => loop'[l].base = length
      BY <1>0, <1>1, <2>2 DEF XRead
    <3> QED
      BY <1>0, <1>4, <3>1 DEF Later
  <2>3. ASSUME NEW hi \in 1 .. length, XReadReply(l, hi)
        PROVE  Later(l, i)' /\ (i \notin relayed[l] => i \notin relayed'[l])
    <3>1. /\ relayed' = relayed /\ loop'[l].pc = "handling"
          /\ loop[l].pc = "blocked" /\ loop'[l].lastID = loop[l].lastID
          /\ loop'[l].next = loop[l].base + 1
      BY <1>0, <1>1, <2>3 DEF XReadReply
    <3>2. loop[l].lastID = Dollar => i < loop[l].base + 1
      BY <1>1, <1>4, <3>1 DEF Later
    <3> QED
      BY <1>4, <3>1, <3>2 DEF Later
  <2>4. CASE Handle(l)
    <3>1. PICK n : n = loop[l].next
      OBVIOUS
    <3>2. /\ n \in Nat /\ relayed'[l] = relayed[l] \cup {n}
          /\ loop'[l].lastID = n /\ loop[l].pc = "handling"
      BY <1>0, <1>1, <2>4, <3>1 DEF Handle
    <3>3. i < n
      <4>1. CASE loop[l].lastID = Dollar
        BY <1>4, <3>1, <3>2, <4>1 DEF Later
      <4>2. CASE loop[l].lastID # Dollar
        <5>1. loop[l].lastID \in Nat /\ n = loop[l].lastID + 1 /\ relayed[l] # {}
          BY <1>0, <1>1, <3>1, <3>2, <4>2 DEF Cursor
        <5>2. PICK j \in relayed[l] : j <= loop[l].lastID
          BY <1>0, <5>1 DEF Cursor
        <5>3. j \in Nat /\ i < j
          BY <1>0, <1>4, <5>2 DEF Later
        <5> QED
          BY <5>1, <5>2, <5>3
      <4> QED
        BY <4>1, <4>2
    <3>4. loop'[l].lastID # Dollar
      BY <3>2
    <3> QED
      BY <1>4, <3>2, <3>3, <3>4 DEF Later
  <2> QED
    BY <2>1, <2>2, <2>3, <2>4
<1> QED
  BY <1>2, <1>3, <1>4

(* Every step keeps the listener alone, a Start that overtakes one apart. *)
LEMMA SoleStep ==
  ASSUME ~overtaken', CursorInv, Sole, [Next]_vars
  PROVE  Sole'
<1> USE ListenerAssumption
<1>0. /\ loop \in [Loops -> Loop] /\ length \in Nat
      /\ relayed \in [Loops -> SUBSET Nat] /\ \A l \in Loops : Cursor(l)
  BY DEF CursorInv, TypeOK
<1>1. \A l \in Loops : \A i \in relayed[l] : i \in 0 .. length
  <2> SUFFICES ASSUME NEW l \in Loops, NEW i \in relayed[l] PROVE i \in 0 .. length
    OBVIOUS
  <2>1. Cursor(l) /\ i \in Nat /\ loop[l] \in Loop
    BY <1>0
  <2>2. i <= loop[l].lastID /\ loop[l].lastID <= length /\ loop[l].lastID \in Nat
    BY <2>1 DEF Cursor, Loop
  <2> QED
    BY <1>0, <2>1, <2>2
<1>2. CASE UNCHANGED <<loop, relayed>>
  BY <1>2 DEF Sole, Separate, Alive, Later
<1>3. ASSUME NEW l \in Loops, Start(l) PROVE Sole'
  <2>1. /\ \A k \in Loops : ~Alive(k)
        /\ loop[l].pc = "none" /\ relayed' = relayed
        /\ loop' = [loop EXCEPT ![l] = NewLoop]
    BY <1>3 DEF Start, Unused
  <2>2. loop'[l] = NewLoop /\ \A k \in Loops \ {l} : loop'[k] = loop[k]
    BY <1>0, <2>1
  <2>3. relayed[l] = {}
    BY <1>0, <2>1 DEF Cursor
  <2>4. \A k \in Loops \ {l} : ~Alive(k)'
    BY <2>1, <2>2 DEF Alive
  <2>5. \A i : Later(l, i)'
    BY <2>1, <2>2, <2>3, NewLoopType DEF Later
  <2>6. ASSUME NEW j \in Loops, NEW k \in Loops, j # k PROVE Separate(j, k)'
    BY <2>1, <2>4, <2>5, <2>6 DEF Sole, Separate
  <2> QED
    BY <2>6 DEF Sole
<1>4. ASSUME NEW l \in Loops,
             \/ Select(l) \/ XRead(l) \/ XReadTimeout(l) \/ Handle(l)
             \/ XReadError(l) \/ Panic(l)
             \/ \E hi \in 1 .. length : XReadReply(l, hi)
      PROVE  Sole'
  <2>1. /\ Alive(l)
        /\ \A k \in Loops \ {l} : loop'[k] = loop[k] /\ relayed'[k] = relayed[k]
        /\ \A i \in 0 .. length : Later(l, i) =>
             Later(l, i)' /\ (i \notin relayed[l] => i \notin relayed'[l])
    BY <1>4, ListenerMoves
  <2>3. ASSUME NEW k \in Loops, k # l
        PROVE  Separate(l, k)' /\ Separate(k, l)'
    <3>1. ~Alive(k) /\ Separate(k, l) /\ ~Alive(k)'
      BY <2>1, <2>3 DEF Sole, Separate, Alive
    <3>2. \A i \in relayed[k] : Later(l, i) /\ i \in 0 .. length /\ i \notin relayed[l]
      BY <1>1, <2>1, <3>1 DEF Separate
    <3>3. \A i \in relayed'[k] : Later(l, i)' /\ i \notin relayed'[l]
      BY <2>1, <2>3, <3>2
    <3> QED
      BY <3>1, <3>3 DEF Separate
  <2>4. ASSUME NEW j \in Loops, NEW k \in Loops, j # k, j # l, k # l
        PROVE  Separate(j, k)'
    BY <2>1, <2>4 DEF Sole, Separate, Alive, Later
  <2> QED
    BY <2>3, <2>4 DEF Sole
<1>5. ASSUME NEW l \in Loops, NEW m \in Loops, Restart(l, m) PROVE Sole'
  <2>1. /\ loop[l].pc = "sleeping" /\ loop[m].pc = "none" /\ l # m
        /\ relayed' = relayed
        /\ loop' = [loop EXCEPT ![l].pc = "exited", ![m] = NewLoop]
    BY <1>5 DEF Restart, Unused
  <2>2. loop'[m] = NewLoop /\ \A k \in Loops \ {l, m} : loop'[k] = loop[k]
    BY <1>0, <2>1
  <2>3. loop'[l].pc = "exited"
    BY <1>0, <2>1 DEF Loop
  <2>4. relayed[m] = {}
    BY <1>0, <2>1 DEF Cursor
  <2>6. \A k \in Loops \ {m} : ~Alive(k)'
    BY <2>1, <2>2, <2>3 DEF Sole, Separate, Alive
  <2>7. \A i : Later(m, i)'
    BY <2>1, <2>2, <2>4, NewLoopType DEF Later
  <2>8. ASSUME NEW j \in Loops, NEW k \in Loops, j # k PROVE Separate(j, k)'
    BY <2>1, <2>6, <2>7, <2>8 DEF Sole, Separate
  <2> QED
    BY <2>8 DEF Sole
<1>6. CASE Append \/ StartAgain \/ Stop \/ RelayClose \/ UNCHANGED vars
  BY <1>2, <1>6 DEF Append, StartAgain, Stop, RelayClose, vars
<1> QED
  BY <1>3, <1>4, <1>5, <1>6 DEF Next, LoopStep

(* A room has one listener at a time, also across the restarts after a      *)
(* panic and across Stop and Start, as long as no Start comes before the    *)
(* stopped goroutine has ended, and no entry is broadcast by two of them: a *)
(* new one begins at "$" (room.go:336-456).                                 *)
THEOREM SingleListener == Spec => []OneListener
<1> DEFINE Inv == overtaken \/ Sole
<1>1. Init => Inv
  BY DEF Init, Sole, Separate, Alive, NoLoop
<1>2. CursorInv /\ Inv /\ [Next]_vars => Inv'
  <2> SUFFICES ASSUME CursorInv, Inv, [Next]_vars, ~overtaken' PROVE Sole'
    OBVIOUS
  <2>1. ~overtaken
    BY DEF Next, LoopStep, Append, Start, StartAgain, Stop, RelayClose, Select,
           XRead, XReadReply, XReadTimeout, XReadError, Handle, Panic, Restart, vars
  <2> QED
    BY <2>1, SoleStep
<1>3. Inv => OneListener
  BY DEF Sole, Separate, OneListener
<1> QED
  BY <1>1, <1>2, <1>3, CursorAlways, PTL DEF Spec
=============================================================================
