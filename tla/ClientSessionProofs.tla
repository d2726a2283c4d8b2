------------------------- MODULE ClientSessionProofs -------------------------
(***************************************************************************)
(* Proofs about ClientSession, for any handlers, users, channels,          *)
(* application goroutines and limits: types, the discipline of the locks,  *)
(* the limit on the subscribers of a room, where a deadlock can be, and    *)
(* what a closed handler has left.                                         *)
(***************************************************************************)
EXTENDS ClientSession, SequenceTheorems, FiniteSetTheorems, TLAPS

(* The frames of which the function holds Room.mu of its room. *)
Holder(f) == \/ f.fn = "subscribe" /\ f.at = "set"
             \/ f.fn = "relayUnsubscribe" /\ f.at = "delete"
             \/ f.fn = "shutdown" /\ f.at = "closing"

(* The parameters that a function has been given, or has set by now. *)
Shaped(f) ==
  /\ f.fn # "shutdown" => f.h \in Handlers
  /\ f.fn \in {"subscribe", "unsubscribe", "relayUnsubscribe"}
       => f.ch \in Channels
  /\ f.fn = "relayUnsubscribe" => f.u \in Users
  /\ f.fn = "subscribe" /\ f.at \in {"check", "lock", "set"} => f.o \in Objects
  /\ f.fn = "relayUnsubscribe" /\ f.at \in {"lock", "delete"} => f.o \in Objects
  /\ f.fn = "shutdown" /\ f.at \in {"stop", "closing"} => f.o \in Objects

(* The functions that goroutines begin with, and that nobody else calls. *)
Outermost == {"subscribe", "unsubscribe", "shutdown"}

Stacks == \A t \in Threads : \A i \in DOMAIN stack[t] :
            /\ Shaped(stack[t][i])
            /\ stack[t][i].fn \in Outermost => i = 1

(* The goroutine t is in DeleteRoom or Relay.Close, past its Lock. *)
Shuts(t) == /\ stack[t] # << >>
            /\ stack[t][1].fn = "shutdown" /\ stack[t][1].at # "lock"

(* That goroutine, and no other, holds Relay.mu, so that the rooms it has   *)
(* yet to close are still in the map.                                       *)
Relaying == \A t \in Threads :
  /\ Shuts(t) <=> relayMu = t
  /\ Shuts(t) => \A ch \in stack[t][1].chans : rooms[ch] # 0

Holds(t, i, o) == /\ i \in DOMAIN stack[t]
                  /\ Holder(stack[t][i]) /\ stack[t][i].o = o

(* Room.mu is held by one frame of one goroutine, or free. *)
Locked(o) ==
  /\ \A t \in Threads, i \in Nat : Holds(t, i, o) =>
       roomMu[o] = t /\ \A j \in Nat : Holds(t, j, o) => i = j
  /\ roomMu[o] # Nobody => \E i \in Nat : Holds(roomMu[o], i, o)

LockInv == TypeOK /\ Stacks /\ Relaying /\ \A o \in Objects : Locked(o)

-----------------------------------------------------------------------------
(* Frames *)

(* The fields of a frame. *)
LEMMA FrameFields ==
  ASSUME NEW f \in Frame
  PROVE  /\ f.fn \in Functions /\ f.at \in Places /\ f.h \in Handlers \cup {Nobody}
         /\ f.ch \in Channels \cup {Nobody} /\ f.o \in 0 .. MaxRooms
         /\ f.chans \in SUBSET Channels /\ f.conns \in SUBSET Handlers
         /\ f.all \in BOOLEAN /\ f.u \in Users \cup {Nobody}
BY DEF Frame

(* One place further in a function. *)
LEMMA FrameAt ==
  ASSUME NEW f \in Frame, NEW at \in Places, NEW g, g = [f EXCEPT !.at = at]
  PROVE  /\ g \in Frame /\ g.fn = f.fn /\ g.at = at /\ g.h = f.h /\ g.ch = f.ch
         /\ g.o = f.o /\ g.chans = f.chans /\ g.conns = f.conns /\ g.all = f.all
         /\ g.u = f.u
BY DEF Frame

(* The room is known. *)
LEMMA FrameO ==
  ASSUME NEW f \in Frame, NEW o \in 0 .. MaxRooms, NEW g, g = [f EXCEPT !.o = o]
  PROVE  /\ g \in Frame /\ g.fn = f.fn /\ g.at = f.at /\ g.h = f.h /\ g.ch = f.ch
         /\ g.o = o /\ g.chans = f.chans /\ g.conns = f.conns /\ g.all = f.all
         /\ g.u = f.u
BY DEF Frame

(* The channels left are known. *)
LEMMA FrameChans ==
  ASSUME NEW f \in Frame, NEW chans \in SUBSET Channels,
         NEW g, g = [f EXCEPT !.chans = chans]
  PROVE  /\ g \in Frame /\ g.fn = f.fn /\ g.at = f.at /\ g.h = f.h /\ g.ch = f.ch
         /\ g.o = f.o /\ g.chans = chans /\ g.conns = f.conns /\ g.all = f.all
         /\ g.u = f.u
BY DEF Frame

(* The connections left are known. *)
LEMMA FrameConns ==
  ASSUME NEW f \in Frame, NEW conns \in SUBSET Handlers,
         NEW g, g = [f EXCEPT !.conns = conns]
  PROVE  /\ g \in Frame /\ g.fn = f.fn /\ g.at = f.at /\ g.h = f.h /\ g.ch = f.ch
         /\ g.o = f.o /\ g.chans = f.chans /\ g.conns = conns /\ g.all = f.all
         /\ g.u = f.u
BY DEF Frame

(* The frames with which functions begin. *)
LEMMA FrameNew ==
  ASSUME NEW fn \in Functions, NEW at \in Places
  PROVE  /\ NewFrame(fn, at) \in Frame
         /\ \A h \in Handlers : [NewFrame(fn, at) EXCEPT !.h = h] \in Frame
         /\ \A h \in Handlers, ch \in Channels :
              [NewFrame(fn, at) EXCEPT !.h = h, !.ch = ch] \in Frame
         /\ \A h \in Handlers, ch \in Channels, u \in Users :
              [NewFrame(fn, at) EXCEPT !.h = h, !.ch = ch, !.u = u] \in Frame
         /\ \A chans \in SUBSET Channels, all \in BOOLEAN :
              [NewFrame(fn, at) EXCEPT !.chans = chans, !.all = all] \in Frame
<1> USE SessionAssumption
<1>1. 0 \in 0 .. MaxRooms
  OBVIOUS
<1>2. NewFrame(fn, at) \in Frame
  BY <1>1 DEF NewFrame, Frame
<1>3. PICK f \in Frame : f = NewFrame(fn, at)
  BY <1>2
<1>4. \A h \in Handlers : [f EXCEPT !.h = h] \in Frame
  BY DEF Frame
<1>5. \A h \in Handlers, ch \in Channels : [f EXCEPT !.h = h, !.ch = ch] \in Frame
  BY DEF Frame
<1>6. \A chans \in SUBSET Channels, all \in BOOLEAN :
        [f EXCEPT !.chans = chans, !.all = all] \in Frame
  BY DEF Frame
<1>7. \A h \in Handlers, ch \in Channels, u \in Users :
        [f EXCEPT !.h = h, !.ch = ch, !.u = u] \in Frame
  BY DEF Frame
<1> QED
  BY <1>2, <1>3, <1>4, <1>5, <1>6, <1>7

(* Close is called with a handler. *)
LEMMA CloseFrameType ==
  ASSUME NEW h \in Handlers
  PROVE  /\ CloseFrame(h) \in Frame /\ CloseFrame(h).fn = "close"
         /\ CloseFrame(h).at = "swap" /\ CloseFrame(h).h = h
<1>1. "close" \in Functions /\ "swap" \in Places
  BY DEF Functions, Places
<1>2. CloseFrame(h) \in Frame
  BY <1>1, FrameNew DEF CloseFrame
<1>3. /\ CloseFrame(h).fn = "close" /\ CloseFrame(h).at = "swap"
      /\ CloseFrame(h).h = h
  BY DEF CloseFrame, NewFrame
<1> QED
  BY <1>2, <1>3

(* Relay.Unsubscribe is called with the name of a handler and a channel. *)
LEMMA UnsubscribeFrameType ==
  ASSUME TypeOK, NEW h \in Handlers, NEW ch \in Channels
  PROVE  /\ UnsubscribeFrame(h, ch) \in Frame
         /\ UnsubscribeFrame(h, ch).fn = "relayUnsubscribe"
         /\ UnsubscribeFrame(h, ch).at = "get"
         /\ UnsubscribeFrame(h, ch).h = h /\ UnsubscribeFrame(h, ch).ch = ch
         /\ UnsubscribeFrame(h, ch).u = userID[h] /\ userID[h] \in Users
<1>1. "relayUnsubscribe" \in Functions /\ "get" \in Places
  BY DEF Functions, Places
<1>2. PICK u \in Users : u = userID[h]
  BY DEF TypeOK
<1>3. PICK e : e = [NewFrame("relayUnsubscribe", "get") EXCEPT !.h = h, !.ch = ch,
                                                              !.u = u]
  OBVIOUS
<1>4. e \in Frame
  BY <1>1, <1>3, FrameNew
<1>5. /\ e.fn = "relayUnsubscribe" /\ e.at = "get" /\ e.h = h /\ e.ch = ch
      /\ e.u = u
  BY <1>3 DEF NewFrame
<1>6. UnsubscribeFrame(h, ch) = e
  BY <1>2, <1>3 DEF UnsubscribeFrame
<1> QED
  BY <1>2, <1>4, <1>5, <1>6

-----------------------------------------------------------------------------
(* Stacks *)

(* The stack of t has len frames now: below n = Len(stack[t]) the ones it   *)
(* had, g at n and e beyond it.                                             *)
Replaced(t, n, len, g, e) ==
  /\ n = Len(stack[t]) /\ n \in Nat /\ len \in Nat /\ n - 1 <= len /\ len <= n + 1
  /\ stack' \in [Threads -> Seq(Frame)]
  /\ \A u \in Threads \ {t} : stack'[u] = stack[u]
  /\ Len(stack'[t]) = len
  /\ \A i \in 1 .. len : stack'[t][i] = IF i < n THEN stack[t][i]
                                        ELSE IF i = n THEN g ELSE e

(* The function returns. *)
LEMMA Returned ==
  ASSUME stack \in [Threads -> Seq(Frame)], NEW t \in Threads,
         stack[t] # << >>, Return(t), NEW g, NEW e
  PROVE  Replaced(t, Len(stack[t]), Len(stack[t]) - 1, g, e)
<1>1. PICK q \in Seq(Frame), n \in Nat : q = stack[t] /\ n = Len(q) /\ n > 0
  OBVIOUS
<1>2. PICK s : s = SubSeq(q, 1, n - 1)
  OBVIOUS
<1>3. /\ s \in Seq(Frame) /\ Len(s) = n - 1
      /\ \A i \in 1 .. n - 1 : s[i] = q[i]
  BY <1>1, <1>2
<1>4. stack' = [stack EXCEPT ![t] = s]
  BY <1>1, <1>2 DEF Return, Below
<1>5. stack'[t] = s /\ stack' \in [Threads -> Seq(Frame)]
  BY <1>3, <1>4
<1> QED
  BY <1>1, <1>3, <1>4, <1>5 DEF Replaced

(* The function goes on with frame g. *)
LEMMA Went ==
  ASSUME stack \in [Threads -> Seq(Frame)], NEW t \in Threads,
         stack[t] # << >>, NEW g \in Frame, Goto(t, g), NEW e
  PROVE  Replaced(t, Len(stack[t]), Len(stack[t]), g, e)
<1>1. PICK q \in Seq(Frame), n \in Nat : q = stack[t] /\ n = Len(q) /\ n > 0
  OBVIOUS
<1>2. PICK s : s = SubSeq(q, 1, n - 1)
  OBVIOUS
<1>3. /\ s \in Seq(Frame) /\ Len(s) = n - 1
      /\ \A i \in 1 .. n - 1 : s[i] = q[i]
  BY <1>1, <1>2
<1>4. PICK w : w = Append(s, g)
  OBVIOUS
<1>5. /\ w \in Seq(Frame) /\ Len(w) = n /\ w[n] = g
      /\ \A i \in 1 .. n - 1 : w[i] = q[i]
  <2>1. /\ w \in Seq(Frame) /\ Len(w) = Len(s) + 1 /\ w[Len(s) + 1] = g
        /\ \A i \in 1 .. Len(s) : w[i] = s[i]
    BY <1>3, <1>4, AppendProperties
  <2>2. Len(s) + 1 = n /\ 1 .. Len(s) = 1 .. n - 1
    BY <1>1, <1>3
  <2>3. w \in Seq(Frame) /\ Len(w) = n /\ w[n] = g
    BY <2>1, <2>2
  <2>4. \A i \in 1 .. n - 1 : w[i] = q[i]
    BY <1>3, <2>1, <2>2
  <2> QED
    BY <2>3, <2>4
<1>6. stack' = [stack EXCEPT ![t] = w]
  BY <1>1, <1>2, <1>4 DEF Goto, Below
<1>7. stack'[t] = w /\ stack' \in [Threads -> Seq(Frame)]
  BY <1>5, <1>6
<1>8. \A i \in 1 .. n : w[i] = IF i < n THEN q[i] ELSE IF i = n THEN g ELSE e
  BY <1>5
<1> QED
  BY <1>1, <1>5, <1>6, <1>7, <1>8 DEF Replaced

(* The function, in frame g now, calls another, which begins in frame e. *)
LEMMA Called ==
  ASSUME stack \in [Threads -> Seq(Frame)], NEW t \in Threads,
         stack[t] # << >>, NEW g \in Frame, NEW e \in Frame,
         stack' = [stack EXCEPT ![t] = Below(t) \o <<g, e>>]
  PROVE  Replaced(t, Len(stack[t]), Len(stack[t]) + 1, g, e)
<1>1. PICK q \in Seq(Frame), n \in Nat : q = stack[t] /\ n = Len(q) /\ n > 0
  OBVIOUS
<1>2. PICK s : s = SubSeq(q, 1, n - 1)
  OBVIOUS
<1>3. /\ s \in Seq(Frame) /\ Len(s) = n - 1
      /\ \A i \in 1 .. n - 1 : s[i] = q[i]
  BY <1>1, <1>2
<1>4. PICK w : w = s \o <<g, e>>
  OBVIOUS
<1>5. PICK d : d = <<g, e>>
  OBVIOUS
<1>a. d \in Seq(Frame) /\ Len(d) = 2 /\ d[1] = g /\ d[2] = e
  BY <1>5
<1>6. /\ w \in Seq(Frame) /\ Len(w) = n + 1
      /\ \A i \in 1 .. n - 1 : w[i] = q[i]
      /\ w[n] = g /\ w[n + 1] = e
  <2>1. w \in Seq(Frame) /\ Len(w) = n + 1
    BY <1>1, <1>3, <1>4, <1>5, <1>a
  <2>2. \A i \in 1 .. n - 1 : w[i] = q[i]
    BY <1>1, <1>3, <1>4, <1>5, <1>a
  <2>3. w[n] = d[1] /\ w[n + 1] = d[2]
    <3>1. \A i \in 1 .. Len(d) : w[Len(s) + i] = d[i]
      BY <1>3, <1>4, <1>5, <1>a, ConcatProperties
    <3>2. 1 \in 1 .. Len(d) /\ 2 \in 1 .. Len(d) /\ Len(s) + 1 = n
          /\ Len(s) + 2 = n + 1
      BY <1>1, <1>3, <1>a
    <3>3. w[Len(s) + 1] = d[1] /\ w[Len(s) + 2] = d[2]
      BY <3>1, <3>2
    <3> QED
      BY <3>2, <3>3
  <2> QED
    BY <1>5, <1>a, <2>1, <2>2, <2>3
<1>7. stack' = [stack EXCEPT ![t] = w]
  BY <1>1, <1>2, <1>4 DEF Below
<1>8. stack'[t] = w /\ stack' \in [Threads -> Seq(Frame)]
  BY <1>6, <1>7
<1>9. ASSUME NEW i \in 1 .. n + 1
      PROVE  w[i] = IF i < n THEN q[i] ELSE IF i = n THEN g ELSE e
  <2>1. CASE i < n
    <3>1. i \in 1 .. n - 1
      BY <1>1, <2>1
    <3>2. w[i] = q[i]
      BY <1>6, <3>1
    <3> QED
      BY <2>1, <3>2
  <2>2. CASE i = n
    BY <1>1, <1>6, <2>2
  <2>3. CASE i = n + 1
    <3>1. ~(i < n) /\ i # n
      BY <1>1, <2>3
    <3> QED
      BY <1>6, <2>3, <3>1
  <2> QED
    BY <1>1, <2>1, <2>2, <2>3
<1>10. PICK len \in Nat : len = n + 1
  BY <1>1
<1>11. Len(stack'[t]) = len /\ n - 1 <= len /\ len <= n + 1
  BY <1>1, <1>6, <1>8, <1>10
<1>12. Replaced(t, n, len, g, e)
  BY <1>1, <1>7, <1>8, <1>9, <1>10, <1>11 DEF Replaced
<1> QED
  BY <1>1, <1>10, <1>12

(* A goroutine begins with frame e. *)
LEMMA Begun ==
  ASSUME stack \in [Threads -> Seq(Frame)], NEW t \in Threads,
         NEW e \in Frame, Begin(t, e), NEW g
  PROVE  Replaced(t, 0, 1, g, e)
<1>1. stack[t] = << >> /\ Len(stack[t]) = 0
  BY DEF Begin
<1>2. PICK w : w = <<e>>
  OBVIOUS
<1>a. w \in Seq(Frame) /\ Len(w) = 1 /\ w[1] = e
  BY <1>2
<1>3. stack' = [stack EXCEPT ![t] = w]
  BY <1>2 DEF Begin
<1>4. stack'[t] = w /\ stack' \in [Threads -> Seq(Frame)]
  BY <1>a, <1>3
<1> QED
  BY <1>1, <1>a, <1>3, <1>4 DEF Replaced

(* The frame on top. *)
LEMMA TopFacts ==
  ASSUME TypeOK, Stacks, NEW t \in Threads, NEW fn, NEW at, In(t, fn, at)
  PROVE  /\ stack[t] # << >> /\ Len(stack[t]) \in Nat \ {0}
         /\ Top(t) \in Frame /\ Top(t) = stack[t][Len(stack[t])]
         /\ Top(t).fn = fn /\ Top(t).at = at /\ Shaped(Top(t))
         /\ fn \in Outermost => Len(stack[t]) = 1
<1>1. PICK q \in Seq(Frame), n \in Nat : q = stack[t] /\ n = Len(q) /\ n > 0
  BY DEF TypeOK, In
<1>2. n \in DOMAIN q /\ q[n] \in Frame
  BY <1>1
<1>3. Top(t) = q[n]
  BY <1>1 DEF Top
<1>4. Shaped(q[n]) /\ (q[n].fn \in Outermost => n = 1)
  BY <1>1, <1>2 DEF Stacks
<1>5. q[n].fn = fn /\ q[n].at = at
  BY <1>3 DEF In
<1> QED
  BY <1>1, <1>2, <1>3, <1>4, <1>5

-----------------------------------------------------------------------------
(* What a step leaves of the invariant *)

(* The new frames are well formed, and in their place. *)
LEMMA StacksKept ==
  ASSUME TypeOK, Stacks, NEW t \in Threads, NEW n, NEW len, NEW g, NEW e,
         Replaced(t, n, len, g, e),
         n > 0 /\ len >= n => Shaped(g) /\ (g.fn \in Outermost => n = 1),
         len = n + 1 => Shaped(e) /\ (e.fn \in Outermost => n = 0)
  PROVE  Stacks'
<1>1. n \in Nat /\ len \in Nat /\ n = Len(stack[t]) /\ len = Len(stack'[t])
  BY DEF Replaced
<1>2. DOMAIN stack[t] = 1 .. n /\ DOMAIN stack'[t] = 1 .. len
  BY <1>1 DEF TypeOK, Replaced
<1>3. ASSUME NEW u \in Threads, NEW i \in DOMAIN stack'[u]
      PROVE  Shaped(stack'[u][i]) /\ (stack'[u][i].fn \in Outermost => i = 1)
  <2>1. CASE u # t
    BY <1>3, <2>1 DEF Replaced, Stacks
  <2>2. CASE u = t
    <3>0. i \in 1 .. len /\ len <= n + 1
      BY <1>2, <1>3, <2>2 DEF Replaced
    <3>1. CASE i < n
      <4>1. i \in DOMAIN stack[t] /\ stack'[t][i] = stack[t][i]
        BY <1>1, <1>2, <3>0, <3>1 DEF Replaced
      <4> QED
        BY <2>2, <4>1 DEF Stacks
    <3>2. CASE i = n
      <4>1. stack'[t][i] = g /\ n > 0 /\ len >= n
        BY <1>1, <3>0, <3>2 DEF Replaced
      <4> QED
        BY <2>2, <3>2, <4>1
    <3>3. CASE i = n + 1
      <4>1. stack'[t][i] = e /\ len = n + 1
        BY <1>1, <3>0, <3>3 DEF Replaced
      <4> QED
        BY <1>1, <2>2, <3>3, <4>1
    <3> QED
      BY <1>1, <3>0, <3>1, <3>2, <3>3
  <2> QED
    BY <2>1, <2>2
<1>4. ASSUME NEW u \in Threads, NEW i \in DOMAIN stack'[u]
      PROVE  /\ Shaped(stack[u][i])'
             /\ (stack[u][i].fn \in Outermost => i = 1)'
  BY <1>3 DEF Shaped, Objects
<1> QED
  BY <1>4 DEF Stacks

(* Functions other than DeleteRoom and Relay.Close leave Relay.mu alone,    *)
(* and take no room from the map.                                           *)
LEMMA RelayKept ==
  ASSUME TypeOK, Relaying, NEW t \in Threads, NEW n, NEW len, NEW g, NEW e,
         Replaced(t, n, len, g, e), UNCHANGED relayMu,
         \A ch \in Channels : rooms[ch] # 0 => rooms'[ch] # 0,
         n > 0 => stack[t][n].fn # "shutdown",
         n > 0 /\ len >= n => g.fn # "shutdown",
         len = n + 1 => e.fn # "shutdown" \/ e.at = "lock"
  PROVE  Relaying'
<1>1. n \in Nat /\ len \in Nat /\ n = Len(stack[t]) /\ len = Len(stack'[t])
  BY DEF Replaced
<1>2. ASSUME NEW u \in Threads
      PROVE  \/ ~Shuts(u) /\ ~Shuts(u)'
             \/ Shuts(u) /\ Shuts(u)' /\ stack'[u][1] = stack[u][1]
  <2>1. CASE u # t
    BY <2>1 DEF Replaced, Shuts
  <2>2. CASE u = t
    <3>1. CASE n = 0
      <4>1. stack[t] = << >>
        <5>1. PICK q \in Seq(Frame) : q = stack[t]
          BY DEF TypeOK
        <5> QED
          BY <1>1, <3>1, <5>1, EmptySeq
      <4>2. ~Shuts(t)
        BY <4>1 DEF Shuts
      <4>3. CASE stack'[t] = << >>
        BY <2>2, <4>2, <4>3 DEF Shuts
      <4>4. CASE stack'[t] # << >>
        <5>1. len = 1
          BY <1>1, <3>1, <4>4 DEF Replaced
        <5>2. stack'[t][1] = e
          BY <1>1, <3>1, <5>1 DEF Replaced
        <5> QED
          BY <2>2, <3>1, <4>2, <5>1, <5>2 DEF Shuts
      <4> QED
        BY <4>3, <4>4
    <3>2. CASE n = 1
      <4>1. ~Shuts(t)
        BY <3>2 DEF Shuts
      <4>2. CASE stack'[t] = << >>
        BY <2>2, <4>1, <4>2 DEF Shuts
      <4>3. CASE stack'[t] # << >>
        <5>1. len >= 1
          BY <1>1, <4>3 DEF Replaced
        <5>2. stack'[t][1] = g
          BY <1>1, <3>2, <5>1 DEF Replaced
        <5> QED
          BY <2>2, <3>2, <4>1, <5>1, <5>2 DEF Shuts
      <4> QED
        BY <4>2, <4>3
    <3>3. CASE n > 1
      <4>1. 1 \in 1 .. len /\ 1 < n /\ len >= 1
        BY <1>1, <3>3 DEF Replaced
      <4>2. stack'[t][1] = stack[t][1]
        BY <1>1, <4>1 DEF Replaced
      <4>3. stack[t] # << >> /\ stack'[t] # << >>
        BY <1>1, <4>1 DEF Replaced
      <4> QED
        BY <2>2, <4>2, <4>3 DEF Shuts
    <3>4. n = 0 \/ n = 1 \/ n > 1
      <4>1. n \in Nat
        BY <1>1
      <4> QED
        BY <4>1
    <3> QED
      BY <3>1, <3>2, <3>3, <3>4
  <2> QED
    BY <2>1, <2>2
<1>3. ASSUME NEW u \in Threads, Shuts(u)
      PROVE  stack[u][1].chans \subseteq Channels
  <2>1. stack[u] \in Seq(Frame) /\ stack[u] # << >>
    BY <1>3 DEF TypeOK, Shuts
  <2>2. stack[u][1] \in Frame
    BY <2>1
  <2> QED
    BY <2>2, FrameFields
<1> QED
  BY <1>2, <1>3 DEF Relaying

(* What becomes of the frames that hold a lock. *)
LEMMA HoldsKept ==
  ASSUME TypeOK, NEW t \in Threads, NEW n, NEW len, NEW g, NEW e,
         Replaced(t, n, len, g, e), len = n + 1 => ~Holder(e)
  PROVE  \A u \in Threads, i \in Nat, o \in Objects :
           Holds(u, i, o)' <=>
             IF u = t /\ i = n
               THEN n > 0 /\ len >= n /\ Holder(g) /\ g.o = o
               ELSE Holds(u, i, o)
<1>1. n \in Nat /\ len \in Nat /\ n = Len(stack[t]) /\ len = Len(stack'[t])
  BY DEF Replaced
<1>2. DOMAIN stack[t] = 1 .. n /\ DOMAIN stack'[t] = 1 .. len
  BY <1>1 DEF TypeOK, Replaced
<1>3. ASSUME NEW u \in Threads, NEW i \in Nat, NEW o \in Objects
      PROVE  (i \in DOMAIN stack'[u] /\ Holder(stack'[u][i]) /\ stack'[u][i].o = o)
               <=> IF u = t /\ i = n
                     THEN n > 0 /\ len >= n /\ Holder(g) /\ g.o = o
                     ELSE Holds(u, i, o)
  <2>1. CASE u # t
    BY <2>1 DEF Replaced, Holds
  <2>2. CASE u = t /\ i < n
    <3>1. i \in 1 .. len <=> i \in 1 .. n
      BY <1>1, <2>2 DEF Replaced
    <3>2. i \in 1 .. len => stack'[t][i] = stack[t][i]
      BY <1>1, <2>2 DEF Replaced
    <3> QED
      BY <1>1, <1>2, <2>2, <3>1, <3>2 DEF Holds
  <2>3. CASE u = t /\ i = n
    <3>1. i \in 1 .. len <=> n > 0 /\ len >= n
      BY <1>1, <2>3
    <3>2. i \in 1 .. len => stack'[t][i] = g
      BY <1>1, <2>3 DEF Replaced
    <3> QED
      BY <1>2, <2>3, <3>1, <3>2
  <2>4. CASE u = t /\ i > n
    <3>1. i \notin DOMAIN stack[t]
      BY <1>1, <1>2, <2>4
    <3>2. i \in 1 .. len => len = n + 1 /\ i = n + 1
      BY <1>1, <2>4 DEF Replaced
    <3>3. i \in 1 .. len => stack'[t][i] = e
      BY <1>1, <2>4, <3>2 DEF Replaced
    <3> QED
      BY <1>1, <1>2, <2>4, <3>1, <3>2, <3>3 DEF Holds
  <2> QED
    BY <1>1, <2>1, <2>2, <2>3, <2>4
<1>4. ASSUME NEW u \in Threads, NEW i \in Nat, NEW o \in Objects
      PROVE  Holds(u, i, o)' <=> (/\ i \in DOMAIN stack'[u]
                                  /\ Holder(stack'[u][i]) /\ stack'[u][i].o = o)
  BY DEF Holds, Holder
<1> QED
  BY <1>3, <1>4

(* The step neither takes nor releases Room.mu. *)
LEMMA LocksKept ==
  ASSUME TypeOK, \A o \in Objects : Locked(o), NEW t \in Threads,
         NEW n, NEW len, NEW g, NEW e, Replaced(t, n, len, g, e),
         len = n + 1 => ~Holder(e), UNCHANGED roomMu,
         n > 0 /\ len < n => ~Holder(stack[t][n]),
         n > 0 /\ len >= n => /\ Holder(g) <=> Holder(stack[t][n])
                              /\ Holder(g) => g.o = stack[t][n].o
  PROVE  \A o \in Objects : Locked(o)'
<1>1. n \in Nat /\ len \in Nat /\ n = Len(stack[t])
  BY DEF Replaced
<1>2. DOMAIN stack[t] = 1 .. n
  BY <1>1 DEF TypeOK
<1>3. ASSUME NEW u \in Threads, NEW i \in Nat, NEW o \in Objects
      PROVE  Holds(u, i, o)' <=> Holds(u, i, o)
  <2>1. Holds(t, n, o) <=> n > 0 /\ Holder(stack[t][n]) /\ stack[t][n].o = o
    BY <1>1, <1>2 DEF Holds
  <2>2. (n > 0 /\ len >= n /\ Holder(g) /\ g.o = o) <=> Holds(t, n, o)
    <3>1. CASE n > 0 /\ len >= n
      <4>1. /\ Holder(g) <=> Holder(stack[t][n])
            /\ Holder(g) => g.o = stack[t][n].o
        BY <3>1
      <4>2. (Holder(g) /\ g.o = o) <=> (Holder(stack[t][n]) /\ stack[t][n].o = o)
        BY <4>1
      <4> QED
        BY <2>1, <3>1, <4>2
    <3>2. CASE n > 0 /\ len < n
      <4>1. ~(len >= n)
        BY <1>1, <3>2
      <4> QED
        BY <2>1, <3>2, <4>1
    <3>3. CASE ~(n > 0)
      BY <2>1, <3>3
    <3>4. len >= n \/ len < n
      BY <1>1
    <3> QED
      BY <3>1, <3>2, <3>3, <3>4
  <2> QED
    BY <2>2, HoldsKept
<1>4. ASSUME NEW o \in Objects PROVE Locked(o)'
  <2>1. Locked(o) /\ roomMu' = roomMu
    OBVIOUS
  <2>2. ASSUME NEW u \in Threads, NEW i \in Nat, Holds(u, i, o)'
        PROVE  roomMu'[o] = u /\ \A j \in Nat : Holds(u, j, o)' => i = j
    BY <1>3, <2>1, <2>2 DEF Locked
  <2>3. ASSUME roomMu'[o] # Nobody
        PROVE  \E i \in Nat : Holds(roomMu[o], i, o)'
    <3>1. PICK u \in Threads : u = roomMu[o]
      BY <2>1, <2>3 DEF TypeOK
    <3>2. PICK i \in Nat : Holds(u, i, o)
      BY <2>1, <2>3, <3>1 DEF Locked
    <3>3. Holds(u, i, o)'
      BY <1>3, <3>2
    <3> QED
      BY <2>1, <3>1, <3>3 DEF Holds
  <2> QED
    BY <2>2, <2>3 DEF Locked
<1> QED
  BY <1>4

(* The step takes the free Room.mu of g.o. *)
LEMMA LockTaken ==
  ASSUME TypeOK, \A o \in Objects : Locked(o), NEW t \in Threads,
         NEW n, NEW len, NEW g, NEW e, Replaced(t, n, len, g, e),
         len = n + 1 => ~Holder(e), n > 0, len >= n,
         ~Holder(stack[t][n]), Holder(g), g.o \in Objects, RoomFree(g.o),
         roomMu' = [roomMu EXCEPT ![g.o] = t]
  PROVE  \A o \in Objects : Locked(o)'
<1> USE SessionAssumption
<1>1. n \in Nat /\ len \in Nat /\ n = Len(stack[t])
  BY DEF Replaced
<1>2. PICK p \in Objects : p = g.o
  OBVIOUS
<1>3. roomMu[p] = Nobody /\ roomMu' = [roomMu EXCEPT ![p] = t]
  BY <1>2 DEF RoomFree
<1>4. ASSUME NEW u \in Threads, NEW i \in Nat, NEW o \in Objects
      PROVE  Holds(u, i, o)' <=> (u = t /\ i = n /\ o = p) \/ Holds(u, i, o)
  <2>1. ~Holds(t, n, o)
    BY DEF Holds
  <2>2. (n > 0 /\ len >= n /\ Holder(g) /\ g.o = o) <=> o = p
    BY <1>2
  <2> QED
    BY <2>1, <2>2, HoldsKept
<1>5. ASSUME NEW u \in Threads, NEW i \in Nat PROVE ~Holds(u, i, p)
  BY <1>3 DEF Locked
<1>6. ASSUME NEW o \in Objects PROVE Locked(o)'
  <2>1. Locked(o) /\ roomMu'[o] = IF o = p THEN t ELSE roomMu[o]
    BY <1>3 DEF TypeOK
  <2>2. ASSUME NEW u \in Threads, NEW i \in Nat, Holds(u, i, o)'
        PROVE  roomMu'[o] = u /\ \A j \in Nat : Holds(u, j, o)' => i = j
    <3>1. CASE o = p
      BY <1>4, <1>5, <2>1, <2>2, <3>1
    <3>2. CASE o # p
      BY <1>4, <2>1, <2>2, <3>2 DEF Locked
    <3> QED
      BY <3>1, <3>2
  <2>3. ASSUME roomMu'[o] # Nobody
        PROVE  \E i \in Nat : Holds(roomMu[o], i, o)'
    <3>1. CASE o = p
      <4>1. Holds(t, n, o)'
        BY <1>1, <1>4, <3>1
      <4> QED
        BY <1>1, <2>1, <3>1, <4>1 DEF Holds
    <3>2. CASE o # p
      <4>1. PICK u \in Threads : u = roomMu[o]
        BY <2>1, <2>3, <3>2 DEF TypeOK
      <4>2. PICK i \in Nat : Holds(u, i, o)
        BY <2>1, <2>3, <3>2, <4>1 DEF Locked
      <4>3. Holds(u, i, o)'
        BY <1>4, <4>2
      <4> QED
        BY <2>1, <3>2, <4>1, <4>3 DEF Holds
    <3> QED
      BY <3>1, <3>2
  <2> QED
    BY <2>2, <2>3 DEF Locked
<1> QED
  BY <1>6

(* The step releases Room.mu of the frame on top. *)
LEMMA LockReleased ==
  ASSUME TypeOK, \A o \in Objects : Locked(o), NEW t \in Threads,
         NEW n, NEW len, NEW g, NEW e, Replaced(t, n, len, g, e),
         n > 0, len <= n, Holder(stack[t][n]), len >= n => ~Holder(g),
         stack[t][n].o \in Objects,
         roomMu' = [roomMu EXCEPT ![stack[t][n].o] = Nobody]
  PROVE  \A o \in Objects : Locked(o)'
<1> USE SessionAssumption
<1>1. n \in Nat /\ len \in Nat /\ n = Len(stack[t])
  BY DEF Replaced
<1>2. PICK p \in Objects : p = stack[t][n].o
  OBVIOUS
<1>3. roomMu' = [roomMu EXCEPT ![p] = Nobody]
  BY <1>2
<1>a. DOMAIN stack[t] = 1 .. n /\ n \in 1 .. n
  BY <1>1 DEF TypeOK
<1>4. Holds(t, n, p)
  BY <1>2, <1>a DEF Holds
<1>5. ASSUME NEW u \in Threads, NEW i \in Nat, NEW o \in Objects
      PROVE  Holds(u, i, o)' <=> Holds(u, i, o) /\ ~(u = t /\ i = n)
  <2>1. ~(n > 0 /\ len >= n /\ Holder(g) /\ g.o = o)
    OBVIOUS
  <2>2. ~(len = n + 1)
    BY <1>1
  <2> QED
    BY <2>1, <2>2, HoldsKept
<1>6. ASSUME NEW o \in Objects PROVE Locked(o)'
  <2>1. Locked(o) /\ Locked(p) /\ roomMu'[o] = IF o = p THEN Nobody ELSE roomMu[o]
    BY <1>3 DEF TypeOK
  <2>2. ASSUME NEW u \in Threads, NEW i \in Nat, Holds(u, i, o)'
        PROVE  roomMu'[o] = u /\ \A j \in Nat : Holds(u, j, o)' => i = j
    <3>1. CASE o = p
      <4>1. Holds(u, i, p) /\ ~(u = t /\ i = n)
        BY <1>5, <2>2, <3>1
      <4>2. roomMu[p] = u /\ roomMu[p] = t
        BY <1>1, <1>4, <2>1, <4>1 DEF Locked
      <4>3. i = n
        BY <1>1, <1>4, <2>1, <4>1, <4>2 DEF Locked
      <4> QED
        BY <4>1, <4>2, <4>3
    <3>2. CASE o # p
      BY <1>5, <2>1, <2>2, <3>2 DEF Locked
    <3> QED
      BY <3>1, <3>2
  <2>3. ASSUME roomMu'[o] # Nobody
        PROVE  \E i \in Nat : Holds(roomMu[o], i, o)'
    <3>1. o # p /\ roomMu'[o] = roomMu[o]
      BY <2>1, <2>3
    <3>2. PICK u \in Threads : u = roomMu[o]
      BY <2>3, <3>1 DEF TypeOK
    <3>3. PICK i \in Nat : Holds(u, i, o)
      BY <2>1, <2>3, <3>1, <3>2 DEF Locked
    <3>4. ~(u = t /\ i = n)
      BY <1>2, <3>1, <3>3 DEF Holds
    <3>5. Holds(u, i, o)'
      BY <1>5, <3>3, <3>4
    <3> QED
      BY <3>1, <3>2, <3>5 DEF Holds
  <2> QED
    BY <2>2, <2>3 DEF Locked
<1> QED
  BY <1>6

-----------------------------------------------------------------------------
(* The steps *)

(* A step that has nothing to do with the locks. *)
LEMMA Quiet ==
  ASSUME LockInv, NEW t \in Threads, NEW n, NEW len, NEW f, NEW g, NEW e,
         Replaced(t, n, len, g, e), UNCHANGED <<relayMu, roomMu>>,
         \A ch \in Channels : rooms[ch] # 0 => rooms'[ch] # 0,
         n > 0 => f = stack[t][n] /\ f.fn # "shutdown" /\ ~Holder(f),
         n > 0 /\ len >= n => g.fn = f.fn /\ Shaped(g) /\ ~Holder(g),
         len = n + 1 => /\ Shaped(e) /\ ~Holder(e)
                        /\ e.fn \in Outermost => n = 0
                        /\ e.fn # "shutdown" \/ e.at = "lock"
  PROVE  Stacks' /\ Relaying' /\ \A o \in Objects : Locked(o)'
<1>0. TypeOK /\ Stacks /\ Relaying /\ \A o \in Objects : Locked(o)
  BY DEF LockInv
<1>1. n \in Nat /\ len \in Nat
  BY DEF Replaced
<1>2. n > 0 => n \in DOMAIN stack[t]
  BY <1>0, <1>1 DEF Replaced, TypeOK
<1>3. n > 0 /\ len >= n => Shaped(g) /\ (g.fn \in Outermost => n = 1)
  BY <1>0, <1>2 DEF Stacks
<1>4. len = n + 1 => Shaped(e) /\ (e.fn \in Outermost => n = 0)
  OBVIOUS
<1>5. Stacks'
  BY <1>0, <1>3, <1>4, StacksKept
<1>6. /\ n > 0 => stack[t][n].fn # "shutdown"
      /\ n > 0 /\ len >= n => g.fn # "shutdown"
      /\ len = n + 1 => e.fn # "shutdown" \/ e.at = "lock"
  OBVIOUS
<1>7. Relaying'
  BY <1>0, <1>6, RelayKept
<1>8. /\ len = n + 1 => ~Holder(e)
      /\ n > 0 /\ len < n => ~Holder(stack[t][n])
      /\ n > 0 /\ len >= n => /\ Holder(g) <=> Holder(stack[t][n])
                              /\ Holder(g) => g.o = stack[t][n].o
  OBVIOUS
<1>9. \A o \in Objects : Locked(o)'
  BY <1>0, <1>8, LocksKept
<1> QED
  BY <1>5, <1>7, <1>9

(* The function on top returns. *)
LEMMA QuietReturn ==
  ASSUME LockInv, NEW t \in Threads, NEW fn, NEW at, In(t, fn, at), Return(t),
         UNCHANGED <<rooms, relayMu, roomMu>>,
         fn # "shutdown", ~Holder(Top(t))
  PROVE  /\ stack' \in [Threads -> Seq(Frame)]
         /\ Stacks' /\ Relaying' /\ \A o \in Objects : Locked(o)'
<1>1. TypeOK /\ Stacks
  BY DEF LockInv
<1>2. PICK f \in Frame, n \in Nat \ {0} : f = Top(t) /\ n = Len(stack[t])
  BY <1>1, TopFacts
<1>3. f = stack[t][n] /\ f.fn = fn /\ stack[t] # << >>
  BY <1>1, <1>2, TopFacts
<1>4. PICK len \in Nat : len = n - 1
  OBVIOUS
<1>5. Replaced(t, n, len, f, f)
  BY <1>1, <1>2, <1>3, <1>4, Returned DEF TypeOK
<1>6. ~(len >= n) /\ len # n + 1
  BY <1>4
<1>7. Stacks' /\ Relaying' /\ \A o \in Objects : Locked(o)'
  BY <1>2, <1>3, <1>5, <1>6, Quiet
<1> QED
  BY <1>5, <1>7 DEF Replaced

(* It goes on with frame g. *)
LEMMA QuietGoto ==
  ASSUME LockInv, NEW t \in Threads, NEW fn, NEW at, In(t, fn, at),
         NEW g \in Frame, Goto(t, g), UNCHANGED <<relayMu, roomMu>>,
         \A ch \in Channels : rooms[ch] # 0 => rooms'[ch] # 0,
         fn # "shutdown", ~Holder(Top(t)), g.fn = fn, Shaped(g), ~Holder(g)
  PROVE  /\ stack' \in [Threads -> Seq(Frame)]
         /\ Stacks' /\ Relaying' /\ \A o \in Objects : Locked(o)'
<1>1. TypeOK /\ Stacks
  BY DEF LockInv
<1>2. PICK f \in Frame, n \in Nat \ {0} : f = Top(t) /\ n = Len(stack[t])
  BY <1>1, TopFacts
<1>3. f = stack[t][n] /\ f.fn = fn /\ stack[t] # << >>
  BY <1>1, <1>2, TopFacts
<1>4. Replaced(t, n, n, g, g)
  BY <1>1, <1>2, <1>3, Went DEF TypeOK
<1>5. n # n + 1
  BY <1>2
<1>6. Stacks' /\ Relaying' /\ \A o \in Objects : Locked(o)'
  BY <1>2, <1>3, <1>4, <1>5, Quiet
<1> QED
  BY <1>4, <1>6 DEF Replaced

(* It goes on with frame g and calls a function that begins with e. *)
LEMMA QuietCall ==
  ASSUME LockInv, NEW t \in Threads, NEW fn, NEW at, In(t, fn, at),
         NEW g \in Frame, NEW e \in Frame,
         stack' = [stack EXCEPT ![t] = Below(t) \o <<g, e>>],
         UNCHANGED <<rooms, relayMu, roomMu>>,
         fn # "shutdown", ~Holder(Top(t)), g.fn = fn, Shaped(g), ~Holder(g),
         Shaped(e), ~Holder(e), e.fn \notin Outermost
  PROVE  /\ stack' \in [Threads -> Seq(Frame)]
         /\ Stacks' /\ Relaying' /\ \A o \in Objects : Locked(o)'
<1>1. TypeOK /\ Stacks
  BY DEF LockInv
<1>2. PICK f \in Frame, n \in Nat \ {0} : f = Top(t) /\ n = Len(stack[t])
  BY <1>1, TopFacts
<1>3. f = stack[t][n] /\ f.fn = fn /\ stack[t] # << >>
  BY <1>1, <1>2, TopFacts
<1>4. PICK len \in Nat : len = n + 1
  OBVIOUS
<1>5. Replaced(t, n, len, g, e)
  BY <1>1, <1>2, <1>3, <1>4, Called DEF TypeOK
<1>6. e.fn # "shutdown"
  BY DEF Outermost
<1>7. Stacks' /\ Relaying' /\ \A o \in Objects : Locked(o)'
  BY <1>2, <1>3, <1>5, <1>6, Quiet
<1> QED
  BY <1>5, <1>7 DEF Replaced

(* A goroutine begins with frame e. *)
LEMMA QuietBegin ==
  ASSUME LockInv, NEW t \in Threads, NEW e \in Frame, Begin(t, e),
         UNCHANGED <<rooms, relayMu, roomMu>>, Shaped(e), ~Holder(e),
         e.fn # "shutdown" \/ e.at = "lock"
  PROVE  /\ stack' \in [Threads -> Seq(Frame)]
         /\ Stacks' /\ Relaying' /\ \A o \in Objects : Locked(o)'
<1>1. Replaced(t, 0, 1, e, e)
  BY Begun DEF LockInv, TypeOK
<1>2. ~(0 > 0)
  OBVIOUS
<1>3. Stacks' /\ Relaying' /\ \A o \in Objects : Locked(o)'
  BY <1>1, <1>2, Quiet
<1> QED
  BY <1>1, <1>3 DEF Replaced

(* Commands, the ping timer and the calls of the application. *)
LEMMA BeginStep ==
  ASSUME LockInv,
         \/ \E h \in Handlers, ch \in Channels :
              SubscribeCommand(h, ch) \/ UnsubscribeCommand(h, ch)
         \/ \E h \in Handlers, u \in NewNames : Connect(h, u)
         \/ \E h \in Handlers : PingTimeout(h)
         \/ \E a \in Apps : RelayClose(a) \/ \E ch \in Channels : DeleteRoom(a, ch)
  PROVE  LockInv'
<1>0. TypeOK
  BY DEF LockInv
<1>a. /\ \A h \in Handlers : Reader(h) \in Threads /\ Timer(h) \in Threads
      /\ \A a \in Apps : App(a) \in Threads
  BY DEF Threads
<1>b. ASSUME NEW h \in Handlers, Command(h)
      PROVE  budget' \in [commands : Nat, shutdowns : Nat]
  <2>1. PICK b \in [commands : Nat, shutdowns : Nat] : b = budget
    BY <1>0 DEF TypeOK
  <2>2. b.commands > 0 /\ budget' = [b EXCEPT !.commands = b.commands - 1]
    BY <1>b, <2>1 DEF Command
  <2>3. b.commands - 1 \in Nat
    BY <2>2
  <2> QED
    BY <2>2, <2>3
<1>c. /\ {"subscribe", "unsubscribe", "shutdown"} \subseteq Functions
      /\ {"get", "delete", "lock"} \subseteq Places
  BY DEF Functions, Places
<1>1. ASSUME NEW h \in Handlers, NEW ch \in Channels, SubscribeCommand(h, ch)
      PROVE  LockInv'
  <2>1. PICK e : e = [NewFrame("subscribe", "get") EXCEPT !.h = h, !.ch = ch]
    OBVIOUS
  <2>2. e \in Frame
    BY <1>c, <2>1, FrameNew
  <2>3. e.fn = "subscribe" /\ e.at = "get" /\ e.h = h /\ e.ch = ch
    BY <2>1 DEF NewFrame
  <2>4. Shaped(e) /\ ~Holder(e)
    BY <2>3 DEF Shaped, Holder
  <2>5. Begin(Reader(h), e) /\ UNCHANGED <<rooms, relayMu, roomMu>>
    BY <1>1, <2>1 DEF SubscribeCommand, maps
  <2>6. PICK t \in Threads : t = Reader(h)
    BY <1>a
  <2>7. /\ stack' \in [Threads -> Seq(Frame)]
        /\ Stacks' /\ Relaying' /\ \A o \in Objects : Locked(o)'
    BY <2>2, <2>3, <2>4, <2>5, <2>6, QuietBegin
  <2>8. stray' \in [Handlers -> BOOLEAN]
    BY <1>0, <1>1 DEF SubscribeCommand, TypeOK
  <2>9. budget' \in [commands : Nat, shutdowns : Nat]
    BY <1>1, <1>b DEF SubscribeCommand
  <2> QED
    BY <1>0, <1>1, <2>7, <2>8, <2>9 DEF SubscribeCommand, maps, LockInv, TypeOK
<1>2. ASSUME NEW h \in Handlers, NEW ch \in Channels, UnsubscribeCommand(h, ch)
      PROVE  LockInv'
  <2>1. PICK e : e = [NewFrame("unsubscribe", "delete") EXCEPT !.h = h, !.ch = ch]
    OBVIOUS
  <2>2. e \in Frame
    BY <1>c, <2>1, FrameNew
  <2>3. e.fn = "unsubscribe" /\ e.at = "delete" /\ e.h = h /\ e.ch = ch
    BY <2>1 DEF NewFrame
  <2>4. Shaped(e) /\ ~Holder(e)
    BY <2>3 DEF Shaped, Holder
  <2>5. Begin(Reader(h), e) /\ UNCHANGED <<rooms, relayMu, roomMu>>
    BY <1>2, <2>1 DEF UnsubscribeCommand, maps
  <2>6. PICK t \in Threads : t = Reader(h)
    BY <1>a
  <2>7. /\ stack' \in [Threads -> Seq(Frame)]
        /\ Stacks' /\ Relaying' /\ \A o \in Objects : Locked(o)'
    BY <2>2, <2>3, <2>4, <2>5, <2>6, QuietBegin
  <2>8. budget' \in [commands : Nat, shutdowns : Nat]
    BY <1>2, <1>b DEF UnsubscribeCommand
  <2> QED
    BY <1>0, <1>2, <2>7, <2>8 DEF UnsubscribeCommand, maps, table, LockInv, TypeOK
<1>3. ASSUME NEW h \in Handlers, PingTimeout(h) PROVE LockInv'
  <2>1. PICK e : e = CloseFrame(h)
    OBVIOUS
  <2>2. e \in Frame /\ e.fn = "close" /\ e.at = "swap" /\ e.h = h
    BY <2>1, CloseFrameType
  <2>3. Shaped(e) /\ ~Holder(e)
    BY <2>2 DEF Shaped, Holder
  <2>4. Begin(Timer(h), e) /\ UNCHANGED <<rooms, relayMu, roomMu>>
    BY <1>3, <2>1 DEF PingTimeout, maps
  <2>5. PICK t \in Threads : t = Timer(h)
    BY <1>a
  <2>6. /\ stack' \in [Threads -> Seq(Frame)]
        /\ Stacks' /\ Relaying' /\ \A o \in Objects : Locked(o)'
    BY <2>2, <2>3, <2>4, <2>5, QuietBegin
  <2> QED
    BY <1>0, <1>3, <2>6 DEF PingTimeout, maps, table, LockInv, TypeOK
<1>4. ASSUME NEW a \in Apps, NEW chans \in SUBSET Channels, NEW all \in BOOLEAN,
             Shutdown(a, chans, all)
      PROVE  LockInv'
  <2>1. PICK e : e = [NewFrame("shutdown", "lock") EXCEPT !.chans = chans,
                                                          !.all = all]
    OBVIOUS
  <2>2. e \in Frame
    BY <1>c, <2>1, FrameNew
  <2>3. e.fn = "shutdown" /\ e.at = "lock"
    BY <2>1 DEF NewFrame
  <2>4. Shaped(e) /\ ~Holder(e)
    BY <2>3 DEF Shaped, Holder
  <2>5. Begin(App(a), e) /\ UNCHANGED <<rooms, relayMu, roomMu>>
    BY <1>4, <2>1 DEF Shutdown, maps
  <2>6. PICK t \in Threads : t = App(a)
    BY <1>a
  <2>7. /\ stack' \in [Threads -> Seq(Frame)]
        /\ Stacks' /\ Relaying' /\ \A o \in Objects : Locked(o)'
    BY <2>2, <2>3, <2>4, <2>5, <2>6, QuietBegin
  <2>8. budget' \in [commands : Nat, shutdowns : Nat]
    <3>1. PICK b \in [commands : Nat, shutdowns : Nat] : b = budget
      BY <1>0 DEF TypeOK
    <3>2. b.shutdowns > 0 /\ budget' = [b EXCEPT !.shutdowns = b.shutdowns - 1]
      BY <1>4, <3>1 DEF Shutdown
    <3>3. b.shutdowns - 1 \in Nat
      BY <3>2
    <3> QED
      BY <3>2, <3>3
  <2> QED
    BY <1>0, <1>4, <2>7, <2>8 DEF Shutdown, maps, table, LockInv, TypeOK
<1>5. ASSUME NEW a \in Apps, RelayClose(a) PROVE LockInv'
  BY <1>4, <1>5 DEF RelayClose
<1>6. ASSUME NEW a \in Apps, NEW ch \in Channels, DeleteRoom(a, ch) PROVE LockInv'
  <2>1. {ch} \in SUBSET Channels
    OBVIOUS
  <2> QED
    BY <1>4, <1>6, <2>1 DEF DeleteRoom
<1>7. ASSUME NEW h \in Handlers, NEW u \in NewNames, Connect(h, u) PROVE LockInv'
  <2>1. /\ UNCHANGED <<rooms, created, running, subscribers, relayMu, roomMu,
                       subscriptions, closed, gone, crowded, stack>>
        /\ userID' = [userID EXCEPT ![h] = u]
    BY <1>7 DEF Connect, maps
  <2>2. u \in Users
    BY SessionAssumption
  <2>3. userID' \in [Handlers -> Users]
    BY <1>0, <2>1, <2>2 DEF TypeOK
  <2>4. stray' \in [Handlers -> BOOLEAN]
    BY <1>0, <1>7 DEF Connect, TypeOK
  <2>5. budget' \in [commands : Nat, shutdowns : Nat]
    BY <1>7, <1>b DEF Connect
  <2>6. TypeOK'
    BY <1>0, <2>1, <2>3, <2>4, <2>5 DEF TypeOK
  <2>7. Stacks' /\ Relaying'
    BY <2>1 DEF LockInv, Stacks, Shaped, Relaying, Shuts
  <2>8. \A o \in Objects : Locked(o)'
    BY <2>1 DEF LockInv, Locked, Holds, Holder
  <2> QED
    BY <2>6, <2>7, <2>8 DEF LockInv
<1> QED
  BY <1>1, <1>2, <1>3, <1>5, <1>6, <1>7

(* The function on top goes on with frame g, and may call another one; it   *)
(* keeps Relay.mu if it had it.                                             *)
LEMMA Moves ==
  ASSUME LockInv, NEW t \in Threads, NEW n, NEW len, NEW f, NEW g, NEW e,
         Replaced(t, n, len, g, e), n > 0, len >= n, f = stack[t][n],
         UNCHANGED <<rooms, relayMu>>, g.fn = f.fn, Shaped(g),
         f.fn = "shutdown" => f.at # "lock" /\ g.at # "lock"
                                /\ g.chans \subseteq f.chans,
         len = n + 1 => Shaped(e) /\ e.fn \notin Outermost
  PROVE  Stacks' /\ Relaying'
<1>0. TypeOK /\ Stacks /\ Relaying
  BY DEF LockInv
<1>1. n \in Nat /\ len \in Nat
  BY DEF Replaced
<1>2. n \in DOMAIN stack[t]
  BY <1>0, <1>1 DEF Replaced, TypeOK
<1>3. n > 0 /\ len >= n => Shaped(g) /\ (g.fn \in Outermost => n = 1)
  BY <1>0, <1>2 DEF Stacks
<1>4. len = n + 1 => Shaped(e) /\ (e.fn \in Outermost => n = 0)
  OBVIOUS
<1>5. Stacks'
  BY <1>0, <1>3, <1>4, StacksKept
<1>6. CASE f.fn # "shutdown"
  <2>1. /\ n > 0 => stack[t][n].fn # "shutdown"
        /\ n > 0 /\ len >= n => g.fn # "shutdown"
        /\ len = n + 1 => e.fn # "shutdown" \/ e.at = "lock"
    BY <1>6 DEF Outermost
  <2>2. \A ch \in Channels : rooms[ch] # 0 => rooms'[ch] # 0
    OBVIOUS
  <2>3. Relaying'
    BY <1>0, <2>1, <2>2, RelayKept
  <2> QED
    BY <1>5, <2>3
<1>7. CASE f.fn = "shutdown"
  <2>1. n = 1
    BY <1>3, <1>7 DEF Outermost
  <2>2. 1 \in 1 .. len /\ stack'[t][1] = g /\ stack[t][1] = f
    BY <1>1, <2>1 DEF Replaced
  <2>a. Len(stack'[t]) >= 1 /\ Len(stack[t]) >= 1
    BY <1>1, <2>1 DEF Replaced
  <2>3. stack'[t] # << >> /\ stack[t] # << >>
    BY <2>a
  <2>4. Shuts(t) /\ Shuts(t)'
    BY <1>7, <2>2, <2>3 DEF Shuts
  <2>5. ASSUME NEW u \in Threads PROVE Shuts(u)' <=> Shuts(u)
    <3>1. CASE u = t
      BY <2>4, <3>1
    <3>2. CASE u # t
      BY <3>2 DEF Replaced, Shuts
    <3> QED
      BY <3>1, <3>2
  <2>6. ASSUME NEW u \in Threads
        PROVE  stack'[u][1].chans \subseteq stack[u][1].chans
    <3>1. CASE u = t
      BY <1>7, <2>2, <3>1
    <3>2. CASE u # t
      BY <3>2 DEF Replaced
    <3> QED
      BY <3>1, <3>2
  <2>7. Relaying'
    BY <1>0, <2>5, <2>6 DEF Relaying
  <2> QED
    BY <1>5, <2>7
<1> QED
  BY <1>6, <1>7

(* The function on top takes the free Room.mu of its room and goes on. *)
LEMMA AcquireGoto ==
  ASSUME LockInv, NEW t \in Threads, NEW fn, NEW at, In(t, fn, at),
         NEW f, f = Top(t), NEW g \in Frame, Goto(t, g),
         UNCHANGED <<rooms, relayMu>>, g.fn = fn, Shaped(g),
         fn = "shutdown" => at # "lock" /\ g.at # "lock" /\ g.chans \subseteq f.chans,
         ~Holder(f), Holder(g), g.o \in Objects, RoomFree(g.o),
         roomMu' = [roomMu EXCEPT ![g.o] = t]
  PROVE  /\ stack' \in [Threads -> Seq(Frame)]
         /\ Stacks' /\ Relaying' /\ \A o \in Objects : Locked(o)'
<1>1. TypeOK /\ Stacks /\ \A o \in Objects : Locked(o)
  BY DEF LockInv
<1>2. PICK n \in Nat \ {0} : n = Len(stack[t])
  BY <1>1, TopFacts
<1>3. f = stack[t][n] /\ f.fn = fn /\ f.at = at /\ stack[t] # << >>
  BY <1>1, <1>2, TopFacts
<1>4. Replaced(t, n, n, g, g)
  BY <1>1, <1>2, <1>3, Went DEF TypeOK
<1>5. n # n + 1 /\ n > 0 /\ n >= n
  BY <1>2
<1>6. Stacks' /\ Relaying'
  BY <1>3, <1>4, <1>5, Moves
<1>7. \A o \in Objects : Locked(o)'
  BY <1>1, <1>3, <1>4, <1>5, LockTaken
<1> QED
  BY <1>4, <1>6, <1>7 DEF Replaced

(* It takes Room.mu and calls a function that begins with e. *)
LEMMA AcquireCall ==
  ASSUME LockInv, NEW t \in Threads, NEW fn, NEW at, In(t, fn, at),
         NEW f, f = Top(t), NEW g \in Frame, NEW e \in Frame,
         stack' = [stack EXCEPT ![t] = Below(t) \o <<g, e>>],
         UNCHANGED <<rooms, relayMu>>, g.fn = fn, Shaped(g),
         fn # "shutdown", Shaped(e), ~Holder(e), e.fn \notin Outermost,
         ~Holder(f), Holder(g), g.o \in Objects, RoomFree(g.o),
         roomMu' = [roomMu EXCEPT ![g.o] = t]
  PROVE  /\ stack' \in [Threads -> Seq(Frame)]
         /\ Stacks' /\ Relaying' /\ \A o \in Objects : Locked(o)'
<1>1. TypeOK /\ Stacks /\ \A o \in Objects : Locked(o)
  BY DEF LockInv
<1>2. PICK n \in Nat \ {0} : n = Len(stack[t])
  BY <1>1, TopFacts
<1>3. f = stack[t][n] /\ f.fn = fn /\ f.at = at /\ stack[t] # << >>
  BY <1>1, <1>2, TopFacts
<1>4. PICK len \in Nat : len = n + 1
  OBVIOUS
<1>5. Replaced(t, n, len, g, e)
  BY <1>1, <1>2, <1>3, <1>4, Called DEF TypeOK
<1>6. n > 0 /\ len >= n
  BY <1>2, <1>4
<1>7. Stacks' /\ Relaying'
  BY <1>3, <1>5, <1>6, Moves
<1>8. \A o \in Objects : Locked(o)'
  BY <1>1, <1>3, <1>5, <1>6, LockTaken
<1> QED
  BY <1>5, <1>7, <1>8 DEF Replaced

(* It releases Room.mu and goes on. *)
LEMMA ReleaseGoto ==
  ASSUME LockInv, NEW t \in Threads, NEW fn, NEW at, In(t, fn, at),
         NEW f, f = Top(t), NEW g \in Frame, Goto(t, g),
         UNCHANGED <<rooms, relayMu>>, g.fn = fn, Shaped(g),
         fn = "shutdown" => at # "lock" /\ g.at # "lock" /\ g.chans \subseteq f.chans,
         Holder(f), ~Holder(g), f.o \in Objects,
         roomMu' = [roomMu EXCEPT ![f.o] = Nobody]
  PROVE  /\ stack' \in [Threads -> Seq(Frame)]
         /\ Stacks' /\ Relaying' /\ \A o \in Objects : Locked(o)'
<1>1. TypeOK /\ Stacks /\ \A o \in Objects : Locked(o)
  BY DEF LockInv
<1>2. PICK n \in Nat \ {0} : n = Len(stack[t])
  BY <1>1, TopFacts
<1>3. f = stack[t][n] /\ f.fn = fn /\ f.at = at /\ stack[t] # << >>
  BY <1>1, <1>2, TopFacts
<1>4. Replaced(t, n, n, g, g)
  BY <1>1, <1>2, <1>3, Went DEF TypeOK
<1>5. n # n + 1 /\ n > 0 /\ n >= n /\ n <= n
  BY <1>2
<1>6. Stacks' /\ Relaying'
  BY <1>3, <1>4, <1>5, Moves
<1>7. Holder(stack[t][n]) /\ stack[t][n].o \in Objects
      /\ roomMu' = [roomMu EXCEPT ![stack[t][n].o] = Nobody]
  BY <1>3
<1>8. \A o \in Objects : Locked(o)'
  BY <1>1, <1>4, <1>5, <1>7, LockReleased
<1> QED
  BY <1>4, <1>6, <1>8 DEF Replaced

(* It releases Room.mu and returns. *)
LEMMA ReleaseReturn ==
  ASSUME LockInv, NEW t \in Threads, NEW fn, NEW at, In(t, fn, at),
         NEW f, f = Top(t), Return(t), UNCHANGED <<rooms, relayMu>>,
         fn # "shutdown", Holder(f), f.o \in Objects,
         roomMu' = [roomMu EXCEPT ![f.o] = Nobody]
  PROVE  /\ stack' \in [Threads -> Seq(Frame)]
         /\ Stacks' /\ Relaying' /\ \A o \in Objects : Locked(o)'
<1>1. TypeOK /\ Stacks /\ Relaying /\ \A o \in Objects : Locked(o)
  BY DEF LockInv
<1>2. PICK n \in Nat \ {0} : n = Len(stack[t])
  BY <1>1, TopFacts
<1>3. f = stack[t][n] /\ f.fn = fn /\ f.at = at /\ stack[t] # << >>
  BY <1>1, <1>2, TopFacts
<1>4. PICK len \in Nat : len = n - 1
  OBVIOUS
<1>5. Replaced(t, n, len, f, f)
  BY <1>1, <1>2, <1>3, <1>4, Returned DEF TypeOK
<1>6. ~(len >= n) /\ len # n + 1 /\ n > 0 /\ len <= n
  BY <1>2, <1>4
<1>7. Stacks'
  BY <1>1, <1>5, <1>6, StacksKept
<1>8. Relaying'
  BY <1>1, <1>3, <1>5, <1>6, RelayKept
<1>9. Holder(stack[t][n]) /\ stack[t][n].o \in Objects
      /\ roomMu' = [roomMu EXCEPT ![stack[t][n].o] = Nobody]
  BY <1>3
<1>10. \A o \in Objects : Locked(o)'
  BY <1>1, <1>5, <1>6, <1>9, LockReleased
<1> QED
  BY <1>5, <1>7, <1>8, <1>10 DEF Replaced

(* handleSubscribe. *)
LEMMA SubscribeStep ==
  ASSUME LockInv, NEW t \in Threads,
         \/ SubscribeGet(t) \/ SubscribeCreate(t) \/ SubscribeCheck(t)
         \/ SubscribeLock(t) \/ SubscribeSet(t) \/ SubscribeStore(t)
  PROVE  LockInv'
<1> USE SessionAssumption
<1>0. TypeOK /\ Stacks /\ Relaying /\ \A o \in Objects : Locked(o)
  BY DEF LockInv
<1>a. {"create", "check", "lock", "set", "store"} \subseteq Places
  BY DEF Places
<1>b. PICK f : f = Top(t)
  OBVIOUS
<1>c. ASSUME NEW at, In(t, "subscribe", at)
      PROVE  /\ f \in Frame /\ f.fn = "subscribe" /\ f.at = at
             /\ f.h \in Handlers /\ f.ch \in Channels
             /\ at \in {"check", "lock", "set"} => f.o \in Objects
             /\ Len(stack[t]) = 1 /\ f = stack[t][1]
  BY <1>0, <1>b, <1>c, TopFacts DEF Shaped, Outermost
<1>1. CASE SubscribeGet(t)
  <2>0. In(t, "subscribe", "get")
    BY <1>1 DEF SubscribeGet
  <2>1. /\ f \in Frame /\ f.fn = "subscribe" /\ f.at = "get"
        /\ f.h \in Handlers /\ f.ch \in Channels
    BY <1>c, <2>0
  <2>2. PICK o \in 0 .. MaxRooms : o = rooms[f.ch]
    BY <1>0, <2>1 DEF TypeOK
  <2>3. UNCHANGED <<rooms, relayMu, roomMu>> /\ ~Holder(Top(t))
    BY <1>1, <1>b, <2>1 DEF SubscribeGet, maps, Holder
  <2>4. PICK g \in Frame : /\ Goto(t, g) /\ g.fn = "subscribe"
                           /\ Shaped(g) /\ ~Holder(g)
    <3>1. PICK c : c = [f EXCEPT !.at = "create"]
      OBVIOUS
    <3>2. /\ c \in Frame /\ c.fn = "subscribe" /\ c.at = "create"
          /\ c.h = f.h /\ c.ch = f.ch
      BY <1>a, <2>1, <3>1, FrameAt
    <3>3. PICK k : k = [f EXCEPT !.at = "check"]
      OBVIOUS
    <3>4. /\ k \in Frame /\ k.fn = "subscribe" /\ k.at = "check"
          /\ k.h = f.h /\ k.ch = f.ch
      BY <1>a, <2>1, <3>3, FrameAt
    <3>5. PICK g : g = [k EXCEPT !.o = o]
      OBVIOUS
    <3>6. /\ g \in Frame /\ g.fn = "subscribe" /\ g.at = "check"
          /\ g.h = f.h /\ g.ch = f.ch /\ g.o = o
      BY <3>4, <3>5, FrameO
    <3>7. Goto(t, IF o = 0 THEN c ELSE g)
      BY <1>1, <1>b, <2>2, <3>1, <3>3, <3>5 DEF SubscribeGet, At
    <3>8. CASE o = 0
      BY <2>1, <3>2, <3>7, <3>8 DEF Shaped, Holder
    <3>9. CASE o # 0
      <4>1. o \in Objects
        BY <2>2, <3>9 DEF Objects
      <4> QED
        BY <2>1, <3>6, <3>7, <3>9, <4>1 DEF Shaped, Holder
    <3> QED
      BY <3>8, <3>9
  <2>5. /\ stack' \in [Threads -> Seq(Frame)]
        /\ Stacks' /\ Relaying' /\ \A p \in Objects : Locked(p)'
    BY <2>0, <2>3, <2>4, QuietGoto
  <2> QED
    BY <1>0, <1>1, <2>5 DEF SubscribeGet, maps, table, LockInv, TypeOK
<1>2. CASE SubscribeCreate(t)
  <2>0. In(t, "subscribe", "create")
    BY <1>2 DEF SubscribeCreate
  <2>1. /\ f \in Frame /\ f.fn = "subscribe" /\ f.at = "create"
        /\ f.h \in Handlers /\ f.ch \in Channels
    BY <1>c, <2>0
  <2>2. UNCHANGED <<relayMu, roomMu>> /\ ~Holder(Top(t))
    BY <1>2, <1>b, <2>1 DEF SubscribeCreate, Holder
  <2>3. CASE Return(t) /\ UNCHANGED <<rooms, created>>
    <3>1. /\ stack' \in [Threads -> Seq(Frame)]
          /\ Stacks' /\ Relaying' /\ \A p \in Objects : Locked(p)'
      BY <2>0, <2>2, <2>3, QuietReturn
    <3> QED
      BY <1>0, <1>2, <2>3, <3>1 DEF SubscribeCreate, table, LockInv, TypeOK
  <2>4. CASE ~(Return(t) /\ UNCHANGED <<rooms, created>>)
    <3>1. /\ created < MaxRooms /\ created' = created + 1
          /\ rooms' = [rooms EXCEPT ![f.ch] = created + 1]
          /\ Goto(t, [At(t, "check") EXCEPT !.o = created + 1])
      BY <1>2, <1>b, <2>4 DEF SubscribeCreate
    <3>2. PICK o \in Objects : o = created + 1
      BY <1>0, <3>1 DEF TypeOK, Objects
    <3>3. o \in 0 .. MaxRooms /\ o # 0
      BY <3>2 DEF Objects
    <3>4. created' = o /\ rooms' = [rooms EXCEPT ![f.ch] = o]
      BY <3>1, <3>2
    <3>5. PICK k : k = [f EXCEPT !.at = "check"]
      OBVIOUS
    <3>6. /\ k \in Frame /\ k.fn = "subscribe" /\ k.at = "check"
          /\ k.h = f.h /\ k.ch = f.ch
      BY <1>a, <2>1, <3>5, FrameAt
    <3>7. PICK g : g = [k EXCEPT !.o = o]
      OBVIOUS
    <3>8. /\ g \in Frame /\ g.fn = "subscribe" /\ g.at = "check"
          /\ g.h = f.h /\ g.ch = f.ch /\ g.o = o
      BY <3>3, <3>6, <3>7, FrameO
    <3>9. Goto(t, g)
      BY <1>b, <3>1, <3>2, <3>5, <3>7 DEF At
    <3>10. Shaped(g) /\ ~Holder(g)
      BY <2>1, <3>2, <3>8 DEF Shaped, Holder
    <3>11. \A ch \in Channels : rooms[ch] # 0 => rooms'[ch] # 0
      BY <1>0, <3>3, <3>4 DEF TypeOK
    <3>12. /\ stack' \in [Threads -> Seq(Frame)]
           /\ Stacks' /\ Relaying' /\ \A p \in Objects : Locked(p)'
      BY <2>0, <2>2, <3>8, <3>9, <3>10, <3>11, QuietGoto
    <3>13. rooms' \in [Channels -> 0 .. MaxRooms] /\ created' \in 0 .. MaxRooms
      BY <1>0, <3>3, <3>4 DEF TypeOK
    <3> QED
      BY <1>0, <1>2, <3>12, <3>13 DEF SubscribeCreate, table, LockInv, TypeOK
  <2> QED
    BY <2>3, <2>4
<1>3. CASE SubscribeCheck(t)
  <2>0. In(t, "subscribe", "check")
    BY <1>3 DEF SubscribeCheck
  <2>1. /\ f \in Frame /\ f.fn = "subscribe" /\ f.at = "check"
        /\ f.h \in Handlers /\ f.ch \in Channels /\ f.o \in Objects
    BY <1>c, <2>0
  <2>2. PICK full : Admit(t, full)
    BY <1>3 DEF SubscribeCheck
  <2>3. UNCHANGED <<rooms, relayMu, roomMu>> /\ ~Holder(Top(t))
    BY <1>b, <2>1, <2>2 DEF Admit, maps, Holder
  <2>4. /\ stack' \in [Threads -> Seq(Frame)]
        /\ Stacks' /\ Relaying' /\ \A p \in Objects : Locked(p)'
    <3>1. CASE Return(t)
      BY <2>0, <2>3, <3>1, QuietReturn
    <3>2. CASE ~Return(t)
      <4>1. PICK g : g = [f EXCEPT !.at = "lock"]
        OBVIOUS
      <4>2. /\ g \in Frame /\ g.fn = "subscribe" /\ g.at = "lock"
            /\ g.h = f.h /\ g.ch = f.ch /\ g.o = f.o
        BY <1>a, <2>1, <4>1, FrameAt
      <4>3. Goto(t, g)
        BY <1>b, <2>2, <3>2, <4>1 DEF Admit, At
      <4>4. Shaped(g) /\ ~Holder(g)
        BY <2>1, <4>2 DEF Shaped, Holder
      <4> QED
        BY <2>0, <2>3, <4>2, <4>3, <4>4, QuietGoto
    <3> QED
      BY <3>1, <3>2
  <2>5. crowded' \in [Objects -> BOOLEAN]
    BY <1>0, <2>2 DEF Admit, TypeOK
  <2> QED
    BY <1>0, <2>2, <2>4, <2>5 DEF Admit, maps, LockInv, TypeOK
<1>4. CASE SubscribeStore(t)
  <2>0. In(t, "subscribe", "store")
    BY <1>4 DEF SubscribeStore
  <2>1. f \in Frame /\ f.fn = "subscribe" /\ f.at = "store" /\ f.ch \in Channels
    BY <1>c, <2>0
  <2>2. UNCHANGED <<rooms, relayMu, roomMu>> /\ Return(t) /\ ~Holder(Top(t))
    BY <1>4, <1>b, <2>1 DEF SubscribeStore, maps, Holder
  <2>3. /\ stack' \in [Threads -> Seq(Frame)]
        /\ Stacks' /\ Relaying' /\ \A p \in Objects : Locked(p)'
    BY <2>0, <2>2, QuietReturn
  <2>4. subscriptions' \in [Handlers -> SUBSET Channels]
    BY <1>0, <1>4, <1>b, <2>1 DEF SubscribeStore, TypeOK
  <2> QED
    BY <1>0, <1>4, <2>3, <2>4 DEF SubscribeStore, maps, LockInv, TypeOK
<1>5. CASE SubscribeLock(t)
  <2>0. In(t, "subscribe", "lock")
    BY <1>5 DEF SubscribeLock
  <2>1. /\ f \in Frame /\ f.fn = "subscribe" /\ f.at = "lock"
        /\ f.h \in Handlers /\ f.ch \in Channels /\ f.o \in Objects
        /\ Len(stack[t]) = 1 /\ f = stack[t][1]
    BY <1>c, <2>0
  <2>2. /\ RoomFree(f.o) /\ roomMu' = [roomMu EXCEPT ![f.o] = t]
        /\ UNCHANGED <<rooms, relayMu>>
    BY <1>5, <1>b DEF SubscribeLock, maps
  <2>3. PICK g : g = [f EXCEPT !.at = "set"]
    OBVIOUS
  <2>4. /\ g \in Frame /\ g.fn = "subscribe" /\ g.at = "set"
        /\ g.h = f.h /\ g.ch = f.ch /\ g.o = f.o
    BY <1>a, <2>1, <2>3, FrameAt
  <2>5. Shaped(g) /\ Holder(g) /\ ~Holder(f)
    BY <2>1, <2>4 DEF Shaped, Holder
  <2>6. PICK old \in Handlers \cup {Nobody} : old = subscribers[f.o][userID[f.h]]
    BY <1>0, <2>1 DEF TypeOK
  <2>7. /\ stack' \in [Threads -> Seq(Frame)]
        /\ Stacks' /\ Relaying' /\ \A p \in Objects : Locked(p)'
    <3>1. CASE old = Nobody
      <4>1. Goto(t, g)
        BY <1>5, <1>b, <2>3, <2>6, <3>1 DEF SubscribeLock, At
      <4> QED
        BY <1>b, <2>0, <2>1, <2>2, <2>4, <2>5, <4>1, AcquireGoto
    <3>2. CASE old # Nobody
      <4>1. old \in Handlers
        BY <3>2
      <4>2. PICK e : e = CloseFrame(old)
        OBVIOUS
      <4>3. e \in Frame /\ e.fn = "close" /\ e.at = "swap" /\ e.h = old
        BY <4>1, <4>2, CloseFrameType
      <4>4. stack' = [stack EXCEPT ![t] = Below(t) \o <<g, e>>]
        BY <1>5, <1>b, <2>3, <2>6, <3>2, <4>2 DEF SubscribeLock, At, Call
      <4>5. Shaped(e) /\ ~Holder(e) /\ e.fn \notin Outermost
        BY <4>1, <4>3 DEF Shaped, Holder, Outermost
      <4> QED
        BY <1>b, <2>0, <2>1, <2>2, <2>4, <2>5, <4>3, <4>4, <4>5, AcquireCall
    <3> QED
      BY <3>1, <3>2
  <2>8. roomMu' \in [Objects -> Threads \cup {Nobody}]
    BY <1>0, <2>1, <2>2 DEF TypeOK
  <2> QED
    BY <1>0, <1>5, <2>7, <2>8 DEF SubscribeLock, maps, table, LockInv, TypeOK
<1>6. CASE SubscribeSet(t)
  <2>0. In(t, "subscribe", "set")
    BY <1>6 DEF SubscribeSet
  <2>1. /\ f \in Frame /\ f.fn = "subscribe" /\ f.at = "set"
        /\ f.h \in Handlers /\ f.ch \in Channels /\ f.o \in Objects
        /\ Len(stack[t]) = 1 /\ f = stack[t][1]
    BY <1>c, <2>0
  <2>2. /\ roomMu' = [roomMu EXCEPT ![f.o] = Nobody]
        /\ UNCHANGED <<rooms, relayMu>>
    BY <1>6, <1>b DEF SubscribeSet
  <2>3. PICK g : g = [f EXCEPT !.at = "store"]
    OBVIOUS
  <2>4. /\ g \in Frame /\ g.fn = "subscribe" /\ g.at = "store"
        /\ g.h = f.h /\ g.ch = f.ch /\ g.o = f.o
    BY <1>a, <2>1, <2>3, FrameAt
  <2>5. Shaped(g) /\ Holder(f) /\ ~Holder(g)
    BY <2>1, <2>4 DEF Shaped, Holder
  <2>6. Goto(t, g)
    BY <1>6, <1>b, <2>3 DEF SubscribeSet, At
  <2>7. /\ stack' \in [Threads -> Seq(Frame)]
        /\ Stacks' /\ Relaying' /\ \A p \in Objects : Locked(p)'
    BY <1>b, <2>0, <2>1, <2>2, <2>4, <2>5, <2>6, ReleaseGoto
  <2>8. roomMu' \in [Objects -> Threads \cup {Nobody}]
    BY <1>0, <2>1, <2>2 DEF TypeOK
  <2>9. subscribers' \in [Objects -> [Users -> Handlers \cup {Nobody}]]
    <3>1. subscribers' = [subscribers EXCEPT ![f.o][userID[f.h]] = f.h]
      BY <1>6, <1>b DEF SubscribeSet
    <3> QED
      BY <1>0, <2>1, <3>1 DEF TypeOK
  <2> QED
    BY <1>0, <1>6, <2>7, <2>8, <2>9 DEF SubscribeSet, table, LockInv, TypeOK
<1> QED
  BY <1>1, <1>2, <1>3, <1>4, <1>5, <1>6

(* handleUnsubscribe and Relay.Unsubscribe. *)
LEMMA UnsubscribeStep ==
  ASSUME LockInv, NEW t \in Threads,
         \/ UnsubscribeDelete(t) \/ UnsubscribeEnd(t) \/ RelayUnsubscribeGet(t)
         \/ RelayUnsubscribeLock(t) \/ RelayUnsubscribeDelete(t)
  PROVE  LockInv'
<1> USE SessionAssumption
<1>0. TypeOK /\ Stacks
  BY DEF LockInv
<1>a. {"end", "lock", "delete"} \subseteq Places
  BY DEF Places
<1>b. PICK f : f = Top(t)
  OBVIOUS
<1>c. ASSUME NEW fn \in {"unsubscribe", "relayUnsubscribe"}, NEW at, In(t, fn, at)
      PROVE  /\ f \in Frame /\ f.fn = fn /\ f.at = at
             /\ f.h \in Handlers /\ f.ch \in Channels
             /\ fn = "relayUnsubscribe" => f.u \in Users
             /\ fn = "relayUnsubscribe" /\ at \in {"lock", "delete"}
                  => f.o \in Objects
  BY <1>0, <1>b, <1>c, TopFacts DEF Shaped
<1>1. CASE UnsubscribeDelete(t)
  <2>0. In(t, "unsubscribe", "delete")
    BY <1>1 DEF UnsubscribeDelete
  <2>1. /\ f \in Frame /\ f.fn = "unsubscribe" /\ f.at = "delete"
        /\ f.h \in Handlers /\ f.ch \in Channels
    BY <1>c, <2>0
  <2>2. UNCHANGED <<rooms, relayMu, roomMu>> /\ ~Holder(Top(t))
    BY <1>1, <1>b, <2>1 DEF UnsubscribeDelete, maps, Holder
  <2>3. /\ stack' \in [Threads -> Seq(Frame)]
        /\ Stacks' /\ Relaying' /\ \A p \in Objects : Locked(p)'
    <3>1. CASE Return(t)
      BY <2>0, <2>2, <3>1, QuietReturn
    <3>2. CASE ~Return(t)
      <4>1. PICK g : g = [f EXCEPT !.at = "end"]
        OBVIOUS
      <4>2. /\ g \in Frame /\ g.fn = "unsubscribe" /\ g.at = "end"
            /\ g.h = f.h /\ g.ch = f.ch
        BY <1>a, <2>1, <4>1, FrameAt
      <4>3. PICK e : e = UnsubscribeFrame(f.h, f.ch)
        OBVIOUS
      <4>4. /\ e \in Frame /\ e.fn = "relayUnsubscribe" /\ e.at = "get"
            /\ e.h = f.h /\ e.ch = f.ch /\ e.u \in Users
        BY <1>0, <2>1, <4>3, UnsubscribeFrameType
      <4>5. stack' = [stack EXCEPT ![t] = Below(t) \o <<g, e>>]
        BY <1>1, <1>b, <3>2, <4>1, <4>3 DEF UnsubscribeDelete, Call, At
      <4>6. /\ Shaped(g) /\ ~Holder(g) /\ Shaped(e) /\ ~Holder(e)
            /\ e.fn \notin Outermost
        BY <2>1, <4>2, <4>4 DEF Shaped, Holder, Outermost
      <4> QED
        BY <2>0, <2>2, <4>2, <4>4, <4>5, <4>6, QuietCall
    <3> QED
      BY <3>1, <3>2
  <2>4. subscriptions' \in [Handlers -> SUBSET Channels]
    BY <1>0, <1>1, <1>b, <2>1 DEF UnsubscribeDelete, TypeOK
  <2> QED
    BY <1>0, <1>1, <2>3, <2>4 DEF UnsubscribeDelete, maps, LockInv, TypeOK
<1>2. CASE UnsubscribeEnd(t)
  <2>0. In(t, "unsubscribe", "end")
    BY <1>2 DEF UnsubscribeEnd
  <2>1. f.fn = "unsubscribe"
    BY <1>c, <2>0
  <2>2. UNCHANGED <<rooms, relayMu, roomMu>> /\ Return(t) /\ ~Holder(Top(t))
    BY <1>2, <1>b, <2>1 DEF UnsubscribeEnd, maps, Holder
  <2>3. /\ stack' \in [Threads -> Seq(Frame)]
        /\ Stacks' /\ Relaying' /\ \A p \in Objects : Locked(p)'
    BY <2>0, <2>2, QuietReturn
  <2> QED
    BY <1>0, <1>2, <2>3 DEF UnsubscribeEnd, maps, table, LockInv, TypeOK
<1>3. CASE RelayUnsubscribeGet(t)
  <2>0. In(t, "relayUnsubscribe", "get")
    BY <1>3 DEF RelayUnsubscribeGet
  <2>1. /\ f \in Frame /\ f.fn = "relayUnsubscribe" /\ f.at = "get"
        /\ f.h \in Handlers /\ f.ch \in Channels /\ f.u \in Users
    BY <1>c, <2>0
  <2>2. UNCHANGED <<rooms, relayMu, roomMu>> /\ ~Holder(Top(t))
    BY <1>3, <1>b, <2>1 DEF RelayUnsubscribeGet, maps, Holder
  <2>3. PICK o \in 0 .. MaxRooms : o = rooms[f.ch]
    BY <1>0, <2>1 DEF TypeOK
  <2>4. /\ stack' \in [Threads -> Seq(Frame)]
        /\ Stacks' /\ Relaying' /\ \A p \in Objects : Locked(p)'
    <3>1. CASE o = 0
      <4>1. Return(t)
        BY <1>3, <1>b, <2>3, <3>1 DEF RelayUnsubscribeGet
      <4> QED
        BY <2>0, <2>2, <4>1, QuietReturn
    <3>2. CASE o # 0
      <4>1. o \in Objects
        BY <2>3, <3>2 DEF Objects
      <4>2. PICK k : k = [f EXCEPT !.at = "lock"]
        OBVIOUS
      <4>3. /\ k \in Frame /\ k.fn = "relayUnsubscribe" /\ k.at = "lock"
            /\ k.h = f.h /\ k.ch = f.ch /\ k.u = f.u
        BY <1>a, <2>1, <4>2, FrameAt
      <4>4. PICK g : g = [k EXCEPT !.o = o]
        OBVIOUS
      <4>5. /\ g \in Frame /\ g.fn = "relayUnsubscribe" /\ g.at = "lock"
            /\ g.h = f.h /\ g.ch = f.ch /\ g.o = o /\ g.u = f.u
        BY <4>3, <4>4, FrameO
      <4>6. Goto(t, g)
        BY <1>3, <1>b, <2>3, <3>2, <4>2, <4>4 DEF RelayUnsubscribeGet, At
      <4>7. Shaped(g) /\ ~Holder(g)
        BY <2>1, <4>1, <4>5 DEF Shaped, Holder
      <4> QED
        BY <2>0, <2>2, <4>5, <4>6, <4>7, QuietGoto
    <3> QED
      BY <3>1, <3>2
  <2> QED
    BY <1>0, <1>3, <2>4 DEF RelayUnsubscribeGet, maps, table, LockInv, TypeOK
<1>4. CASE RelayUnsubscribeLock(t)
  <2>0. In(t, "relayUnsubscribe", "lock")
    BY <1>4 DEF RelayUnsubscribeLock
  <2>1. /\ f \in Frame /\ f.fn = "relayUnsubscribe" /\ f.at = "lock"
        /\ f.h \in Handlers /\ f.ch \in Channels /\ f.o \in Objects
        /\ f.u \in Users
    BY <1>c, <2>0
  <2>2. RoomFree(f.o) /\ UNCHANGED <<rooms, relayMu>> /\ ~Holder(f)
    BY <1>4, <1>b, <2>1 DEF RelayUnsubscribeLock, maps, Holder
  <2>3. PICK sub \in Handlers \cup {Nobody} : sub = subscribers[f.o][f.u]
    BY <1>0, <2>1 DEF TypeOK
  <2>4. CASE sub = Nobody
    <3>1. Return(t) /\ UNCHANGED roomMu
      BY <1>4, <1>b, <2>3, <2>4 DEF RelayUnsubscribeLock
    <3>2. /\ stack' \in [Threads -> Seq(Frame)]
          /\ Stacks' /\ Relaying' /\ \A p \in Objects : Locked(p)'
      BY <1>b, <2>0, <2>2, <3>1, QuietReturn
    <3> QED
      BY <1>0, <1>4, <3>1, <3>2 DEF RelayUnsubscribeLock, maps, table, LockInv, TypeOK
  <2>5. CASE sub # Nobody
    <3>1. PICK g : g = [f EXCEPT !.at = "delete"]
      OBVIOUS
    <3>2. /\ g \in Frame /\ g.fn = "relayUnsubscribe" /\ g.at = "delete"
          /\ g.h = f.h /\ g.ch = f.ch /\ g.o = f.o /\ g.u = f.u
      BY <1>a, <2>1, <3>1, FrameAt
    <3>3. PICK e : e = CloseFrame(sub)
      OBVIOUS
    <3>4. sub \in Handlers
      BY <2>5
    <3>5. e \in Frame /\ e.fn = "close" /\ e.at = "swap" /\ e.h = sub
      BY <3>3, <3>4, CloseFrameType
    <3>6. /\ stack' = [stack EXCEPT ![t] = Below(t) \o <<g, e>>]
          /\ roomMu' = [roomMu EXCEPT ![f.o] = t]
      BY <1>4, <1>b, <2>3, <2>5, <3>1, <3>3 DEF RelayUnsubscribeLock, Call, At
    <3>7. /\ Shaped(g) /\ Holder(g) /\ Shaped(e) /\ ~Holder(e)
          /\ e.fn \notin Outermost
      BY <2>1, <3>2, <3>4, <3>5 DEF Shaped, Holder, Outermost
    <3>8. /\ stack' \in [Threads -> Seq(Frame)]
          /\ Stacks' /\ Relaying' /\ \A p \in Objects : Locked(p)'
      BY <1>b, <2>0, <2>1, <2>2, <3>2, <3>5, <3>6, <3>7, AcquireCall
    <3>9. roomMu' \in [Objects -> Threads \cup {Nobody}]
      BY <1>0, <2>1, <3>6 DEF TypeOK
    <3> QED
      BY <1>0, <1>4, <3>8, <3>9 DEF RelayUnsubscribeLock, maps, table, LockInv, TypeOK
  <2> QED
    BY <2>4, <2>5
<1>5. CASE RelayUnsubscribeDelete(t)
  <2>0. In(t, "relayUnsubscribe", "delete")
    BY <1>5 DEF RelayUnsubscribeDelete
  <2>1. /\ f \in Frame /\ f.fn = "relayUnsubscribe" /\ f.at = "delete"
        /\ f.h \in Handlers /\ f.ch \in Channels /\ f.o \in Objects
        /\ f.u \in Users
    BY <1>c, <2>0
  <2>2. /\ roomMu' = [roomMu EXCEPT ![f.o] = Nobody]
        /\ subscribers' = [subscribers EXCEPT ![f.o][f.u] = Nobody]
        /\ UNCHANGED <<rooms, relayMu>> /\ Return(t) /\ Holder(f)
    BY <1>5, <1>b, <2>1 DEF RelayUnsubscribeDelete, Holder
  <2>3. /\ stack' \in [Threads -> Seq(Frame)]
        /\ Stacks' /\ Relaying' /\ \A p \in Objects : Locked(p)'
    BY <1>b, <2>0, <2>1, <2>2, ReleaseReturn
  <2>4. roomMu' \in [Objects -> Threads \cup {Nobody}]
    BY <1>0, <2>1, <2>2 DEF TypeOK
  <2>5. subscribers' \in [Objects -> [Users -> Handlers \cup {Nobody}]]
    BY <1>0, <2>1, <2>2 DEF TypeOK
  <2> QED
    BY <1>0, <1>5, <2>3, <2>4, <2>5 DEF RelayUnsubscribeDelete, table, LockInv, TypeOK
<1> QED
  BY <1>1, <1>2, <1>3, <1>4, <1>5

(* ClientHandler.Close. *)
LEMMA CloseStep ==
  ASSUME LockInv, NEW t \in Threads, CloseSwap(t) \/ CloseCopy(t) \/ CloseLoop(t)
  PROVE  LockInv'
<1> USE SessionAssumption
<1>0. TypeOK /\ Stacks
  BY DEF LockInv
<1>a. {"copy", "loop"} \subseteq Places
  BY DEF Places
<1>b. PICK f : f = Top(t)
  OBVIOUS
<1>c. ASSUME NEW at, In(t, "close", at)
      PROVE  /\ f \in Frame /\ f.fn = "close" /\ f.at = at /\ f.h \in Handlers
             /\ f.chans \in SUBSET Channels /\ Shaped(f) /\ ~Holder(f)
  <2>1. f \in Frame /\ f.fn = "close" /\ f.at = at /\ Shaped(f)
    BY <1>0, <1>b, <1>c, TopFacts
  <2> QED
    BY <2>1, FrameFields DEF Shaped, Holder
<1>1. CASE CloseSwap(t)
  <2>0. In(t, "close", "swap")
    BY <1>1 DEF CloseSwap
  <2>1. f \in Frame /\ f.fn = "close" /\ f.h \in Handlers /\ ~Holder(Top(t))
    BY <1>b, <1>c, <2>0
  <2>2. UNCHANGED <<rooms, relayMu, roomMu>>
    BY <1>1 DEF CloseSwap, maps
  <2>3. /\ stack' \in [Threads -> Seq(Frame)]
        /\ Stacks' /\ Relaying' /\ \A p \in Objects : Locked(p)'
    <3>1. CASE Return(t)
      BY <2>0, <2>1, <2>2, <3>1, QuietReturn
    <3>2. CASE ~Return(t)
      <4>1. PICK g : g = [f EXCEPT !.at = "copy"]
        OBVIOUS
      <4>2. g \in Frame /\ g.fn = "close" /\ g.h = f.h
        BY <1>a, <2>1, <4>1, FrameAt
      <4>3. Goto(t, g)
        BY <1>1, <1>b, <3>2, <4>1 DEF CloseSwap, At
      <4>4. Shaped(g) /\ ~Holder(g)
        BY <2>1, <4>2 DEF Shaped, Holder
      <4> QED
        BY <2>0, <2>1, <2>2, <4>2, <4>3, <4>4, QuietGoto
    <3> QED
      BY <3>1, <3>2
  <2>4. closed' \in [Handlers -> BOOLEAN]
    BY <1>0, <1>1, <1>b, <2>1 DEF CloseSwap, TypeOK
  <2> QED
    BY <1>0, <1>1, <2>3, <2>4 DEF CloseSwap, maps, LockInv, TypeOK
<1>2. CASE CloseCopy(t)
  <2>0. In(t, "close", "copy")
    BY <1>2 DEF CloseCopy
  <2>1. f \in Frame /\ f.fn = "close" /\ f.h \in Handlers /\ ~Holder(Top(t))
    BY <1>b, <1>c, <2>0
  <2>2. UNCHANGED <<rooms, relayMu, roomMu>>
    BY <1>2 DEF CloseCopy, maps
  <2>3. PICK chans \in SUBSET Channels : chans = subscriptions[f.h]
    BY <1>0, <2>1 DEF TypeOK
  <2>4. PICK k : k = [f EXCEPT !.at = "loop"]
    OBVIOUS
  <2>5. k \in Frame /\ k.fn = "close" /\ k.h = f.h
    BY <1>a, <2>1, <2>4, FrameAt
  <2>6. PICK g : g = [k EXCEPT !.chans = chans]
    OBVIOUS
  <2>7. g \in Frame /\ g.fn = "close" /\ g.h = f.h
    BY <2>5, <2>6, FrameChans
  <2>8. Goto(t, g)
    BY <1>2, <1>b, <2>3, <2>4, <2>6 DEF CloseCopy, At
  <2>9. Shaped(g) /\ ~Holder(g)
    BY <2>1, <2>7 DEF Shaped, Holder
  <2>10. /\ stack' \in [Threads -> Seq(Frame)]
         /\ Stacks' /\ Relaying' /\ \A p \in Objects : Locked(p)'
    BY <2>0, <2>1, <2>2, <2>7, <2>8, <2>9, QuietGoto
  <2>11. stray' \in [Handlers -> BOOLEAN]
    BY <1>0, <1>2, <1>b, <2>1 DEF CloseCopy, TypeOK
  <2> QED
    BY <1>0, <1>2, <2>10, <2>11 DEF CloseCopy, maps, LockInv, TypeOK
<1>3. CASE CloseLoop(t)
  <2>0. In(t, "close", "loop")
    BY <1>3 DEF CloseLoop
  <2>1. /\ f \in Frame /\ f.fn = "close" /\ f.h \in Handlers /\ ~Holder(Top(t))
        /\ f.chans \in SUBSET Channels
    BY <1>b, <1>c, <2>0
  <2>2. UNCHANGED <<rooms, relayMu, roomMu>>
    BY <1>3 DEF CloseLoop, maps
  <2>3. CASE Return(t) /\ gone' = [gone EXCEPT ![f.h] = TRUE]
    <3>1. /\ stack' \in [Threads -> Seq(Frame)]
          /\ Stacks' /\ Relaying' /\ \A p \in Objects : Locked(p)'
      BY <2>0, <2>1, <2>2, <2>3, QuietReturn
    <3>2. gone' \in [Handlers -> BOOLEAN]
      BY <1>0, <2>1, <2>3 DEF TypeOK
    <3> QED
      BY <1>0, <1>3, <3>1, <3>2 DEF CloseLoop, maps, LockInv, TypeOK
  <2>4. CASE ~(Return(t) /\ gone' = [gone EXCEPT ![f.h] = TRUE])
    <3>1. PICK ch \in f.chans :
            /\ stack' = [stack EXCEPT ![t] =
                 Below(t) \o <<[f EXCEPT !.chans = @ \ {ch}],
                               UnsubscribeFrame(f.h, ch)>>]
            /\ UNCHANGED gone
      BY <1>3, <1>b, <2>4 DEF CloseLoop
    <3>2. ch \in Channels /\ f.chans \ {ch} \in SUBSET Channels
      BY <2>1, <3>1
    <3>3. PICK rest \in SUBSET Channels : rest = f.chans \ {ch}
      BY <3>2
    <3>4. PICK g : g = [f EXCEPT !.chans = rest]
      OBVIOUS
    <3>5. g \in Frame /\ g.fn = "close" /\ g.h = f.h
      BY <2>1, <3>4, FrameChans
    <3>6. PICK e : e = UnsubscribeFrame(f.h, ch)
      OBVIOUS
    <3>7. /\ e \in Frame /\ e.fn = "relayUnsubscribe" /\ e.at = "get"
          /\ e.h = f.h /\ e.ch = ch /\ e.u \in Users
      BY <1>0, <2>1, <3>2, <3>6, UnsubscribeFrameType
    <3>8. stack' = [stack EXCEPT ![t] = Below(t) \o <<g, e>>]
      BY <3>1, <3>3, <3>4, <3>6
    <3>9. /\ Shaped(g) /\ ~Holder(g) /\ Shaped(e) /\ ~Holder(e)
          /\ e.fn \notin Outermost
      BY <2>1, <3>2, <3>5, <3>7 DEF Shaped, Holder, Outermost
    <3>10. /\ stack' \in [Threads -> Seq(Frame)]
           /\ Stacks' /\ Relaying' /\ \A p \in Objects : Locked(p)'
      BY <2>0, <2>1, <2>2, <3>5, <3>7, <3>8, <3>9, QuietCall
    <3> QED
      BY <1>0, <1>3, <3>1, <3>10 DEF CloseLoop, maps, LockInv, TypeOK
  <2> QED
    BY <2>3, <2>4
<1> QED
  BY <1>1, <1>2, <1>3

(* DeleteRoom and Relay.Close are the outermost function of a goroutine. *)
LEMMA ShutdownTop ==
  ASSUME LockInv, NEW t \in Threads, NEW at, In(t, "shutdown", at),
         NEW f, f = Top(t)
  PROVE  /\ f \in Frame /\ f.fn = "shutdown" /\ f.at = at
         /\ f.chans \in SUBSET Channels /\ f.conns \in SUBSET Handlers
         /\ f.all \in BOOLEAN /\ f.ch \in Channels \cup {Nobody}
         /\ at \in {"stop", "closing"} => f.o \in Objects
         /\ stack[t] # << >> /\ Len(stack[t]) = 1 /\ f = stack[t][1]
         /\ Shuts(t) <=> at # "lock"
<1>1. TypeOK /\ Stacks
  BY DEF LockInv
<1>2. /\ f \in Frame /\ f.fn = "shutdown" /\ f.at = at /\ Shaped(f)
      /\ stack[t] # << >> /\ Len(stack[t]) = 1 /\ f = stack[t][1]
  BY <1>1, TopFacts DEF Outermost
<1>3. /\ f.chans \in SUBSET Channels /\ f.conns \in SUBSET Handlers
      /\ f.all \in BOOLEAN /\ f.ch \in Channels \cup {Nobody}
  BY <1>2, FrameFields
<1>4. at \in {"stop", "closing"} => f.o \in Objects
  BY <1>2 DEF Shaped
<1>5. Shuts(t) <=> at # "lock"
  BY <1>2 DEF Shuts
<1> QED
  BY <1>2, <1>3, <1>4, <1>5

(* It returns, having released Relay.mu if it held it. *)
LEMMA ShutdownReturn ==
  ASSUME LockInv, NEW t \in Threads, NEW at, In(t, "shutdown", at), Return(t),
         UNCHANGED roomMu, at \in {"lock", "loop"},
         IF at = "lock" THEN UNCHANGED <<rooms, relayMu>> ELSE relayMu' = Nobody
  PROVE  /\ stack' \in [Threads -> Seq(Frame)]
         /\ Stacks' /\ Relaying' /\ \A o \in Objects : Locked(o)'
<1> USE SessionAssumption
<1>0. TypeOK /\ Stacks /\ Relaying /\ \A o \in Objects : Locked(o)
  BY DEF LockInv
<1>1. PICK f : f = Top(t)
  OBVIOUS
<1>2. /\ f.fn = "shutdown" /\ f.at = at /\ f = stack[t][1] /\ stack[t] # << >>
      /\ Len(stack[t]) = 1 /\ (Shuts(t) <=> at # "lock")
  BY <1>1, ShutdownTop
<1>3. PICK n \in Nat, len \in Nat : n = 1 /\ len = 0
  OBVIOUS
<1>4. n = Len(stack[t]) /\ len = n - 1
  BY <1>2, <1>3
<1>5. Replaced(t, n, len, f, f)
  BY <1>0, <1>2, <1>4, Returned DEF TypeOK
<1>6. ~(len >= n) /\ len # n + 1 /\ n > 0 /\ len < n
  BY <1>3
<1>7. Stacks'
  BY <1>0, <1>5, <1>6, StacksKept
<1>8. ~Holder(stack[t][n])
  BY <1>2, <1>3 DEF Holder
<1>9. \A o \in Objects : Locked(o)'
  BY <1>0, <1>5, <1>6, <1>8, LocksKept
<1>10. stack' \in [Threads -> Seq(Frame)] /\ Len(stack'[t]) = 0
  BY <1>3, <1>5 DEF Replaced
<1>11. stack'[t] = << >>
  <2>1. PICK q \in Seq(Frame) : q = stack'[t]
    BY <1>10
  <2> QED
    BY <1>10, <2>1, EmptySeq
<1>12. ~Shuts(t)'
  BY <1>11 DEF Shuts
<1>13. ASSUME NEW u \in Threads, u # t
       PROVE  (Shuts(u)' <=> Shuts(u)) /\ stack'[u] = stack[u]
  BY <1>5, <1>13 DEF Replaced, Shuts
<1>14. CASE at = "lock"
  <2>1. ~Shuts(t) /\ rooms' = rooms /\ relayMu' = relayMu
    BY <1>2, <1>14
  <2>2. Relaying'
    BY <1>0, <1>12, <1>13, <2>1 DEF Relaying
  <2> QED
    BY <1>7, <1>9, <1>10, <2>2
<1>15. CASE at = "loop"
  <2>1. Shuts(t) /\ relayMu' = Nobody
    BY <1>2, <1>15
  <2>2. relayMu = t
    BY <1>0, <2>1 DEF Relaying
  <2>3. ASSUME NEW u \in Threads PROVE ~Shuts(u)' /\ relayMu' # u
    BY <1>0, <1>12, <1>13, <2>1, <2>2 DEF Relaying
  <2>4. Relaying'
    BY <2>3 DEF Relaying
  <2> QED
    BY <1>7, <1>9, <1>10, <2>4
<1> QED
  BY <1>14, <1>15

(* DeleteRoom, Relay.Close and Room.Close. *)
LEMMA ShutdownStep ==
  ASSUME LockInv, NEW t \in Threads,
         \/ ShutdownLock(t) \/ ShutdownNext(t) \/ ShutdownRoomLock(t)
         \/ ShutdownRoom(t)
  PROVE  LockInv'
<1> USE SessionAssumption
<1>0. TypeOK /\ Stacks /\ Relaying /\ \A o \in Objects : Locked(o)
  BY DEF LockInv
<1>a. {"loop", "stop", "closing"} \subseteq Places
  BY DEF Places
<1>b. PICK f : f = Top(t)
  OBVIOUS
<1>c. PICK n \in Nat : n = 1
  OBVIOUS
<1>d. n > 0 /\ n >= n /\ n # n + 1 /\ ~(n < n)
  BY <1>c
<1>e. ASSUME NEW at, In(t, "shutdown", at), NEW g \in Frame, Goto(t, g)
      PROVE  Replaced(t, n, n, g, g)
  <2>1. stack[t] # << >> /\ Len(stack[t]) = n
    BY <1>b, <1>c, <1>e, ShutdownTop
  <2>2. stack \in [Threads -> Seq(Frame)]
    BY <1>0 DEF TypeOK
  <2>3. Replaced(t, Len(stack[t]), Len(stack[t]), g, g)
    BY <1>e, <2>1, <2>2, Went
  <2> QED
    BY <2>1, <2>3
<1>1. CASE ShutdownLock(t)
  <2>0. In(t, "shutdown", "lock")
    BY <1>1 DEF ShutdownLock
  <2>1. /\ f \in Frame /\ f.fn = "shutdown" /\ f.at = "lock"
        /\ f.chans \in SUBSET Channels /\ f.all \in BOOLEAN
        /\ f = stack[t][1] /\ ~Shuts(t)
    BY <1>b, <2>0, ShutdownTop
  <2>2. relayMu = Nobody /\ UNCHANGED <<rooms, roomMu>>
    BY <1>1 DEF ShutdownLock, RelayFree
  <2>3. CASE Return(t) /\ UNCHANGED <<relayMu, running>>
    <3>1. /\ stack' \in [Threads -> Seq(Frame)]
          /\ Stacks' /\ Relaying' /\ \A p \in Objects : Locked(p)'
      BY <2>0, <2>2, <2>3, ShutdownReturn
    <3> QED
      BY <1>0, <1>1, <2>3, <3>1 DEF ShutdownLock, table, LockInv, TypeOK
  <2>4. CASE ~(Return(t) /\ UNCHANGED <<relayMu, running>>)
    <3>1. PICK chans : chans = {ch \in f.chans : rooms[ch] # 0}
      OBVIOUS
    <3>2. chans \in SUBSET Channels /\ \A ch \in chans : rooms[ch] # 0
      BY <2>1, <3>1
    <3>3. PICK k : k = [f EXCEPT !.at = "loop"]
      OBVIOUS
    <3>4. k \in Frame /\ k.fn = "shutdown" /\ k.at = "loop"
      BY <1>a, <2>1, <3>3, FrameAt
    <3>5. PICK g : g = [k EXCEPT !.chans = chans]
      OBVIOUS
    <3>6. g \in Frame /\ g.fn = "shutdown" /\ g.at = "loop" /\ g.chans = chans
      BY <3>2, <3>4, <3>5, FrameChans
    <3>7. /\ relayMu' = t /\ running' = (running /\ ~f.all)
          /\ Goto(t, g)
      BY <1>1, <1>b, <2>4, <3>1, <3>3, <3>5 DEF ShutdownLock, At
    <3>8. Replaced(t, n, n, g, g)
      BY <1>e, <2>0, <3>6, <3>7
    <3>9. Shaped(g) /\ ~Holder(g) /\ ~Holder(stack[t][n])
      BY <1>c, <2>1, <3>6 DEF Shaped, Holder
    <3>10. Stacks'
      BY <1>0, <1>c, <1>d, <3>8, <3>9, StacksKept
    <3>11. \A p \in Objects : Locked(p)'
      BY <1>0, <1>d, <2>2, <3>8, <3>9, LocksKept
    <3>12. stack' \in [Threads -> Seq(Frame)] /\ Len(stack'[t]) = 1
           /\ stack'[t][1] = g
      BY <1>c, <3>8 DEF Replaced
    <3>13. Shuts(t)' /\ \A ch \in stack'[t][1].chans : rooms'[ch] # 0
      <4>a. Len(stack'[t]) = 1
        BY <3>12
      <4>b. Len(<< >>) # 1
        OBVIOUS
      <4>1. stack'[t] # << >>
        BY <4>a, <4>b
      <4> QED
        BY <2>2, <3>2, <3>6, <3>12, <4>1 DEF Shuts
    <3>14. ASSUME NEW u \in Threads, u # t PROVE ~Shuts(u)' /\ relayMu' # u
      <4>1. ~Shuts(u)
        BY <1>0, <2>2 DEF Relaying
      <4>2. stack'[u] = stack[u]
        BY <3>8, <3>14 DEF Replaced
      <4> QED
        BY <3>7, <3>14, <4>1, <4>2 DEF Shuts
    <3>15. Relaying'
      BY <3>7, <3>13, <3>14 DEF Relaying
    <3>16. running' \in BOOLEAN /\ relayMu' \in Threads \cup {Nobody}
      BY <3>7
    <3> QED
      BY <1>0, <1>1, <3>10, <3>11, <3>12, <3>15, <3>16
         DEF ShutdownLock, table, LockInv, TypeOK
  <2> QED
    BY <2>3, <2>4
<1>2. CASE ShutdownNext(t)
  <2>0. In(t, "shutdown", "loop")
    BY <1>2 DEF ShutdownNext
  <2>1. /\ f \in Frame /\ f.fn = "shutdown" /\ f.at = "loop"
        /\ f.chans \in SUBSET Channels /\ f = stack[t][1] /\ Shuts(t)
    BY <1>b, <2>0, ShutdownTop
  <2>2. UNCHANGED roomMu
    BY <1>2 DEF ShutdownNext
  <2>3. CASE Return(t) /\ relayMu' = Nobody /\ rooms' \in [Channels -> 0 .. MaxRooms]
    <3>1. /\ stack' \in [Threads -> Seq(Frame)]
          /\ Stacks' /\ Relaying' /\ \A p \in Objects : Locked(p)'
      BY <2>0, <2>2, <2>3, ShutdownReturn
    <3> QED
      BY <1>0, <1>2, <2>3, <3>1 DEF ShutdownNext, table, LockInv, TypeOK
  <2>4. ASSUME NEW ch \in f.chans,
               Goto(t, [At(t, "stop") EXCEPT !.ch = ch, !.o = rooms[ch],
                                             !.chans = @ \ {ch}]),
               UNCHANGED <<rooms, relayMu>>
        PROVE  LockInv'
    <3>1. ch \in Channels /\ rooms[ch] # 0 /\ rooms[ch] \in 0 .. MaxRooms
      BY <1>0, <2>1, <2>4 DEF Relaying, TypeOK
    <3>2. PICK o \in 0 .. MaxRooms : o = rooms[ch]
      BY <3>1
    <3>3. o \in Objects
      BY <3>1, <3>2 DEF Objects
    <3>a. f.chans \ {ch} \in SUBSET Channels
      BY <2>1
    <3>4. PICK rest \in SUBSET Channels : rest = f.chans \ {ch}
      BY <3>a
    <3>5. rest \subseteq f.chans
      BY <3>4
    <3>6. PICK k : k = [f EXCEPT !.at = "stop"]
      OBVIOUS
    <3>7. k \in Frame /\ k.fn = "shutdown" /\ k.at = "stop" /\ k.chans = f.chans
      BY <1>a, <2>1, <3>6, FrameAt
    <3>8. PICK g : g = [k EXCEPT !.ch = ch, !.o = o, !.chans = rest]
      OBVIOUS
    <3>9. /\ g \in Frame /\ g.fn = "shutdown" /\ g.at = "stop" /\ g.o = o
          /\ g.chans = rest
      <4>1. ch \in Channels
        BY <3>1
      <4> QED
        <5>a. k \in Frame /\ ch \in Channels /\ rest \in SUBSET Channels
          BY <3>4, <3>7, <4>1
        <5>1. /\ g \in Frame /\ g.fn = k.fn /\ g.at = k.at /\ g.o = o
              /\ g.chans = rest
          BY <3>8, <5>a DEF Frame
        <5> QED
          BY <3>7, <5>1
    <3>10. Goto(t, g)
      BY <1>b, <2>4, <3>2, <3>4, <3>6, <3>7, <3>8 DEF At
    <3>11. Replaced(t, n, n, g, g)
      BY <1>e, <2>0, <3>9, <3>10
    <3>12. Shaped(g) /\ ~Holder(g) /\ ~Holder(stack[t][n])
      BY <1>c, <2>1, <3>3, <3>9 DEF Shaped, Holder
    <3>13. Stacks' /\ Relaying'
      BY <1>c, <1>d, <2>1, <2>4, <3>5, <3>9, <3>11, <3>12, Moves
    <3>14. \A p \in Objects : Locked(p)'
      BY <1>0, <1>d, <2>2, <3>11, <3>12, LocksKept
    <3>15. stack' \in [Threads -> Seq(Frame)]
      BY <3>11 DEF Replaced
    <3> QED
      BY <1>0, <1>2, <2>4, <3>13, <3>14, <3>15
         DEF ShutdownNext, table, LockInv, TypeOK
  <2>5. \/ \E ch \in f.chans :
             /\ Goto(t, [At(t, "stop") EXCEPT !.ch = ch, !.o = rooms[ch],
                                              !.chans = @ \ {ch}])
             /\ UNCHANGED <<rooms, relayMu>>
        \/ /\ rooms' = [ch \in Channels |->
                          IF f.all \/ ch = f.ch THEN 0 ELSE rooms[ch]]
           /\ relayMu' = Nobody
           /\ Return(t)
    BY <1>2, <1>b DEF ShutdownNext
  <2>6. ASSUME rooms' = [ch \in Channels |->
                           IF f.all \/ ch = f.ch THEN 0 ELSE rooms[ch]]
        PROVE  rooms' \in [Channels -> 0 .. MaxRooms]
    BY <1>0, <2>6 DEF TypeOK
  <2> QED
    BY <2>3, <2>4, <2>5, <2>6
<1>3. CASE ShutdownRoomLock(t)
  <2>0. In(t, "shutdown", "stop")
    BY <1>3 DEF ShutdownRoomLock
  <2>1. /\ f \in Frame /\ f.fn = "shutdown" /\ f.at = "stop" /\ f.o \in Objects
    BY <1>b, <2>0, ShutdownTop
  <2>2. /\ RoomFree(f.o) /\ roomMu' = [roomMu EXCEPT ![f.o] = t]
        /\ UNCHANGED <<rooms, relayMu>>
    BY <1>3, <1>b DEF ShutdownRoomLock, maps
  <2>3. {subscribers[f.o][u] : u \in Members(f.o)} \in SUBSET Handlers
    BY <1>0, <2>1 DEF TypeOK, Members
  <2>4. PICK conns \in SUBSET Handlers :
          conns = {subscribers[f.o][u] : u \in Members(f.o)}
    BY <2>3
  <2>5. PICK k : k = [f EXCEPT !.at = "closing"]
    OBVIOUS
  <2>6. /\ k \in Frame /\ k.fn = "shutdown" /\ k.at = "closing" /\ k.o = f.o
        /\ k.chans = f.chans
    BY <1>a, <2>1, <2>5, FrameAt
  <2>7. PICK g : g = [k EXCEPT !.conns = conns]
    OBVIOUS
  <2>8. /\ g \in Frame /\ g.fn = "shutdown" /\ g.at = "closing" /\ g.o = f.o
        /\ g.chans = f.chans
    <3>1. k \in Frame /\ conns \in SUBSET Handlers
      BY <2>4, <2>6
    <3>2. /\ g \in Frame /\ g.fn = k.fn /\ g.at = k.at /\ g.o = k.o
          /\ g.chans = k.chans
      BY <2>7, <3>1, FrameConns
    <3> QED
      BY <2>6, <3>2
  <2>9. Goto(t, g)
    BY <1>3, <1>b, <2>4, <2>5, <2>7 DEF ShutdownRoomLock, At
  <2>10. Shaped(g) /\ Holder(g) /\ ~Holder(f)
    BY <2>1, <2>8 DEF Shaped, Holder
  <2>11. /\ stack' \in [Threads -> Seq(Frame)]
         /\ Stacks' /\ Relaying' /\ \A p \in Objects : Locked(p)'
    <3>1. Replaced(t, n, n, g, g)
      BY <1>e, <2>0, <2>8, <2>9
    <3>2. f = stack[t][1]
      BY <1>b, <2>0, ShutdownTop
    <3>3. f = stack[t][n] /\ f.at # "lock" /\ g.at # "lock" /\ g.fn = f.fn
          /\ g.chans \subseteq f.chans
      BY <1>c, <2>1, <2>8, <3>2
    <3>4. Stacks' /\ Relaying'
      BY <1>d, <2>2, <2>10, <3>1, <3>3, Moves
    <3>5. /\ ~Holder(stack[t][n]) /\ g.o \in Objects /\ RoomFree(g.o)
          /\ roomMu' = [roomMu EXCEPT ![g.o] = t]
      BY <2>1, <2>2, <2>8, <2>10, <3>3
    <3>6. \A p \in Objects : Locked(p)'
      BY <1>0, <1>d, <2>10, <3>1, <3>5, LockTaken
    <3> QED
      BY <3>1, <3>4, <3>6 DEF Replaced
  <2>12. roomMu' \in [Objects -> Threads \cup {Nobody}]
    BY <1>0, <2>1, <2>2 DEF TypeOK
  <2> QED
    BY <1>0, <1>3, <2>11, <2>12 DEF ShutdownRoomLock, maps, table, LockInv, TypeOK
<1>4. CASE ShutdownRoom(t)
  <2>0. In(t, "shutdown", "closing")
    BY <1>4 DEF ShutdownRoom
  <2>1. /\ f \in Frame /\ f.fn = "shutdown" /\ f.at = "closing" /\ f.o \in Objects
        /\ f.conns \in SUBSET Handlers /\ f = stack[t][1] /\ stack[t] # << >>
        /\ Len(stack[t]) = 1
    BY <1>b, <2>0, ShutdownTop
  <2>2. UNCHANGED <<rooms, relayMu>> /\ Holder(f)
    BY <1>4, <2>1 DEF ShutdownRoom, Holder
  <2>3. ASSUME NEW h \in f.conns, UNCHANGED <<subscribers, roomMu>>,
               stack' = [stack EXCEPT ![t] =
                 Below(t) \o <<[f EXCEPT !.conns = @ \ {h}], CloseFrame(h)>>]
        PROVE  LockInv'
    <3>0. f.conns \ {h} \in SUBSET Handlers /\ h \in Handlers
      BY <2>1, <2>3
    <3>1. PICK rest \in SUBSET Handlers : rest = f.conns \ {h}
      BY <3>0
    <3>2. h \in Handlers
      BY <3>0
    <3>3. PICK g : g = [f EXCEPT !.conns = rest]
      OBVIOUS
    <3>4. /\ g \in Frame /\ g.fn = "shutdown" /\ g.at = "closing" /\ g.o = f.o
          /\ g.chans = f.chans
      <4>1. f \in Frame /\ rest \in SUBSET Handlers
        BY <2>1, <3>1
      <4>2. /\ g \in Frame /\ g.fn = f.fn /\ g.at = f.at /\ g.o = f.o
            /\ g.chans = f.chans
        BY <3>3, <4>1, FrameConns
      <4> QED
        BY <2>1, <4>2
    <3>5. PICK e : e = CloseFrame(h)
      OBVIOUS
    <3>6. e \in Frame /\ e.fn = "close" /\ e.at = "swap" /\ e.h = h
      BY <3>2, <3>5, CloseFrameType
    <3>7. stack' = [stack EXCEPT ![t] = Below(t) \o <<g, e>>]
      BY <2>3, <3>1, <3>3, <3>5
    <3>8. PICK len \in Nat : len = n + 1
      BY <1>c
    <3>9. Replaced(t, Len(stack[t]), Len(stack[t]) + 1, g, e)
      BY <1>0, <2>1, <3>4, <3>6, <3>7, Called DEF TypeOK
    <3>10. Replaced(t, n, len, g, e)
      BY <1>c, <2>1, <3>8, <3>9
    <3>11. /\ Shaped(g) /\ Holder(g) /\ Shaped(e) /\ ~Holder(e)
           /\ e.fn \notin Outermost /\ Holder(stack[t][n])
           /\ g.o = stack[t][n].o
      BY <1>c, <2>1, <2>2, <3>2, <3>4, <3>6 DEF Shaped, Holder, Outermost
    <3>12. len >= n /\ ~(len < n)
      BY <3>8
    <3>13. Stacks' /\ Relaying'
      BY <1>c, <1>d, <2>1, <2>2, <3>4, <3>10, <3>11, <3>12, Moves
    <3>14. \A p \in Objects : Locked(p)'
      BY <1>0, <2>3, <3>10, <3>11, <3>12, LocksKept
    <3>15. stack' \in [Threads -> Seq(Frame)]
      BY <3>10 DEF Replaced
    <3> QED
      BY <1>0, <1>4, <2>3, <3>13, <3>14, <3>15
         DEF ShutdownRoom, table, LockInv, TypeOK
  <2>4. ASSUME subscribers' = [subscribers EXCEPT ![f.o] = [u \in Users |-> Nobody]],
               roomMu' = [roomMu EXCEPT ![f.o] = Nobody],
               Goto(t, At(t, "loop"))
        PROVE  LockInv'
    <3>1. PICK g : g = [f EXCEPT !.at = "loop"]
      OBVIOUS
    <3>2. /\ g \in Frame /\ g.fn = "shutdown" /\ g.at = "loop"
          /\ g.chans = f.chans
      BY <1>a, <2>1, <3>1, FrameAt
    <3>3. Goto(t, g)
      BY <1>b, <2>4, <3>1 DEF At
    <3>4. Shaped(g) /\ ~Holder(g)
      BY <3>2 DEF Shaped, Holder
    <3>5. /\ stack' \in [Threads -> Seq(Frame)]
          /\ Stacks' /\ Relaying' /\ \A p \in Objects : Locked(p)'
      BY <1>b, <2>0, <2>1, <2>2, <2>4, <3>2, <3>3, <3>4, ReleaseGoto
    <3>6. roomMu' \in [Objects -> Threads \cup {Nobody}]
      BY <1>0, <2>1, <2>4 DEF TypeOK
    <3>7. subscribers' \in [Objects -> [Users -> Handlers \cup {Nobody}]]
      BY <1>0, <2>1, <2>4 DEF TypeOK
    <3> QED
      BY <1>0, <1>4, <3>5, <3>6, <3>7 DEF ShutdownRoom, table, LockInv, TypeOK
  <2>5. \/ \E h \in f.conns :
             /\ stack' = [stack EXCEPT ![t] =
                  Below(t) \o <<[f EXCEPT !.conns = @ \ {h}], CloseFrame(h)>>]
             /\ UNCHANGED <<subscribers, roomMu>>
        \/ /\ subscribers' = [subscribers EXCEPT ![f.o] = [u \in Users |-> Nobody]]
           /\ roomMu' = [roomMu EXCEPT ![f.o] = Nobody]
           /\ Goto(t, At(t, "loop"))
    BY <1>4, <1>b DEF ShutdownRoom
  <2> QED
    BY <2>3, <2>4, <2>5
<1> QED
  BY <1>1, <1>2, <1>3, <1>4

(* No goroutine is in a function, and no lock is held. *)
LEMMA LockInit == Init => LockInv
<1> SUFFICES ASSUME Init PROVE LockInv
  OBVIOUS
<1> USE SessionAssumption
<1>1. TypeOK
  <2>1. rooms \in [Channels -> 0 .. MaxRooms] /\ created \in 0 .. MaxRooms
    BY DEF Init
  <2>2. /\ roomMu \in [Objects -> Threads \cup {Nobody}]
        /\ relayMu \in Threads \cup {Nobody}
        /\ subscribers \in [Objects -> [Users -> Handlers \cup {Nobody}]]
    BY DEF Init
  <2>3. /\ subscriptions \in [Handlers -> SUBSET Channels]
        /\ closed \in [Handlers -> BOOLEAN] /\ gone \in [Handlers -> BOOLEAN]
        /\ stray \in [Handlers -> BOOLEAN] /\ crowded \in [Objects -> BOOLEAN]
        /\ running \in BOOLEAN /\ userID \in [Handlers -> Users]
    BY DEF Init
  <2>4. stack \in [Threads -> Seq(Frame)]
    <3>1. << >> \in Seq(Frame)
      OBVIOUS
    <3> QED
      BY <3>1 DEF Init
  <2>5. budget \in [commands : Nat, shutdowns : Nat]
    BY DEF Init
  <2> QED
    BY <2>1, <2>2, <2>3, <2>4, <2>5 DEF TypeOK
<1>2. \A t \in Threads : stack[t] = << >> /\ DOMAIN stack[t] = {}
  BY DEF Init
<1>3. Stacks
  BY <1>2 DEF Stacks
<1>4. Relaying
  BY <1>2 DEF Relaying, Shuts, Init
<1>5. \A o \in Objects : Locked(o)
  BY <1>2 DEF Locked, Holds, Init
<1> QED
  BY <1>1, <1>3, <1>4, <1>5 DEF LockInv

(* Every step keeps the invariant. *)
LEMMA LockNext == LockInv /\ [Next]_vars => LockInv'
<1> SUFFICES ASSUME LockInv, [Next]_vars PROVE LockInv'
  OBVIOUS
<1>1. CASE UNCHANGED vars
  <2>1. UNCHANGED <<rooms, created, running, relayMu, roomMu, subscribers,
                    subscriptions, closed, gone, userID, stray, crowded, stack,
                    budget>>
    BY <1>1 DEF vars
  <2>2. TypeOK' /\ Stacks' /\ Relaying'
    BY <2>1 DEF LockInv, TypeOK, Stacks, Shaped, Relaying, Shuts
  <2>3. \A o \in Objects : Locked(o)'
    BY <2>1 DEF LockInv, Locked, Holds, Holder
  <2> QED
    BY <2>2, <2>3 DEF LockInv
<1>2. CASE Next
  <2>1. ASSUME NEW t \in Threads, Step(t) PROVE LockInv'
    <3>1. \/ \/ SubscribeGet(t) \/ SubscribeCreate(t) \/ SubscribeCheck(t)
             \/ SubscribeLock(t) \/ SubscribeSet(t) \/ SubscribeStore(t)
          \/ \/ UnsubscribeDelete(t) \/ UnsubscribeEnd(t) \/ RelayUnsubscribeGet(t)
             \/ RelayUnsubscribeLock(t) \/ RelayUnsubscribeDelete(t)
          \/ CloseSwap(t) \/ CloseCopy(t) \/ CloseLoop(t)
          \/ \/ ShutdownLock(t) \/ ShutdownNext(t) \/ ShutdownRoomLock(t)
             \/ ShutdownRoom(t)
      BY <2>1 DEF Step
    <3> QED
      BY <3>1, SubscribeStep, UnsubscribeStep, CloseStep, ShutdownStep
  <2>2. \/ \E t \in Threads : Step(t)
        \/ \/ \E h \in Handlers, ch \in Channels :
                SubscribeCommand(h, ch) \/ UnsubscribeCommand(h, ch)
           \/ \E h \in Handlers, u \in NewNames : Connect(h, u)
           \/ \E h \in Handlers : PingTimeout(h)
           \/ \E a \in Apps : RelayClose(a)
                                \/ \E ch \in Channels : DeleteRoom(a, ch)
    BY <1>2 DEF Next
  <2> QED
    BY <2>1, <2>2, BeginStep
<1> QED
  BY <1>1, <1>2

(* The inductive invariant. *)
LEMMA Locking == Spec => []LockInv
BY LockInit, LockNext, PTL DEF Spec

(* The maps of the relay and of its rooms, and the frames of every          *)
(* goroutine, keep their types.                                             *)
THEOREM TypeCorrect == Spec => []TypeOK
<1>1. LockInv => TypeOK
  BY DEF LockInv
<1> QED
  BY <1>1, Locking, PTL

(* Relay.mu and the mutexes of the rooms are held only by a goroutine that  *)
(* is in a function which releases them, for any number of handlers,        *)
(* channels and application goroutines: no early return of handleSubscribe, *)
(* Relay.Unsubscribe, DeleteRoom or Relay.Close leaves a lock behind.       *)
THEOREM LocksReleased == Spec => []LocksAreScoped
<1>1. ASSUME LockInv PROVE LocksAreScoped
  <2>0. TypeOK /\ Relaying /\ \A o \in Objects : Locked(o)
    BY <1>1 DEF LockInv
  <2>1. ASSUME relayMu # Nobody
        PROVE  \E i \in DOMAIN stack[relayMu] :
                 stack[relayMu][i].fn = "shutdown" /\ stack[relayMu][i].at # "lock"
    <3>1. PICK t \in Threads : t = relayMu
      BY <2>0, <2>1 DEF TypeOK
    <3>2. /\ stack[t] # << >> /\ stack[t][1].fn = "shutdown"
          /\ stack[t][1].at # "lock"
      BY <2>0, <3>1 DEF Relaying, Shuts
    <3>3. stack[t] \in Seq(Frame)
      BY <2>0 DEF TypeOK
    <3>4. 1 \in DOMAIN stack[t]
      BY <3>2, <3>3
    <3> QED
      BY <3>1, <3>2, <3>4
  <2>2. ASSUME NEW o \in Objects, roomMu[o] # Nobody
        PROVE  \E i \in DOMAIN stack[roomMu[o]] :
                 /\ stack[roomMu[o]][i].o = o
                 /\ stack[roomMu[o]][i].at \in {"set", "delete", "closing"}
    <3>1. PICK i \in Nat : Holds(roomMu[o], i, o)
      BY <2>0, <2>2 DEF Locked
    <3> QED
      BY <3>1 DEF Holds, Holder
  <2> QED
    BY <2>1, <2>2 DEF LocksAreScoped
<1>2. LockInv => LocksAreScoped
  BY <1>1
<1> QED
  BY <1>2, Locking, PTL

-----------------------------------------------------------------------------
(* The limit on the subscribers of a room *)

(* The goroutine t has counted the subscribers of o and not yet entered. *)
Pending(t, o) == /\ stack[t] # << >>
                 /\ stack[t][1].fn = "subscribe" /\ stack[t][1].o = o
                 /\ stack[t][1].at \in {"lock", "set"}

(* handleSubscribe calls a function that takes steps of its own only while  *)
(* it holds Room.mu.                                                        *)
Entry == \A t \in Threads :
  Len(stack[t]) > 1 /\ stack[t][1].fn = "subscribe" => stack[t][1].at = "set"

(* Unless two goroutines were between the count and the entry, one at most  *)
(* is, and there is room for it.                                            *)
Occupancy(o) ==
  /\ IsFiniteSet(Members(o))
  /\ MaxSubscribers > 0 /\ ~crowded[o] =>
       /\ Cardinality(Members(o)) <= MaxSubscribers
       /\ \A t \in Threads : Pending(t, o) =>
            /\ Cardinality(Members(o)) < MaxSubscribers
            /\ \A u \in Threads : Pending(u, o) => u = t

CrowdInv == LockInv /\ Entry /\ \A o \in Objects : Occupancy(o)

(* A step of t brings nobody between the count and the entry. *)
Settled == Entry' /\ \A t \in Threads, o \in Objects : Pending(t, o)' => Pending(t, o)

(* What a step of t does to the outermost frame of its stack. *)
LEMMA Bottom ==
  ASSUME stack \in [Threads -> Seq(Frame)], NEW t \in Threads, stack[t] # << >>,
         NEW g, NEW e,
         \/ Return(t) \/ Goto(t, g)
         \/ stack' = [stack EXCEPT ![t] = Below(t) \o <<g, e>>]
  PROVE  /\ \A u \in Threads \ {t} : stack'[u] = stack[u]
         /\ Len(stack[t]) > 1 => stack'[t] # << >> /\ stack'[t][1] = stack[t][1]
         /\ Len(stack[t]) = 1 => stack'[t] = << >> \/ stack'[t][1] = g
         /\ Len(stack[t]) = 1 /\ Goto(t, g) => Len(stack'[t]) = 1
<1>1. PICK q \in Seq(Frame), n \in Nat : q = stack[t] /\ n = Len(q) /\ n > 0
  OBVIOUS
<1>2. PICK s : s = SubSeq(q, 1, n - 1)
  OBVIOUS
<1>3. /\ s \in Seq(Frame) /\ Len(s) = n - 1
      /\ \A i \in 1 .. n - 1 : s[i] = q[i]
  BY <1>1, <1>2
<1>4. Below(t) = s
  BY <1>1, <1>2 DEF Below
<1>5. \A u \in Threads \ {t} : stack'[u] = stack[u]
  BY DEF Return, Goto
<1>6. n = 1 => s = << >>
  BY <1>3, EmptySeq
<1>7. n > 1 => s # << >> /\ s[1] = q[1] /\ Len(s) >= 1
  BY <1>1, <1>3
<1>a. Len(stack[t]) = 1 /\ Goto(t, g) => Len(stack'[t]) = 1
  <2>1. ASSUME Len(stack[t]) = 1, Goto(t, g) PROVE Len(stack'[t]) = 1
    <3>1. stack'[t] = Append(s, g) /\ s = << >>
      BY <1>1, <1>4, <1>6, <2>1 DEF Goto
    <3> QED
      BY <3>1
  <2> QED
    BY <2>1
<1>8. CASE Return(t)
  <2>1. stack'[t] = s
    BY <1>4, <1>8 DEF Return
  <2> QED
    BY <1>1, <1>5, <1>6, <1>7, <1>a, <2>1
<1>9. CASE Goto(t, g)
  <2>1. PICK w : w = Append(s, g)
    OBVIOUS
  <2>2. stack'[t] = w
    BY <1>4, <1>9, <2>1 DEF Goto
  <2>3. CASE n = 1
    <3>1. w = <<g>>
      BY <1>6, <2>1, <2>3
    <3> QED
      BY <1>1, <1>5, <2>2, <2>3, <3>1
  <2>4. CASE n > 1
    <3>1. PICK S : S = Frame \cup {g}
      OBVIOUS
    <3>2. s \in Seq(S) /\ g \in S
      BY <1>3, <3>1
    <3>3. w \in Seq(S) /\ Len(w) = n /\ w[1] = s[1]
      BY <1>1, <1>3, <2>1, <2>4, <3>2
    <3>4. w # << >>
      BY <2>4, <3>3
    <3>a. n # 1
      BY <2>4
    <3>5. Len(stack[t]) # 1
      BY <1>1, <3>a
    <3>6. stack'[t] # << >> /\ stack'[t][1] = stack[t][1]
      BY <1>1, <1>7, <2>2, <2>4, <3>3, <3>4
    <3> QED
      BY <1>5, <3>5, <3>6
  <2> QED
    BY <1>1, <2>3, <2>4
<1>10. CASE stack' = [stack EXCEPT ![t] = Below(t) \o <<g, e>>]
  <2>1. PICK d, w : d = <<g, e>> /\ w = s \o d
    OBVIOUS
  <2>2. stack'[t] = w
    BY <1>4, <1>10, <2>1
  <2>3. PICK S : S = Frame \cup {g, e}
    OBVIOUS
  <2>4. s \in Seq(S)
    BY <1>3, <2>3
  <2>5. d \in Seq(S) /\ Len(d) = 2 /\ d[1] = g
    BY <2>1, <2>3
  <2>6. w \in Seq(S) /\ Len(w) = n + 1
    BY <1>1, <1>3, <2>1, <2>4, <2>5
  <2>7. n = 1 => w[1] = g
    <3>1. n = 1 => w = d
      BY <1>6, <2>1, <2>5
    <3> QED
      BY <2>5, <3>1
  <2>8. n > 1 => w[1] = s[1]
    BY <1>1, <1>3, <2>1, <2>4, <2>5
  <2>9. w # << >> /\ Len(w) # 1
    BY <1>1, <2>6
  <2> QED
    BY <1>1, <1>5, <1>7, <1>a, <2>2, <2>7, <2>8, <2>9
<1> QED
  BY <1>8, <1>9, <1>10

(* A step of a function other than handleSubscribe. *)
LEMMA OtherSettled ==
  ASSUME LockInv, Entry, NEW t \in Threads, NEW fn, NEW at, In(t, fn, at),
         fn # "subscribe", NEW g, NEW e, g.fn # "subscribe",
         \/ Return(t) \/ Goto(t, g)
         \/ stack' = [stack EXCEPT ![t] = Below(t) \o <<g, e>>]
  PROVE  Settled
<1>0. TypeOK /\ Stacks
  BY DEF LockInv
<1>1. stack \in [Threads -> Seq(Frame)]
  BY <1>0 DEF TypeOK
<1>2. PICK f \in Frame, n \in Nat \ {0} : f = Top(t) /\ n = Len(stack[t])
  BY <1>0, TopFacts
<1>3. f = stack[t][n] /\ f.fn = fn /\ stack[t] # << >>
  BY <1>0, <1>2, TopFacts
<1>4. /\ \A u \in Threads \ {t} : stack'[u] = stack[u]
      /\ Len(stack[t]) > 1 => stack'[t] # << >> /\ stack'[t][1] = stack[t][1]
      /\ Len(stack[t]) = 1 => stack'[t] = << >> \/ stack'[t][1] = g
  <2>1. stack[t] # << >>
    BY <1>3
  <2>2. CASE Return(t)
    BY <1>1, <2>1, <2>2, Bottom
  <2>3. CASE Goto(t, g)
    BY <1>1, <2>1, <2>3, Bottom
  <2>4. CASE stack' = [stack EXCEPT ![t] = Below(t) \o <<g, e>>]
    BY <1>1, <2>1, <2>4, Bottom
  <2> QED
    BY <2>2, <2>3, <2>4
<1>5. n = 1 \/ n > 1
  <2>1. n \in Nat \ {0}
    OBVIOUS
  <2> QED
    BY <2>1
<1>6. ASSUME NEW u \in Threads, stack'[u] # << >>, stack'[u][1].fn = "subscribe"
      PROVE  /\ stack[u] # << >> /\ stack'[u][1] = stack[u][1]
             /\ Len(stack'[u]) > 1 => Len(stack[u]) > 1
  <2>1. CASE u # t
    BY <1>4, <1>6, <2>1
  <2>2. CASE u = t
    <3>1. n > 1
      BY <1>2, <1>4, <1>5, <1>6, <2>2
    <3> QED
      BY <1>2, <1>3, <1>4, <2>2, <3>1
  <2> QED
    BY <2>1, <2>2
<1>7. ASSUME NEW u \in Threads, NEW o \in Objects, Pending(u, o)'
      PROVE  Pending(u, o)
  BY <1>6, <1>7 DEF Pending
<1>8. ASSUME NEW u \in Threads, Len(stack'[u]) > 1, stack'[u][1].fn = "subscribe"
      PROVE  stack'[u][1].at = "set"
  <2>1. stack'[u] # << >>
    BY <1>8
  <2>2. stack'[u][1] = stack[u][1] /\ Len(stack[u]) > 1
    BY <1>6, <1>8, <2>1
  <2> QED
    BY <1>8, <2>2 DEF Entry
<1> QED
  BY <1>7, <1>8 DEF Settled, Entry

(* A goroutine begins, before any count. *)
LEMMA BeginSettled ==
  ASSUME LockInv, Entry, NEW t \in Threads, NEW e, Begin(t, e),
         e.at \notin {"lock", "set"} \/ e.fn # "subscribe"
  PROVE  Settled
<1>1. stack \in [Threads -> Seq(Frame)]
  BY DEF LockInv, TypeOK
<1>2. stack' = [stack EXCEPT ![t] = <<e>>]
  BY DEF Begin
<1>3. PICK w : w = <<e>>
  OBVIOUS
<1>4. Len(w) = 1 /\ w[1] = e
  BY <1>3
<1>5. stack'[t] = w /\ \A u \in Threads \ {t} : stack'[u] = stack[u]
  BY <1>1, <1>2, <1>3
<1>6. ASSUME NEW u \in Threads, NEW o \in Objects, Pending(u, o)'
      PROVE  Pending(u, o)
  <2>1. CASE u = t
    BY <1>4, <1>5, <1>6, <2>1 DEF Pending
  <2>2. CASE u # t
    BY <1>5, <1>6, <2>2 DEF Pending
  <2> QED
    BY <2>1, <2>2
<1>7. ASSUME NEW u \in Threads, Len(stack'[u]) > 1, stack'[u][1].fn = "subscribe"
      PROVE  stack'[u][1].at = "set"
  <2>0. ~(Len(w) > 1)
    BY <1>4
  <2>1. u # t
    BY <1>5, <1>7, <2>0
  <2> QED
    BY <1>5, <1>7, <2>1 DEF Entry
<1> QED
  BY <1>6, <1>7 DEF Settled, Entry

(* The rooms are kept as they were, or emptied, by a step after which no    *)
(* goroutine has counted that had not before.                               *)
LEMMA OccupancyKept ==
  ASSUME NEW o \in Objects, Occupancy(o), Members(o)' \subseteq Members(o),
         crowded'[o] = crowded[o],
         \A t \in Threads : Pending(t, o)' => Pending(t, o)
  PROVE  Occupancy(o)'
<1> USE SessionAssumption
<1>1. PICK S, T : S = Members(o) /\ T = Members(o)'
  OBVIOUS
<1>2. IsFiniteSet(S) /\ T \in SUBSET S
  BY <1>1 DEF Occupancy
<1>3. IsFiniteSet(T) /\ Cardinality(T) <= Cardinality(S)
  BY <1>2, FS_Subset
<1>4. Cardinality(S) \in Nat /\ Cardinality(T) \in Nat
  BY <1>2, <1>3, FS_CardinalityType
<1>5. ASSUME MaxSubscribers > 0, ~crowded[o]
      PROVE  /\ Cardinality(T) <= MaxSubscribers
             /\ \A t \in Threads : Pending(t, o)' =>
                  /\ Cardinality(T) < MaxSubscribers
                  /\ \A u \in Threads : Pending(u, o)' => u = t
  <2>1. /\ Cardinality(S) <= MaxSubscribers
        /\ \A t \in Threads : Pending(t, o) =>
             /\ Cardinality(S) < MaxSubscribers
             /\ \A u \in Threads : Pending(u, o) => u = t
    BY <1>1, <1>5 DEF Occupancy
  <2>2. Cardinality(T) <= MaxSubscribers
    BY <1>3, <1>4, <2>1
  <2>3. ASSUME NEW t \in Threads, Pending(t, o)'
        PROVE  /\ Cardinality(T) < MaxSubscribers
               /\ \A u \in Threads : Pending(u, o)' => u = t
    <3>1. Pending(t, o) /\ Cardinality(S) < MaxSubscribers
      BY <2>1, <2>3
    <3>2. Cardinality(T) < MaxSubscribers
      BY <1>3, <1>4, <3>1
    <3> QED
      BY <2>1, <3>1, <3>2
  <2> QED
    BY <2>2, <2>3
<1> QED
  BY <1>1, <1>3, <1>5 DEF Occupancy

(* Such a step keeps the limit. *)
LEMMA SettledKept ==
  ASSUME CrowdInv, Settled, UNCHANGED crowded,
         \A o \in Objects : Members(o)' \subseteq Members(o)
  PROVE  Entry' /\ \A o \in Objects : Occupancy(o)'
<1>1. ASSUME NEW o \in Objects PROVE Occupancy(o)'
  <2>1. /\ Occupancy(o) /\ Members(o)' \subseteq Members(o)
        /\ crowded'[o] = crowded[o]
    BY DEF CrowdInv
  <2>2. \A t \in Threads : Pending(t, o)' => Pending(t, o)
    BY DEF Settled
  <2> QED
    BY <2>1, <2>2, OccupancyKept
<1> QED
  BY <1>1 DEF Settled

(* Changes of a frame leave its function. *)
LEMMA SameFunction ==
  ASSUME NEW f \in Frame, NEW x, NEW y, NEW z, NEW v
  PROVE  /\ [f EXCEPT !.at = x].fn = f.fn
         /\ [f EXCEPT !.chans = x].fn = f.fn
         /\ [f EXCEPT !.conns = x].fn = f.fn
         /\ [[f EXCEPT !.at = x] EXCEPT !.o = y].fn = f.fn
         /\ [[f EXCEPT !.at = x] EXCEPT !.chans = y].fn = f.fn
         /\ [[f EXCEPT !.at = x] EXCEPT !.conns = y].fn = f.fn
         /\ [[f EXCEPT !.at = x] EXCEPT !.ch = y, !.o = z, !.chans = v].fn = f.fn
BY DEF Frame

(* The members of a room when one of them leaves. *)
LEMMA LeftMembers ==
  ASSUME TypeOK, NEW p \in Objects, NEW user \in Users,
         subscribers' = [subscribers EXCEPT ![p][user] = Nobody]
  PROVE  \A o \in Objects : Members(o)' \subseteq Members(o)
<1>1. ASSUME NEW o \in Objects, NEW u \in Users, subscribers'[o][u] # Nobody
      PROVE  subscribers[o][u] # Nobody
  BY <1>1 DEF TypeOK
<1> QED
  BY <1>1 DEF Members

(* Relay.Unsubscribe, Close, DeleteRoom and Relay.Close. *)
LEMMA OtherStep ==
  ASSUME CrowdInv, NEW t \in Threads,
         \/ UnsubscribeDelete(t) \/ UnsubscribeEnd(t) \/ RelayUnsubscribeGet(t)
         \/ RelayUnsubscribeLock(t) \/ RelayUnsubscribeDelete(t)
         \/ CloseSwap(t) \/ CloseCopy(t) \/ CloseLoop(t)
         \/ ShutdownLock(t) \/ ShutdownNext(t) \/ ShutdownRoomLock(t)
         \/ ShutdownRoom(t)
  PROVE  Entry' /\ \A o \in Objects : Occupancy(o)'
<1> USE SessionAssumption
<1>0. LockInv /\ Entry /\ TypeOK /\ Stacks
  BY DEF CrowdInv, LockInv
<1>a. PICK f : f = Top(t)
  OBVIOUS
<1>b. ASSUME NEW fn, NEW at, In(t, fn, at)
      PROVE  /\ f \in Frame /\ f.fn = fn
             /\ fn # "shutdown" => f.h \in Handlers
             /\ fn = "relayUnsubscribe" => f.u \in Users
             /\ fn = "relayUnsubscribe" /\ at = "delete" => f.o \in Objects
  BY <1>0, <1>a, <1>b, TopFacts DEF Shaped
<1>c. ASSUME UNCHANGED subscribers
      PROVE  \A o \in Objects : Members(o)' \subseteq Members(o)
  BY <1>c DEF Members
<1>1. CASE UnsubscribeDelete(t)
  <2>1. In(t, "unsubscribe", "delete") /\ UNCHANGED <<subscribers, crowded>>
    BY <1>1 DEF UnsubscribeDelete, maps
  <2>2. PICK g, e : /\ g = [f EXCEPT !.at = "end"]
                    /\ e = UnsubscribeFrame(f.h, f.ch)
    OBVIOUS
  <2>3. g.fn # "subscribe"
    BY <1>b, <2>1, <2>2, SameFunction
  <2>4. \/ Return(t)
        \/ stack' = [stack EXCEPT ![t] = Below(t) \o <<g, e>>]
    BY <1>1, <1>a, <2>2 DEF UnsubscribeDelete, Call, At
  <2>5. Settled
    BY <1>0, <2>1, <2>3, <2>4, OtherSettled
  <2> QED
    BY <1>c, <2>1, <2>5, SettledKept
<1>2. CASE UnsubscribeEnd(t)
  <2>1. /\ In(t, "unsubscribe", "end") /\ UNCHANGED <<subscribers, crowded>>
        /\ Return(t)
    BY <1>2 DEF UnsubscribeEnd, maps, table
  <2>2. f.fn # "subscribe"
    BY <1>b, <2>1
  <2>3. Settled
    BY <1>0, <2>1, <2>2, OtherSettled
  <2> QED
    BY <1>c, <2>1, <2>3, SettledKept
<1>3. CASE RelayUnsubscribeGet(t)
  <2>1. In(t, "relayUnsubscribe", "get") /\ UNCHANGED <<subscribers, crowded>>
    BY <1>3 DEF RelayUnsubscribeGet, maps, table
  <2>2. PICK o : o = rooms[f.ch]
    OBVIOUS
  <2>3. PICK g : g = [[f EXCEPT !.at = "lock"] EXCEPT !.o = o]
    OBVIOUS
  <2>4. g.fn # "subscribe"
    BY <1>b, <2>1, <2>3, SameFunction
  <2>5. Return(t) \/ Goto(t, g)
    BY <1>3, <1>a, <2>2, <2>3 DEF RelayUnsubscribeGet, At
  <2>6. Settled
    BY <1>0, <2>1, <2>4, <2>5, OtherSettled
  <2> QED
    BY <1>c, <2>1, <2>6, SettledKept
<1>4. CASE RelayUnsubscribeLock(t)
  <2>1. In(t, "relayUnsubscribe", "lock") /\ UNCHANGED <<subscribers, crowded>>
    BY <1>4 DEF RelayUnsubscribeLock, maps, table
  <2>2. PICK g, e : /\ g = [f EXCEPT !.at = "delete"]
                    /\ e = CloseFrame(subscribers[f.o][f.u])
    OBVIOUS
  <2>3. g.fn # "subscribe"
    BY <1>b, <2>1, <2>2, SameFunction
  <2>4. \/ Return(t)
        \/ stack' = [stack EXCEPT ![t] = Below(t) \o <<g, e>>]
    BY <1>4, <1>a, <2>2 DEF RelayUnsubscribeLock, Call, At
  <2>5. Settled
    BY <1>0, <2>1, <2>3, <2>4, OtherSettled
  <2> QED
    BY <1>c, <2>1, <2>5, SettledKept
<1>5. CASE RelayUnsubscribeDelete(t)
  <2>1. /\ In(t, "relayUnsubscribe", "delete") /\ UNCHANGED crowded /\ Return(t)
        /\ subscribers' = [subscribers EXCEPT ![f.o][f.u] = Nobody]
    BY <1>5, <1>a DEF RelayUnsubscribeDelete, table
  <2>2. f.fn # "subscribe" /\ f.o \in Objects /\ f.h \in Handlers
    BY <1>b, <2>1
  <2>3. Settled
    BY <1>0, <2>1, <2>2, OtherSettled
  <2>4. f.u \in Users
    BY <1>b, <2>1
  <2>5. \A o \in Objects : Members(o)' \subseteq Members(o)
    BY <1>0, <2>1, <2>2, <2>4, LeftMembers
  <2> QED
    BY <2>1, <2>3, <2>5, SettledKept
<1>6. CASE CloseSwap(t)
  <2>1. In(t, "close", "swap") /\ UNCHANGED <<subscribers, crowded>>
    BY <1>6 DEF CloseSwap, maps
  <2>2. PICK g : g = [f EXCEPT !.at = "copy"]
    OBVIOUS
  <2>3. g.fn # "subscribe"
    BY <1>b, <2>1, <2>2, SameFunction
  <2>4. Return(t) \/ Goto(t, g)
    BY <1>6, <1>a, <2>2 DEF CloseSwap, At
  <2>5. Settled
    BY <1>0, <2>1, <2>3, <2>4, OtherSettled
  <2> QED
    BY <1>c, <2>1, <2>5, SettledKept
<1>7. CASE CloseCopy(t)
  <2>1. In(t, "close", "copy") /\ UNCHANGED <<subscribers, crowded>>
    BY <1>7 DEF CloseCopy, maps
  <2>2. PICK chans : chans = subscriptions[f.h]
    OBVIOUS
  <2>3. PICK g : g = [[f EXCEPT !.at = "loop"] EXCEPT !.chans = chans]
    OBVIOUS
  <2>4. g.fn # "subscribe"
    BY <1>b, <2>1, <2>3, SameFunction
  <2>5. Goto(t, g)
    BY <1>7, <1>a, <2>2, <2>3 DEF CloseCopy, At
  <2>6. Settled
    BY <1>0, <2>1, <2>4, <2>5, OtherSettled
  <2> QED
    BY <1>c, <2>1, <2>6, SettledKept
<1>8. CASE CloseLoop(t)
  <2>1. In(t, "close", "loop") /\ UNCHANGED <<subscribers, crowded>>
    BY <1>8 DEF CloseLoop, maps
  <2>2. PICK g, e : /\ g.fn # "subscribe"
                    /\ \/ Return(t)
                       \/ stack' = [stack EXCEPT ![t] = Below(t) \o <<g, e>>]
    <3>1. CASE Return(t)
      <4>1. f.fn # "subscribe"
        BY <1>b, <2>1
      <4> QED
        BY <3>1, <4>1
    <3>2. CASE ~Return(t)
      <4>1. PICK ch \in f.chans :
              stack' = [stack EXCEPT ![t] =
                Below(t) \o <<[f EXCEPT !.chans = @ \ {ch}],
                              UnsubscribeFrame(f.h, ch)>>]
        BY <1>8, <1>a, <3>2 DEF CloseLoop
      <4>2. PICK rest : rest = f.chans \ {ch}
        OBVIOUS
      <4>3. PICK g, e : /\ g = [f EXCEPT !.chans = rest]
                        /\ e = UnsubscribeFrame(f.h, ch)
        OBVIOUS
      <4>4. g.fn # "subscribe"
        BY <1>b, <2>1, <4>3, SameFunction
      <4>5. stack' = [stack EXCEPT ![t] = Below(t) \o <<g, e>>]
        BY <4>1, <4>2, <4>3
      <4> QED
        BY <4>4, <4>5
    <3> QED
      BY <3>1, <3>2
  <2>3. Settled
    BY <1>0, <2>1, <2>2, OtherSettled
  <2> QED
    BY <1>c, <2>1, <2>3, SettledKept
<1>9. CASE ShutdownLock(t)
  <2>1. In(t, "shutdown", "lock") /\ UNCHANGED <<subscribers, crowded>>
    BY <1>9 DEF ShutdownLock, table
  <2>2. PICK chans : chans = {ch \in f.chans : rooms[ch] # 0}
    OBVIOUS
  <2>3. PICK g : g = [[f EXCEPT !.at = "loop"] EXCEPT !.chans = chans]
    OBVIOUS
  <2>4. g.fn # "subscribe"
    BY <1>b, <2>1, <2>3, SameFunction
  <2>5. Return(t) \/ Goto(t, g)
    BY <1>9, <1>a, <2>2, <2>3 DEF ShutdownLock, At
  <2>6. Settled
    BY <1>0, <2>1, <2>4, <2>5, OtherSettled
  <2> QED
    BY <1>c, <2>1, <2>6, SettledKept
<1>10. CASE ShutdownNext(t)
  <2>1. In(t, "shutdown", "loop") /\ UNCHANGED <<subscribers, crowded>>
    BY <1>10 DEF ShutdownNext, table
  <2>2. PICK g : g.fn # "subscribe" /\ (Return(t) \/ Goto(t, g))
    <3>1. CASE Return(t)
      <4>1. f.fn # "subscribe"
        BY <1>b, <2>1
      <4> QED
        BY <3>1, <4>1
    <3>2. CASE ~Return(t)
      <4>1. PICK ch \in f.chans :
              Goto(t, [At(t, "stop") EXCEPT !.ch = ch, !.o = rooms[ch],
                                            !.chans = @ \ {ch}])
        BY <1>10, <1>a, <3>2 DEF ShutdownNext
      <4>2. PICK o, rest : o = rooms[ch] /\ rest = f.chans \ {ch}
        OBVIOUS
      <4>3. PICK g : g = [[f EXCEPT !.at = "stop"]
                            EXCEPT !.ch = ch, !.o = o, !.chans = rest]
        OBVIOUS
      <4>4. g.fn # "subscribe"
        BY <1>b, <2>1, <4>3, SameFunction
      <4>5. [f EXCEPT !.at = "stop"].chans = f.chans
        BY <1>b, <2>1 DEF Frame
      <4>6. Goto(t, g)
        BY <1>a, <4>1, <4>2, <4>3, <4>5 DEF At
      <4> QED
        BY <4>4, <4>6
    <3> QED
      BY <3>1, <3>2
  <2>3. Settled
    BY <1>0, <2>1, <2>2, OtherSettled
  <2> QED
    BY <1>c, <2>1, <2>3, SettledKept
<1>11. CASE ShutdownRoomLock(t)
  <2>1. In(t, "shutdown", "stop") /\ UNCHANGED <<subscribers, crowded>>
    BY <1>11 DEF ShutdownRoomLock, maps, table
  <2>2. PICK conns : conns = {subscribers[f.o][u] : u \in Members(f.o)}
    OBVIOUS
  <2>3. PICK g : g = [[f EXCEPT !.at = "closing"] EXCEPT !.conns = conns]
    OBVIOUS
  <2>4. g.fn # "subscribe"
    BY <1>b, <2>1, <2>3, SameFunction
  <2>5. Goto(t, g)
    BY <1>11, <1>a, <2>2, <2>3 DEF ShutdownRoomLock, At
  <2>6. Settled
    BY <1>0, <2>1, <2>4, <2>5, OtherSettled
  <2> QED
    BY <1>c, <2>1, <2>6, SettledKept
<1>12. CASE ShutdownRoom(t)
  <2>1. In(t, "shutdown", "closing") /\ UNCHANGED crowded
    BY <1>12 DEF ShutdownRoom, table
  <2>2. CASE UNCHANGED subscribers /\ ~Goto(t, At(t, "loop"))
    <3>1. PICK h \in f.conns :
            stack' = [stack EXCEPT ![t] =
              Below(t) \o <<[f EXCEPT !.conns = @ \ {h}], CloseFrame(h)>>]
      BY <1>12, <1>a, <2>2 DEF ShutdownRoom
    <3>2. PICK rest : rest = f.conns \ {h}
      OBVIOUS
    <3>3. PICK g, e : g = [f EXCEPT !.conns = rest] /\ e = CloseFrame(h)
      OBVIOUS
    <3>4. g.fn # "subscribe"
      BY <1>b, <2>1, <3>3, SameFunction
    <3>5. stack' = [stack EXCEPT ![t] = Below(t) \o <<g, e>>]
      BY <3>1, <3>2, <3>3
    <3>6. Settled
      BY <1>0, <2>1, <3>4, <3>5, OtherSettled
    <3> QED
      BY <1>c, <2>1, <2>2, <3>6, SettledKept
  <2>3. CASE Goto(t, At(t, "loop"))
    <3>1. PICK g : g = [f EXCEPT !.at = "loop"]
      OBVIOUS
    <3>2. g.fn # "subscribe"
      BY <1>b, <2>1, <3>1, SameFunction
    <3>3. Goto(t, g)
      BY <1>a, <2>3, <3>1 DEF At
    <3>4. Settled
      BY <1>0, <2>1, <3>2, <3>3, OtherSettled
    <3>5. \/ UNCHANGED subscribers
          \/ subscribers' = [subscribers EXCEPT ![f.o] = [u \in Users |-> Nobody]]
      BY <1>12, <1>a DEF ShutdownRoom
    <3>6. \A o \in Objects : Members(o)' \subseteq Members(o)
      <4>1. ASSUME NEW o \in Objects, NEW u \in Users, subscribers'[o][u] # Nobody
            PROVE  subscribers[o][u] # Nobody
        <5>1. PICK b \in [Objects -> [Users -> Handlers \cup {Nobody}]] :
                b = subscribers
          BY <1>0 DEF TypeOK
        <5>2. CASE subscribers' = [b EXCEPT ![f.o] = [v \in Users |-> Nobody]]
          BY <4>1, <5>1, <5>2
        <5> QED
          BY <3>5, <4>1, <5>1, <5>2
      <4> QED
        BY <4>1 DEF Members
    <3> QED
      BY <2>1, <3>4, <3>6, SettledKept
  <2>4. \/ Goto(t, At(t, "loop")) \/ UNCHANGED subscribers
    BY <1>12 DEF ShutdownRoom
  <2> QED
    BY <2>2, <2>3, <2>4
<1> QED
  BY <1>1, <1>2, <1>3, <1>4, <1>5, <1>6, <1>7, <1>8, <1>9, <1>10, <1>11, <1>12

(* A step of handleSubscribe, seen from its frame. *)
LEMMA SubscribeBottom ==
  ASSUME LockInv, Entry, NEW t \in Threads, NEW at, In(t, "subscribe", at),
         NEW f, f = Top(t), NEW g, NEW e,
         \/ Return(t) \/ Goto(t, g)
         \/ g.at = "set" /\ stack' = [stack EXCEPT ![t] = Below(t) \o <<g, e>>]
  PROVE  /\ f \in Frame /\ f.at = at /\ f.fn = "subscribe" /\ f.h \in Handlers
         /\ at \in {"check", "lock", "set"} => f.o \in Objects
         /\ stack[t] # << >> /\ stack[t][1] = f
         /\ \A u \in Threads \ {t} : stack'[u] = stack[u]
         /\ stack'[t] = << >> \/ stack'[t][1] = g
         /\ Entry'
<1>0. TypeOK /\ Stacks
  BY DEF LockInv
<1>1. /\ f \in Frame /\ f.at = at /\ f.fn = "subscribe" /\ Shaped(f)
      /\ stack[t] # << >> /\ Len(stack[t]) = 1 /\ f = stack[t][1]
  BY <1>0, TopFacts DEF Outermost
<1>2. f.h \in Handlers /\ (at \in {"check", "lock", "set"} => f.o \in Objects)
  BY <1>1 DEF Shaped
<1>3. stack \in [Threads -> Seq(Frame)] /\ stack[t] # << >>
  BY <1>0, <1>1 DEF TypeOK
<1>4. /\ \A u \in Threads \ {t} : stack'[u] = stack[u]
      /\ Len(stack[t]) = 1 => stack'[t] = << >> \/ stack'[t][1] = g
      /\ Len(stack[t]) = 1 /\ Goto(t, g) => Len(stack'[t]) = 1
  BY <1>3, Bottom
<1>5. ASSUME NEW u \in Threads, Len(stack'[u]) > 1, stack'[u][1].fn = "subscribe"
      PROVE  stack'[u][1].at = "set"
  <2>1. CASE u # t
    BY <1>4, <1>5, <2>1 DEF Entry
  <2>2. CASE u = t
    <3>1. stack'[t] # << >>
      BY <1>5, <2>2
    <3>2. stack'[t][1] = g
      BY <1>1, <1>4, <3>1
    <3>3. CASE Return(t)
      <4>1. PICK q \in Seq(Frame) : q = stack[t]
        BY <1>3
      <4>2. PICK s : s = SubSeq(q, 1, 1 - 1)
        OBVIOUS
      <4>3. s \in Seq(Frame) /\ Len(s) = 0
        BY <1>1, <4>1, <4>2
      <4>4. stack'[t] = s
        BY <1>1, <1>3, <3>3, <4>1, <4>2 DEF Return, Below
      <4> QED
        BY <1>5, <2>2, <4>3, <4>4
    <3>4. CASE Goto(t, g)
      <4>1. Len(stack'[t]) = 1
        BY <1>1, <1>4, <3>4
      <4>2. ~(1 > 1)
        OBVIOUS
      <4> QED
        BY <1>5, <2>2, <4>1, <4>2
    <3>5. CASE g.at = "set"
      BY <2>2, <3>2, <3>5
    <3> QED
      BY <3>3, <3>4, <3>5
  <2> QED
    BY <2>1, <2>2
<1>6. Entry'
  BY <1>5 DEF Entry
<1> QED
  BY <1>1, <1>2, <1>4, <1>6

(* One that does not pass the count. *)
LEMMA SubscribeSettled ==
  ASSUME LockInv, Entry, NEW t \in Threads, NEW at, In(t, "subscribe", at),
         NEW f, f = Top(t), NEW g, NEW e,
         \/ Return(t) \/ Goto(t, g)
         \/ g.at = "set" /\ stack' = [stack EXCEPT ![t] = Below(t) \o <<g, e>>],
         g.at \in {"lock", "set"} => at \in {"lock", "set"} /\ g.o = f.o
  PROVE  Settled
<1>1. /\ f.at = at /\ f.fn = "subscribe" /\ stack[t] # << >> /\ stack[t][1] = f
      /\ \A u \in Threads \ {t} : stack'[u] = stack[u]
      /\ stack'[t] = << >> \/ stack'[t][1] = g
      /\ Entry'
  BY SubscribeBottom
<1>2. ASSUME NEW u \in Threads, NEW o \in Objects, Pending(u, o)'
      PROVE  Pending(u, o)
  <2>1. CASE u # t
    BY <1>1, <1>2, <2>1 DEF Pending
  <2>2. CASE u = t
    BY <1>1, <1>2, <2>2 DEF Pending
  <2> QED
    BY <2>1, <2>2
<1> QED
  BY <1>1, <1>2 DEF Settled

(* The count: nobody else is between the count and the entry, for whoever   *)
(* waits for Room.mu would be counted as Admitted and whoever has called    *)
(* Close holds Room.mu.                                                     *)
LEMMA CheckStep ==
  ASSUME CrowdInv, NEW t \in Threads, SubscribeCheck(t)
  PROVE  Entry' /\ \A o \in Objects : Occupancy(o)'
<1> USE SessionAssumption
<1>0. LockInv /\ Entry /\ TypeOK /\ \A o \in Objects : Locked(o) /\ Occupancy(o)
  BY DEF CrowdInv, LockInv
<1>1. PICK f, g : f = Top(t) /\ g = [f EXCEPT !.at = "lock"]
  OBVIOUS
<1>2. In(t, "subscribe", "check") /\ RoomFree(f.o) /\ UNCHANGED subscribers
  BY <1>1 DEF SubscribeCheck, Admit, maps
<1>3. PICK full \in BOOLEAN :
        full <=> MaxSubscribers > 0 /\ Cardinality(Members(f.o)) >= MaxSubscribers
  OBVIOUS
<1>4. /\ IF full THEN Return(t) ELSE Goto(t, g)
      /\ crowded' = [crowded EXCEPT ![f.o] =
           crowded[f.o] \/ (MaxSubscribers > 0 /\ ~full /\ Admitted(f.o) # {})]
  BY <1>1, <1>3 DEF SubscribeCheck, Admit, At
<1>5. /\ f \in Frame /\ f.at = "check" /\ f.fn = "subscribe" /\ f.o \in Objects
      /\ stack[t] # << >> /\ stack[t][1] = f
      /\ \A u \in Threads \ {t} : stack'[u] = stack[u]
      /\ stack'[t] = << >> \/ stack'[t][1] = g
      /\ Entry'
  <2>1. LockInv /\ Entry /\ In(t, "subscribe", "check") /\ f = Top(t)
    BY <1>0, <1>1, <1>2
  <2>2. \/ Return(t) \/ Goto(t, g)
        \/ g.at = "set" /\ stack' = [stack EXCEPT ![t] = Below(t) \o <<g, g>>]
    BY <1>4
  <2>3. /\ f \in Frame /\ f.at = "check" /\ f.fn = "subscribe" /\ f.h \in Handlers
        /\ "check" \in {"check", "lock", "set"} => f.o \in Objects
        /\ stack[t] # << >> /\ stack[t][1] = f
        /\ \A u \in Threads \ {t} : stack'[u] = stack[u]
        /\ stack'[t] = << >> \/ stack'[t][1] = g
        /\ Entry'
    BY <2>1, <2>2, SubscribeBottom
  <2> QED
    BY <2>3
<1>6. g.fn = "subscribe" /\ g.at = "lock" /\ g.o = f.o
  BY <1>1, <1>5 DEF Frame
<1>7. PICK p \in Objects : p = f.o
  BY <1>5
<1>8. \A o \in Objects : Members(o)' = Members(o)
  BY <1>2 DEF Members
<1>9. ASSUME NEW o \in Objects, o # p PROVE Occupancy(o)'
  <2>1. Members(o)' \subseteq Members(o) /\ crowded'[o] = crowded[o]
    BY <1>0, <1>4, <1>7, <1>8, <1>9 DEF TypeOK
  <2>2. ASSUME NEW u \in Threads, Pending(u, o)' PROVE Pending(u, o)
    <3>1. u # t
      BY <1>5, <1>6, <1>7, <1>9, <2>2 DEF Pending
    <3> QED
      BY <1>5, <2>2, <3>1 DEF Pending
  <2> QED
    BY <1>0, <2>1, <2>2, OccupancyKept
<1>10. CASE full
  <2>1. Settled
    <3>1. Return(t)
      BY <1>4, <1>10
    <3>2. f.at \in {"lock", "set"} => "check" \in {"lock", "set"} /\ f.o = f.o
      BY <1>5
    <3> QED
      BY <1>0, <1>1, <1>2, <3>1, <3>2, SubscribeSettled
  <2>2. crowded' = crowded
    BY <1>0, <1>4, <1>7, <1>10 DEF TypeOK
  <2> QED
    BY <1>8, <2>1, <2>2, SettledKept
<1>11. CASE ~full
  <2>1. PICK S : S = Members(p)
    OBVIOUS
  <2>2. Members(p)' = S /\ IsFiniteSet(S) /\ Cardinality(S) \in Nat
    BY <1>0, <1>8, <2>1, FS_CardinalityType DEF Occupancy
  <2>3. MaxSubscribers > 0 => Cardinality(S) < MaxSubscribers
    BY <1>3, <1>7, <1>11, <2>1, <2>2
  <2>4. ASSUME MaxSubscribers > 0, ~crowded'[p], NEW u \in Threads, Pending(u, p)'
        PROVE  u = t
    <3>1. Admitted(p) = {}
      BY <1>0, <1>4, <1>7, <1>11, <2>4 DEF TypeOK
    <3>2. SUFFICES ASSUME u # t PROVE FALSE
      OBVIOUS
    <3>3. stack'[u] = stack[u] /\ stack[u] \in Seq(Frame)
      BY <1>0, <1>5, <3>2 DEF TypeOK
    <3>4. Pending(u, p)
      BY <2>4, <3>3 DEF Pending
    <3>5. PICK q \in Seq(Frame), n \in Nat : q = stack[u] /\ n = Len(q) /\ n > 0
      BY <3>3, <3>4 DEF Pending
    <3>6. CASE n = 1
      <4>1. Top(u) = stack[u][1]
        BY <3>5, <3>6 DEF Top
      <4>2. u \in Admitted(p)
        BY <3>4, <4>1 DEF Pending, Admitted, In
      <4> QED
        BY <3>1, <4>2
    <3>7. CASE n > 1
      <4>1. stack[u][1].fn = "subscribe" /\ stack[u][1].o = p
        BY <3>4 DEF Pending
      <4>2. Len(stack[u]) > 1
        BY <3>5, <3>7
      <4>3. stack[u][1].at = "set"
        BY <1>0, <4>1, <4>2 DEF Entry
      <4>4. 1 \in DOMAIN stack[u]
        BY <3>5
      <4>5. Holds(u, 1, p)
        BY <4>1, <4>3, <4>4 DEF Holds, Holder
      <4>6. roomMu[p] = u
        <5>1. Locked(p) /\ 1 \in Nat
          BY <1>0
        <5> QED
          BY <4>5, <5>1 DEF Locked
      <4> QED
        BY <1>2, <1>7, <4>6 DEF RoomFree
    <3>8. n = 1 \/ n > 1
      <4>1. n \in Nat /\ n > 0
        BY <3>5
      <4> QED
        BY <4>1
    <3> QED
      BY <3>6, <3>7, <3>8
  <2>5. Occupancy(p)'
    <3>1. MaxSubscribers > 0 => Cardinality(S) <= MaxSubscribers
      BY <2>2, <2>3
    <3> QED
      BY <2>2, <2>3, <2>4, <3>1 DEF Occupancy
  <2> QED
    BY <1>5, <1>9, <2>5
<1> QED
  BY <1>10, <1>11

(* The entry: the goroutine is the only one that had counted. *)
LEMMA SetStep ==
  ASSUME CrowdInv, NEW t \in Threads, SubscribeSet(t)
  PROVE  Entry' /\ \A o \in Objects : Occupancy(o)'
<1> USE SessionAssumption
<1>0. LockInv /\ Entry /\ TypeOK /\ \A o \in Objects : Occupancy(o)
  BY DEF CrowdInv, LockInv
<1>1. PICK f, g : f = Top(t) /\ g = [f EXCEPT !.at = "store"]
  OBVIOUS
<1>2. /\ In(t, "subscribe", "set") /\ UNCHANGED crowded /\ Goto(t, g)
      /\ subscribers' = [subscribers EXCEPT ![f.o][userID[f.h]] = f.h]
  BY <1>1 DEF SubscribeSet, table, At
<1>3. /\ f \in Frame /\ f.at = "set" /\ f.fn = "subscribe" /\ f.o \in Objects
      /\ f.h \in Handlers /\ stack[t] # << >> /\ stack[t][1] = f
      /\ \A u \in Threads \ {t} : stack'[u] = stack[u]
      /\ stack'[t] = << >> \/ stack'[t][1] = g
      /\ Entry'
  <2>1. LockInv /\ Entry /\ In(t, "subscribe", "set") /\ f = Top(t)
    BY <1>0, <1>1, <1>2
  <2>2. \/ Return(t) \/ Goto(t, g)
        \/ g.at = "set" /\ stack' = [stack EXCEPT ![t] = Below(t) \o <<g, g>>]
    BY <1>2
  <2>3. /\ f \in Frame /\ f.at = "set" /\ f.fn = "subscribe" /\ f.h \in Handlers
        /\ "set" \in {"check", "lock", "set"} => f.o \in Objects
        /\ stack[t] # << >> /\ stack[t][1] = f
        /\ \A u \in Threads \ {t} : stack'[u] = stack[u]
        /\ stack'[t] = << >> \/ stack'[t][1] = g
        /\ Entry'
    BY <2>1, <2>2, SubscribeBottom
  <2> QED
    BY <2>3
<1>4. g.at = "store"
  BY <1>1, <1>3 DEF Frame
<1>5. PICK p \in Objects, user \in Users : p = f.o /\ user = userID[f.h]
  BY <1>0, <1>3 DEF LockInv, TypeOK
<1>6. subscribers' = [subscribers EXCEPT ![p][user] = f.h]
  BY <1>2, <1>5
<1>7. ASSUME NEW u \in Threads, NEW o \in Objects, Pending(u, o)'
      PROVE  Pending(u, o) /\ u # t
  <2>1. u # t
    BY <1>3, <1>4, <1>7 DEF Pending
  <2> QED
    BY <1>3, <1>7, <2>1 DEF Pending
<1>8. ASSUME NEW o \in Objects, o # p PROVE Occupancy(o)'
  <2>1. subscribers'[o] = subscribers[o]
    BY <1>0, <1>6, <1>8 DEF TypeOK
  <2>2. Members(o)' \subseteq Members(o) /\ crowded'[o] = crowded[o]
    BY <1>2, <2>1 DEF Members
  <2> QED
    BY <1>0, <1>7, <2>2, OccupancyKept
<1>9. Occupancy(p)'
  <2>1. PICK S, T : S = Members(p) /\ T = Members(p)'
    OBVIOUS
  <2>2. IsFiniteSet(S)
    BY <1>0, <2>1 DEF Occupancy
  <2>3. PICK U : U = S \cup {user}
    OBVIOUS
  <2>4. /\ IsFiniteSet(U)
        /\ Cardinality(U) = IF user \in S THEN Cardinality(S) ELSE Cardinality(S) + 1
    BY <2>2, <2>3, FS_AddElement
  <2>5. T \in SUBSET U
    <3>1. ASSUME NEW u \in Users, subscribers'[p][u] # Nobody, u # user
          PROVE  subscribers[p][u] # Nobody
      BY <1>0, <1>6, <3>1 DEF TypeOK
    <3> QED
      BY <2>1, <2>3, <3>1 DEF Members
  <2>6. IsFiniteSet(T) /\ Cardinality(T) <= Cardinality(U)
    BY <2>4, <2>5, FS_Subset
  <2>7. Cardinality(S) \in Nat /\ Cardinality(T) \in Nat /\ Cardinality(U) \in Nat
    BY <2>2, <2>4, <2>6, FS_CardinalityType
  <2>8. Pending(t, p)
    BY <1>3, <1>5 DEF Pending
  <2>9. ASSUME MaxSubscribers > 0, ~crowded'[p]
        PROVE  /\ Cardinality(T) <= MaxSubscribers
               /\ \A u \in Threads : ~Pending(u, p)'
    <3>1. ~crowded[p]
      BY <1>2, <2>9
    <3>2. /\ Cardinality(S) < MaxSubscribers
          /\ \A u \in Threads : Pending(u, p) => u = t
      BY <1>0, <2>1, <2>8, <2>9, <3>1 DEF Occupancy
    <3>3. Cardinality(T) <= MaxSubscribers
      BY <2>4, <2>6, <2>7, <3>2
    <3> QED
      BY <1>7, <3>2, <3>3
  <2> QED
    BY <2>1, <2>6, <2>9 DEF Occupancy
<1> QED
  BY <1>3, <1>8, <1>9

(* The other steps of handleSubscribe. *)
LEMMA RestStep ==
  ASSUME CrowdInv, NEW t \in Threads,
         \/ SubscribeGet(t) \/ SubscribeCreate(t) \/ SubscribeLock(t)
         \/ SubscribeStore(t)
  PROVE  Entry' /\ \A o \in Objects : Occupancy(o)'
<1> USE SessionAssumption
<1>0. LockInv /\ Entry /\ TypeOK /\ Stacks
  BY DEF CrowdInv, LockInv
<1>a. PICK f : f = Top(t)
  OBVIOUS
<1>b. ASSUME NEW at, In(t, "subscribe", at) PROVE f \in Frame /\ f.at = at
  BY <1>0, <1>a, <1>b, TopFacts
<1>c. ASSUME UNCHANGED subscribers
      PROVE  \A o \in Objects : Members(o)' \subseteq Members(o)
  BY <1>c DEF Members
<1>1. CASE SubscribeGet(t)
  <2>1. In(t, "subscribe", "get") /\ UNCHANGED <<subscribers, crowded>>
    BY <1>1 DEF SubscribeGet, maps, table
  <2>2. PICK o, c, k : /\ o = rooms[f.ch] /\ c = [f EXCEPT !.at = "create"]
                       /\ k = [[f EXCEPT !.at = "check"] EXCEPT !.o = o]
    OBVIOUS
  <2>3. PICK g : g = IF o = 0 THEN c ELSE k
    OBVIOUS
  <2>4. c.at = "create" /\ k.at = "check"
    BY <1>b, <2>1, <2>2 DEF Frame
  <2>5. g.at \notin {"lock", "set"}
    BY <2>3, <2>4
  <2>6. Goto(t, g)
    BY <1>1, <1>a, <2>2, <2>3 DEF SubscribeGet, At
  <2>7. Settled
    BY <1>0, <1>a, <2>1, <2>5, <2>6, SubscribeSettled
  <2> QED
    BY <1>c, <2>1, <2>7, SettledKept
<1>2. CASE SubscribeCreate(t)
  <2>1. In(t, "subscribe", "create") /\ UNCHANGED <<subscribers, crowded>>
    BY <1>2 DEF SubscribeCreate, table
  <2>2. PICK o, g : /\ o = created + 1
                    /\ g = [[f EXCEPT !.at = "check"] EXCEPT !.o = o]
    OBVIOUS
  <2>3. g.at = "check"
    BY <1>b, <2>1, <2>2 DEF Frame
  <2>4. Return(t) \/ Goto(t, g)
    BY <1>2, <1>a, <2>2 DEF SubscribeCreate, At
  <2>5. g.at \notin {"lock", "set"}
    BY <2>3
  <2>6. Settled
    BY <1>0, <1>a, <2>1, <2>4, <2>5, SubscribeSettled
  <2> QED
    BY <1>c, <2>1, <2>6, SettledKept
<1>3. CASE SubscribeLock(t)
  <2>1. In(t, "subscribe", "lock") /\ UNCHANGED <<subscribers, crowded>>
    BY <1>3 DEF SubscribeLock, maps, table
  <2>2. PICK g, e : /\ g = [f EXCEPT !.at = "set"]
                    /\ e = CloseFrame(subscribers[f.o][userID[f.h]])
    OBVIOUS
  <2>3. g.at = "set" /\ g.o = f.o
    BY <1>b, <2>1, <2>2 DEF Frame
  <2>4. \/ Goto(t, g)
        \/ stack' = [stack EXCEPT ![t] = Below(t) \o <<g, e>>]
    BY <1>3, <1>a, <2>2 DEF SubscribeLock, Call, At
  <2>5. g.at \in {"lock", "set"} => "lock" \in {"lock", "set"} /\ g.o = f.o
    BY <2>3
  <2>6. \/ Return(t) \/ Goto(t, g)
        \/ g.at = "set" /\ stack' = [stack EXCEPT ![t] = Below(t) \o <<g, e>>]
    BY <2>3, <2>4
  <2>7. Settled
    BY <1>0, <1>a, <2>1, <2>5, <2>6, SubscribeSettled
  <2> QED
    BY <1>c, <2>1, <2>7, SettledKept
<1>4. CASE SubscribeStore(t)
  <2>1. /\ In(t, "subscribe", "store") /\ UNCHANGED <<subscribers, crowded>>
        /\ Return(t)
    BY <1>4 DEF SubscribeStore, maps
  <2>2. f.at \notin {"lock", "set"}
    BY <1>b, <2>1
  <2>3. Settled
    BY <1>0, <1>a, <2>1, <2>2, SubscribeSettled
  <2> QED
    BY <1>c, <2>1, <2>3, SettledKept
<1> QED
  BY <1>1, <1>2, <1>3, <1>4

(* Goroutines begin. *)
LEMMA FreshStep ==
  ASSUME CrowdInv,
         \/ \E h \in Handlers, ch \in Channels :
              SubscribeCommand(h, ch) \/ UnsubscribeCommand(h, ch)
         \/ \E h \in Handlers : PingTimeout(h)
         \/ \E a \in Apps : RelayClose(a) \/ \E ch \in Channels : DeleteRoom(a, ch)
  PROVE  Entry' /\ \A o \in Objects : Occupancy(o)'
<1>0. LockInv /\ Entry
  BY DEF CrowdInv
<1>a. /\ \A h \in Handlers : Reader(h) \in Threads /\ Timer(h) \in Threads
      /\ \A a \in Apps : App(a) \in Threads
  BY DEF Threads
<1>b. ASSUME NEW t \in Threads, NEW e, Begin(t, e),
             e.at \notin {"lock", "set"} \/ e.fn # "subscribe",
             UNCHANGED <<subscribers, crowded>>
      PROVE  Entry' /\ \A o \in Objects : Occupancy(o)'
  <2>1. Settled
    BY <1>0, <1>b, BeginSettled
  <2>2. \A o \in Objects : Members(o)' \subseteq Members(o)
    BY <1>b DEF Members
  <2> QED
    BY <1>b, <2>1, <2>2, SettledKept
<1>1. ASSUME NEW h \in Handlers, NEW ch \in Channels, SubscribeCommand(h, ch)
      PROVE  Entry' /\ \A o \in Objects : Occupancy(o)'
  <2>1. PICK e : e = [NewFrame("subscribe", "get") EXCEPT !.h = h, !.ch = ch]
    OBVIOUS
  <2>2. e.at = "get"
    BY <2>1 DEF NewFrame
  <2>3. Begin(Reader(h), e) /\ UNCHANGED <<subscribers, crowded>>
    BY <1>1, <2>1 DEF SubscribeCommand, maps
  <2> QED
    BY <1>a, <1>b, <2>2, <2>3
<1>2. ASSUME NEW h \in Handlers, NEW ch \in Channels, UnsubscribeCommand(h, ch)
      PROVE  Entry' /\ \A o \in Objects : Occupancy(o)'
  <2>1. PICK e : e = [NewFrame("unsubscribe", "delete") EXCEPT !.h = h, !.ch = ch]
    OBVIOUS
  <2>2. e.at = "delete"
    BY <2>1 DEF NewFrame
  <2>3. Begin(Reader(h), e) /\ UNCHANGED <<subscribers, crowded>>
    BY <1>2, <2>1 DEF UnsubscribeCommand, maps, table
  <2> QED
    BY <1>a, <1>b, <2>2, <2>3
<1>3. ASSUME NEW h \in Handlers, PingTimeout(h)
      PROVE  Entry' /\ \A o \in Objects : Occupancy(o)'
  <2>1. PICK e : e = CloseFrame(h)
    OBVIOUS
  <2>2. e.at = "swap"
    BY <2>1, CloseFrameType
  <2>3. Begin(Timer(h), e) /\ UNCHANGED <<subscribers, crowded>>
    BY <1>3, <2>1 DEF PingTimeout, maps, table
  <2> QED
    BY <1>a, <1>b, <2>2, <2>3
<1>4. ASSUME NEW a \in Apps, NEW chans, NEW all, Shutdown(a, chans, all)
      PROVE  Entry' /\ \A o \in Objects : Occupancy(o)'
  <2>1. PICK e : e = [NewFrame("shutdown", "lock") EXCEPT !.chans = chans,
                                                          !.all = all]
    OBVIOUS
  <2>2. e.fn = "shutdown"
    BY <2>1 DEF NewFrame
  <2>3. Begin(App(a), e) /\ UNCHANGED <<subscribers, crowded>>
    BY <1>4, <2>1 DEF Shutdown, maps, table
  <2> QED
    BY <1>a, <1>b, <2>2, <2>3
<1> QED
  BY <1>1, <1>2, <1>3, <1>4 DEF RelayClose, DeleteRoom

(* Every step keeps the limit. *)
LEMMA CrowdNext == CrowdInv /\ [Next]_vars => CrowdInv'
<1> SUFFICES ASSUME CrowdInv, [Next]_vars PROVE CrowdInv'
  OBVIOUS
<1>1. LockInv'
  BY LockNext DEF CrowdInv
<1>2. CASE UNCHANGED <<stack, crowded, subscribers>>
  <2>1. UNCHANGED <<stack, crowded, subscribers>>
    BY <1>2
  <2>2. Entry'
    BY <2>1 DEF CrowdInv, Entry
  <2>3. ASSUME NEW o \in Objects PROVE Occupancy(o)'
    <3>1. /\ Occupancy(o) /\ Members(o)' \subseteq Members(o)
          /\ crowded'[o] = crowded[o]
      BY <2>1 DEF CrowdInv, Members
    <3>2. \A t \in Threads : Pending(t, o)' => Pending(t, o)
      BY <2>1 DEF Pending
    <3> QED
      BY <3>1, <3>2, OccupancyKept
  <2> QED
    BY <1>1, <2>2, <2>3 DEF CrowdInv
<1>3. CASE Next
  <2>1. ASSUME NEW t \in Threads, Step(t)
        PROVE  Entry' /\ \A o \in Objects : Occupancy(o)'
    <3>1. \/ SubscribeCheck(t) \/ SubscribeSet(t)
          \/ \/ SubscribeGet(t) \/ SubscribeCreate(t) \/ SubscribeLock(t)
             \/ SubscribeStore(t)
          \/ \/ UnsubscribeDelete(t) \/ UnsubscribeEnd(t) \/ RelayUnsubscribeGet(t)
             \/ RelayUnsubscribeLock(t) \/ RelayUnsubscribeDelete(t)
             \/ CloseSwap(t) \/ CloseCopy(t) \/ CloseLoop(t)
             \/ ShutdownLock(t) \/ ShutdownNext(t) \/ ShutdownRoomLock(t)
             \/ ShutdownRoom(t)
      BY <2>1 DEF Step
    <3> QED
      BY <3>1, CheckStep, SetStep, RestStep, OtherStep
  <2>2. \/ \E t \in Threads : Step(t)
        \/ \/ \E h \in Handlers, ch \in Channels :
                SubscribeCommand(h, ch) \/ UnsubscribeCommand(h, ch)
           \/ \E h \in Handlers : PingTimeout(h)
           \/ \E a \in Apps : RelayClose(a)
                                \/ \E ch \in Channels : DeleteRoom(a, ch)
        \/ \E h \in Handlers, u \in NewNames : Connect(h, u)
    BY <1>3 DEF Next
  <2>3. ASSUME NEW h \in Handlers, NEW u \in NewNames, Connect(h, u)
        PROVE  UNCHANGED <<stack, crowded, subscribers>>
    BY <2>3 DEF Connect, maps
  <2>4. \/ UNCHANGED <<stack, crowded, subscribers>>
        \/ Entry' /\ \A o \in Objects : Occupancy(o)'
    BY <2>1, <2>2, <2>3, FreshStep
  <2> QED
    BY <1>1, <1>2, <2>4 DEF CrowdInv
<1>4. UNCHANGED vars => UNCHANGED <<stack, crowded, subscribers>>
  BY DEF vars
<1> QED
  BY <1>2, <1>3, <1>4

(* A room has more subscribers than its namespace allows only if two        *)
(* handlers counted them before either had entered (handler.go:326): the    *)
(* gap between the two critical sections of Room.mu is the only way past    *)
(* the limit, whatever the numbers of handlers, users and rooms.            *)
THEOREM LimitKept == Spec => []NotOverfull
<1>1. Init => CrowdInv
  <2> SUFFICES ASSUME Init PROVE CrowdInv
    OBVIOUS
  <2> USE SessionAssumption
  <2>1. LockInv
    BY LockInit
  <2>2. \A t \in Threads : stack[t] = << >> /\ Len(stack[t]) = 0
    BY DEF Init
  <2>3. Entry
    BY <2>2 DEF Entry
  <2>4. ASSUME NEW o \in Objects PROVE Occupancy(o)
    <3>1. Members(o) = {}
      BY DEF Init, Members
    <3>2. IsFiniteSet(Members(o)) /\ Cardinality(Members(o)) = 0
      BY <3>1, FS_EmptySet
    <3>3. \A t \in Threads : ~Pending(t, o)
      BY <2>2 DEF Pending
    <3> QED
      BY <3>2, <3>3 DEF Occupancy
  <2> QED
    BY <2>1, <2>3, <2>4 DEF CrowdInv
<1>2. CrowdInv => NotOverfull
  <2> SUFFICES ASSUME CrowdInv, NEW o \in Objects, MaxSubscribers > 0,
                      Cardinality(Members(o)) > MaxSubscribers, ~crowded[o]
               PROVE  FALSE
    BY DEF NotOverfull
  <2>1. /\ IsFiniteSet(Members(o))
        /\ Cardinality(Members(o)) <= MaxSubscribers
    BY DEF CrowdInv, Occupancy
  <2>2. Cardinality(Members(o)) \in Nat
    BY <2>1, FS_CardinalityType
  <2> QED
    BY <2>1, <2>2, SessionAssumption
<1> QED
  BY <1>1, <1>2, CrowdNext, PTL DEF Spec

-----------------------------------------------------------------------------
(* Who calls whom *)

(* The function in frame c is calling the one in frame f: the methods of    *)
(* Room call Close while they hold Room.mu, and Close and handleUnsubscribe *)
(* call Relay.Unsubscribe.                                                  *)
Calling(c, f) ==
  \/ f.fn = "close" /\ Holder(c)
  \/ /\ f.fn = "relayUnsubscribe" /\ c.h = f.h
     /\ \/ c.fn = "close" /\ c.at = "loop"
        \/ c.fn = "unsubscribe" /\ c.at = "end" /\ c.ch = f.ch

(* The goroutines that may begin with frame f. *)
Starting(t, f) == /\ f.fn # "relayUnsubscribe"
                  /\ f.fn \in {"subscribe", "unsubscribe"} => t = Reader(f.h)

Calls == \A t \in Threads : \A i \in DOMAIN stack[t] :
           /\ i = 1 => Starting(t, stack[t][i])
           /\ i > 1 => Calling(stack[t][i - 1], stack[t][i])

(* Relay.Unsubscribe, in frame f, has the present name of the handler. *)
Naming(f) == f.fn = "relayUnsubscribe" => f.u = userID[f.h]

(* A step of t from frame f, the n-th and last, to g and possibly a call of *)
(* e; a goroutine that begins has no f.                                     *)
Shift(t, n, len, f, g, e) ==
  /\ Replaced(t, n, len, g, e)
  /\ n > 0 => f = stack[t][n] /\ f \in Frame /\ Shaped(f)
  /\ n > 0 /\ len >= n => g.fn = f.fn /\ g.h = f.h /\ g.u = f.u
                            /\ (f.fn # "shutdown" => g.ch = f.ch)
  /\ n > 0 /\ len = n + 1 => Calling(g, e) /\ Naming(e)
  /\ n = 0 => len = 1 /\ Starting(t, e)

(* The frames that a step leaves. *)
LEMMA FrameKept ==
  ASSUME TypeOK, NEW t \in Threads, NEW n, NEW len, NEW g, NEW e,
         Replaced(t, n, len, g, e),
         NEW u \in Threads, NEW i \in DOMAIN stack[u], u # t \/ i # n
  PROVE  i \in DOMAIN stack'[u] /\ stack'[u][i] = stack[u][i]
<1>1. n \in Nat /\ len \in Nat /\ n = Len(stack[t]) /\ len = Len(stack'[t])
      /\ n - 1 <= len
  BY DEF Replaced
<1>2. DOMAIN stack[t] = 1 .. n /\ DOMAIN stack'[t] = 1 .. len
  BY <1>1 DEF TypeOK, Replaced
<1>3. CASE u # t
  BY <1>3 DEF Replaced
<1>4. CASE u = t
  <2>1. i \in 1 .. len /\ i < n
    BY <1>1, <1>2, <1>4
  <2> QED
    BY <1>2, <1>4, <2>1 DEF Replaced
<1> QED
  BY <1>3, <1>4

(* The frames after a step: those it left, g and e. *)
LEMMA FrameCame ==
  ASSUME TypeOK, NEW t \in Threads, NEW n, NEW len, NEW g, NEW e,
         Replaced(t, n, len, g, e),
         NEW u \in Threads, NEW i \in DOMAIN stack'[u]
  PROVE  \/ /\ i \in DOMAIN stack[u] /\ stack'[u][i] = stack[u][i]
            /\ u # t \/ i < n
         \/ u = t /\ i = n /\ n > 0 /\ len >= n /\ stack'[u][i] = g
         \/ u = t /\ i = n + 1 /\ len = n + 1 /\ stack'[u][i] = e
<1>1. n \in Nat /\ len \in Nat /\ n = Len(stack[t]) /\ len = Len(stack'[t])
      /\ len <= n + 1
  BY DEF Replaced
<1>2. DOMAIN stack[t] = 1 .. n /\ DOMAIN stack'[t] = 1 .. len
  BY <1>1 DEF TypeOK, Replaced
<1>3. CASE u # t
  BY <1>3 DEF Replaced
<1>4. CASE u = t
  <2>1. i \in 1 .. len
    BY <1>2, <1>4
  <2>2. stack'[t][i] = IF i < n THEN stack[t][i] ELSE IF i = n THEN g ELSE e
    BY <2>1 DEF Replaced
  <2>3. CASE i < n
    BY <1>1, <1>2, <1>4, <2>1, <2>2, <2>3
  <2>4. CASE i = n
    BY <1>1, <1>4, <2>1, <2>2, <2>4
  <2>5. CASE i > n
    <3>1. i = n + 1 /\ len = n + 1 /\ ~(i < n) /\ i # n
      BY <1>1, <2>1, <2>5
    <3> QED
      BY <1>4, <2>2, <3>1
  <2> QED
    BY <1>1, <2>1, <2>3, <2>4, <2>5
<1> QED
  BY <1>3, <1>4

(* The frames that a step makes. *)
LEMMA FrameMade ==
  ASSUME TypeOK, NEW t \in Threads, NEW n, NEW len, NEW g, NEW e,
         Replaced(t, n, len, g, e)
  PROVE  /\ n \in Nat /\ len \in Nat /\ n - 1 <= len /\ len <= n + 1
         /\ n > 0 => n \in DOMAIN stack[t]
         /\ n > 0 /\ len >= n => n \in DOMAIN stack'[t] /\ stack'[t][n] = g
         /\ len = n + 1 => n + 1 \in DOMAIN stack'[t] /\ stack'[t][n + 1] = e
<1>1. n \in Nat /\ len \in Nat /\ n = Len(stack[t]) /\ len = Len(stack'[t])
      /\ n - 1 <= len /\ len <= n + 1
  BY DEF Replaced
<1>2. DOMAIN stack[t] = 1 .. n /\ DOMAIN stack'[t] = 1 .. len
  BY <1>1 DEF TypeOK, Replaced
<1>3. n > 0 /\ len >= n => n \in 1 .. len /\ stack'[t][n] = g
  BY <1>1 DEF Replaced
<1>4. len = n + 1 => n + 1 \in 1 .. len /\ stack'[t][n + 1] = e
  <2>1. len = n + 1 => n + 1 \in 1 .. len /\ ~(n + 1 < n) /\ n + 1 # n
    BY <1>1
  <2> QED
    BY <2>1 DEF Replaced
<1> QED
  BY <1>1, <1>2, <1>3, <1>4

(* Who calls whom does not change. *)
LEMMA CallsKept ==
  ASSUME TypeOK, Calls, NEW t \in Threads, NEW n, NEW len, NEW f, NEW g, NEW e,
         Shift(t, n, len, f, g, e)
  PROVE  Calls'
<1>0. Replaced(t, n, len, g, e)
  BY DEF Shift
<1>a. n \in Nat /\ len \in Nat /\ (n > 0 => n \in DOMAIN stack[t])
  BY <1>0, FrameMade
<1>b. ASSUME NEW u \in Threads PROVE DOMAIN stack'[u] = 1 .. Len(stack'[u])
                                     /\ Len(stack'[u]) \in Nat
  BY <1>0 DEF Replaced
<1>1. ASSUME NEW u \in Threads, NEW i \in DOMAIN stack'[u]
      PROVE  /\ i = 1 => Starting(u, stack'[u][i])
             /\ i > 1 => Calling(stack'[u][i - 1], stack'[u][i])
  <2>0. i \in Nat /\ i >= 1 /\ (i > 1 => i - 1 \in DOMAIN stack'[u])
    BY <1>b
  <2>1. CASE i \in DOMAIN stack[u] /\ stack'[u][i] = stack[u][i] /\ (u # t \/ i < n)
    <3>1. i = 1 => Starting(u, stack'[u][i])
      BY <2>1 DEF Calls
    <3>2. ASSUME i > 1 PROVE Calling(stack'[u][i - 1], stack'[u][i])
      <4>1. stack'[u][i - 1] = stack[u][i - 1]
        <5>1. CASE u # t
          BY <1>0, <5>1 DEF Replaced
        <5>2. CASE u = t
          <6>1. i - 1 < n /\ i - 1 # n + 1 /\ i - 1 # n /\ i - 1 \in DOMAIN stack'[u]
            BY <1>a, <2>0, <2>1, <3>2, <5>2
          <6> QED
            BY <1>0, <5>2, <6>1, FrameCame
        <5> QED
          BY <5>1, <5>2
      <4> QED
        BY <2>1, <3>2, <4>1 DEF Calls
    <3> QED
      BY <3>1, <3>2
  <2>2. CASE u = t /\ i = n /\ n > 0 /\ len >= n /\ stack'[u][i] = g
    <3>1. /\ f = stack[t][n] /\ g.fn = f.fn /\ g.h = f.h
          /\ f.fn # "shutdown" => g.ch = f.ch
      BY <2>2 DEF Shift
    <3>2. i = 1 => Starting(u, stack'[u][i])
      BY <1>a, <2>2, <3>1 DEF Calls, Starting
    <3>3. ASSUME i > 1 PROVE Calling(stack'[u][i - 1], stack'[u][i])
      <4>1. i - 1 < n /\ i - 1 # n + 1 /\ i - 1 # n /\ i - 1 \in DOMAIN stack'[u]
        BY <1>a, <2>0, <2>2, <3>3
      <4>2. stack'[u][i - 1] = stack[t][i - 1]
        BY <1>0, <2>2, <4>1, FrameCame
      <4>3. Calling(stack[t][i - 1], f)
        BY <1>a, <2>2, <3>1, <3>3 DEF Calls
      <4> QED
        BY <2>2, <3>1, <4>2, <4>3 DEF Calling
    <3> QED
      BY <3>2, <3>3
  <2>3. CASE u = t /\ i = n + 1 /\ len = n + 1 /\ stack'[u][i] = e
    <3>1. CASE n = 0
      <4>1. i = 1 /\ ~(i > 1)
        BY <2>3, <3>1
      <4> QED
        BY <2>3, <3>1, <4>1 DEF Shift
    <3>2. CASE n > 0
      <4>1. len >= n /\ i # 1 /\ i - 1 = n
        BY <1>a, <2>3, <3>2
      <4>2. stack'[u][i - 1] = g
        BY <1>0, <2>3, <3>2, <4>1, FrameMade
      <4> QED
        BY <2>3, <3>2, <4>1, <4>2 DEF Shift
    <3> QED
      BY <1>a, <3>1, <3>2
  <2> QED
    BY <1>0, <2>1, <2>2, <2>3, FrameCame
<1>2. ASSUME NEW u \in Threads, NEW i \in DOMAIN stack'[u]
      PROVE  /\ i = 1 => Starting(u, stack[u][i])'
             /\ i > 1 => Calling(stack[u][i - 1], stack[u][i])'
  BY <1>1 DEF Starting, Calling, Holder, Reader
<1> QED
  BY <1>2 DEF Calls

(* The function on top returns. *)
LEMMA ReturnShift ==
  ASSUME TypeOK, Stacks, NEW t \in Threads, NEW fn, NEW at, In(t, fn, at),
         NEW f, f = Top(t), Return(t)
  PROVE  \E n \in Nat \ {0}, len \in Nat :
           n = Len(stack[t]) /\ len < n /\ Shift(t, n, len, f, f, f)
<1>1. PICK n \in Nat \ {0} : n = Len(stack[t])
  BY TopFacts
<1>2. f \in Frame /\ f = stack[t][n] /\ Shaped(f) /\ stack[t] # << >>
  BY <1>1, TopFacts
<1>3. PICK len \in Nat : len = n - 1
  OBVIOUS
<1>4. Replaced(t, n, len, f, f)
  BY <1>1, <1>2, <1>3, Returned DEF TypeOK
<1>5. len < n /\ ~(len >= n) /\ len # n + 1 /\ n # 0
  BY <1>3
<1>6. Shift(t, n, len, f, f, f)
  BY <1>2, <1>4, <1>5 DEF Shift
<1> QED
  BY <1>1, <1>5, <1>6

(* It goes on with frame g. *)
LEMMA GotoShift ==
  ASSUME TypeOK, Stacks, NEW t \in Threads, NEW fn, NEW at, In(t, fn, at),
         NEW f, f = Top(t), NEW g \in Frame, Goto(t, g),
         g.fn = f.fn /\ g.h = f.h /\ g.u = f.u,
         f.fn # "shutdown" => g.ch = f.ch
  PROVE  \E n \in Nat \ {0} : n = Len(stack[t]) /\ Shift(t, n, n, f, g, g)
<1>1. PICK n \in Nat \ {0} : n = Len(stack[t])
  BY TopFacts
<1>2. f \in Frame /\ f = stack[t][n] /\ Shaped(f) /\ stack[t] # << >>
  BY <1>1, TopFacts
<1>3. Replaced(t, n, n, g, g)
  BY <1>1, <1>2, Went DEF TypeOK
<1>4. n # n + 1 /\ n # 0
  BY <1>1
<1>5. Shift(t, n, n, f, g, g)
  BY <1>2, <1>3, <1>4 DEF Shift
<1> QED
  BY <1>1, <1>5

(* It goes on with frame g and calls a function that begins with e. *)
LEMMA CallShift ==
  ASSUME TypeOK, Stacks, NEW t \in Threads, NEW fn, NEW at, In(t, fn, at),
         NEW f, f = Top(t), NEW g \in Frame, NEW e \in Frame,
         stack' = [stack EXCEPT ![t] = Below(t) \o <<g, e>>],
         g.fn = f.fn /\ g.h = f.h /\ g.u = f.u,
         f.fn # "shutdown" => g.ch = f.ch,
         Calling(g, e), Naming(e)
  PROVE  \E n \in Nat \ {0}, len \in Nat :
           n = Len(stack[t]) /\ len = n + 1 /\ Shift(t, n, len, f, g, e)
<1>1. PICK n \in Nat \ {0} : n = Len(stack[t])
  BY TopFacts
<1>2. f \in Frame /\ f = stack[t][n] /\ Shaped(f) /\ stack[t] # << >>
  BY <1>1, TopFacts
<1>3. PICK len \in Nat : len = n + 1
  OBVIOUS
<1>4. Replaced(t, n, len, g, e)
  BY <1>1, <1>2, <1>3, Called DEF TypeOK
<1>5. n # 0
  BY <1>1
<1>6. Shift(t, n, len, f, g, e)
  BY <1>2, <1>4, <1>5 DEF Shift
<1> QED
  BY <1>1, <1>3, <1>6

(* A goroutine begins. *)
LEMMA BeginShift ==
  ASSUME TypeOK, NEW t \in Threads, NEW e \in Frame, Begin(t, e), Starting(t, e)
  PROVE  Shift(t, 0, 1, e, e, e)
<1>1. Replaced(t, 0, 1, e, e)
  BY Begun DEF TypeOK
<1>2. ~(0 > 0)
  OBVIOUS
<1> QED
  BY <1>1, <1>2 DEF Shift

(* handleSubscribe, before it calls Room.Subscribe. *)
LEMMA SubscribeShifts ==
  ASSUME LockInv, NEW t \in Threads, NEW f, f = Top(t)
  PROVE  /\ SubscribeGet(t) =>
              \E n \in Nat \ {0}, g \in Frame :
                /\ Shift(t, n, n, f, g, g) /\ f.fn = "subscribe" /\ f.at = "get"
                /\ \/ g.at = "create"
                   \/ g.at = "check" /\ g.o # 0 /\ g.o = rooms[f.ch]
         /\ SubscribeCreate(t) /\ UNCHANGED rooms =>
              \E n \in Nat \ {0}, len \in Nat :
                Shift(t, n, len, f, f, f) /\ len < n
                  /\ f.fn = "subscribe" /\ f.at = "create"
         /\ SubscribeCreate(t) /\ rooms' # rooms =>
              \E n \in Nat \ {0}, g \in Frame :
                /\ Shift(t, n, n, f, g, g) /\ f.fn = "subscribe" /\ f.at = "create"
                /\ g.at = "check" /\ g.o = created + 1
         /\ SubscribeCheck(t) =>
              \E n \in Nat \ {0}, len \in Nat, g \in Frame :
                /\ Shift(t, n, len, f, g, g) /\ len <= n
                /\ f.fn = "subscribe" /\ f.at = "check"
                /\ len = n => g.at = "lock" /\ g.o = f.o
<1> USE SessionAssumption
<1>0. TypeOK /\ Stacks
  BY DEF LockInv
<1>a. {"get", "create", "check", "lock"} \subseteq Places
  BY DEF Places
<1>1. ASSUME SubscribeGet(t)
      PROVE  \E n \in Nat \ {0}, g \in Frame :
                /\ Shift(t, n, n, f, g, g) /\ f.fn = "subscribe" /\ f.at = "get"
                /\ \/ g.at = "create"
                   \/ g.at = "check" /\ g.o # 0 /\ g.o = rooms[f.ch]
  <2>1. In(t, "subscribe", "get")
    BY <1>1 DEF SubscribeGet
  <2>2. /\ f \in Frame /\ f.fn = "subscribe" /\ f.at = "get"
        /\ f.ch \in Channels
    BY <1>0, <2>1, TopFacts DEF Shaped
  <2>3. PICK o \in 0 .. MaxRooms : o = rooms[f.ch]
    BY <1>0, <2>2 DEF TypeOK
  <2>4. CASE o = 0
    <3>1. PICK g : g = [f EXCEPT !.at = "create"]
      OBVIOUS
    <3>2. g \in Frame /\ g.fn = f.fn
          /\ g.h = f.h /\ g.u = f.u /\ g.ch = f.ch /\ g.at = "create"
      BY <1>a, <2>2, <3>1, FrameAt
    <3>3. Goto(t, g)
      BY <1>1, <2>3, <2>4, <3>1 DEF SubscribeGet, At
    <3> QED
      BY <1>0, <2>1, <2>2, <3>2, <3>3, GotoShift
  <2>5. CASE o # 0
    <3>1. PICK k : k = [f EXCEPT !.at = "check"]
      OBVIOUS
    <3>2. k \in Frame /\ k.fn = f.fn
          /\ k.h = f.h /\ k.u = f.u /\ k.ch = f.ch /\ k.at = "check"
      BY <1>a, <2>2, <3>1, FrameAt
    <3>a. PICK g : g = [k EXCEPT !.o = o]
      OBVIOUS
    <3>3. /\ g \in Frame /\ g.fn = f.fn
          /\ g.h = f.h /\ g.u = f.u /\ g.ch = f.ch /\ g.at = "check"
          /\ g.o = o
      BY <3>2, <3>a, FrameO
    <3>4. Goto(t, g)
      BY <1>1, <2>3, <2>5, <3>1, <3>a DEF SubscribeGet, At
    <3> QED
      BY <1>0, <2>1, <2>2, <2>3, <2>5, <3>3, <3>4, GotoShift
  <2> QED
    BY <2>4, <2>5
<1>2. ASSUME SubscribeCreate(t), UNCHANGED rooms
      PROVE  \E n \in Nat \ {0}, len \in Nat :
                Shift(t, n, len, f, f, f) /\ len < n
                  /\ f.fn = "subscribe" /\ f.at = "create"
  <2>1. In(t, "subscribe", "create")
    BY <1>2 DEF SubscribeCreate
  <2>2. /\ f \in Frame /\ f.fn = "subscribe" /\ f.at = "create"
        /\ f.ch \in Channels
    BY <1>0, <2>1, TopFacts DEF Shaped
  <2>3. Return(t)
    <3>1. rooms[f.ch] # created + 1 \/ rooms[f.ch] # 0
      BY <1>0 DEF TypeOK
    <3>2. rooms = [rooms EXCEPT ![f.ch] = created + 1] => rooms[f.ch] = created + 1
      BY <1>0, <2>2 DEF TypeOK
    <3> QED
      BY <1>2, <3>1, <3>2 DEF SubscribeCreate
  <2> QED
    BY <1>0, <2>1, <2>2, <2>3, ReturnShift
<1>3. ASSUME SubscribeCreate(t), rooms' # rooms
      PROVE  \E n \in Nat \ {0}, g \in Frame :
                /\ Shift(t, n, n, f, g, g) /\ f.fn = "subscribe" /\ f.at = "create"
                /\ g.at = "check" /\ g.o = created + 1
  <2>1. In(t, "subscribe", "create")
    BY <1>3 DEF SubscribeCreate
  <2>2. f \in Frame /\ f.fn = "subscribe" /\ f.at = "create"
    BY <1>0, <2>1, TopFacts
  <2>3. PICK o : o = created + 1
    OBVIOUS
  <2>4. created < MaxRooms /\ Goto(t, [At(t, "check") EXCEPT !.o = o])
    BY <1>3, <2>3 DEF SubscribeCreate
  <2>5. o \in 0 .. MaxRooms
    BY <1>0, <2>3, <2>4 DEF TypeOK
  <2>6. PICK k : k = [f EXCEPT !.at = "check"]
    OBVIOUS
  <2>7. k \in Frame /\ k.fn = f.fn
        /\ k.h = f.h /\ k.u = f.u /\ k.ch = f.ch /\ k.at = "check"
    BY <1>a, <2>2, <2>6, FrameAt
  <2>a. PICK g : g = [k EXCEPT !.o = o]
    OBVIOUS
  <2>8. /\ g \in Frame /\ g.fn = f.fn
        /\ g.h = f.h /\ g.u = f.u /\ g.ch = f.ch /\ g.at = "check"
        /\ g.o = o
    BY <2>5, <2>7, <2>a, FrameO
  <2>9. Goto(t, g)
    BY <2>4, <2>6, <2>a DEF At
  <2> QED
    BY <1>0, <2>1, <2>2, <2>3, <2>8, <2>9, GotoShift
<1>4. ASSUME SubscribeCheck(t)
      PROVE  \E n \in Nat \ {0}, len \in Nat, g \in Frame :
                /\ Shift(t, n, len, f, g, g) /\ len <= n
                /\ f.fn = "subscribe" /\ f.at = "check"
                /\ len = n => g.at = "lock" /\ g.o = f.o
  <2>1. In(t, "subscribe", "check")
    BY <1>4 DEF SubscribeCheck
  <2>2. f \in Frame /\ f.fn = "subscribe" /\ f.at = "check"
    BY <1>0, <2>1, TopFacts
  <2>3. CASE Return(t)
    <3>1. PICK n \in Nat \ {0}, len \in Nat : len < n /\ Shift(t, n, len, f, f, f)
      BY <1>0, <2>1, <2>3, ReturnShift
    <3>2. len <= n /\ len # n
      BY <3>1
    <3> QED
      BY <2>2, <3>1, <3>2
  <2>4. CASE Goto(t, At(t, "lock"))
    <3>1. PICK g : g = [f EXCEPT !.at = "lock"]
      OBVIOUS
    <3>2. /\ g \in Frame /\ g.fn = f.fn
          /\ g.h = f.h /\ g.u = f.u /\ g.ch = f.ch /\ g.at = "lock"
          /\ g.o = f.o
      BY <1>a, <2>2, <3>1, FrameAt
    <3>3. Goto(t, g)
      BY <2>4, <3>1 DEF At
    <3>4. PICK n \in Nat \ {0} : Shift(t, n, n, f, g, g)
      BY <1>0, <2>1, <3>2, <3>3, GotoShift
    <3>5. n <= n /\ n \in Nat
      OBVIOUS
    <3> QED
      BY <2>2, <3>2, <3>4, <3>5
  <2>5. Return(t) \/ Goto(t, At(t, "lock"))
    <3>1. PICK full : Admit(t, full)
      BY <1>4 DEF SubscribeCheck
    <3> QED
      BY <3>1 DEF Admit
  <2> QED
    BY <2>3, <2>4, <2>5
<1> QED
  BY <1>1, <1>2, <1>3, <1>4

(* Room.Subscribe and the handler's table. *)
LEMMA EnterShifts ==
  ASSUME LockInv, NEW t \in Threads, NEW f, f = Top(t)
  PROVE  /\ SubscribeLock(t) =>
              \E n \in Nat \ {0}, len \in Nat, g \in Frame, e \in Frame :
                /\ Shift(t, n, len, f, g, e) /\ len >= n
                /\ f.fn = "subscribe" /\ f.at = "lock" /\ g.at = "set" /\ g.o = f.o
                /\ len = n + 1 => /\ e.fn = "close" /\ e.at = "swap"
                                  /\ subscribers[f.o][userID[f.h]] # Nobody
         /\ SubscribeSet(t) =>
              \E n \in Nat \ {0}, g \in Frame :
                /\ Shift(t, n, n, f, g, g) /\ f.fn = "subscribe" /\ f.at = "set"
                /\ g.at = "store"
         /\ SubscribeStore(t) =>
              \E n \in Nat \ {0}, len \in Nat :
                /\ Shift(t, n, len, f, f, f) /\ len < n
                /\ f.fn = "subscribe" /\ f.at = "store"
<1> USE SessionAssumption
<1>0. TypeOK /\ Stacks
  BY DEF LockInv
<1>a. {"lock", "set", "store"} \subseteq Places
  BY DEF Places
<1>1. ASSUME SubscribeLock(t)
      PROVE  \E n \in Nat \ {0}, len \in Nat, g \in Frame, e \in Frame :
                /\ Shift(t, n, len, f, g, e) /\ len >= n
                /\ f.fn = "subscribe" /\ f.at = "lock" /\ g.at = "set" /\ g.o = f.o
                /\ len = n + 1 => /\ e.fn = "close" /\ e.at = "swap"
                                  /\ subscribers[f.o][userID[f.h]] # Nobody
  <2>1. In(t, "subscribe", "lock")
    BY <1>1 DEF SubscribeLock
  <2>2. /\ f \in Frame /\ f.fn = "subscribe" /\ f.at = "lock"
        /\ f.h \in Handlers /\ f.o \in Objects
    BY <1>0, <2>1, TopFacts DEF Shaped
  <2>3. PICK g : g = [f EXCEPT !.at = "set"]
    OBVIOUS
  <2>4. /\ g \in Frame /\ g.fn = f.fn
        /\ g.h = f.h /\ g.u = f.u /\ g.ch = f.ch /\ g.at = "set"
        /\ g.o = f.o
    BY <1>a, <2>2, <2>3, FrameAt
  <2>5. PICK old \in Handlers \cup {Nobody} : old = subscribers[f.o][userID[f.h]]
    <3>1. userID[f.h] \in Users
      BY <1>0, <2>2 DEF TypeOK
    <3> QED
      BY <1>0, <2>2, <3>1 DEF TypeOK
  <2>6. CASE old = Nobody
    <3>1. Goto(t, g)
      BY <1>1, <2>3, <2>5, <2>6 DEF SubscribeLock, At
    <3>2. PICK n \in Nat \ {0} : Shift(t, n, n, f, g, g)
      BY <1>0, <2>1, <2>4, <3>1, GotoShift
    <3>3. n \in Nat /\ n >= n /\ n # n + 1
      OBVIOUS
    <3> QED
      BY <2>2, <2>4, <3>2, <3>3
  <2>7. CASE old # Nobody
    <3>1. PICK e : e = CloseFrame(old)
      OBVIOUS
    <3>2. old \in Handlers
      BY <2>7
    <3>3. e \in Frame /\ e.fn = "close" /\ e.at = "swap"
      BY <3>1, <3>2, CloseFrameType
    <3>4. stack' = [stack EXCEPT ![t] = Below(t) \o <<g, e>>]
      BY <1>1, <2>3, <2>5, <2>7, <3>1 DEF SubscribeLock, Call, At
    <3>5. Calling(g, e) /\ Naming(e)
      BY <2>2, <2>4, <3>3 DEF Calling, Naming, Holder
    <3>6. PICK n \in Nat \ {0}, len \in Nat :
            len = n + 1 /\ Shift(t, n, len, f, g, e)
      BY <1>0, <2>1, <2>4, <3>3, <3>4, <3>5, CallShift
    <3>7. len >= n
      BY <3>6
    <3> QED
      BY <2>2, <2>4, <2>5, <2>7, <3>3, <3>6, <3>7
  <2> QED
    BY <2>6, <2>7
<1>2. ASSUME SubscribeSet(t)
      PROVE  \E n \in Nat \ {0}, g \in Frame :
                /\ Shift(t, n, n, f, g, g) /\ f.fn = "subscribe" /\ f.at = "set"
                /\ g.at = "store"
  <2>1. In(t, "subscribe", "set")
    BY <1>2 DEF SubscribeSet
  <2>2. f \in Frame /\ f.fn = "subscribe" /\ f.at = "set"
    BY <1>0, <2>1, TopFacts
  <2>3. PICK g : g = [f EXCEPT !.at = "store"]
    OBVIOUS
  <2>4. g \in Frame /\ g.fn = f.fn
        /\ g.h = f.h /\ g.u = f.u /\ g.ch = f.ch /\ g.at = "store"
    BY <1>a, <2>2, <2>3, FrameAt
  <2>5. Goto(t, g)
    BY <1>2, <2>3 DEF SubscribeSet, At
  <2> QED
    BY <1>0, <2>1, <2>2, <2>4, <2>5, GotoShift
<1>3. ASSUME SubscribeStore(t)
      PROVE  \E n \in Nat \ {0}, len \in Nat :
                /\ Shift(t, n, len, f, f, f) /\ len < n
                /\ f.fn = "subscribe" /\ f.at = "store"
  <2>1. In(t, "subscribe", "store") /\ Return(t)
    BY <1>3 DEF SubscribeStore
  <2>2. f.fn = "subscribe" /\ f.at = "store"
    BY <1>0, <2>1, TopFacts
  <2> QED
    BY <1>0, <2>1, <2>2, ReturnShift
<1> QED
  BY <1>1, <1>2, <1>3

(* handleUnsubscribe. *)
LEMMA UnsubscribeShifts ==
  ASSUME LockInv, NEW t \in Threads, NEW f, f = Top(t)
  PROVE  /\ UnsubscribeDelete(t) =>
              \E n \in Nat \ {0}, len \in Nat, g \in Frame, e \in Frame :
                /\ Shift(t, n, len, f, g, e)
                /\ f.fn = "unsubscribe" /\ f.at = "delete"
                /\ \/ len < n /\ f.ch \notin subscriptions[f.h]
                   \/ /\ len = n + 1 /\ g.at = "end" /\ e.fn = "relayUnsubscribe"
                      /\ e.at = "get" /\ e.h = f.h /\ e.ch = f.ch
         /\ UnsubscribeEnd(t) =>
              \E n \in Nat \ {0}, len \in Nat :
                /\ Shift(t, n, len, f, f, f) /\ len < n
                /\ f.fn = "unsubscribe" /\ f.at = "end"
<1>0. TypeOK /\ Stacks
  BY DEF LockInv
<1>1. ASSUME UnsubscribeDelete(t)
      PROVE  \E n \in Nat \ {0}, len \in Nat, g \in Frame, e \in Frame :
                /\ Shift(t, n, len, f, g, e)
                /\ f.fn = "unsubscribe" /\ f.at = "delete"
                /\ \/ len < n /\ f.ch \notin subscriptions[f.h]
                   \/ /\ len = n + 1 /\ g.at = "end" /\ e.fn = "relayUnsubscribe"
                      /\ e.at = "get" /\ e.h = f.h /\ e.ch = f.ch
  <2>1. In(t, "unsubscribe", "delete")
    BY <1>1 DEF UnsubscribeDelete
  <2>2. /\ f \in Frame /\ f.fn = "unsubscribe" /\ f.at = "delete"
        /\ f.h \in Handlers /\ f.ch \in Channels
    BY <1>0, <2>1, TopFacts DEF Shaped
  <2>3. CASE f.ch \notin subscriptions[f.h]
    <3>1. Return(t)
      BY <1>1, <2>3 DEF UnsubscribeDelete
    <3>2. PICK n \in Nat \ {0}, len \in Nat : len < n /\ Shift(t, n, len, f, f, f)
      BY <1>0, <2>1, <3>1, ReturnShift
    <3> QED
      BY <2>2, <2>3, <3>2
  <2>4. CASE f.ch \in subscriptions[f.h]
    <3>1. PICK g : g = [f EXCEPT !.at = "end"]
      OBVIOUS
    <3>2. PICK e : e = UnsubscribeFrame(f.h, f.ch)
      OBVIOUS
    <3>3. g \in Frame /\ g.fn = f.fn
          /\ g.h = f.h /\ g.u = f.u /\ g.ch = f.ch /\ g.at = "end"
      <4>1. "end" \in Places
        BY DEF Places
      <4> QED
        BY <2>2, <3>1, <4>1, FrameAt
    <3>4. /\ e \in Frame /\ e.fn = "relayUnsubscribe" /\ e.at = "get"
          /\ e.h = f.h /\ e.ch = f.ch /\ e.u = userID[f.h]
      BY <1>0, <2>2, <3>2, UnsubscribeFrameType
    <3>5. stack' = [stack EXCEPT ![t] = Below(t) \o <<g, e>>]
      BY <1>1, <2>4, <3>1, <3>2 DEF UnsubscribeDelete, Call, At
    <3>6. Calling(g, e) /\ Naming(e)
      BY <2>2, <3>3, <3>4 DEF Calling, Naming
    <3>7. PICK n \in Nat \ {0}, len \in Nat :
            len = n + 1 /\ Shift(t, n, len, f, g, e)
      BY <1>0, <2>1, <3>3, <3>4, <3>5, <3>6, CallShift
    <3> QED
      BY <2>2, <3>3, <3>4, <3>7
  <2> QED
    BY <2>3, <2>4
<1>2. ASSUME UnsubscribeEnd(t)
      PROVE  \E n \in Nat \ {0}, len \in Nat :
                /\ Shift(t, n, len, f, f, f) /\ len < n
                /\ f.fn = "unsubscribe" /\ f.at = "end"
  <2>1. In(t, "unsubscribe", "end") /\ Return(t)
    BY <1>2 DEF UnsubscribeEnd
  <2>2. f.fn = "unsubscribe" /\ f.at = "end"
    BY <1>0, <2>1, TopFacts
  <2> QED
    BY <1>0, <2>1, <2>2, ReturnShift
<1> QED
  BY <1>1, <1>2

(* Relay.Unsubscribe and Room.Unsubscribe. *)
LEMMA RelayUnsubscribeShifts ==
  ASSUME LockInv, NEW t \in Threads, NEW f, f = Top(t)
  PROVE  /\ RelayUnsubscribeGet(t) =>
              \E n \in Nat \ {0}, len \in Nat, g \in Frame :
                /\ Shift(t, n, len, f, g, g)
                /\ f.fn = "relayUnsubscribe" /\ f.at = "get"
                /\ \/ len < n /\ rooms[f.ch] = 0
                   \/ len = n /\ g.at = "lock" /\ g.o = rooms[f.ch] /\ g.o # 0
         /\ RelayUnsubscribeLock(t) =>
              \E n \in Nat \ {0}, len \in Nat, g \in Frame, e \in Frame :
                /\ Shift(t, n, len, f, g, e)
                /\ f.fn = "relayUnsubscribe" /\ f.at = "lock"
                /\ \/ len < n /\ subscribers[f.o][f.u] = Nobody
                   \/ /\ len = n + 1 /\ g.at = "delete" /\ g.o = f.o
                      /\ e.fn = "close" /\ e.at = "swap"
                      /\ e.h = subscribers[f.o][f.u]
         /\ RelayUnsubscribeDelete(t) =>
              \E n \in Nat \ {0}, len \in Nat :
                /\ Shift(t, n, len, f, f, f) /\ len < n
                /\ f.fn = "relayUnsubscribe" /\ f.at = "delete"
<1> USE SessionAssumption
<1>0. TypeOK /\ Stacks
  BY DEF LockInv
<1>a. {"lock", "delete"} \subseteq Places
  BY DEF Places
<1>1. ASSUME RelayUnsubscribeGet(t)
      PROVE  \E n \in Nat \ {0}, len \in Nat, g \in Frame :
                /\ Shift(t, n, len, f, g, g)
                /\ f.fn = "relayUnsubscribe" /\ f.at = "get"
                /\ \/ len < n /\ rooms[f.ch] = 0
                   \/ len = n /\ g.at = "lock" /\ g.o = rooms[f.ch] /\ g.o # 0
  <2>1. In(t, "relayUnsubscribe", "get")
    BY <1>1 DEF RelayUnsubscribeGet
  <2>2. /\ f \in Frame /\ f.fn = "relayUnsubscribe" /\ f.at = "get"
        /\ f.ch \in Channels
    BY <1>0, <2>1, TopFacts DEF Shaped
  <2>3. PICK o \in 0 .. MaxRooms : o = rooms[f.ch]
    BY <1>0, <2>2 DEF TypeOK
  <2>4. CASE o = 0
    <3>1. Return(t)
      BY <1>1, <2>3, <2>4 DEF RelayUnsubscribeGet
    <3>2. PICK n \in Nat \ {0}, len \in Nat : len < n /\ Shift(t, n, len, f, f, f)
      BY <1>0, <2>1, <3>1, ReturnShift
    <3> QED
      BY <2>2, <2>3, <2>4, <3>2
  <2>5. CASE o # 0
    <3>1. PICK k : k = [f EXCEPT !.at = "lock"]
      OBVIOUS
    <3>2. k \in Frame /\ k.fn = f.fn
          /\ k.h = f.h /\ k.u = f.u /\ k.ch = f.ch /\ k.at = "lock"
      BY <1>a, <2>2, <3>1, FrameAt
    <3>3. PICK g : g = [k EXCEPT !.o = o]
      OBVIOUS
    <3>4. /\ g \in Frame /\ g.fn = f.fn
          /\ g.h = f.h /\ g.u = f.u /\ g.ch = f.ch /\ g.at = "lock"
          /\ g.o = o
      BY <3>2, <3>3, FrameO
    <3>5. Goto(t, g)
      BY <1>1, <2>3, <2>5, <3>1, <3>3 DEF RelayUnsubscribeGet, At
    <3>6. PICK n \in Nat \ {0} : Shift(t, n, n, f, g, g)
      BY <1>0, <2>1, <3>4, <3>5, GotoShift
    <3>7. n \in Nat
      OBVIOUS
    <3> QED
      BY <2>2, <2>3, <2>5, <3>4, <3>6, <3>7
  <2> QED
    BY <2>4, <2>5
<1>2. ASSUME RelayUnsubscribeLock(t)
      PROVE  \E n \in Nat \ {0}, len \in Nat, g \in Frame, e \in Frame :
                /\ Shift(t, n, len, f, g, e)
                /\ f.fn = "relayUnsubscribe" /\ f.at = "lock"
                /\ \/ len < n /\ subscribers[f.o][f.u] = Nobody
                   \/ /\ len = n + 1 /\ g.at = "delete" /\ g.o = f.o
                      /\ e.fn = "close" /\ e.at = "swap"
                      /\ e.h = subscribers[f.o][f.u]
  <2>1. In(t, "relayUnsubscribe", "lock")
    BY <1>2 DEF RelayUnsubscribeLock
  <2>2. /\ f \in Frame /\ f.fn = "relayUnsubscribe" /\ f.at = "lock"
        /\ f.h \in Handlers /\ f.o \in Objects /\ f.u \in Users
    BY <1>0, <2>1, TopFacts DEF Shaped
  <2>3. PICK sub \in Handlers \cup {Nobody} : sub = subscribers[f.o][f.u]
    <3>1. f.u \in Users
      BY <2>2
    <3> QED
      BY <1>0, <2>2, <3>1 DEF TypeOK
  <2>4. CASE sub = Nobody
    <3>1. Return(t)
      BY <1>2, <2>3, <2>4 DEF RelayUnsubscribeLock
    <3>2. PICK n \in Nat \ {0}, len \in Nat : len < n /\ Shift(t, n, len, f, f, f)
      BY <1>0, <2>1, <3>1, ReturnShift
    <3> QED
      BY <2>2, <2>3, <2>4, <3>2
  <2>5. CASE sub # Nobody
    <3>1. PICK g : g = [f EXCEPT !.at = "delete"]
      OBVIOUS
    <3>2. PICK e : e = CloseFrame(sub)
      OBVIOUS
    <3>3. /\ g \in Frame /\ g.fn = f.fn
          /\ g.h = f.h /\ g.u = f.u /\ g.ch = f.ch
          /\ g.at = "delete" /\ g.o = f.o
      BY <1>a, <2>2, <3>1, FrameAt
    <3>4. sub \in Handlers
      BY <2>5
    <3>5. e \in Frame /\ e.fn = "close" /\ e.at = "swap" /\ e.h = sub
      BY <3>2, <3>4, CloseFrameType
    <3>6. stack' = [stack EXCEPT ![t] = Below(t) \o <<g, e>>]
      BY <1>2, <2>3, <2>5, <3>1, <3>2 DEF RelayUnsubscribeLock, Call, At
    <3>7. Calling(g, e) /\ Naming(e)
      BY <2>2, <3>3, <3>5 DEF Calling, Naming, Holder
    <3>8. PICK n \in Nat \ {0}, len \in Nat :
            len = n + 1 /\ Shift(t, n, len, f, g, e)
      BY <1>0, <2>1, <3>3, <3>5, <3>6, <3>7, CallShift
    <3> QED
      BY <2>2, <2>3, <3>3, <3>5, <3>8
  <2> QED
    BY <2>4, <2>5
<1>3. ASSUME RelayUnsubscribeDelete(t)
      PROVE  \E n \in Nat \ {0}, len \in Nat :
                /\ Shift(t, n, len, f, f, f) /\ len < n
                /\ f.fn = "relayUnsubscribe" /\ f.at = "delete"
  <2>1. In(t, "relayUnsubscribe", "delete") /\ Return(t)
    BY <1>3 DEF RelayUnsubscribeDelete
  <2>2. f.fn = "relayUnsubscribe" /\ f.at = "delete"
    BY <1>0, <2>1, TopFacts
  <2> QED
    BY <1>0, <2>1, <2>2, ReturnShift
<1> QED
  BY <1>1, <1>2, <1>3

(* ClientHandler.Close. *)
LEMMA CloseShifts ==
  ASSUME LockInv, NEW t \in Threads, NEW f, f = Top(t)
  PROVE  /\ CloseSwap(t) =>
              \E n \in Nat \ {0}, len \in Nat, g \in Frame :
                /\ Shift(t, n, len, f, g, g) /\ f.fn = "close" /\ f.at = "swap"
                /\ \/ len < n /\ closed[f.h]
                   \/ len = n /\ ~closed[f.h] /\ g.at = "copy"
         /\ CloseCopy(t) =>
              \E n \in Nat \ {0}, g \in Frame :
                /\ Shift(t, n, n, f, g, g) /\ f.fn = "close" /\ f.at = "copy"
                /\ g.at = "loop" /\ g.chans = subscriptions[f.h]
         /\ CloseLoop(t) =>
              \E n \in Nat \ {0}, len \in Nat, g \in Frame, e \in Frame :
                /\ Shift(t, n, len, f, g, e) /\ f.fn = "close" /\ f.at = "loop"
                /\ \/ /\ len < n /\ f.chans = {}
                      /\ gone' = [gone EXCEPT ![f.h] = TRUE]
                   \/ /\ len = n + 1 /\ UNCHANGED gone /\ g.at = "loop"
                      /\ g.chans = f.chans \ {e.ch} /\ e.ch \in f.chans
                      /\ e.fn = "relayUnsubscribe" /\ e.at = "get" /\ e.h = f.h
<1>0. TypeOK /\ Stacks
  BY DEF LockInv
<1>a. {"swap", "copy", "loop"} \subseteq Places
  BY DEF Places
<1>1. ASSUME CloseSwap(t)
      PROVE  \E n \in Nat \ {0}, len \in Nat, g \in Frame :
                /\ Shift(t, n, len, f, g, g) /\ f.fn = "close" /\ f.at = "swap"
                /\ \/ len < n /\ closed[f.h]
                   \/ len = n /\ ~closed[f.h] /\ g.at = "copy"
  <2>1. In(t, "close", "swap")
    BY <1>1 DEF CloseSwap
  <2>2. f \in Frame /\ f.fn = "close" /\ f.at = "swap"
    BY <1>0, <2>1, TopFacts
  <2>3. CASE closed[f.h]
    <3>1. Return(t)
      BY <1>1, <2>3 DEF CloseSwap
    <3>2. PICK n \in Nat \ {0}, len \in Nat : len < n /\ Shift(t, n, len, f, f, f)
      BY <1>0, <2>1, <3>1, ReturnShift
    <3> QED
      BY <2>2, <2>3, <3>2
  <2>4. CASE ~closed[f.h]
    <3>1. PICK g : g = [f EXCEPT !.at = "copy"]
      OBVIOUS
    <3>2. g \in Frame /\ g.fn = f.fn
          /\ g.h = f.h /\ g.u = f.u /\ g.ch = f.ch /\ g.at = "copy"
      BY <1>a, <2>2, <3>1, FrameAt
    <3>3. Goto(t, g)
      BY <1>1, <2>4, <3>1 DEF CloseSwap, At
    <3>4. PICK n \in Nat \ {0} : Shift(t, n, n, f, g, g)
      BY <1>0, <2>1, <3>2, <3>3, GotoShift
    <3>5. n \in Nat
      OBVIOUS
    <3> QED
      BY <2>2, <2>4, <3>2, <3>4, <3>5
  <2> QED
    BY <2>3, <2>4
<1>2. ASSUME CloseCopy(t)
      PROVE  \E n \in Nat \ {0}, g \in Frame :
                /\ Shift(t, n, n, f, g, g) /\ f.fn = "close" /\ f.at = "copy"
                /\ g.at = "loop" /\ g.chans = subscriptions[f.h]
  <2>1. In(t, "close", "copy")
    BY <1>2 DEF CloseCopy
  <2>2. f \in Frame /\ f.fn = "close" /\ f.at = "copy" /\ f.h \in Handlers
    BY <1>0, <2>1, TopFacts DEF Shaped
  <2>3. PICK chans \in SUBSET Channels : chans = subscriptions[f.h]
    BY <1>0, <2>2 DEF TypeOK
  <2>4. PICK k : k = [f EXCEPT !.at = "loop"]
    OBVIOUS
  <2>5. k \in Frame /\ k.fn = f.fn
        /\ k.h = f.h /\ k.u = f.u /\ k.ch = f.ch /\ k.at = "loop"
    BY <1>a, <2>2, <2>4, FrameAt
  <2>6. PICK g : g = [k EXCEPT !.chans = chans]
    OBVIOUS
  <2>7. /\ g \in Frame /\ g.fn = f.fn
        /\ g.h = f.h /\ g.u = f.u /\ g.ch = f.ch /\ g.at = "loop"
        /\ g.chans = chans
    BY <2>5, <2>6, FrameChans
  <2>8. Goto(t, g)
    BY <1>2, <2>3, <2>4, <2>6 DEF CloseCopy, At
  <2> QED
    BY <1>0, <2>1, <2>2, <2>3, <2>7, <2>8, GotoShift
<1>3. ASSUME CloseLoop(t)
      PROVE  \E n \in Nat \ {0}, len \in Nat, g \in Frame, e \in Frame :
                /\ Shift(t, n, len, f, g, e) /\ f.fn = "close" /\ f.at = "loop"
                /\ \/ /\ len < n /\ f.chans = {}
                      /\ gone' = [gone EXCEPT ![f.h] = TRUE]
                   \/ /\ len = n + 1 /\ UNCHANGED gone /\ g.at = "loop"
                      /\ g.chans = f.chans \ {e.ch} /\ e.ch \in f.chans
                      /\ e.fn = "relayUnsubscribe" /\ e.at = "get" /\ e.h = f.h
  <2>1. In(t, "close", "loop")
    BY <1>3 DEF CloseLoop
  <2>2. /\ f \in Frame /\ f.fn = "close" /\ f.at = "loop" /\ f.h \in Handlers
        /\ f.chans \in SUBSET Channels
    <3>1. f \in Frame /\ f.fn = "close" /\ f.at = "loop" /\ f.h \in Handlers
      BY <1>0, <2>1, TopFacts DEF Shaped
    <3> QED
      BY <3>1, FrameFields
  <2>3. CASE /\ Return(t) /\ f.chans = {}
             /\ gone' = [gone EXCEPT ![f.h] = TRUE]
    <3>1. PICK n \in Nat \ {0}, len \in Nat : len < n /\ Shift(t, n, len, f, f, f)
      BY <1>0, <2>1, <2>3, ReturnShift
    <3> QED
      BY <2>2, <2>3, <3>1
  <2>4. ASSUME NEW ch \in f.chans, UNCHANGED gone,
               stack' = [stack EXCEPT ![t] =
                 Below(t) \o <<[f EXCEPT !.chans = @ \ {ch}],
                               UnsubscribeFrame(f.h, ch)>>]
        PROVE  \E n \in Nat \ {0}, len \in Nat, g \in Frame, e \in Frame :
                /\ Shift(t, n, len, f, g, e)
                /\ /\ len = n + 1 /\ UNCHANGED gone /\ g.at = "loop"
                   /\ g.chans = f.chans \ {e.ch} /\ e.ch \in f.chans
                   /\ e.fn = "relayUnsubscribe" /\ e.at = "get" /\ e.h = f.h
    <3>1. PICK rest \in SUBSET Channels : rest = f.chans \ {ch}
      BY <2>2
    <3>2. PICK g : g = [f EXCEPT !.chans = rest]
      OBVIOUS
    <3>3. PICK e : e = UnsubscribeFrame(f.h, ch)
      OBVIOUS
    <3>4. /\ g \in Frame /\ g.fn = f.fn
          /\ g.h = f.h /\ g.u = f.u /\ g.ch = f.ch /\ g.at = "loop"
          /\ g.chans = rest
      BY <2>2, <3>1, <3>2, FrameChans
    <3>5. ch \in Channels
      BY <2>2
    <3>6. /\ e \in Frame /\ e.fn = "relayUnsubscribe" /\ e.at = "get" /\ e.h = f.h
          /\ e.ch = ch /\ e.u = userID[f.h]
      BY <1>0, <2>2, <3>3, <3>5, UnsubscribeFrameType
    <3>7. stack' = [stack EXCEPT ![t] = Below(t) \o <<g, e>>]
      BY <2>4, <3>1, <3>2, <3>3
    <3>8. Calling(g, e) /\ Naming(e)
      BY <2>2, <3>4, <3>6 DEF Calling, Naming
    <3>9. PICK n \in Nat \ {0}, len \in Nat :
            len = n + 1 /\ Shift(t, n, len, f, g, e)
      BY <1>0, <2>1, <3>4, <3>6, <3>7, <3>8, CallShift
    <3> QED
      BY <2>4, <3>1, <3>4, <3>6, <3>9
  <2>5. \/ /\ Return(t) /\ f.chans = {}
           /\ gone' = [gone EXCEPT ![f.h] = TRUE]
        \/ \E ch \in f.chans :
             /\ UNCHANGED gone
             /\ stack' = [stack EXCEPT ![t] =
                  Below(t) \o <<[f EXCEPT !.chans = @ \ {ch}],
                                UnsubscribeFrame(f.h, ch)>>]
    BY <1>3 DEF CloseLoop
  <2>6. CASE \E ch \in f.chans :
               /\ UNCHANGED gone
               /\ stack' = [stack EXCEPT ![t] =
                    Below(t) \o <<[f EXCEPT !.chans = @ \ {ch}],
                                  UnsubscribeFrame(f.h, ch)>>]
    <3>1. PICK ch \in f.chans :
            /\ UNCHANGED gone
            /\ stack' = [stack EXCEPT ![t] =
                 Below(t) \o <<[f EXCEPT !.chans = @ \ {ch}],
                               UnsubscribeFrame(f.h, ch)>>]
      BY <2>6
    <3>2. PICK n \in Nat \ {0}, len \in Nat, g \in Frame, e \in Frame :
            /\ Shift(t, n, len, f, g, e)
            /\ /\ len = n + 1 /\ UNCHANGED gone /\ g.at = "loop"
               /\ g.chans = f.chans \ {e.ch} /\ e.ch \in f.chans
               /\ e.fn = "relayUnsubscribe" /\ e.at = "get" /\ e.h = f.h
      BY <2>4, <3>1
    <3> QED
      BY <2>2, <3>2
  <2> QED
    BY <2>3, <2>5, <2>6
<1> QED
  BY <1>1, <1>2, <1>3

(* DeleteRoom and Relay.Close. *)
LEMMA ShutdownShifts ==
  ASSUME LockInv, NEW t \in Threads, NEW f, f = Top(t),
         \/ ShutdownLock(t) \/ ShutdownNext(t) \/ ShutdownRoomLock(t)
         \/ ShutdownRoom(t)
  PROVE  \E n \in Nat \ {0}, len \in Nat, g \in Frame, e \in Frame :
           /\ Shift(t, n, len, f, g, e) /\ f.fn = "shutdown"
           /\ len = n + 1 => e.fn = "close" /\ e.at = "swap"
<1> USE SessionAssumption
<1>0. TypeOK /\ Stacks
  BY DEF LockInv
<1>a. {"lock", "loop", "stop", "closing"} \subseteq Places
  BY DEF Places
<1>b. \E at : In(t, "shutdown", at)
  BY DEF ShutdownLock, ShutdownNext, ShutdownRoomLock, ShutdownRoom
<1>c. PICK at : In(t, "shutdown", at)
  BY <1>b
<1>d. /\ f \in Frame /\ f.fn = "shutdown" /\ f.at = at /\ f = Top(t)
      /\ at \in {"stop", "closing"} => f.o \in Objects
  BY <1>0, <1>c, TopFacts DEF Shaped
<1>e. f.chans \in SUBSET Channels /\ f.conns \in SUBSET Handlers
  BY <1>d, FrameFields
<1>1. CASE Return(t)
  <2>1. PICK n \in Nat \ {0}, len \in Nat : len < n /\ Shift(t, n, len, f, f, f)
    BY <1>0, <1>c, <1>1, ReturnShift
  <2>2. len # n + 1
    BY <2>1
  <2> QED
    BY <1>d, <2>1, <2>2
<1>2. ASSUME NEW g \in Frame, Goto(t, g), g.fn = f.fn, g.h = f.h, g.u = f.u
      PROVE  \E n \in Nat \ {0}, len \in Nat, k \in Frame, e \in Frame :
               /\ Shift(t, n, len, f, k, e) /\ f.fn = "shutdown"
               /\ len = n + 1 => e.fn = "close" /\ e.at = "swap"
  <2>1. PICK n \in Nat \ {0} : Shift(t, n, n, f, g, g)
    BY <1>0, <1>c, <1>d, <1>2, GotoShift
  <2>2. n # n + 1 /\ n \in Nat
    OBVIOUS
  <2> QED
    BY <1>d, <2>1, <2>2
<1>3. CASE ShutdownLock(t)
  <2>1. PICK chans \in SUBSET Channels : chans = {ch \in f.chans : rooms[ch] # 0}
    BY <1>e
  <2>2. PICK k : k = [f EXCEPT !.at = "loop"]
    OBVIOUS
  <2>3. k \in Frame /\ k.fn = f.fn /\ k.h = f.h /\ k.u = f.u
    BY <1>a, <1>d, <2>2, FrameAt
  <2>4. PICK g : g = [k EXCEPT !.chans = chans]
    OBVIOUS
  <2>5. g \in Frame /\ g.fn = f.fn /\ g.h = f.h /\ g.u = f.u
    BY <2>3, <2>4, FrameChans
  <2>6. Return(t) \/ Goto(t, g)
    BY <1>3, <1>d, <2>1, <2>2, <2>4 DEF ShutdownLock, At
  <2> QED
    BY <1>1, <1>2, <2>5, <2>6
<1>4. CASE ShutdownNext(t)
  <2>1. ASSUME NEW ch \in f.chans,
               Goto(t, [At(t, "stop") EXCEPT !.ch = ch, !.o = rooms[ch],
                                             !.chans = @ \ {ch}])
        PROVE  \E g \in Frame : Goto(t, g) /\ g.fn = f.fn /\ g.h = f.h /\ g.u = f.u
    <3>1. PICK o \in 0 .. MaxRooms : o = rooms[ch]
      BY <1>0, <1>e DEF TypeOK
    <3>2. PICK rest \in SUBSET Channels : rest = f.chans \ {ch}
      BY <1>e
    <3>3. PICK k : k = [f EXCEPT !.at = "stop"]
      OBVIOUS
    <3>4. k \in Frame /\ k.fn = f.fn /\ k.h = f.h /\ k.u = f.u /\ k.chans = f.chans
      BY <1>a, <1>d, <3>3, FrameAt
    <3>5. PICK g : g = [k EXCEPT !.ch = ch, !.o = o, !.chans = rest]
      OBVIOUS
    <3>6. ch \in Channels
      BY <1>e
    <3>7. g \in Frame /\ g.fn = f.fn /\ g.h = f.h /\ g.u = f.u
      BY <3>4, <3>5, <3>6 DEF Frame
    <3>8. Goto(t, g)
      BY <1>d, <2>1, <3>1, <3>2, <3>3, <3>4, <3>5 DEF At
    <3> QED
      BY <3>7, <3>8
  <2>2. \/ Return(t)
        \/ \E ch \in f.chans :
             Goto(t, [At(t, "stop") EXCEPT !.ch = ch, !.o = rooms[ch],
                                           !.chans = @ \ {ch}])
    BY <1>4, <1>d DEF ShutdownNext
  <2> QED
    BY <1>1, <1>2, <2>1, <2>2
<1>5. CASE ShutdownRoomLock(t)
  <2>1. f.at = "stop" /\ f.o \in Objects
    BY <1>5, <1>0, <1>d, TopFacts DEF ShutdownRoomLock, In
  <2>2. PICK conns : conns = {subscribers[f.o][u] : u \in Members(f.o)}
    OBVIOUS
  <2>3. conns \in SUBSET Handlers
    BY <1>0, <2>1, <2>2 DEF TypeOK, Members
  <2>4. PICK k : k = [f EXCEPT !.at = "closing"]
    OBVIOUS
  <2>5. k \in Frame /\ k.fn = f.fn /\ k.h = f.h /\ k.u = f.u
    BY <1>a, <1>d, <2>4, FrameAt
  <2>6. PICK g : g = [k EXCEPT !.conns = conns]
    OBVIOUS
  <2>7. g \in Frame /\ g.fn = f.fn /\ g.h = f.h /\ g.u = f.u
    BY <2>3, <2>5, <2>6, FrameConns
  <2>8. Goto(t, g)
    BY <1>5, <1>d, <2>2, <2>4, <2>6 DEF ShutdownRoomLock, At
  <2> QED
    BY <1>2, <2>7, <2>8
<1>6. CASE ShutdownRoom(t)
  <2>0. f.at = "closing"
    BY <1>6, <1>d DEF ShutdownRoom, In
  <2>1. ASSUME NEW h \in f.conns,
               stack' = [stack EXCEPT ![t] =
                 Below(t) \o <<[f EXCEPT !.conns = @ \ {h}], CloseFrame(h)>>]
        PROVE  \E n \in Nat \ {0}, len \in Nat, g \in Frame, e \in Frame :
                 /\ Shift(t, n, len, f, g, e) /\ f.fn = "shutdown"
                 /\ len = n + 1 => e.fn = "close" /\ e.at = "swap"
    <3>1. PICK rest \in SUBSET Handlers : rest = f.conns \ {h}
      BY <1>e
    <3>2. PICK g : g = [f EXCEPT !.conns = rest]
      OBVIOUS
    <3>3. PICK e : e = CloseFrame(h)
      OBVIOUS
    <3>4. g \in Frame /\ g.fn = f.fn /\ g.h = f.h /\ g.u = f.u /\ g.at = f.at
      BY <1>d, <3>1, <3>2, FrameConns
    <3>5. h \in Handlers
      BY <1>e
    <3>6. e \in Frame /\ e.fn = "close" /\ e.at = "swap"
      BY <3>3, <3>5, CloseFrameType
    <3>7. stack' = [stack EXCEPT ![t] = Below(t) \o <<g, e>>]
      BY <2>1, <3>1, <3>2, <3>3
    <3>8. Calling(g, e) /\ Naming(e)
      BY <1>d, <2>0, <3>4, <3>6 DEF Calling, Naming, Holder
    <3>9. PICK n \in Nat \ {0}, len \in Nat :
            len = n + 1 /\ Shift(t, n, len, f, g, e)
      BY <1>0, <1>c, <1>d, <3>4, <3>6, <3>7, <3>8, CallShift
    <3> QED
      BY <1>d, <3>4, <3>6, <3>9
  <2>2. CASE Goto(t, At(t, "loop"))
    <3>1. PICK g : g = [f EXCEPT !.at = "loop"]
      OBVIOUS
    <3>2. g \in Frame /\ g.fn = f.fn /\ g.h = f.h /\ g.u = f.u
      BY <1>a, <1>d, <3>1, FrameAt
    <3>3. Goto(t, g)
      BY <1>d, <2>2, <3>1 DEF At
    <3> QED
      BY <1>2, <3>2, <3>3
  <2>3. \/ Goto(t, At(t, "loop"))
        \/ \E h \in f.conns :
             stack' = [stack EXCEPT ![t] =
               Below(t) \o <<[f EXCEPT !.conns = @ \ {h}], CloseFrame(h)>>]
    BY <1>6, <1>d DEF ShutdownRoom
  <2> QED
    BY <2>1, <2>2, <2>3
<1> QED
  BY <1>3, <1>4, <1>5, <1>6

(* A goroutine begins. *)
LEMMA BeginShifts ==
  ASSUME LockInv
  PROVE  /\ \A h \in Handlers, ch \in Channels : SubscribeCommand(h, ch) =>
              \E e \in Frame : /\ Shift(Reader(h), 0, 1, e, e, e)
                               /\ e.fn = "subscribe" /\ e.at = "get"
                               /\ e.h = h /\ e.ch = ch
         /\ \A h \in Handlers, ch \in Channels : UnsubscribeCommand(h, ch) =>
              \E e \in Frame : /\ Shift(Reader(h), 0, 1, e, e, e)
                               /\ e.fn = "unsubscribe" /\ e.at = "delete"
         /\ \A h \in Handlers : PingTimeout(h) =>
              \E e \in Frame : /\ Shift(Timer(h), 0, 1, e, e, e)
                               /\ e.fn = "close" /\ e.at = "swap"
         /\ \A a \in Apps :
              RelayClose(a) \/ (\E ch \in Channels : DeleteRoom(a, ch)) =>
              \E e \in Frame : /\ Shift(App(a), 0, 1, e, e, e)
                               /\ e.fn = "shutdown" /\ e.at = "lock"
<1>0. TypeOK
  BY DEF LockInv
<1>a. Functions = {"subscribe", "unsubscribe", "relayUnsubscribe", "close", "shutdown"}
      /\ {"get", "delete", "swap", "lock"} \subseteq Places
  BY DEF Functions, Places
<1>1. ASSUME NEW h \in Handlers, NEW ch \in Channels, SubscribeCommand(h, ch)
      PROVE  \E e \in Frame : /\ Shift(Reader(h), 0, 1, e, e, e)
                              /\ e.fn = "subscribe" /\ e.at = "get"
                              /\ e.h = h /\ e.ch = ch
  <2>1. PICK e : e = [NewFrame("subscribe", "get") EXCEPT !.h = h, !.ch = ch]
    OBVIOUS
  <2>2. e \in Frame
    BY <1>a, <2>1, FrameNew
  <2>3. e.fn = "subscribe" /\ e.at = "get" /\ e.h = h /\ e.ch = ch
    BY <2>1 DEF NewFrame
  <2>4. Begin(Reader(h), e)
    BY <1>1, <2>1 DEF SubscribeCommand
  <2>5. Starting(Reader(h), e) /\ Reader(h) \in Threads
    BY <2>3 DEF Starting, Threads
  <2> QED
    BY <1>0, <2>2, <2>3, <2>4, <2>5, BeginShift
<1>2. ASSUME NEW h \in Handlers, NEW ch \in Channels, UnsubscribeCommand(h, ch)
      PROVE  \E e \in Frame : /\ Shift(Reader(h), 0, 1, e, e, e)
                              /\ e.fn = "unsubscribe" /\ e.at = "delete"
  <2>1. PICK e : e = [NewFrame("unsubscribe", "delete") EXCEPT !.h = h, !.ch = ch]
    OBVIOUS
  <2>2. e \in Frame
    BY <1>a, <2>1, FrameNew
  <2>3. e.fn = "unsubscribe" /\ e.at = "delete" /\ e.h = h
    BY <2>1 DEF NewFrame
  <2>4. Begin(Reader(h), e)
    BY <1>2, <2>1 DEF UnsubscribeCommand
  <2>5. Starting(Reader(h), e) /\ Reader(h) \in Threads
    BY <2>3 DEF Starting, Threads
  <2> QED
    BY <1>0, <2>2, <2>3, <2>4, <2>5, BeginShift
<1>3. ASSUME NEW h \in Handlers, PingTimeout(h)
      PROVE  \E e \in Frame : /\ Shift(Timer(h), 0, 1, e, e, e)
                              /\ e.fn = "close" /\ e.at = "swap"
  <2>1. PICK e : e = CloseFrame(h)
    OBVIOUS
  <2>2. e \in Frame /\ e.fn = "close" /\ e.at = "swap"
    BY <2>1, CloseFrameType
  <2>3. Begin(Timer(h), e)
    BY <1>3, <2>1 DEF PingTimeout
  <2>4. Starting(Timer(h), e) /\ Timer(h) \in Threads
    BY <2>2 DEF Starting, Threads
  <2> QED
    BY <1>0, <2>2, <2>3, <2>4, BeginShift
<1>4. ASSUME NEW a \in Apps, RelayClose(a) \/ \E ch \in Channels : DeleteRoom(a, ch)
      PROVE  \E e \in Frame : /\ Shift(App(a), 0, 1, e, e, e)
                              /\ e.fn = "shutdown" /\ e.at = "lock"
  <2>1. PICK chans \in SUBSET Channels, all \in BOOLEAN : Shutdown(a, chans, all)
    <3>1. CASE RelayClose(a)
      BY <3>1 DEF RelayClose
    <3>2. CASE \E ch \in Channels : DeleteRoom(a, ch)
      BY <3>2 DEF DeleteRoom
    <3> QED
      BY <1>4, <3>1, <3>2
  <2>2. PICK e : e = [NewFrame("shutdown", "lock") EXCEPT !.chans = chans, !.all = all]
    OBVIOUS
  <2>3. e \in Frame
    BY <1>a, <2>2, FrameNew
  <2>4. e.fn = "shutdown" /\ e.at = "lock"
    BY <2>2 DEF NewFrame
  <2>5. Begin(App(a), e)
    BY <2>1, <2>2 DEF Shutdown
  <2>6. Starting(App(a), e) /\ App(a) \in Threads
    BY <2>4 DEF Starting, Threads
  <2> QED
    BY <1>0, <2>3, <2>4, <2>5, <2>6, BeginShift
<1> QED
  BY <1>1, <1>2, <1>3, <1>4

(* Every step but a connect command is a step of one goroutine's stack. *)
LEMMA AnyShift ==
  ASSUME LockInv, Next, ~ \E h \in Handlers, u \in NewNames : Connect(h, u)
  PROVE  \E t \in Threads, n \in Nat, len \in Nat : \E f, g, e :
           Shift(t, n, len, f, g, e)
<1>0. Nat \ {0} \subseteq Nat /\ 0 \in Nat /\ 1 \in Nat
  OBVIOUS
<1>1. ASSUME NEW t \in Threads, Step(t)
      PROVE  \E n \in Nat, len \in Nat : \E f, g, e : Shift(t, n, len, f, g, e)
  <2>1. PICK f : f = Top(t)
    OBVIOUS
  <2>2. CASE \/ SubscribeGet(t) \/ SubscribeCreate(t) \/ SubscribeCheck(t)
    BY <1>0, <2>1, <2>2, SubscribeShifts
  <2>3. CASE SubscribeLock(t) \/ SubscribeSet(t) \/ SubscribeStore(t)
    BY <1>0, <2>1, <2>3, EnterShifts
  <2>4. CASE UnsubscribeDelete(t) \/ UnsubscribeEnd(t)
    BY <1>0, <2>1, <2>4, UnsubscribeShifts
  <2>5. CASE \/ RelayUnsubscribeGet(t) \/ RelayUnsubscribeLock(t)
             \/ RelayUnsubscribeDelete(t)
    BY <1>0, <2>1, <2>5, RelayUnsubscribeShifts
  <2>6. CASE CloseSwap(t) \/ CloseCopy(t) \/ CloseLoop(t)
    BY <1>0, <2>1, <2>6, CloseShifts
  <2>7. CASE \/ ShutdownLock(t) \/ ShutdownNext(t) \/ ShutdownRoomLock(t)
             \/ ShutdownRoom(t)
    BY <1>0, <2>1, <2>7, ShutdownShifts
  <2> QED
    BY <1>1, <2>2, <2>3, <2>4, <2>5, <2>6, <2>7 DEF Step
<1>2. ASSUME \/ \E h \in Handlers, ch \in Channels :
                  SubscribeCommand(h, ch) \/ UnsubscribeCommand(h, ch)
             \/ \E h \in Handlers : PingTimeout(h)
             \/ \E a \in Apps : RelayClose(a)
                                  \/ \E ch \in Channels : DeleteRoom(a, ch)
      PROVE  \E t \in Threads : \E e : Shift(t, 0, 1, e, e, e)
  <2>1. /\ \A h \in Handlers : Reader(h) \in Threads /\ Timer(h) \in Threads
        /\ \A a \in Apps : App(a) \in Threads
    BY DEF Threads
  <2> QED
    BY <1>2, <2>1, BeginShifts
<1> QED
  BY <1>0, <1>1, <1>2 DEF Next

(* Who calls whom, in every state. *)
LEMMA CallGraph == Spec => [](LockInv /\ Calls)
<1>1. ASSUME Init PROVE LockInv /\ Calls
  <2>1. \A t \in Threads : DOMAIN stack[t] = {}
    BY <1>1 DEF Init
  <2> QED
    BY <1>1, <2>1, LockInit DEF Calls
<1>2. ASSUME LockInv, Calls, [Next]_vars PROVE LockInv' /\ Calls'
  <2>1. LockInv'
    BY <1>2, LockNext
  <2>2. CASE UNCHANGED stack
    <3>1. UNCHANGED stack
      BY <2>2
    <3>2. Calls'
      BY <1>2, <3>1 DEF Calls, Starting, Calling, Holder, Reader
    <3> QED
      BY <2>1, <3>2
  <2>3. CASE Next /\ ~ \E h \in Handlers, u \in NewNames : Connect(h, u)
    <3>1. PICK t \in Threads, n \in Nat, len \in Nat :
            \E f, g, e : Shift(t, n, len, f, g, e)
      BY <1>2, <2>3, AnyShift
    <3>2. TypeOK
      BY <1>2 DEF LockInv
    <3>3. Calls'
      BY <1>2, <3>1, <3>2, CallsKept
    <3> QED
      BY <2>1, <3>3
  <2>4. UNCHANGED vars => UNCHANGED stack
    BY DEF vars
  <2>5. ASSUME NEW h \in Handlers, NEW u \in NewNames, Connect(h, u)
        PROVE  UNCHANGED stack
    BY <2>5 DEF Connect
  <2> QED
    BY <1>2, <2>2, <2>3, <2>4, <2>5
<1>3. Init => LockInv /\ Calls
  BY <1>1
<1>4. (LockInv /\ Calls) /\ [Next]_vars => (LockInv /\ Calls)'
  BY <1>2
<1> QED
  BY <1>3, <1>4, PTL DEF Spec

(* A goroutine that waits has no Holder on top, and below the top a Holder  *)
(* is calling Close.                                                        *)
LEMMA WaitingHolder ==
  ASSUME LockInv, Calls, NEW w \in Threads, WaitsFor(w) # {},
         NEW o \in Objects, roomMu[o] = w
  PROVE  \E i \in DOMAIN stack[w] : i > 1 /\ stack[w][i].fn = "close"
<1>0. TypeOK /\ Locked(o)
  BY DEF LockInv
<1>1. roomMu[o] # Nobody
  BY SessionAssumption
<1>2. PICK i \in Nat : Holds(w, i, o)
  BY <1>0, <1>1 DEF Locked
<1>3. PICK q \in Seq(Frame), n \in Nat : q = stack[w] /\ n = Len(q)
  BY <1>0 DEF TypeOK
<1>4. i \in 1 .. n /\ Holder(q[i]) /\ DOMAIN q = 1 .. n /\ n > 0
  BY <1>2, <1>3 DEF Holds
<1>5. i # n
  <2>1. SUFFICES ASSUME i = n PROVE FALSE
    OBVIOUS
  <2>2. Top(w) = q[n] /\ Holder(Top(w))
    BY <1>3, <1>4, <2>1 DEF Top
  <2>3. WaitsFor(w) = {}
    BY <2>2 DEF WaitsFor, Holder
  <2> QED
    BY <2>3
<1>6. i + 1 \in DOMAIN stack[w] /\ i + 1 > 1 /\ (i + 1) - 1 = i
  BY <1>3, <1>4, <1>5
<1>7. Calling(stack[w][i], stack[w][i + 1])
  BY <1>6 DEF Calls
<1>8. stack[w][i + 1].fn = "close"
  BY <1>3, <1>4, <1>7 DEF Calling, Holder
<1> QED
  BY <1>6, <1>8

(* Whom a goroutine may wait for. *)
LEMMA WaitsForHolder ==
  ASSUME LockInv, NEW t \in Threads, NEW w \in WaitsFor(t)
  PROVE  /\ w \in Threads
         /\ \/ \E o \in Objects : roomMu[o] = w
            \/ w = relayMu /\ w # Nobody /\ ~Shuts(t)
            \/ w = relayMu /\ w # Nobody /\ Len(stack[t]) > 1
<1> USE SessionAssumption
<1>0. TypeOK /\ Stacks /\ Relaying
  BY DEF LockInv
<1>1. stack[t] # << >>
  BY DEF WaitsFor
<1>2. PICK q \in Seq(Frame), n \in Nat : q = stack[t] /\ n = Len(q) /\ n > 0
  BY <1>0, <1>1 DEF TypeOK
<1>3. PICK f : f = q[n]
  OBVIOUS
<1>a. f = Top(t) /\ f \in Frame /\ n \in DOMAIN q
  BY <1>2, <1>3 DEF Top
<1>b. f = stack[t][n] /\ n \in DOMAIN stack[t]
  BY <1>2, <1>3, <1>a
<1>4. f = Top(t) /\ f \in Frame /\ Shaped(f) /\ (f.fn \in Outermost => n = 1)
  BY <1>0, <1>a, <1>b DEF Stacks
<1>5. w # Nobody
  BY DEF WaitsFor
<1>6. \/ /\ w = relayMu
         /\ \/ f.fn = "subscribe" /\ f.at \in {"get", "create"}
            \/ f.fn = "relayUnsubscribe" /\ f.at = "get"
            \/ f.fn = "shutdown" /\ f.at = "lock"
      \/ /\ w = roomMu[f.o]
         /\ \/ f.fn = "subscribe" /\ f.at \in {"check", "lock"}
            \/ f.fn = "relayUnsubscribe" /\ f.at = "lock"
            \/ f.fn = "shutdown" /\ f.at = "stop"
      \/ /\ f.fn = "shutdown" /\ f.at = "loop"
         /\ \E ch \in f.chans : w = roomMu[rooms[ch]]
  BY <1>1, <1>4 DEF WaitsFor
<1>7. CASE /\ w = relayMu
           /\ \/ f.fn = "subscribe" /\ f.at \in {"get", "create"}
              \/ f.fn = "relayUnsubscribe" /\ f.at = "get"
              \/ f.fn = "shutdown" /\ f.at = "lock"
  <2>1. w \in Threads
    BY <1>0, <1>5, <1>7 DEF TypeOK
  <2>2. n > 1 \/ ~Shuts(t)
    <3>1. CASE n = 1
      <4>1. stack[t][1] = f
        BY <1>2, <1>3, <3>1
      <4> QED
        BY <1>7, <4>1 DEF Shuts
    <3>2. \A m \in Nat : m > 0 => m = 1 \/ m > 1
      OBVIOUS
    <3> QED
      BY <1>2, <3>1, <3>2
  <2> QED
    BY <1>2, <1>5, <1>7, <2>1, <2>2
<1>8. CASE /\ w = roomMu[f.o]
           /\ \/ f.fn = "subscribe" /\ f.at \in {"check", "lock"}
              \/ f.fn = "relayUnsubscribe" /\ f.at = "lock"
              \/ f.fn = "shutdown" /\ f.at = "stop"
  <2>1. f.o \in Objects
    BY <1>4, <1>8 DEF Shaped
  <2>2. w \in Threads
    BY <1>0, <1>5, <1>8, <2>1 DEF TypeOK
  <2> QED
    BY <1>8, <2>1, <2>2
<1>9. CASE /\ f.fn = "shutdown" /\ f.at = "loop"
           /\ \E ch \in f.chans : w = roomMu[rooms[ch]]
  <2>1. PICK ch \in f.chans : w = roomMu[rooms[ch]]
    BY <1>9
  <2>2. ch \in Channels
    BY <1>4, <2>1, FrameFields
  <2>3. n = 1 /\ stack[t][1] = f
    BY <1>2, <1>3, <1>4, <1>9 DEF Outermost
  <2>4. Shuts(t)
    BY <1>1, <1>9, <2>3 DEF Shuts
  <2>5. rooms[ch] # 0
    BY <1>0, <2>1, <2>3, <2>4 DEF Relaying
  <2>6. rooms[ch] \in 0 .. MaxRooms
    BY <1>0, <2>2 DEF TypeOK
  <2>7. rooms[ch] \in Objects
    BY <2>5, <2>6 DEF Objects
  <2>8. w \in Threads
    BY <1>0, <1>5, <2>1, <2>7 DEF TypeOK
  <2> QED
    BY <2>1, <2>7, <2>8
<1> QED
  BY <1>6, <1>7, <1>8, <1>9

(* Every deadlock goes through a Close that a method of Room has called     *)
(* with Room.mu held, for any number of handlers, users, channels and       *)
(* application goroutines: handleSubscribe, handleUnsubscribe, the ping     *)
(* timer, DeleteRoom and Relay.Close do not deadlock by themselves.         *)
THEOREM DeadlocksInClose == Spec => []OnlyCloseDeadlocks
<1>1. ASSUME LockInv, Calls PROVE OnlyCloseDeadlocks
  <2>0. TypeOK /\ Stacks /\ Relaying
    BY <1>1 DEF LockInv
  <2>1. SUFFICES ASSUME NEW S \in SUBSET {t \in Threads : WaitsFor(t) # {}},
                        S # {}, \A t \in S : WaitsFor(t) \subseteq S
                 PROVE  \E t \in S : \E i \in DOMAIN stack[t] :
                          i > 1 /\ stack[t][i].fn = "close"
    BY DEF OnlyCloseDeadlocks
  <2>2. ASSUME NEW t \in S, NEW w \in WaitsFor(t)
        PROVE  w \in S /\ t \in Threads /\ w \in Threads /\ WaitsFor(w) # {}
    BY <2>1
  <2>3. ASSUME NEW w \in S, NEW o \in Objects, roomMu[o] = w
        PROVE  \E t \in S : \E i \in DOMAIN stack[t] :
                 i > 1 /\ stack[t][i].fn = "close"
    <3>1. w \in Threads /\ WaitsFor(w) # {}
      OBVIOUS
    <3> QED
      BY <1>1, <2>3, <3>1, WaitingHolder
  <2>4. ASSUME NEW w \in S, relayMu = w
        PROVE  \E t \in S : \E i \in DOMAIN stack[t] :
                 i > 1 /\ stack[t][i].fn = "close"
    <3>0. w \in Threads
      OBVIOUS
    <3>1. Shuts(w)
      BY <2>0, <2>4, <3>0 DEF Relaying
    <3>2. CASE Len(stack[w]) > 1
      <4>1. PICK q \in Seq(Frame) : q = stack[w]
        BY <2>0, <3>0 DEF TypeOK
      <4>2. Len(q) > 1 /\ Len(q) \in Nat
        BY <3>2, <4>1
      <4>3. 1 \in DOMAIN stack[w] /\ 2 \in DOMAIN stack[w] /\ 2 > 1 /\ 2 - 1 = 1
        BY <4>1, <4>2
      <4>4. Calling(stack[w][1], stack[w][2])
        BY <1>1, <3>0, <4>3 DEF Calls
      <4>5. stack[w][2].fn = "close"
        BY <3>1, <4>4 DEF Shuts, Calling
      <4> QED
        BY <4>3, <4>5
    <3>3. CASE ~(Len(stack[w]) > 1)
      <4>1. PICK v \in WaitsFor(w) : v \in S
        BY <2>1
      <4>2. \E o \in Objects : roomMu[o] = v
        BY <1>1, <3>0, <3>1, <3>3, WaitsForHolder
      <4> QED
        BY <2>3, <4>1, <4>2
    <3> QED
      BY <3>2, <3>3
  <2>5. PICK t \in S : TRUE
    BY <2>1
  <2>6. PICK w \in WaitsFor(t) : w \in S
    BY <2>1
  <2>7. t \in Threads
    OBVIOUS
  <2>8. relayMu = w \/ \E o \in Objects : roomMu[o] = w
    BY <1>1, <2>7, WaitsForHolder
  <2> QED
    BY <2>3, <2>4, <2>6, <2>8
<1>2. LockInv /\ Calls => OnlyCloseDeadlocks
  BY <1>1
<1> QED
  BY <1>2, CallGraph, PTL

-----------------------------------------------------------------------------
(* A closed handler is in no room *)

(* Frame k is a Close of h that has not been turned away. *)
Closing(k, h) == k.fn = "close" /\ k.h = h /\ k.at \in {"copy", "loop"}

(* There is one such Close at most, and none once it has returned. *)
OneClose(h) ==
  /\ gone[h] => closed[h]
  /\ \A t \in Threads : \A i \in DOMAIN stack[t] : Closing(stack[t][i], h) =>
       /\ closed[h] /\ ~gone[h]
       /\ \A u \in Threads : \A j \in DOMAIN stack[u] :
            Closing(stack[u][j], h) => u = t /\ j = i

Copies(k, h) == k.fn = "close" /\ k.h = h /\ k.at = "copy"

(* A subscribe command that runs while h is closed, and that no overlap has *)
(* been noted for, began before Close copied the table of h.                *)
Noted(h) ==
  Subscribing(h) /\ closed[h] /\ ~stray[h] =>
    \E t \in Threads : \E i \in DOMAIN stack[t] : Copies(stack[t][i], h)

(* The function in frame k has the room of its channel, or had. *)
Knows(k) == k.fn = "subscribe" /\ k.at \in {"check", "lock", "set"}

(* A room object is the room of one channel, from its creation on. *)
Belongs ==
  /\ \A c \in Channels : rooms[c] <= created
  /\ \A c, d \in Channels : rooms[c] # 0 /\ rooms[c] = rooms[d] => c = d
  /\ \A o \in Objects : o > created => \A u \in Users : subscribers[o][u] = Nobody
  /\ \A t \in Threads : \A i \in DOMAIN stack[t] : Knows(stack[t][i]) =>
       /\ stack[t][i].o <= created
       /\ \A c \in Channels : rooms[c] = stack[t][i].o => c = stack[t][i].ch

(* The function in frame k will enter ch in the table of h, or will have h  *)
(* leave the room of ch.                                                    *)
Accounts(k, h, ch) ==
  /\ k.h = h
  /\ \/ k.fn = "subscribe" /\ k.at = "store" /\ k.ch = ch
     \/ k.fn = "close" /\ k.at = "copy" /\ ch \in subscriptions[h]
     \/ k.fn = "close" /\ k.at = "loop" /\ ch \in k.chans
     \/ /\ k.fn = "relayUnsubscribe" /\ k.ch = ch /\ k.u = userID[h]
        /\ k.at = "get" \/ k.o = rooms[ch]

Explained(h, ch) ==
  \/ ch \in subscriptions[h] /\ ~closed[h]
  \/ \E t \in Threads : \E i \in DOMAIN stack[t] : Accounts(stack[t][i], h, ch)

(* While the room of ch lists h, the table of h or some goroutine does too. *)
Justified(h, ch) ==
  rooms[ch] # 0 /\ subscribers[rooms[ch]][userID[h]] = h /\ ~stray[h]
    => Explained(h, ch)

(* It lists h under the name that h has now. *)
OwnName == \A h \in Handlers, ch \in Channels, u \in Users :
  rooms[ch] # 0 /\ subscribers[rooms[ch]][u] = h /\ ~stray[h] => u = userID[h]

LeaveInv ==
  /\ LockInv /\ Calls /\ Belongs
  /\ \A h \in Handlers : OneClose(h) /\ Noted(h)
  /\ \A h \in Handlers, ch \in Channels : Justified(h, ch)

(* No other function begins a Close, or ends one. *)
LEMMA OneCloseKept ==
  ASSUME TypeOK, NEW h \in Handlers, OneClose(h),
         NEW t \in Threads, NEW n, NEW len, NEW f, NEW g, NEW e,
         Shift(t, n, len, f, g, e), closed'[h] = closed[h], gone'[h] = gone[h],
         n > 0 /\ len >= n => (Closing(g, h) => Closing(f, h)),
         len = n + 1 => ~Closing(e, h)
  PROVE  OneClose(h)'
<1>0. Replaced(t, n, len, g, e) /\ (n > 0 => f = stack[t][n])
  BY DEF Shift
<1>1. n \in Nat /\ (n > 0 => n \in DOMAIN stack[t])
  BY <1>0, FrameMade
<1>2. ASSUME NEW u \in Threads, NEW i \in DOMAIN stack'[u], Closing(stack'[u][i], h)
      PROVE  i \in DOMAIN stack[u] /\ Closing(stack[u][i], h)
  BY <1>0, <1>1, <1>2, FrameCame
<1>3. ASSUME NEW u \in Threads, NEW i \in DOMAIN stack'[u], Closing(stack[u][i], h)'
      PROVE  Closing(stack'[u][i], h)
  BY <1>3 DEF Closing
<1>4. ASSUME NEW u \in Threads, NEW i \in DOMAIN stack'[u], Closing(stack[u][i], h)'
      PROVE  /\ closed'[h] /\ ~gone'[h]
             /\ \A v \in Threads : \A j \in DOMAIN stack'[v] :
                  Closing(stack[v][j], h)' => v = u /\ j = i
  <2>1. i \in DOMAIN stack[u] /\ Closing(stack[u][i], h)
    BY <1>2, <1>3, <1>4
  <2>2. ASSUME NEW v \in Threads, NEW j \in DOMAIN stack'[v],
               Closing(stack[v][j], h)'
        PROVE  v = u /\ j = i
    <3>1. j \in DOMAIN stack[v] /\ Closing(stack[v][j], h)
      BY <1>2, <1>3, <2>2
    <3> QED
      BY <2>1, <3>1 DEF OneClose
  <2>3. closed[h] /\ ~gone[h]
    BY <2>1 DEF OneClose
  <2> QED
    BY <2>2, <2>3
<1>5. gone'[h] => closed'[h]
  BY DEF OneClose
<1> QED
  BY <1>4, <1>5 DEF OneClose

(* The command that a reader is in. *)
LEMMA SubscribingKept ==
  ASSUME TypeOK, Stacks, NEW h \in Handlers, NEW t \in Threads, NEW n, NEW len,
         NEW f, NEW g, NEW e, Shift(t, n, len, f, g, e), Subscribing(h)'
  PROVE  Subscribing(h) \/ (n = 0 /\ e.fn = "subscribe" /\ e.h = h)
<1>0. Replaced(t, n, len, g, e) /\ (n > 0 => f = stack[t][n])
  BY DEF Shift
<1>1. n \in Nat /\ len \in Nat /\ (n > 0 => n \in DOMAIN stack[t])
  BY <1>0, FrameMade
<1>2. PICK r \in Threads : r = Reader(h)
  BY DEF Threads
<1>3. stack'[r] \in Seq(Frame) /\ stack[r] \in Seq(Frame)
  BY <1>0 DEF Replaced, TypeOK
<1>4. stack'[r] # << >> /\ stack'[r][1].fn = "subscribe"
  BY <1>2 DEF Subscribing, Reader
<1>5. 1 \in DOMAIN stack'[r]
  BY <1>3, <1>4
<1>6. 1 \in DOMAIN stack[r] => stack[r] # << >>
  BY <1>3
<1>7. CASE 1 \in DOMAIN stack[r] /\ stack'[r][1] = stack[r][1]
  BY <1>2, <1>4, <1>6, <1>7 DEF Subscribing
<1>8. CASE r = t /\ 1 = n /\ n > 0 /\ len >= n /\ stack'[r][1] = g
  <2>1. f.fn = "subscribe" /\ f = stack[r][1]
    BY <1>0, <1>4, <1>8 DEF Shift
  <2> QED
    BY <1>1, <1>2, <1>6, <1>8, <2>1 DEF Subscribing
<1>9. CASE r = t /\ 1 = n + 1 /\ len = n + 1 /\ stack'[r][1] = e
  <2>1. n = 0 /\ e.fn = "subscribe"
    BY <1>1, <1>4, <1>9
  <2>2. t = Reader(e.h)
    BY <2>1 DEF Shift, Starting
  <2>3. e.h = h
    BY <1>2, <1>9, <2>2 DEF Reader
  <2> QED
    BY <2>1, <2>3
<1> QED
  BY <1>0, <1>5, <1>7, <1>8, <1>9, FrameCame

(* A Close that has still to copy the table is not disturbed. *)
LEMMA NotedKept ==
  ASSUME TypeOK, Stacks, NEW h \in Handlers, Noted(h),
         NEW t \in Threads, NEW n, NEW len, NEW f, NEW g, NEW e,
         Shift(t, n, len, f, g, e), closed'[h] = closed[h], stray[h] => stray'[h],
         n > 0 => ~Copies(f, h),
         n = 0 /\ e.fn = "subscribe" /\ e.h = h /\ closed[h] => stray'[h]
  PROVE  Noted(h)'
<1>0. Replaced(t, n, len, g, e) /\ (n > 0 => f = stack[t][n])
  BY DEF Shift
<1>1. n \in Nat /\ (n > 0 => n \in DOMAIN stack[t])
  BY <1>0, FrameMade
<1>2. SUFFICES ASSUME Subscribing(h)', closed'[h], ~stray'[h]
               PROVE  \E u \in Threads : \E i \in DOMAIN stack'[u] :
                        Copies(stack'[u][i], h)
  BY DEF Noted, Copies
<1>3. Subscribing(h)
  BY <1>2, SubscribingKept
<1>4. PICK u \in Threads : \E i \in DOMAIN stack[u] : Copies(stack[u][i], h)
  BY <1>2, <1>3 DEF Noted
<1>5. PICK i \in DOMAIN stack[u] : Copies(stack[u][i], h)
  BY <1>4
<1>6. u # t \/ i # n
  BY <1>0, <1>1, <1>5 DEF TypeOK
<1>7. i \in DOMAIN stack'[u] /\ stack'[u][i] = stack[u][i]
  BY <1>0, <1>6, FrameKept
<1> QED
  BY <1>5, <1>7

(* Rooms are only taken from the map. *)
LEMMA BelongsKept ==
  ASSUME TypeOK, Stacks, Belongs, UNCHANGED created,
         NEW t \in Threads, NEW n, NEW len, NEW f, NEW g, NEW e,
         Shift(t, n, len, f, g, e),
         \A c \in Channels : rooms'[c] = rooms[c] \/ rooms'[c] = 0,
         \A o \in Objects :
           o > created => \A u \in Users : subscribers'[o][u] = Nobody,
         n > 0 /\ len >= n /\ Knows(g) =>
           \/ Knows(f) /\ g.o = f.o
           \/ f.ch \in Channels /\ g.o # 0 /\ g.o = rooms[f.ch],
         len = n + 1 => ~Knows(e)
  PROVE  Belongs'
<1> USE SessionAssumption
<1>0. Replaced(t, n, len, g, e) /\ (n > 0 => f = stack[t][n])
  BY DEF Shift
<1>1. n \in Nat /\ (n > 0 => n \in DOMAIN stack[t])
  BY <1>0, FrameMade
<1>2. created \in Nat /\ \A c \in Channels : rooms[c] \in Nat
  BY DEF TypeOK
<1>3. \A c \in Channels : rooms'[c] <= created'
  BY <1>2 DEF Belongs
<1>4. \A c, d \in Channels : rooms'[c] # 0 /\ rooms'[c] = rooms'[d] => c = d
  BY DEF Belongs
<1>5. \A o \in Objects : o > created' => \A u \in Users : subscribers'[o][u] = Nobody
  OBVIOUS
<1>6. ASSUME NEW u \in Threads, NEW i \in DOMAIN stack[u], Knows(stack[u][i])
      PROVE  /\ stack[u][i].o \in Objects /\ stack[u][i].o # 0
             /\ stack[u][i].o <= created
             /\ \A c \in Channels : rooms[c] = stack[u][i].o => c = stack[u][i].ch
  <2>1. stack[u][i].o \in Objects
    BY <1>6 DEF Stacks, Shaped, Knows
  <2>2. stack[u][i].o # 0
    BY <2>1 DEF Objects
  <2> QED
    BY <1>6, <2>1, <2>2 DEF Belongs
<1>7. ASSUME NEW u \in Threads, NEW i \in DOMAIN stack'[u], Knows(stack'[u][i])
      PROVE  /\ stack'[u][i].o <= created
             /\ \A c \in Channels : rooms'[c] = stack'[u][i].o => c = stack'[u][i].ch
  <2>1. CASE i \in DOMAIN stack[u] /\ stack'[u][i] = stack[u][i]
    BY <1>6, <1>7, <2>1
  <2>2. CASE u = t /\ i = n /\ n > 0 /\ len >= n /\ stack'[u][i] = g
    <3>1. g.fn = f.fn /\ f.fn # "shutdown" /\ g.ch = f.ch /\ f = stack[t][n]
      BY <1>7, <2>2 DEF Shift, Knows
    <3>2. CASE Knows(f) /\ g.o = f.o
      BY <1>1, <1>6, <2>2, <3>1, <3>2
    <3>3. CASE f.ch \in Channels /\ g.o # 0 /\ g.o = rooms[f.ch]
      BY <1>2, <2>2, <3>1, <3>3 DEF Belongs
    <3> QED
      BY <1>7, <2>2, <3>2, <3>3
  <2>3. CASE u = t /\ i = n + 1 /\ len = n + 1 /\ stack'[u][i] = e
    BY <1>7, <2>3
  <2> QED
    BY <1>0, <2>1, <2>2, <2>3, FrameCame
<1>8. ASSUME NEW u \in Threads, NEW i \in DOMAIN stack'[u], Knows(stack[u][i])'
      PROVE  /\ stack'[u][i].o <= created'
             /\ \A c \in Channels : rooms'[c] = stack'[u][i].o => c = stack'[u][i].ch
  BY <1>7, <1>8 DEF Knows
<1> QED
  BY <1>3, <1>4, <1>5, <1>8 DEF Belongs

(* What accounts for an entry of h in the room of ch still does, or the     *)
(* step has put something in its place.                                     *)
LEMMA ExplainedKept ==
  ASSUME TypeOK, NEW h \in Handlers, NEW ch \in Channels, Explained(h, ch),
         NEW t \in Threads, NEW n, NEW len, NEW f, NEW g, NEW e,
         Shift(t, n, len, f, g, e), rooms'[ch] = rooms[ch],
         userID'[h] = userID[h], closed'[h] = closed[h],
         ch \in subscriptions[h] => ch \in subscriptions'[h],
         n > 0 => ~Accounts(f, h, ch)
  PROVE  Explained(h, ch)'
<1>0. Replaced(t, n, len, g, e) /\ (n > 0 => f = stack[t][n])
  BY DEF Shift
<1>1. n \in Nat /\ (n > 0 => n \in DOMAIN stack[t])
  BY <1>0, FrameMade
<1>2. CASE ch \in subscriptions[h] /\ ~closed[h]
  BY <1>2 DEF Explained
<1>3. CASE \E u \in Threads : \E i \in DOMAIN stack[u] : Accounts(stack[u][i], h, ch)
  <2>1. PICK u \in Threads : \E i \in DOMAIN stack[u] : Accounts(stack[u][i], h, ch)
    BY <1>3
  <2>2. PICK i \in DOMAIN stack[u] : Accounts(stack[u][i], h, ch)
    BY <2>1
  <2>3. u # t \/ i # n
    BY <1>0, <1>1, <2>2 DEF TypeOK
  <2>4. i \in DOMAIN stack'[u] /\ stack'[u][i] = stack[u][i]
    BY <1>0, <2>3, FrameKept
  <2>5. Accounts(stack[u][i], h, ch)'
    BY <2>2, <2>4 DEF Accounts
  <2> QED
    BY <2>4, <2>5 DEF Explained
<1> QED
  BY <1>2, <1>3 DEF Explained

(* The frames of the step account for the entry. *)
LEMMA ExplainedMade ==
  ASSUME TypeOK, NEW h \in Handlers, NEW ch \in Channels,
         NEW t \in Threads, NEW n, NEW len, NEW f, NEW g, NEW e,
         Shift(t, n, len, f, g, e),
         \/ n > 0 /\ len >= n /\ Accounts(g, h, ch)'
         \/ len = n + 1 /\ Accounts(e, h, ch)'
  PROVE  Explained(h, ch)'
<1>0. Replaced(t, n, len, g, e)
  BY DEF Shift
<1>1. /\ n > 0 /\ len >= n => n \in DOMAIN stack'[t] /\ stack'[t][n] = g
      /\ len = n + 1 => n + 1 \in DOMAIN stack'[t] /\ stack'[t][n + 1] = e
  BY <1>0, FrameMade
<1>2. CASE n > 0 /\ len >= n /\ Accounts(g, h, ch)'
  <2>1. n \in DOMAIN stack'[t] /\ Accounts(stack[t][n], h, ch)'
    BY <1>1, <1>2 DEF Accounts
  <2> QED
    BY <2>1 DEF Explained
<1>3. CASE len = n + 1 /\ Accounts(e, h, ch)'
  <2>1. n + 1 \in DOMAIN stack'[t] /\ Accounts(stack[t][n + 1], h, ch)'
    BY <1>1, <1>3 DEF Accounts
  <2> QED
    BY <2>1 DEF Explained
<1> QED
  BY <1>2, <1>3

(* A step outside the body of Close. *)
LEMMA OutsideClose ==
  ASSUME LeaveInv, NEW t \in Threads, NEW n, NEW len, NEW f, NEW g, NEW e,
         Shift(t, n, len, f, g, e),
         \A h \in Handlers : /\ closed'[h] = closed[h] /\ gone'[h] = gone[h]
                             /\ stray[h] => stray'[h],
         n > 0 => f.fn # "close" \/ f.at = "swap",
         n > 0 /\ len >= n => g.fn # "close" \/ g.at = "swap",
         len = n + 1 => e.fn # "close" \/ e.at = "swap",
         n = 0 /\ e.fn = "subscribe" => \A h \in Handlers :
           e.h = h /\ closed[h] => stray'[h]
  PROVE  \A h \in Handlers : OneClose(h)' /\ Noted(h)'
<1>0. TypeOK /\ Stacks
  BY DEF LeaveInv, LockInv
<1>1. ASSUME NEW h \in Handlers PROVE OneClose(h)' /\ Noted(h)'
  <2>1. OneClose(h) /\ Noted(h)
    BY DEF LeaveInv
  <2>2. /\ n > 0 => ~Copies(f, h)
        /\ n > 0 /\ len >= n => ~Closing(g, h)
        /\ len = n + 1 => ~Closing(e, h)
    BY DEF Copies, Closing
  <2>3. OneClose(h)'
    BY <1>0, <2>1, <2>2, OneCloseKept
  <2>4. Noted(h)'
    BY <1>0, <2>1, <2>2, NotedKept
  <2> QED
    BY <2>3, <2>4
<1> QED
  BY <1>1

(* A step that accounts for no entry, and makes none. *)
LEMMA Inert ==
  ASSUME LeaveInv, LockInv', NEW t \in Threads, NEW n, NEW len, NEW f, NEW g, NEW e,
         Shift(t, n, len, f, g, e), UNCHANGED created,
         \A h \in Handlers : /\ closed'[h] = closed[h] /\ gone'[h] = gone[h]
                             /\ stray[h] => stray'[h]
                             /\ userID'[h] = userID[h]
                             /\ subscriptions'[h] = subscriptions[h],
         \A c \in Channels : rooms'[c] = rooms[c] \/ rooms'[c] = 0,
         \A o \in Objects, u \in Users :
           subscribers'[o][u] = subscribers[o][u] \/ subscribers'[o][u] = Nobody,
         n > 0 => /\ f.fn # "close" \/ f.at = "swap"
                  /\ f.fn # "relayUnsubscribe"
                  /\ f.fn # "subscribe" \/ f.at # "store",
         n > 0 /\ len >= n => g.fn # "close" \/ g.at = "swap",
         n > 0 /\ len >= n /\ Knows(g) =>
           \/ Knows(f) /\ g.o = f.o
           \/ f.ch \in Channels /\ g.o # 0 /\ g.o = rooms[f.ch],
         len = n + 1 => (e.fn # "close" \/ e.at = "swap") /\ ~Knows(e),
         n = 0 /\ e.fn = "subscribe" => \A h \in Handlers :
           e.h = h /\ closed[h] => stray'[h]
  PROVE  LeaveInv'
<1> USE SessionAssumption
<1>0. TypeOK /\ Stacks /\ Calls /\ Belongs /\ TypeOK'
  BY DEF LeaveInv, LockInv
<1>1. Calls'
  BY <1>0, CallsKept
<1>2. \A h \in Handlers : OneClose(h)' /\ Noted(h)'
  BY OutsideClose
<1>a. \A o \in Objects :
        o > created => \A u \in Users : subscribers'[o][u] = Nobody
  BY <1>0 DEF Belongs
<1>3. Belongs'
  BY <1>0, <1>a, BelongsKept
<1>4. ASSUME NEW h \in Handlers, NEW ch \in Channels,
             rooms'[ch] # 0, subscribers'[rooms'[ch]][userID[h]] = h, ~stray'[h]
      PROVE  Explained(h, ch)'
  <2>1. rooms'[ch] = rooms[ch] /\ rooms[ch] # 0 /\ rooms[ch] \in Objects
    BY <1>0, <1>4 DEF TypeOK, Objects
  <2>2. userID[h] \in Users /\ h # Nobody
    BY <1>0 DEF TypeOK
  <2>3. subscribers[rooms[ch]][userID[h]] = h /\ ~stray[h]
    BY <1>4, <2>1, <2>2
  <2>4. Explained(h, ch)
    BY <2>1, <2>3 DEF LeaveInv, Justified
  <2>5. n > 0 => ~Accounts(f, h, ch)
    BY DEF Accounts
  <2> QED
    BY <1>0, <2>1, <2>4, <2>5, ExplainedKept
<1>5. \A h \in Handlers, ch \in Channels : Justified(h, ch)'
  BY <1>4 DEF Justified
<1> QED
  BY <1>1, <1>2, <1>3, <1>5 DEF LeaveInv

(* handleSubscribe up to Room.Subscribe, but for CreateRoom. *)
LEMMA LeaveSubscribe ==
  ASSUME LeaveInv, LockInv', NEW t \in Threads,
         \/ SubscribeGet(t) \/ SubscribeCheck(t) \/ SubscribeLock(t)
         \/ SubscribeCreate(t) /\ UNCHANGED rooms
  PROVE  LeaveInv'
<1>0. LockInv /\ TypeOK /\ Stacks
  BY DEF LeaveInv, LockInv
<1>a. PICK f : f = Top(t)
  OBVIOUS
<1>b. \A at : In(t, "subscribe", at) => f.ch \in Channels
  BY <1>0, <1>a, TopFacts DEF Shaped
<1>1. CASE SubscribeGet(t)
  <2>1. PICK n \in Nat \ {0}, g \in Frame :
          /\ Shift(t, n, n, f, g, g) /\ f.fn = "subscribe" /\ f.at = "get"
          /\ \/ g.at = "create"
             \/ g.at = "check" /\ g.o # 0 /\ g.o = rooms[f.ch]
    BY <1>0, <1>1, <1>a, SubscribeShifts
  <2>2. UNCHANGED <<rooms, created, subscribers, subscriptions, closed, gone,
                  stray, userID>>
    BY <1>1 DEF SubscribeGet, maps, table
  <2>3. n > 0 /\ n >= n /\ n # n + 1 /\ n # 0
    OBVIOUS
  <2>4. g.fn = "subscribe" /\ f.ch \in Channels
    BY <1>1, <1>b, <2>1, <2>3 DEF Shift, SubscribeGet
  <2>5. Knows(g) => g.o # 0 /\ g.o = rooms[f.ch]
    BY <2>1 DEF Knows
  <2> QED
    BY <2>1, <2>2, <2>3, <2>4, <2>5, Inert
<1>2. CASE SubscribeCheck(t)
  <2>1. PICK n \in Nat \ {0}, len \in Nat, g \in Frame :
          /\ Shift(t, n, len, f, g, g) /\ len <= n
          /\ f.fn = "subscribe" /\ f.at = "check"
          /\ len = n => g.at = "lock" /\ g.o = f.o
    BY <1>0, <1>2, <1>a, SubscribeShifts
  <2>2. UNCHANGED <<rooms, created, subscribers, subscriptions, closed, gone,
                  stray, userID>>
    BY <1>2 DEF SubscribeCheck, Admit, maps
  <2>3. len # n + 1 /\ n # 0 /\ (len >= n => len = n)
    BY <2>1
  <2>4. n > 0 /\ len >= n => g.fn = "subscribe" /\ Knows(f) /\ g.o = f.o
    BY <2>1, <2>3 DEF Shift, Knows
  <2> QED
    BY <2>1, <2>2, <2>3, <2>4, Inert
<1>3. CASE SubscribeLock(t)
  <2>1. PICK n \in Nat \ {0}, len \in Nat, g \in Frame, e \in Frame :
          /\ Shift(t, n, len, f, g, e) /\ len >= n
          /\ f.fn = "subscribe" /\ f.at = "lock" /\ g.at = "set" /\ g.o = f.o
          /\ len = n + 1 => e.fn = "close" /\ e.at = "swap"
    BY <1>0, <1>3, <1>a, EnterShifts
  <2>2. UNCHANGED <<rooms, created, subscribers, subscriptions, closed, gone,
                  stray, userID>>
    BY <1>3 DEF SubscribeLock, maps, table
  <2>3. n # 0 /\ n > 0
    OBVIOUS
  <2>4. g.fn = "subscribe" /\ Knows(f) /\ g.o = f.o
    BY <2>1, <2>3 DEF Shift, Knows
  <2>5. len = n + 1 => ~Knows(e)
    BY <2>1 DEF Knows
  <2> QED
    BY <2>1, <2>2, <2>3, <2>4, <2>5, Inert
<1>4. CASE SubscribeCreate(t) /\ UNCHANGED rooms
  <2>1. PICK n \in Nat \ {0}, len \in Nat :
          Shift(t, n, len, f, f, f) /\ len < n
            /\ f.fn = "subscribe" /\ f.at = "create"
    BY <1>0, <1>4, <1>a, SubscribeShifts
  <2>2. UNCHANGED <<subscribers, subscriptions, closed, gone, stray, userID>>
    BY <1>4 DEF SubscribeCreate, table
  <2>3. UNCHANGED created
    <3>1. rooms[f.ch] # 0 \/ rooms[f.ch] # created + 1
      BY <1>0 DEF TypeOK
    <3>2. f.ch \in Channels
      BY <1>4, <1>b DEF SubscribeCreate
    <3>3. rooms = [rooms EXCEPT ![f.ch] = created + 1] => rooms[f.ch] = created + 1
      BY <1>0, <3>2 DEF TypeOK
    <3> QED
      BY <1>4, <1>a, <3>1, <3>3 DEF SubscribeCreate
  <2>4. ~(len >= n) /\ len # n + 1 /\ n # 0
    BY <2>1
  <2> QED
    BY <1>4, <2>1, <2>2, <2>3, <2>4, Inert
<1> QED
  BY <1>1, <1>2, <1>3, <1>4

(* CreateRoom: the new room is empty. *)
LEMMA LeaveCreate ==
  ASSUME LeaveInv, LockInv', NEW t \in Threads, SubscribeCreate(t), rooms' # rooms
  PROVE  LeaveInv'
<1> USE SessionAssumption
<1>0. LockInv /\ TypeOK /\ Stacks /\ Calls /\ Belongs /\ TypeOK'
  BY DEF LeaveInv, LockInv
<1>a. PICK f : f = Top(t)
  OBVIOUS
<1>1. f.ch \in Channels
  BY <1>0, <1>a, TopFacts DEF Shaped, SubscribeCreate
<1>2. PICK n \in Nat \ {0}, g \in Frame :
        /\ Shift(t, n, n, f, g, g) /\ f.fn = "subscribe" /\ f.at = "create"
        /\ g.at = "check" /\ g.o = created + 1
  BY <1>0, <1>a, SubscribeShifts
<1>3. /\ UNCHANGED <<subscribers, subscriptions, closed, gone, stray, userID>>
      /\ created' = created + 1 /\ rooms' = [rooms EXCEPT ![f.ch] = created + 1]
      /\ rooms[f.ch] = 0 /\ created < MaxRooms
  BY <1>a DEF SubscribeCreate, table
<1>4. n > 0 /\ n >= n /\ n # n + 1 /\ n # 0
  OBVIOUS
<1>5. g.fn = "subscribe" /\ g.ch = f.ch /\ Replaced(t, n, n, g, g) /\ f = stack[t][n]
  BY <1>2, <1>4 DEF Shift
<1>6. Calls'
  BY <1>0, <1>2, CallsKept
<1>7. \A h \in Handlers : OneClose(h)' /\ Noted(h)'
  BY <1>2, <1>3, <1>4, <1>5, OutsideClose
<1>8. created \in Nat /\ created + 1 \in Objects
      /\ \A c \in Channels : rooms[c] \in Nat /\ rooms[c] <= created
  BY <1>0, <1>3 DEF TypeOK, Belongs, Objects
<1>9. \A c \in Channels : rooms'[c] = IF c = f.ch THEN created + 1 ELSE rooms[c]
  BY <1>0, <1>3 DEF TypeOK
<1>10. Belongs'
  <2>1. \A c \in Channels : rooms'[c] <= created'
    BY <1>3, <1>8, <1>9
  <2>2. \A c, d \in Channels : rooms'[c] # 0 /\ rooms'[c] = rooms'[d] => c = d
    BY <1>0, <1>8, <1>9 DEF Belongs
  <2>3. ASSUME NEW o \in Objects, o > created'
        PROVE  \A u \in Users : subscribers'[o][u] = Nobody
    <3>1. o > created
      BY <1>3, <1>8, <2>3 DEF Objects
    <3> QED
      BY <1>0, <1>3, <3>1 DEF Belongs
  <2>4. ASSUME NEW u \in Threads, NEW i \in DOMAIN stack'[u], Knows(stack'[u][i])
        PROVE  /\ stack'[u][i].o <= created'
               /\ \A c \in Channels :
                    rooms'[c] = stack'[u][i].o => c = stack'[u][i].ch
    <3>1. CASE i \in DOMAIN stack[u] /\ stack'[u][i] = stack[u][i]
      <4>1. /\ stack[u][i].o <= created /\ stack[u][i].o \in Nat
            /\ \A c \in Channels : rooms[c] = stack[u][i].o => c = stack[u][i].ch
        <5>1. stack[u][i].o \in Objects
          BY <1>0, <2>4, <3>1 DEF Stacks, Shaped, Knows
        <5> QED
          BY <1>0, <2>4, <3>1, <5>1 DEF Belongs, Objects
      <4>2. stack[u][i].o <= created + 1 /\ stack[u][i].o # created + 1
        BY <1>8, <4>1
      <4> QED
        BY <1>3, <1>9, <3>1, <4>1, <4>2
    <3>2. CASE stack'[u][i] = g
      <4>1. \A c \in Channels : rooms[c] # created + 1
        BY <1>8
      <4> QED
        BY <1>2, <1>3, <1>5, <1>8, <1>9, <3>2, <4>1
    <3> QED
      BY <1>0, <1>4, <1>5, <3>1, <3>2, FrameCame
  <2>5. ASSUME NEW u \in Threads, NEW i \in DOMAIN stack'[u], Knows(stack[u][i])'
        PROVE  /\ stack'[u][i].o <= created'
               /\ \A c \in Channels :
                    rooms'[c] = stack'[u][i].o => c = stack'[u][i].ch
    BY <2>4, <2>5 DEF Knows
  <2> QED
    BY <2>1, <2>2, <2>3, <2>5 DEF Belongs
<1>11. ASSUME NEW h \in Handlers, NEW ch \in Channels,
              rooms'[ch] # 0, subscribers'[rooms'[ch]][userID[h]] = h, ~stray'[h]
       PROVE  Explained(h, ch)'
  <2>1. userID[h] \in Users /\ h # Nobody
    BY <1>0 DEF TypeOK
  <2>2. ch # f.ch
    <3>1. created + 1 > created
      BY <1>8
    <3>2. subscribers[created + 1][userID[h]] = Nobody
      BY <1>0, <1>8, <2>1, <3>1 DEF Belongs
    <3> QED
      BY <1>3, <1>9, <1>11, <2>1, <3>2
  <2>3. rooms'[ch] = rooms[ch]
    BY <1>9, <2>2
  <2>4. Explained(h, ch)
    BY <1>3, <1>11, <2>3 DEF LeaveInv, Justified
  <2>5. ~Accounts(f, h, ch)
    BY <1>2 DEF Accounts
  <2> QED
    BY <1>0, <1>2, <1>3, <2>3, <2>4, <2>5, ExplainedKept
<1>12. \A h \in Handlers, ch \in Channels : Justified(h, ch)'
  BY <1>3, <1>11 DEF Justified
<1> QED
  BY <1>6, <1>7, <1>10, <1>12 DEF LeaveInv

(* Room.Subscribe enters the handler; the table is next. *)
LEMMA LeaveSet ==
  ASSUME LeaveInv, LockInv', NEW t \in Threads, SubscribeSet(t)
  PROVE  LeaveInv'
<1> USE SessionAssumption
<1>0. LockInv /\ TypeOK /\ Stacks /\ Calls /\ Belongs
  BY DEF LeaveInv, LockInv
<1>a. PICK f : f = Top(t)
  OBVIOUS
<1>1. f.ch \in Channels /\ f.h \in Handlers /\ f.o \in Objects
  BY <1>0, <1>a, TopFacts DEF Shaped, SubscribeSet
<1>2. PICK n \in Nat \ {0}, g \in Frame :
        /\ Shift(t, n, n, f, g, g) /\ f.fn = "subscribe" /\ f.at = "set"
        /\ g.at = "store"
  BY <1>0, <1>a, EnterShifts
<1>3. /\ UNCHANGED <<rooms, created, subscriptions, closed, gone, stray, userID>>
      /\ subscribers' = [subscribers EXCEPT ![f.o][userID[f.h]] = f.h]
  BY <1>a DEF SubscribeSet, table
<1>4. n > 0 /\ n >= n /\ n # n + 1 /\ n # 0
  OBVIOUS
<1>5. /\ g.fn = "subscribe" /\ g.ch = f.ch /\ g.h = f.h /\ f = stack[t][n]
      /\ Replaced(t, n, n, g, g)
  BY <1>2, <1>4 DEF Shift
<1>6. Calls'
  BY <1>0, <1>2, CallsKept
<1>7. \A h \in Handlers : OneClose(h)' /\ Noted(h)'
  BY <1>2, <1>3, <1>4, <1>5, OutsideClose
<1>8. n \in DOMAIN stack[t]
  BY <1>0, <1>4, <1>5, FrameMade
<1>9. f.o <= created /\ \A c \in Channels : rooms[c] = f.o => c = f.ch
  BY <1>0, <1>2, <1>5, <1>8 DEF Belongs, Knows
<1>10. Belongs'
  <2>1. ASSUME NEW o \in Objects, o > created, NEW u \in Users
        PROVE  subscribers'[o][u] = Nobody
    <3>1. created \in Nat
      BY <1>0 DEF TypeOK
    <3>2. o # f.o
      BY <1>1, <1>9, <2>1, <3>1 DEF Objects
    <3>3. subscribers'[o] = subscribers[o]
      BY <1>0, <1>3, <3>2 DEF TypeOK
    <3> QED
      BY <1>0, <2>1, <3>3 DEF Belongs
  <2>2. ~Knows(g)
    BY <1>2 DEF Knows
  <2> QED
    BY <1>0, <1>2, <1>3, <1>4, <2>1, <2>2, BelongsKept
<1>11. ASSUME NEW h \in Handlers, NEW ch \in Channels,
              rooms'[ch] # 0, subscribers'[rooms'[ch]][userID[h]] = h, ~stray'[h]
       PROVE  Explained(h, ch)'
  <2>1. rooms[ch] \in Objects /\ userID[h] \in Users /\ userID[f.h] \in Users
    BY <1>0, <1>1, <1>3, <1>11 DEF TypeOK, Objects
  <2>2. CASE rooms[ch] = f.o /\ h = f.h
    <3>1. ch = f.ch
      BY <1>9, <2>2
    <3>2. Accounts(g, h, ch)'
      BY <1>2, <1>5, <2>2, <3>1 DEF Accounts
    <3> QED
      BY <1>0, <1>2, <1>4, <3>2, ExplainedMade
  <2>3. CASE ~(rooms[ch] = f.o /\ h = f.h)
    <3>1. subscribers[rooms[ch]][userID[h]] = h
      <4>1. CASE rooms[ch] # f.o
        BY <1>0, <1>1, <1>3, <1>11, <2>1, <4>1 DEF TypeOK
      <4>2. CASE rooms[ch] = f.o
        <5>1. h # f.h
          BY <2>3, <4>2
        <5>2. subscribers'[f.o] = [subscribers[f.o] EXCEPT ![userID[f.h]] = f.h]
          BY <1>0, <1>1, <1>3 DEF TypeOK
        <5>3. subscribers[f.o] \in [Users -> Handlers \cup {Nobody}]
          BY <1>0, <1>1 DEF TypeOK
        <5>4. subscribers'[f.o][userID[h]] = h
          BY <1>3, <1>11, <4>2
        <5>5. CASE userID[h] = userID[f.h]
          BY <2>1, <5>1, <5>2, <5>3, <5>4, <5>5
        <5>6. CASE userID[h] # userID[f.h]
          BY <2>1, <4>2, <5>2, <5>3, <5>4, <5>6
        <5> QED
          BY <5>5, <5>6
      <4> QED
        BY <4>1, <4>2
    <3>2. Explained(h, ch)
      BY <1>3, <1>11, <3>1 DEF LeaveInv, Justified
    <3>3. ~Accounts(f, h, ch)
      BY <1>2 DEF Accounts
    <3> QED
      BY <1>0, <1>2, <1>3, <3>2, <3>3, ExplainedKept
  <2> QED
    BY <2>2, <2>3
<1>12. \A h \in Handlers, ch \in Channels : Justified(h, ch)'
  BY <1>3, <1>11 DEF Justified
<1> QED
  BY <1>6, <1>7, <1>10, <1>12 DEF LeaveInv

(* The table has the channel. *)
LEMMA LeaveStore ==
  ASSUME LeaveInv, LockInv', NEW t \in Threads, SubscribeStore(t)
  PROVE  LeaveInv'
<1> USE SessionAssumption
<1>0. LockInv /\ TypeOK /\ Stacks /\ Calls /\ Belongs
  BY DEF LeaveInv, LockInv
<1>a. PICK f : f = Top(t)
  OBVIOUS
<1>1. /\ f.ch \in Channels /\ f.h \in Handlers
      /\ stack[t] # << >> /\ Len(stack[t]) = 1 /\ f = stack[t][1]
  BY <1>0, <1>a, TopFacts DEF Shaped, SubscribeStore, Outermost
<1>2. PICK n \in Nat \ {0}, len \in Nat :
        /\ Shift(t, n, len, f, f, f) /\ len < n
        /\ f.fn = "subscribe" /\ f.at = "store"
  BY <1>0, <1>a, EnterShifts
<1>3. /\ UNCHANGED <<rooms, created, subscribers, closed, gone, stray, userID>>
      /\ subscriptions' = [subscriptions EXCEPT ![f.h] = @ \cup {f.ch}]
  BY <1>a DEF SubscribeStore, maps
<1>4. n > 0 /\ ~(len >= n) /\ len # n + 1 /\ n # 0
  BY <1>2
<1>5. \A h \in Handlers : subscriptions[h] \subseteq subscriptions'[h]
  BY <1>0, <1>3 DEF TypeOK
<1>b. f.ch \in subscriptions'[f.h]
  BY <1>0, <1>1, <1>3 DEF TypeOK
<1>6. Calls'
  BY <1>0, <1>2, CallsKept
<1>7. \A h \in Handlers : OneClose(h)' /\ Noted(h)'
  BY <1>2, <1>3, <1>4, OutsideClose
<1>8. Belongs'
  <2>1. \A o \in Objects :
          o > created => \A u \in Users : subscribers'[o][u] = Nobody
    BY <1>0, <1>3 DEF Belongs
  <2> QED
    BY <1>0, <1>2, <1>3, <1>4, <2>1, BelongsKept
<1>9. Subscribing(f.h)
  <2>1. 1 \in DOMAIN stack[t]
    <3>1. stack[t] \in Seq(Frame)
      BY <1>0 DEF TypeOK
    <3> QED
      BY <1>1, <3>1
  <2>2. t = Reader(f.h)
    BY <1>0, <1>1, <1>2, <2>1 DEF Calls, Starting
  <2> QED
    BY <1>1, <1>2, <2>2 DEF Subscribing
<1>10. ASSUME NEW h \in Handlers, NEW ch \in Channels,
              rooms'[ch] # 0, subscribers'[rooms'[ch]][userID[h]] = h, ~stray'[h]
       PROVE  Explained(h, ch)'
  <2>1. Explained(h, ch)
    BY <1>3, <1>10 DEF LeaveInv, Justified
  <2>2. CASE ~Accounts(f, h, ch)
    BY <1>0, <1>2, <1>3, <1>5, <2>1, <2>2, ExplainedKept
  <2>3. CASE Accounts(f, h, ch)
    <3>1. h = f.h /\ ch = f.ch
      BY <1>2, <2>3 DEF Accounts
    <3>2. CASE ~closed[h]
      BY <1>3, <1>b, <3>1, <3>2 DEF Explained
    <3>3. CASE closed[h]
      <4>1. \E u \in Threads : \E i \in DOMAIN stack[u] : Copies(stack[u][i], h)
        BY <1>3, <1>9, <1>10, <3>1, <3>3 DEF LeaveInv, Noted
      <4>2. PICK u \in Threads : \E i \in DOMAIN stack[u] : Copies(stack[u][i], h)
        BY <4>1
      <4>3. PICK i \in DOMAIN stack[u] : Copies(stack[u][i], h)
        BY <4>2
      <4>4. Replaced(t, n, len, f, f) /\ f = stack[t][n]
        BY <1>2, <1>4 DEF Shift
      <4>5. u # t \/ i # n
        BY <1>2, <4>3, <4>4 DEF Copies
      <4>6. i \in DOMAIN stack'[u] /\ stack'[u][i] = stack[u][i]
        BY <1>0, <4>4, <4>5, FrameKept
      <4>7. Accounts(stack[u][i], h, ch)'
        BY <1>b, <3>1, <4>3, <4>6 DEF Accounts, Copies
      <4> QED
        BY <4>6, <4>7 DEF Explained
    <3> QED
      BY <3>2, <3>3
  <2> QED
    BY <2>2, <2>3
<1>11. \A h \in Handlers, ch \in Channels : Justified(h, ch)'
  BY <1>3, <1>10 DEF Justified
<1> QED
  BY <1>6, <1>7, <1>8, <1>11 DEF LeaveInv

(* handleUnsubscribe: the table has lost the channel, and Relay.Unsubscribe *)
(* is called for it.                                                        *)
LEMMA LeaveUnsubscribe ==
  ASSUME LeaveInv, LockInv', NEW t \in Threads,
         UnsubscribeDelete(t) \/ UnsubscribeEnd(t)
  PROVE  LeaveInv'
<1> USE SessionAssumption
<1>0. LockInv /\ TypeOK /\ Stacks /\ Calls /\ Belongs
  BY DEF LeaveInv, LockInv
<1>a. PICK f : f = Top(t)
  OBVIOUS
<1>1. CASE UnsubscribeEnd(t)
  <2>1. PICK n \in Nat \ {0}, len \in Nat :
          /\ Shift(t, n, len, f, f, f) /\ len < n
          /\ f.fn = "unsubscribe" /\ f.at = "end"
    BY <1>0, <1>1, <1>a, UnsubscribeShifts
  <2>2. UNCHANGED <<rooms, created, subscribers, subscriptions, closed, gone,
                  stray, userID>>
    BY <1>1 DEF UnsubscribeEnd, maps, table
  <2>3. ~(len >= n) /\ len # n + 1 /\ n # 0
    BY <2>1
  <2> QED
    BY <2>1, <2>2, <2>3, Inert
<1>2. CASE UnsubscribeDelete(t)
  <2>0. f.ch \in Channels /\ f.h \in Handlers
    BY <1>0, <1>2, <1>a, TopFacts DEF Shaped, UnsubscribeDelete
  <2>1. PICK n \in Nat \ {0}, len \in Nat, g \in Frame, e \in Frame :
          /\ Shift(t, n, len, f, g, e)
          /\ f.fn = "unsubscribe" /\ f.at = "delete"
          /\ \/ len < n /\ f.ch \notin subscriptions[f.h]
             \/ /\ len = n + 1 /\ g.at = "end" /\ e.fn = "relayUnsubscribe"
                /\ e.at = "get" /\ e.h = f.h /\ e.ch = f.ch
    BY <1>0, <1>2, <1>a, UnsubscribeShifts
  <2>2. /\ UNCHANGED <<rooms, created, subscribers, closed, gone, stray, userID>>
        /\ subscriptions' = [subscriptions EXCEPT ![f.h] = @ \ {f.ch}]
    BY <1>2, <1>a DEF UnsubscribeDelete, maps
  <2>3. CASE len < n /\ f.ch \notin subscriptions[f.h]
    <3>1. ~(len >= n) /\ len # n + 1 /\ n # 0
      BY <2>3
    <3>2. \A h \in Handlers : subscriptions'[h] = subscriptions[h]
      BY <1>0, <2>0, <2>2, <2>3 DEF TypeOK
    <3> QED
      BY <2>1, <2>2, <3>1, <3>2, Inert
  <2>4. CASE /\ len = n + 1 /\ g.at = "end" /\ e.fn = "relayUnsubscribe"
             /\ e.at = "get" /\ e.h = f.h /\ e.ch = f.ch
    <3>1. n > 0 /\ len >= n /\ n # 0
      BY <2>4
    <3>2. g.fn = "unsubscribe"
      BY <2>1, <3>1 DEF Shift
    <3>3. Calls'
      BY <1>0, <2>1, CallsKept
    <3>4. \A h \in Handlers : OneClose(h)' /\ Noted(h)'
      BY <2>1, <2>2, <2>4, <3>1, <3>2, OutsideClose
    <3>5. Belongs'
      <4>1. \A o \in Objects :
              o > created => \A u \in Users : subscribers'[o][u] = Nobody
        BY <1>0, <2>2 DEF Belongs
      <4>2. ~Knows(g) /\ ~Knows(e)
        BY <2>4, <3>2 DEF Knows
      <4> QED
        BY <1>0, <2>1, <2>2, <3>1, <4>1, <4>2, BelongsKept
    <3>6. ASSUME NEW h \in Handlers, NEW ch \in Channels,
                 rooms'[ch] # 0, subscribers'[rooms'[ch]][userID[h]] = h, ~stray'[h]
          PROVE  Explained(h, ch)'
      <4>1. Explained(h, ch)
        BY <2>2, <3>6 DEF LeaveInv, Justified
      <4>2. CASE h = f.h /\ ch = f.ch
        <5>1. e.u = userID'[h]
          BY <2>1, <2>2, <2>4, <3>1, <4>2 DEF Shift, Naming
        <5>2. Accounts(e, h, ch)'
          BY <2>4, <4>2, <5>1 DEF Accounts
        <5> QED
          BY <1>0, <2>1, <2>4, <5>2, ExplainedMade
      <4>3. CASE ~(h = f.h /\ ch = f.ch)
        <5>1. ch \in subscriptions[h] => ch \in subscriptions'[h]
          BY <1>0, <2>0, <2>2, <4>3 DEF TypeOK
        <5>2. ~Accounts(f, h, ch)
          BY <2>1 DEF Accounts
        <5> QED
          BY <1>0, <2>1, <2>2, <4>1, <5>1, <5>2, ExplainedKept
      <4> QED
        BY <4>2, <4>3
    <3>7. \A h \in Handlers, ch \in Channels : Justified(h, ch)'
      BY <2>2, <3>6 DEF Justified
    <3> QED
      BY <3>3, <3>4, <3>5, <3>7 DEF LeaveInv
  <2> QED
    BY <2>1, <2>3, <2>4
<1> QED
  BY <1>1, <1>2

(* Relay.Unsubscribe and Room.Unsubscribe: the handler leaves the room it   *)
(* is in when the lock is taken.                                            *)
LEMMA LeaveRelay ==
  ASSUME LeaveInv, LockInv', NEW t \in Threads,
         \/ RelayUnsubscribeGet(t) \/ RelayUnsubscribeLock(t)
         \/ RelayUnsubscribeDelete(t)
  PROVE  LeaveInv'
<1> USE SessionAssumption
<1>0. LockInv /\ TypeOK /\ Stacks /\ Calls /\ Belongs
  BY DEF LeaveInv, LockInv
<1>a. PICK f : f = Top(t)
  OBVIOUS
<1>b. ASSUME NEW at, In(t, "relayUnsubscribe", at)
      PROVE  /\ f.ch \in Channels /\ f.h \in Handlers
             /\ f.u \in Users
             /\ at \in {"lock", "delete"} => f.o \in Objects
  BY <1>0, <1>a, <1>b, TopFacts DEF Shaped
<1>1. ASSUME NEW n \in Nat \ {0}, NEW len \in Nat, NEW g \in Frame, NEW e \in Frame,
             Shift(t, n, len, f, g, e), f.fn = "relayUnsubscribe",
             len = n + 1 => e.fn = "close" /\ e.at = "swap",
             UNCHANGED <<rooms, created, subscriptions, closed, gone, stray, userID>>,
             \A o \in Objects, u \in Users :
               subscribers'[o][u] = subscribers[o][u] \/ subscribers'[o][u] = Nobody,
             \A h \in Handlers, ch \in Channels :
               /\ rooms[ch] # 0 /\ subscribers'[rooms[ch]][userID[h]] = h
               /\ Accounts(f, h, ch)
               => len >= n /\ Accounts(g, h, ch)'
      PROVE  LeaveInv'
  <2>1. n > 0 /\ n # 0
    BY <1>1
  <2>2. Calls'
    BY <1>0, <1>1, CallsKept
  <2>3. len >= n => g.fn = "relayUnsubscribe"
    BY <1>1, <2>1 DEF Shift
  <2>4. \A h \in Handlers : OneClose(h)' /\ Noted(h)'
    BY <1>1, <2>1, <2>3, OutsideClose
  <2>5. Belongs'
    <3>1. \A o \in Objects :
            o > created => \A u \in Users : subscribers'[o][u] = Nobody
      BY <1>0, <1>1 DEF Belongs
    <3>2. (len >= n => ~Knows(g)) /\ (len = n + 1 => ~Knows(e))
      BY <1>1, <2>3 DEF Knows
    <3> QED
      BY <1>0, <1>1, <2>1, <3>1, <3>2, BelongsKept
  <2>6. ASSUME NEW h \in Handlers, NEW ch \in Channels,
               rooms'[ch] # 0, subscribers'[rooms'[ch]][userID[h]] = h, ~stray'[h]
        PROVE  Explained(h, ch)'
    <3>1. rooms[ch] \in Objects /\ userID[h] \in Users /\ h # Nobody
      BY <1>0, <1>1, <2>6 DEF TypeOK, Objects
    <3>2. subscribers[rooms[ch]][userID[h]] = h
      BY <1>1, <2>6, <3>1
    <3>3. Explained(h, ch)
      BY <1>1, <2>6, <3>2 DEF LeaveInv, Justified
    <3>4. CASE Accounts(f, h, ch)
      <4>1. len >= n /\ Accounts(g, h, ch)'
        BY <1>1, <2>6, <3>4
      <4> QED
        BY <1>0, <1>1, <2>1, <4>1, ExplainedMade
    <3>5. CASE ~Accounts(f, h, ch)
      BY <1>0, <1>1, <3>3, <3>5, ExplainedKept
    <3> QED
      BY <3>4, <3>5
  <2>7. \A h \in Handlers, ch \in Channels : Justified(h, ch)'
    BY <1>1, <2>6 DEF Justified
  <2> QED
    BY <2>2, <2>4, <2>5, <2>7 DEF LeaveInv
<1>2. CASE RelayUnsubscribeGet(t)
  <2>1. PICK n \in Nat \ {0}, len \in Nat, g \in Frame :
          /\ Shift(t, n, len, f, g, g)
          /\ f.fn = "relayUnsubscribe" /\ f.at = "get"
          /\ \/ len < n /\ rooms[f.ch] = 0
             \/ len = n /\ g.at = "lock" /\ g.o = rooms[f.ch] /\ g.o # 0
    BY <1>0, <1>2, <1>a, RelayUnsubscribeShifts
  <2>2. UNCHANGED <<rooms, created, subscribers, subscriptions, closed, gone,
                  stray, userID>>
    BY <1>2 DEF RelayUnsubscribeGet, maps, table
  <2>3. len # n + 1
    BY <2>1
  <2>4. ASSUME NEW h \in Handlers, NEW ch \in Channels, rooms[ch] # 0,
               Accounts(f, h, ch)
        PROVE  len >= n /\ Accounts(g, h, ch)'
    <3>1. h = f.h /\ ch = f.ch /\ f.u = userID[h]
      BY <2>1, <2>4 DEF Accounts
    <3>2. len = n /\ g.at = "lock" /\ g.o = rooms[f.ch]
      BY <2>1, <2>4, <3>1
    <3>3. len >= n /\ n > 0
      BY <3>2
    <3>4. g.fn = f.fn /\ g.h = f.h /\ g.ch = f.ch /\ g.u = f.u
      BY <2>1, <3>3 DEF Shift
    <3> QED
      BY <2>1, <2>2, <3>1, <3>2, <3>3, <3>4 DEF Accounts
  <2> QED
    BY <1>1, <2>1, <2>2, <2>3, <2>4
<1>3. CASE RelayUnsubscribeLock(t)
  <2>1. PICK n \in Nat \ {0}, len \in Nat, g \in Frame, e \in Frame :
          /\ Shift(t, n, len, f, g, e)
          /\ f.fn = "relayUnsubscribe" /\ f.at = "lock"
          /\ \/ len < n /\ subscribers[f.o][f.u] = Nobody
             \/ /\ len = n + 1 /\ g.at = "delete" /\ g.o = f.o
                /\ e.fn = "close" /\ e.at = "swap"
                /\ e.h = subscribers[f.o][f.u]
    BY <1>0, <1>3, <1>a, RelayUnsubscribeShifts
  <2>2. UNCHANGED <<rooms, created, subscribers, subscriptions, closed, gone,
                  stray, userID>>
    BY <1>3 DEF RelayUnsubscribeLock, maps, table
  <2>3. len = n + 1 => e.fn = "close" /\ e.at = "swap"
    BY <2>1
  <2>4. ASSUME NEW h \in Handlers, NEW ch \in Channels, rooms[ch] # 0,
               subscribers'[rooms[ch]][userID[h]] = h, Accounts(f, h, ch)
        PROVE  len >= n /\ Accounts(g, h, ch)'
    <3>1. h = f.h /\ ch = f.ch /\ f.o = rooms[ch] /\ f.u = userID[h]
      BY <2>1, <2>4 DEF Accounts
    <3>2. len = n + 1 /\ g.o = f.o
      <4>1. h # Nobody
        OBVIOUS
      <4> QED
        BY <2>1, <2>2, <2>4, <3>1, <4>1
    <3>3. len >= n /\ n > 0
      BY <3>2
    <3>4. g.fn = f.fn /\ g.h = f.h /\ g.ch = f.ch /\ g.u = f.u
      BY <2>1, <3>3 DEF Shift
    <3> QED
      BY <2>1, <2>2, <3>1, <3>2, <3>3, <3>4 DEF Accounts
  <2> QED
    BY <1>1, <2>1, <2>2, <2>3, <2>4
<1>4. CASE RelayUnsubscribeDelete(t)
  <2>1. PICK n \in Nat \ {0}, len \in Nat :
          /\ Shift(t, n, len, f, f, f) /\ len < n
          /\ f.fn = "relayUnsubscribe" /\ f.at = "delete"
    BY <1>0, <1>4, <1>a, RelayUnsubscribeShifts
  <2>2. /\ UNCHANGED <<rooms, created, subscriptions, closed, gone, stray, userID>>
        /\ subscribers' = [subscribers EXCEPT ![f.o][f.u] = Nobody]
    BY <1>4, <1>a DEF RelayUnsubscribeDelete, table
  <2>3. len # n + 1
    BY <2>1
  <2>4. f.h \in Handlers /\ f.o \in Objects /\ f.u \in Users
    BY <1>4, <1>b DEF RelayUnsubscribeDelete
  <2>5. \A o \in Objects, u \in Users :
          subscribers'[o][u] = IF o = f.o /\ u = f.u THEN Nobody
                               ELSE subscribers[o][u]
    BY <1>0, <2>2, <2>4 DEF TypeOK
  <2>6. ASSUME NEW h \in Handlers, NEW ch \in Channels, rooms[ch] # 0,
               subscribers'[rooms[ch]][userID[h]] = h, Accounts(f, h, ch)
        PROVE  FALSE
    <3>1. h = f.h /\ f.o = rooms[ch] /\ f.u = userID[h]
      BY <2>1, <2>6 DEF Accounts
    <3>2. subscribers'[rooms[ch]][userID[h]] = Nobody
      BY <2>4, <2>5, <3>1
    <3> QED
      BY <2>6, <3>2
  <2>7. f \in Frame
    BY <1>0, <1>4, <1>a, TopFacts DEF RelayUnsubscribeDelete
  <2>8. \A o \in Objects, u \in Users :
          subscribers'[o][u] = subscribers[o][u] \/ subscribers'[o][u] = Nobody
    BY <2>5
  <2> QED
    BY <1>1, <2>1, <2>2, <2>3, <2>6, <2>7, <2>8
<1> QED
  BY <1>2, <1>3, <1>4

(* Close: the flag, then the copy of the table. *)
LEMMA LeaveClose ==
  ASSUME LeaveInv, LockInv', NEW t \in Threads, CloseSwap(t) \/ CloseCopy(t)
  PROVE  LeaveInv'
<1> USE SessionAssumption
<1>0. LockInv /\ TypeOK /\ Stacks /\ Calls /\ Belongs
  BY DEF LeaveInv, LockInv
<1>a. PICK f : f = Top(t)
  OBVIOUS
<1>b. f.h \in Handlers
  BY <1>0, <1>a, TopFacts DEF Shaped, CloseSwap, CloseCopy
<1>1. ASSUME NEW n \in Nat \ {0}, NEW g \in Frame, Shift(t, n, n, f, g, g),
             f.fn = "close", UNCHANGED <<rooms, created, subscribers, subscriptions, userID>>
      PROVE  /\ Calls' /\ Belongs' /\ g.fn = "close" /\ g.h = f.h /\ n \in DOMAIN stack[t]
             /\ n \in DOMAIN stack'[t] /\ stack'[t][n] = g /\ f = stack[t][n]
             /\ n > 0 /\ n >= n /\ n # n + 1
             /\ Replaced(t, n, n, g, g)
  <2>1. n > 0 /\ n >= n /\ n # n + 1
    OBVIOUS
  <2>2. g.fn = "close" /\ g.h = f.h /\ f = stack[t][n] /\ Replaced(t, n, n, g, g)
    BY <1>1, <2>1 DEF Shift
  <2>3. n \in DOMAIN stack[t] /\ n \in DOMAIN stack'[t] /\ stack'[t][n] = g
    BY <1>0, <2>1, <2>2, FrameMade
  <2>4. Calls'
    BY <1>0, <1>1, CallsKept
  <2>5. Belongs'
    <3>1. \A o \in Objects :
            o > created => \A u \in Users : subscribers'[o][u] = Nobody
      BY <1>0, <1>1 DEF Belongs
    <3>2. ~Knows(g)
      BY <2>2 DEF Knows
    <3> QED
      BY <1>0, <1>1, <2>1, <3>1, <3>2, BelongsKept
  <2> QED
    BY <2>1, <2>2, <2>3, <2>4, <2>5
<1>2. CASE CloseSwap(t)
  <2>1. PICK n \in Nat \ {0}, len \in Nat, g \in Frame :
          /\ Shift(t, n, len, f, g, g) /\ f.fn = "close" /\ f.at = "swap"
          /\ \/ len < n /\ closed[f.h]
             \/ len = n /\ ~closed[f.h] /\ g.at = "copy"
    BY <1>0, <1>2, <1>a, CloseShifts
  <2>2. /\ UNCHANGED <<rooms, created, subscribers, subscriptions, gone, stray, userID>>
        /\ closed' = [closed EXCEPT ![f.h] = TRUE]
    BY <1>2, <1>a DEF CloseSwap, maps
  <2>3. CASE len < n /\ closed[f.h]
    <3>1. ~(len >= n) /\ len # n + 1 /\ n # 0
      BY <2>3
    <3>2. \A h \in Handlers : closed'[h] = closed[h]
      BY <1>0, <1>b, <2>2, <2>3 DEF TypeOK
    <3> QED
      BY <2>1, <2>2, <3>1, <3>2, Inert
  <2>4. CASE len = n /\ ~closed[f.h] /\ g.at = "copy"
    <3>1. /\ Calls' /\ Belongs' /\ g.fn = "close" /\ g.h = f.h
          /\ n \in DOMAIN stack'[t] /\ stack'[t][n] = g /\ f = stack[t][n]
          /\ n > 0 /\ n >= n /\ n # n + 1 /\ n \in DOMAIN stack[t]
          /\ Replaced(t, n, n, g, g)
      BY <1>1, <2>1, <2>2, <2>4
    <3>2. \A h \in Handlers : closed'[h] = (h = f.h \/ closed[h])
      BY <1>0, <1>b, <2>2 DEF TypeOK
    <3>3. ASSUME NEW h \in Handlers, h # f.h PROVE OneClose(h)' /\ Noted(h)'
      <4>1. closed'[h] = closed[h]
        BY <1>0, <2>2, <3>3 DEF TypeOK
      <4>2. ~Closing(f, h) /\ ~Closing(g, h) /\ ~Copies(f, h)
        BY <3>1, <3>3 DEF Closing, Copies
      <4>3. OneClose(h) /\ Noted(h)
        BY DEF LeaveInv
      <4>4. OneClose(h)'
        BY <1>0, <2>1, <2>2, <2>4, <3>1, <4>1, <4>2, <4>3, OneCloseKept
      <4>5. Noted(h)'
        BY <1>0, <2>1, <2>2, <2>4, <3>1, <4>1, <4>2, <4>3, NotedKept
      <4> QED
        BY <4>4, <4>5
    <3>4. OneClose(f.h)' /\ Noted(f.h)'
      <4>1. OneClose(f.h)
        BY <1>b DEF LeaveInv
      <4>2. ASSUME NEW u \in Threads, NEW i \in DOMAIN stack'[u],
                   Closing(stack'[u][i], f.h)
            PROVE  u = t /\ i = n
        <5>1. CASE i \in DOMAIN stack[u] /\ stack'[u][i] = stack[u][i]
          <6>1. closed[f.h]
            BY <4>1, <4>2, <5>1 DEF OneClose
          <6> QED
            BY <2>4, <6>1
        <5> QED
          BY <1>0, <3>1, <5>1, FrameCame
      <4>3. ASSUME NEW u \in Threads, NEW i \in DOMAIN stack'[u],
                   Closing(stack[u][i], f.h)'
            PROVE  u = t /\ i = n
        BY <4>2, <4>3 DEF Closing
      <4>4. closed'[f.h] /\ ~gone'[f.h]
        BY <1>b, <2>2, <2>4, <3>2, <4>1 DEF OneClose
      <4>5. OneClose(f.h)'
        BY <4>3, <4>4 DEF OneClose
      <4>6. Copies(stack[t][n], f.h)'
        BY <2>4, <3>1 DEF Copies
      <4>7. Noted(f.h)'
        BY <3>1, <4>6 DEF Noted
      <4> QED
        BY <4>5, <4>7
    <3>5. ASSUME NEW h \in Handlers, NEW ch \in Channels,
                 rooms'[ch] # 0, subscribers'[rooms'[ch]][userID[h]] = h, ~stray'[h]
          PROVE  Explained(h, ch)'
      <4>1. Explained(h, ch)
        BY <2>2, <3>5 DEF LeaveInv, Justified
      <4>2. ~Accounts(f, h, ch)
        BY <2>1 DEF Accounts
      <4>3. CASE h = f.h /\ ch \in subscriptions[h]
        <5>1. Accounts(g, h, ch)'
          BY <2>2, <2>4, <3>1, <4>3 DEF Accounts
        <5> QED
          BY <1>0, <2>1, <2>4, <3>1, <5>1, ExplainedMade
      <4>4. CASE h # f.h
        <5>1. closed'[h] = closed[h]
          BY <1>0, <2>2, <4>4 DEF TypeOK
        <5> QED
          BY <1>0, <2>1, <2>2, <4>1, <4>2, <5>1, ExplainedKept
      <4>5. CASE ch \notin subscriptions[h]
        <5>1. PICK u \in Threads : \E i \in DOMAIN stack[u] :
                Accounts(stack[u][i], h, ch)
          BY <4>1, <4>5 DEF Explained
        <5>2. PICK i \in DOMAIN stack[u] : Accounts(stack[u][i], h, ch)
          BY <5>1
        <5>3. u # t \/ i # n
          BY <3>1, <4>2, <5>2
        <5>4. i \in DOMAIN stack'[u] /\ stack'[u][i] = stack[u][i]
          BY <1>0, <3>1, <5>3, FrameKept
        <5>5. Accounts(stack[u][i], h, ch)'
          BY <2>2, <5>2, <5>4 DEF Accounts
        <5> QED
          BY <5>4, <5>5 DEF Explained
      <4> QED
        BY <4>3, <4>4, <4>5
    <3>6. \A h \in Handlers, ch \in Channels : Justified(h, ch)'
      BY <2>2, <3>5 DEF Justified
    <3>7. \A h \in Handlers : OneClose(h)' /\ Noted(h)'
      BY <3>3, <3>4
    <3> QED
      BY <3>1, <3>6, <3>7 DEF LeaveInv
  <2> QED
    BY <2>1, <2>3, <2>4
<1>3. CASE CloseCopy(t)
  <2>1. PICK n \in Nat \ {0}, g \in Frame :
          /\ Shift(t, n, n, f, g, g) /\ f.fn = "close" /\ f.at = "copy"
          /\ g.at = "loop" /\ g.chans = subscriptions[f.h]
    BY <1>0, <1>3, <1>a, CloseShifts
  <2>2. /\ UNCHANGED <<rooms, created, subscribers, subscriptions, closed, gone, userID>>
        /\ stray' = [stray EXCEPT ![f.h] = @ \/ Subscribing(f.h)]
    BY <1>3, <1>a DEF CloseCopy, maps
  <2>3. /\ Calls' /\ Belongs' /\ g.fn = "close" /\ g.h = f.h
        /\ n \in DOMAIN stack'[t] /\ stack'[t][n] = g /\ f = stack[t][n]
        /\ n > 0 /\ n >= n /\ n # n + 1 /\ n \in DOMAIN stack[t]
        /\ Replaced(t, n, n, g, g)
    BY <1>1, <2>1, <2>2
  <2>4. /\ \A h \in Handlers : stray[h] => stray'[h]
        /\ Subscribing(f.h) => stray'[f.h]
    BY <1>0, <1>b, <2>2 DEF TypeOK
  <2>5. ASSUME NEW h \in Handlers PROVE OneClose(h)' /\ Noted(h)'
    <3>1. OneClose(h) /\ Noted(h)
      BY DEF LeaveInv
    <3>2. Closing(g, h) => Closing(f, h)
      BY <2>1, <2>3 DEF Closing
    <3>3. OneClose(h)'
      BY <1>0, <2>1, <2>2, <2>3, <3>1, <3>2, OneCloseKept
    <3>4. CASE h = f.h
      <4>1. Subscribing(h)' => Subscribing(h)
        BY <1>0, <2>1, <2>3, SubscribingKept
      <4>2. Noted(h)'
        BY <2>4, <3>4, <4>1 DEF Noted
      <4> QED
        BY <3>3, <4>2
    <3>5. CASE h # f.h
      <4>1. ~Copies(f, h)
        BY <3>5 DEF Copies
      <4>2. Noted(h)'
        BY <1>0, <2>1, <2>2, <2>3, <2>4, <3>1, <4>1, NotedKept
      <4> QED
        BY <3>3, <4>2
    <3> QED
      BY <3>4, <3>5
  <2>6. ASSUME NEW h \in Handlers, NEW ch \in Channels,
               rooms'[ch] # 0, subscribers'[rooms'[ch]][userID[h]] = h, ~stray'[h]
        PROVE  Explained(h, ch)'
    <3>1. Explained(h, ch)
      BY <2>2, <2>4, <2>6 DEF LeaveInv, Justified
    <3>2. CASE Accounts(f, h, ch)
      <4>1. Accounts(g, h, ch)'
        BY <2>1, <2>2, <2>3, <3>2 DEF Accounts
      <4> QED
        BY <1>0, <2>1, <2>3, <4>1, ExplainedMade
    <3>3. CASE ~Accounts(f, h, ch)
      BY <1>0, <2>1, <2>2, <3>1, <3>3, ExplainedKept
    <3> QED
      BY <3>2, <3>3
  <2>7. \A h \in Handlers, ch \in Channels : Justified(h, ch)'
    BY <2>2, <2>6 DEF Justified
  <2> QED
    BY <2>3, <2>5, <2>7 DEF LeaveInv
<1> QED
  BY <1>2, <1>3

(* Close: Relay.Unsubscribe for the next channel of the copy, or the end.   *)
LEMMA LeaveLoop ==
  ASSUME LeaveInv, LockInv', NEW t \in Threads, CloseLoop(t)
  PROVE  LeaveInv'
<1> USE SessionAssumption
<1>0. LockInv /\ TypeOK /\ Stacks /\ Calls /\ Belongs
  BY DEF LeaveInv, LockInv
<1>a. PICK f : f = Top(t)
  OBVIOUS
<1>b. f.h \in Handlers
  BY <1>0, <1>a, TopFacts DEF Shaped, CloseLoop
<1>1. PICK n \in Nat \ {0}, len \in Nat, g \in Frame, e \in Frame :
        /\ Shift(t, n, len, f, g, e) /\ f.fn = "close" /\ f.at = "loop"
        /\ \/ /\ len < n /\ f.chans = {}
              /\ gone' = [gone EXCEPT ![f.h] = TRUE]
           \/ /\ len = n + 1 /\ UNCHANGED gone /\ g.at = "loop"
              /\ g.chans = f.chans \ {e.ch} /\ e.ch \in f.chans
              /\ e.fn = "relayUnsubscribe" /\ e.at = "get" /\ e.h = f.h
  BY <1>0, <1>a, CloseShifts
<1>2. UNCHANGED <<rooms, created, subscribers, subscriptions, closed, stray,
                userID>>
  BY DEF CloseLoop, maps
<1>3. n > 0 /\ n # 0
  OBVIOUS
<1>4. f = stack[t][n] /\ Replaced(t, n, len, g, e)
  BY <1>1, <1>3 DEF Shift
<1>5. n \in DOMAIN stack[t]
  BY <1>0, <1>3, <1>4, FrameMade
<1>6. len >= n => g.fn = "close" /\ g.h = f.h
  BY <1>1, <1>3 DEF Shift
<1>7. Calls'
  BY <1>0, <1>1, CallsKept
<1>8. Belongs'
  <2>1. \A o \in Objects :
          o > created => \A u \in Users : subscribers'[o][u] = Nobody
    BY <1>0, <1>2 DEF Belongs
  <2>2. (len >= n => ~Knows(g)) /\ (len = n + 1 => ~Knows(e))
    <3>1. len = n + 1 => ~(len < n)
      OBVIOUS
    <3> QED
      BY <1>1, <1>6, <3>1 DEF Knows
  <2> QED
    BY <1>0, <1>1, <1>2, <1>3, <2>1, <2>2, BelongsKept
<1>9. ASSUME NEW h \in Handlers PROVE Noted(h)'
  <2>1. Noted(h) /\ ~Copies(f, h)
    BY <1>1 DEF LeaveInv, Copies
  <2> QED
    BY <1>0, <1>1, <1>2, <1>3, <2>1, NotedKept
<1>10. CASE len < n /\ f.chans = {} /\ gone' = [gone EXCEPT ![f.h] = TRUE]
  <2>1. ~(len >= n) /\ len # n + 1
    BY <1>10
  <2>2. ASSUME NEW h \in Handlers PROVE OneClose(h)'
    <3>1. OneClose(h)
      BY DEF LeaveInv
    <3>2. CASE h # f.h
      <4>1. gone'[h] = gone[h]
        BY <1>0, <1>10, <3>2 DEF TypeOK
      <4> QED
        BY <1>0, <1>1, <1>2, <2>1, <3>1, <4>1, OneCloseKept
    <3>3. CASE h = f.h
      <4>1. Closing(stack[t][n], h)
        BY <1>1, <1>4, <3>3 DEF Closing
      <4>2. closed'[h]
        BY <1>2, <1>5, <3>1, <4>1 DEF OneClose
      <4>3. ASSUME NEW u \in Threads, NEW i \in DOMAIN stack'[u],
                   Closing(stack'[u][i], h)
            PROVE  FALSE
        <5>1. /\ i \in DOMAIN stack[u] /\ stack'[u][i] = stack[u][i]
              /\ u # t \/ i < n
          BY <1>0, <1>4, <2>1, FrameCame
        <5>2. u = t /\ i = n
          BY <1>5, <3>1, <4>1, <4>3, <5>1 DEF OneClose
        <5>3. ~(n < n)
          OBVIOUS
        <5> QED
          BY <5>1, <5>2, <5>3
      <4>4. ASSUME NEW u \in Threads, NEW i \in DOMAIN stack'[u],
                   Closing(stack[u][i], h)'
            PROVE  FALSE
        BY <4>3, <4>4 DEF Closing
      <4> QED
        BY <4>2, <4>4 DEF OneClose
    <3> QED
      BY <3>2, <3>3
  <2>3. ASSUME NEW h \in Handlers, NEW ch \in Channels,
               rooms'[ch] # 0, subscribers'[rooms'[ch]][userID[h]] = h, ~stray'[h]
        PROVE  Explained(h, ch)'
    <3>1. Explained(h, ch)
      BY <1>2, <2>3 DEF LeaveInv, Justified
    <3>2. ~Accounts(f, h, ch)
      BY <1>1, <1>10 DEF Accounts
    <3> QED
      BY <1>0, <1>1, <1>2, <3>1, <3>2, ExplainedKept
  <2>4. \A h \in Handlers, ch \in Channels : Justified(h, ch)'
    BY <1>2, <2>3 DEF Justified
  <2> QED
    BY <1>7, <1>8, <1>9, <2>2, <2>4 DEF LeaveInv
<1>11. CASE /\ len = n + 1 /\ UNCHANGED gone /\ g.at = "loop"
            /\ g.chans = f.chans \ {e.ch} /\ e.ch \in f.chans
            /\ e.fn = "relayUnsubscribe" /\ e.at = "get" /\ e.h = f.h
  <2>1. len >= n
    BY <1>11
  <2>2. ASSUME NEW h \in Handlers PROVE OneClose(h)'
    <3>1. OneClose(h)
      BY DEF LeaveInv
    <3>2. (Closing(g, h) => Closing(f, h)) /\ ~Closing(e, h)
      BY <1>1, <1>6, <1>11, <2>1 DEF Closing
    <3> QED
      BY <1>0, <1>1, <1>2, <1>11, <3>1, <3>2, OneCloseKept
  <2>3. ASSUME NEW h \in Handlers, NEW ch \in Channels,
               rooms'[ch] # 0, subscribers'[rooms'[ch]][userID[h]] = h, ~stray'[h]
        PROVE  Explained(h, ch)'
    <3>1. Explained(h, ch)
      BY <1>2, <2>3 DEF LeaveInv, Justified
    <3>2. CASE ~Accounts(f, h, ch)
      BY <1>0, <1>1, <1>2, <3>1, <3>2, ExplainedKept
    <3>3. CASE Accounts(f, h, ch)
      <4>1. h = f.h /\ ch \in f.chans
        BY <1>1, <3>3 DEF Accounts
      <4>2. CASE ch = e.ch
        <5>1. e.u = userID'[h]
          BY <1>1, <1>2, <1>3, <1>11, <4>1 DEF Shift, Naming
        <5>2. Accounts(e, h, ch)'
          BY <1>11, <4>1, <4>2, <5>1 DEF Accounts
        <5> QED
          BY <1>0, <1>1, <1>11, <5>2, ExplainedMade
      <4>3. CASE ch # e.ch
        <5>1. Accounts(g, h, ch)'
          BY <1>6, <1>11, <2>1, <4>1, <4>3 DEF Accounts
        <5> QED
          BY <1>0, <1>1, <1>3, <2>1, <5>1, ExplainedMade
      <4> QED
        BY <4>2, <4>3
    <3> QED
      BY <3>2, <3>3
  <2>4. \A h \in Handlers, ch \in Channels : Justified(h, ch)'
    BY <1>2, <2>3 DEF Justified
  <2> QED
    BY <1>7, <1>8, <1>9, <2>2, <2>4 DEF LeaveInv
<1> QED
  BY <1>1, <1>10, <1>11

(* DeleteRoom and Relay.Close: rooms are emptied, then leave the map.       *)
LEMMA LeaveShutdown ==
  ASSUME LeaveInv, LockInv', NEW t \in Threads,
         \/ ShutdownLock(t) \/ ShutdownNext(t) \/ ShutdownRoomLock(t)
         \/ ShutdownRoom(t)
  PROVE  LeaveInv'
<1> USE SessionAssumption
<1>0. LockInv /\ TypeOK /\ Stacks
  BY DEF LeaveInv, LockInv
<1>a. PICK f : f = Top(t)
  OBVIOUS
<1>1. PICK n \in Nat \ {0}, len \in Nat, g \in Frame, e \in Frame :
        /\ Shift(t, n, len, f, g, e) /\ f.fn = "shutdown"
        /\ len = n + 1 => e.fn = "close" /\ e.at = "swap"
  BY <1>0, <1>a, ShutdownShifts
<1>2. UNCHANGED <<created, subscriptions, closed, gone, stray, userID>>
  BY DEF ShutdownLock, ShutdownNext, ShutdownRoomLock, ShutdownRoom, maps, table
<1>3. \A c \in Channels : rooms'[c] = rooms[c] \/ rooms'[c] = 0
  BY DEF ShutdownLock, ShutdownNext, ShutdownRoomLock, ShutdownRoom, maps
<1>4. \A o \in Objects, u \in Users :
        subscribers'[o][u] = subscribers[o][u] \/ subscribers'[o][u] = Nobody
  <2>1. CASE UNCHANGED subscribers
    BY <2>1
  <2>2. CASE subscribers' = [subscribers EXCEPT ![f.o] = [u \in Users |-> Nobody]]
    BY <1>0, <2>2 DEF TypeOK
  <2> QED
    BY <1>a, <2>1, <2>2
       DEF ShutdownLock, ShutdownNext, ShutdownRoomLock, ShutdownRoom, maps
<1>5. n > 0 /\ n # 0
  OBVIOUS
<1>6. len >= n => g.fn = "shutdown"
  BY <1>1, <1>5 DEF Shift
<1>7. (len >= n => ~Knows(g)) /\ (len = n + 1 => ~Knows(e))
  BY <1>1, <1>6 DEF Knows
<1> QED
  BY <1>1, <1>2, <1>3, <1>4, <1>5, <1>6, <1>7, Inert

(* A goroutine begins; a subscribe command of a closed handler is noted.    *)
LEMMA LeaveBegin ==
  ASSUME LeaveInv, LockInv',
         \/ \E h \in Handlers, ch \in Channels :
              SubscribeCommand(h, ch) \/ UnsubscribeCommand(h, ch)
         \/ \E h \in Handlers : PingTimeout(h)
         \/ \E a \in Apps : RelayClose(a) \/ \E ch \in Channels : DeleteRoom(a, ch)
  PROVE  LeaveInv'
<1> USE SessionAssumption
<1>0. LockInv /\ TypeOK
  BY DEF LeaveInv, LockInv
<1>a. /\ ~(0 > 0) /\ 1 = 0 + 1 /\ 0 \in Nat /\ 1 \in Nat
      /\ \A h \in Handlers : Reader(h) \in Threads /\ Timer(h) \in Threads
      /\ \A a \in Apps : App(a) \in Threads
  BY DEF Threads
<1>1. ASSUME NEW t \in Threads, NEW e, Shift(t, 0, 1, e, e, e),
             UNCHANGED <<rooms, created, subscribers, subscriptions, closed, gone, userID>>,
             \A h \in Handlers : stray[h] => stray'[h],
             e.fn = "close" => e.at = "swap", e.fn = "subscribe" => e.at = "get",
             e.fn = "subscribe" => \A h \in Handlers :
               e.h = h /\ closed[h] => stray'[h]
      PROVE  LeaveInv'
  <2>1. (e.fn # "close" \/ e.at = "swap") /\ ~Knows(e)
    BY <1>1 DEF Knows
  <2> QED
    BY <1>1, <1>a, <2>1, Inert
<1>2. ASSUME NEW h \in Handlers, NEW ch \in Channels, SubscribeCommand(h, ch)
      PROVE  LeaveInv'
  <2>1. PICK e \in Frame : /\ Shift(Reader(h), 0, 1, e, e, e)
                           /\ e.fn = "subscribe" /\ e.at = "get" /\ e.h = h
    BY <1>0, <1>2, BeginShifts
  <2>2. /\ UNCHANGED <<rooms, created, subscribers, subscriptions, closed, gone, userID>>
        /\ stray' = [stray EXCEPT ![h] = @ \/ closed[h]]
    BY <1>2 DEF SubscribeCommand, maps
  <2>3. (\A k \in Handlers : stray[k] => stray'[k]) /\ (closed[h] => stray'[h])
    BY <1>0, <2>2 DEF TypeOK
  <2> QED
    BY <1>1, <1>a, <2>1, <2>2, <2>3
<1>3. ASSUME NEW h \in Handlers, NEW ch \in Channels, UnsubscribeCommand(h, ch)
      PROVE  LeaveInv'
  <2>1. PICK e \in Frame : /\ Shift(Reader(h), 0, 1, e, e, e)
                           /\ e.fn = "unsubscribe" /\ e.at = "delete"
    BY <1>0, <1>3, BeginShifts
  <2>2. UNCHANGED <<rooms, created, subscribers, subscriptions, closed, gone,
                  stray, userID>>
    BY <1>3 DEF UnsubscribeCommand, maps, table
  <2> QED
    BY <1>1, <1>a, <2>1, <2>2
<1>4. ASSUME NEW h \in Handlers, PingTimeout(h) PROVE LeaveInv'
  <2>1. PICK e \in Frame : /\ Shift(Timer(h), 0, 1, e, e, e)
                           /\ e.fn = "close" /\ e.at = "swap"
    BY <1>0, <1>4, BeginShifts
  <2>2. UNCHANGED <<rooms, created, subscribers, subscriptions, closed, gone,
                  stray, userID>>
    BY <1>4 DEF PingTimeout, maps, table
  <2> QED
    BY <1>1, <1>a, <2>1, <2>2
<1>5. ASSUME NEW a \in Apps, RelayClose(a) \/ \E ch \in Channels : DeleteRoom(a, ch)
      PROVE  LeaveInv'
  <2>1. PICK e \in Frame : /\ Shift(App(a), 0, 1, e, e, e)
                           /\ e.fn = "shutdown" /\ e.at = "lock"
    BY <1>0, <1>5, BeginShifts
  <2>2. UNCHANGED <<rooms, created, subscribers, subscriptions, closed, gone,
                  stray, userID>>
    BY <1>5 DEF RelayClose, DeleteRoom, Shutdown, maps, table
  <2> QED
    BY <1>1, <1>a, <2>1, <2>2
<1> QED
  BY <1>2, <1>3, <1>4, <1>5

(* Nothing is going to enter an idle handler in a room, or to have it leave *)
(* one, if it has no table, or when its Close has returned.                 *)
LEMMA Unexplained ==
  ASSUME TypeOK, Stacks, Calls, NEW h \in Handlers, NEW ch \in Channels,
         OneClose(h), stack[Reader(h)] = << >>,
         gone[h] \/ (~closed[h] /\ ch \notin subscriptions[h]),
         Explained(h, ch)
  PROVE  FALSE
<1>1. gone[h] => closed[h]
  BY DEF OneClose
<1>2. PICK t \in Threads : \E i \in DOMAIN stack[t] : Accounts(stack[t][i], h, ch)
  BY <1>1 DEF Explained
<1>3. PICK i \in DOMAIN stack[t] : Accounts(stack[t][i], h, ch)
  BY <1>2
<1>4. PICK k : k = stack[t][i]
  OBVIOUS
<1>5. DOMAIN stack[t] = 1 .. Len(stack[t]) /\ Len(stack[t]) \in Nat
  BY DEF TypeOK
<1>6. stack[t] # << >> /\ t # Reader(h)
  <2>1. stack[t] # << >>
    BY <1>3
  <2> QED
    BY <2>1
<1>7. ASSUME NEW u \in Threads, NEW j \in DOMAIN stack[u]
      PROVE  ~Closing(stack[u][j], h)
  BY <1>1 DEF OneClose
<1>8. CASE k.fn = "subscribe"
  <2>1. i = 1 /\ k.h = h
    BY <1>3, <1>4, <1>8 DEF Stacks, Outermost, Accounts
  <2>2. t = Reader(h)
    BY <1>3, <1>4, <1>8, <2>1 DEF Calls, Starting
  <2> QED
    BY <1>6, <2>2
<1>9. CASE k.fn = "close"
  <2>1. Closing(k, h)
    BY <1>3, <1>4, <1>9 DEF Accounts, Closing
  <2> QED
    BY <1>4, <1>7, <2>1
<1>10. CASE k.fn = "relayUnsubscribe"
  <2>1. i # 1
    BY <1>4, <1>10 DEF Calls, Starting
  <2>2. i > 1 /\ i - 1 \in DOMAIN stack[t]
    BY <1>5, <2>1
  <2>3. PICK c : c = stack[t][i - 1]
    OBVIOUS
  <2>4. Calling(c, k) /\ k.h = h
    BY <1>3, <1>4, <2>2, <2>3 DEF Calls, Accounts
  <2>5. CASE c.fn = "close" /\ c.at = "loop"
    <3>1. Closing(c, h)
      BY <1>10, <2>4, <2>5 DEF Calling, Closing
    <3> QED
      BY <1>7, <2>2, <2>3, <3>1
  <2>6. CASE c.fn = "unsubscribe"
    <3>1. i - 1 = 1 /\ c.h = h
      BY <1>10, <2>2, <2>3, <2>4, <2>6 DEF Stacks, Outermost, Calling
    <3>2. t = Reader(h)
      BY <2>2, <2>3, <2>6, <3>1 DEF Calls, Starting
    <3> QED
      BY <1>6, <3>2
  <2> QED
    BY <1>10, <2>4, <2>5, <2>6 DEF Calling
<1> QED
  BY <1>3, <1>4, <1>8, <1>9, <1>10 DEF Accounts

(* A handler that takes another name is in no room, or is noted. *)
LEMMA LeaveConnect ==
  ASSUME LeaveInv, OwnName, LockInv', NEW h \in Handlers, NEW u \in NewNames,
         Connect(h, u)
  PROVE  LeaveInv' /\ OwnName'
<1> USE SessionAssumption
<1>0. TypeOK /\ Stacks /\ Calls /\ Belongs
  BY DEF LeaveInv, LockInv
<1>1. /\ UNCHANGED <<rooms, created, subscribers, subscriptions, closed, gone,
                     stack>>
      /\ stack[Reader(h)] = << >>
  BY DEF Connect, maps
<1>2. \A k \in Handlers : userID'[k] = IF k = h THEN u ELSE userID[k]
  BY <1>0 DEF Connect, TypeOK
<1>3. /\ \A k \in Handlers : stray[k] => stray'[k]
      /\ ~stray'[h] /\ u # userID[h] => ~closed[h] /\ subscriptions[h] = {}
  BY <1>0 DEF Connect, TypeOK
<1>4. Calls'
  BY <1>0, <1>1 DEF Calls, Starting, Calling, Holder, Reader
<1>5. Belongs'
  BY <1>0, <1>1 DEF Belongs, Knows
<1>6. ASSUME NEW k \in Handlers PROVE OneClose(k)' /\ Noted(k)'
  <2>1. OneClose(k) /\ Noted(k)
    BY DEF LeaveInv
  <2>2. OneClose(k)'
    BY <1>1, <2>1 DEF OneClose, Closing
  <2>3. Noted(k)'
    BY <1>1, <1>3, <2>1 DEF Noted, Subscribing, Copies, Reader
  <2> QED
    BY <2>2, <2>3
<1>7. ASSUME NEW k \in Handlers, NEW ch \in Channels, NEW v \in Users,
             rooms[ch] # 0, subscribers[rooms[ch]][v] = k, ~stray'[k]
      PROVE  v = userID'[k] /\ Explained(k, ch)'
  <2>1. ~stray[k]
    BY <1>3, <1>7
  <2>2. v = userID[k]
    BY <1>7, <2>1 DEF OwnName
  <2>3. Explained(k, ch)
    BY <1>7, <2>1, <2>2 DEF LeaveInv, Justified
  <2>4. CASE userID'[k] = userID[k]
    <3>1. Explained(k, ch)'
      BY <1>1, <2>3, <2>4 DEF Explained, Accounts
    <3> QED
      BY <2>2, <2>4, <3>1
  <2>5. CASE userID'[k] # userID[k]
    <3>1. k = h /\ ~closed[h] /\ ch \notin subscriptions[h]
      BY <1>2, <1>3, <1>7, <2>5
    <3>2. OneClose(h)
      BY DEF LeaveInv
    <3> QED
      BY <1>0, <1>1, <2>3, <3>1, <3>2, Unexplained
  <2> QED
    BY <2>4, <2>5
<1>8. \A k \in Handlers : userID'[k] \in Users
  BY DEF LockInv, TypeOK
<1>9. \A k \in Handlers, ch \in Channels : Justified(k, ch)'
  BY <1>1, <1>7, <1>8 DEF Justified
<1>10. OwnName'
  BY <1>1, <1>7 DEF OwnName
<1> QED
  BY <1>4, <1>5, <1>6, <1>9, <1>10 DEF LeaveInv

(* LeaveInv is inductive, as long as handlers are listed under their names. *)
LEMMA LeaveNext == LeaveInv /\ OwnName /\ [Next]_vars => LeaveInv'
<1> SUFFICES ASSUME LeaveInv, OwnName, [Next]_vars PROVE LeaveInv'
  OBVIOUS
<1>1. LockInv'
  <2>1. LockInv
    BY DEF LeaveInv
  <2> QED
    BY <2>1, LockNext
<1>2. CASE UNCHANGED vars
  <2>1. UNCHANGED <<rooms, created, subscribers, subscriptions, closed, gone, stray,
                    stack, userID>>
    BY <1>2 DEF vars
  <2>2. Calls'
    BY <2>1 DEF LeaveInv, Calls, Starting, Calling, Holder, Reader
  <2>3. Belongs'
    BY <2>1 DEF LeaveInv, Belongs, Knows
  <2>4. ASSUME NEW h \in Handlers PROVE OneClose(h)' /\ Noted(h)'
    <3>1. OneClose(h) /\ Noted(h)
      BY DEF LeaveInv
    <3>2. OneClose(h)'
      BY <2>1, <3>1 DEF OneClose, Closing
    <3>3. Noted(h)'
      BY <2>1, <3>1 DEF Noted, Subscribing, Copies, Reader
    <3> QED
      BY <3>2, <3>3
  <2>5. ASSUME NEW h \in Handlers, NEW ch \in Channels PROVE Justified(h, ch)'
    <3>1. Justified(h, ch)
      BY DEF LeaveInv
    <3> QED
      BY <2>1, <3>1 DEF Justified, Explained, Accounts
  <2> QED
    BY <1>1, <2>2, <2>3, <2>4, <2>5 DEF LeaveInv
<1>3. ASSUME NEW t \in Threads, Step(t) PROVE LeaveInv'
  <2>1. CASE \/ SubscribeGet(t) \/ SubscribeCheck(t) \/ SubscribeLock(t)
             \/ SubscribeCreate(t) /\ UNCHANGED rooms
    BY <1>1, <2>1, LeaveSubscribe
  <2>2. CASE SubscribeCreate(t) /\ rooms' # rooms
    BY <1>1, <2>2, LeaveCreate
  <2>3. CASE SubscribeSet(t)
    BY <1>1, <2>3, LeaveSet
  <2>4. CASE SubscribeStore(t)
    BY <1>1, <2>4, LeaveStore
  <2>5. CASE UnsubscribeDelete(t) \/ UnsubscribeEnd(t)
    BY <1>1, <2>5, LeaveUnsubscribe
  <2>6. CASE \/ RelayUnsubscribeGet(t) \/ RelayUnsubscribeLock(t)
             \/ RelayUnsubscribeDelete(t)
    BY <1>1, <2>6, LeaveRelay
  <2>7. CASE CloseSwap(t) \/ CloseCopy(t)
    BY <1>1, <2>7, LeaveClose
  <2>8. CASE CloseLoop(t)
    BY <1>1, <2>8, LeaveLoop
  <2>9. CASE \/ ShutdownLock(t) \/ ShutdownNext(t) \/ ShutdownRoomLock(t)
             \/ ShutdownRoom(t)
    BY <1>1, <2>9, LeaveShutdown
  <2> QED
    BY <1>3, <2>1, <2>2, <2>3, <2>4, <2>5, <2>6, <2>7, <2>8, <2>9 DEF Step
<1> QED
  BY <1>1, <1>2, <1>3, LeaveBegin, LeaveConnect DEF Next

(* A room lists a handler under the name that the handler has. *)
LEMMA OwnNext == LeaveInv /\ OwnName /\ [Next]_vars => OwnName'
<1> SUFFICES ASSUME LeaveInv, OwnName, [Next]_vars PROVE OwnName'
  OBVIOUS
<1> USE SessionAssumption
<1>0. LockInv /\ TypeOK /\ Stacks /\ Belongs
  BY DEF LeaveInv, LockInv
<1>a. LockInv'
  BY <1>0, LockNext
<1>1. ASSUME UNCHANGED userID, \A h \in Handlers : stray[h] => stray'[h],
             \A c \in Channels : rooms'[c] = rooms[c] \/ rooms'[c] = 0,
             \A o \in Objects, u \in Users :
               subscribers'[o][u] = subscribers[o][u] \/ subscribers'[o][u] = Nobody
      PROVE  OwnName'
  <2>1. ASSUME NEW h \in Handlers, NEW ch \in Channels, NEW u \in Users,
               rooms'[ch] # 0, subscribers'[rooms'[ch]][u] = h, ~stray'[h]
        PROVE  u = userID'[h]
    <3>1. rooms'[ch] = rooms[ch] /\ rooms[ch] # 0 /\ rooms[ch] \in Objects
      BY <1>0, <1>1, <2>1 DEF TypeOK, Objects
    <3>2. h # Nobody
      OBVIOUS
    <3>3. subscribers[rooms[ch]][u] = h /\ ~stray[h]
      BY <1>1, <2>1, <3>1, <3>2
    <3> QED
      BY <1>1, <3>1, <3>3 DEF OwnName
  <2> QED
    BY <2>1 DEF OwnName
<1>2. ASSUME NEW t \in Threads, Step(t) PROVE OwnName'
  <2>a. PICK f : f = Top(t)
    OBVIOUS
  <2>1. CASE SubscribeCreate(t)
    <3>1. UNCHANGED <<subscribers, userID, stray>>
      BY <2>1 DEF SubscribeCreate, table
    <3>2. CASE UNCHANGED rooms
      BY <1>1, <3>1, <3>2
    <3>3. CASE rooms' # rooms
      <4>1. /\ rooms' = [rooms EXCEPT ![f.ch] = created + 1]
            /\ created < MaxRooms /\ f.ch \in Channels
        <5>1. f.ch \in Channels
          BY <1>0, <2>1, <2>a, TopFacts DEF Shaped, SubscribeCreate
        <5> QED
          BY <2>1, <2>a, <3>3, <5>1 DEF SubscribeCreate
      <4>2. created + 1 \in Objects /\ created + 1 > created
        BY <1>0, <4>1 DEF TypeOK, Objects
      <4>3. \A u \in Users : subscribers[created + 1][u] = Nobody
        BY <1>0, <4>2 DEF Belongs
      <4>4. \A c \in Channels : rooms'[c] = IF c = f.ch THEN created + 1 ELSE rooms[c]
        BY <1>0, <4>1 DEF TypeOK
      <4>5. ASSUME NEW h \in Handlers, NEW ch \in Channels, NEW u \in Users,
                   rooms'[ch] # 0, subscribers'[rooms'[ch]][u] = h, ~stray'[h]
            PROVE  u = userID'[h]
        <5>1. h # Nobody
          OBVIOUS
        <5>2. ch # f.ch
          BY <3>1, <4>3, <4>4, <4>5, <5>1
        <5> QED
          BY <3>1, <4>4, <4>5, <5>2 DEF OwnName
      <4> QED
        BY <4>5 DEF OwnName
    <3> QED
      BY <3>2, <3>3
  <2>2. CASE SubscribeSet(t)
    <3>1. /\ UNCHANGED <<rooms, userID, stray>>
          /\ subscribers' = [subscribers EXCEPT ![f.o][userID[f.h]] = f.h]
      BY <2>2, <2>a DEF SubscribeSet, table
    <3>2. f.h \in Handlers /\ f.o \in Objects
      BY <1>0, <2>2, <2>a, TopFacts DEF Shaped, SubscribeSet
    <3>3. PICK user \in Users : user = userID[f.h]
      BY <1>0, <3>2 DEF TypeOK
    <3>4. \A o \in Objects, u \in Users :
            subscribers'[o][u] = IF o = f.o /\ u = user THEN f.h
                                 ELSE subscribers[o][u]
      BY <1>0, <3>1, <3>2, <3>3 DEF TypeOK
    <3>5. ASSUME NEW h \in Handlers, NEW ch \in Channels, NEW u \in Users,
                 rooms'[ch] # 0, subscribers'[rooms'[ch]][u] = h, ~stray'[h]
          PROVE  u = userID'[h]
      <4>1. rooms[ch] \in Objects
        BY <1>0, <3>1, <3>5 DEF TypeOK, Objects
      <4>2. CASE rooms[ch] = f.o /\ u = user
        BY <3>1, <3>3, <3>4, <3>5, <4>1, <4>2
      <4>3. CASE ~(rooms[ch] = f.o /\ u = user)
        <5>1. subscribers[rooms[ch]][u] = h
          BY <3>1, <3>4, <3>5, <4>1, <4>3
        <5> QED
          BY <3>1, <3>5, <5>1 DEF OwnName
      <4> QED
        BY <4>2, <4>3
    <3> QED
      BY <3>5 DEF OwnName
  <2>3. CASE \/ \/ SubscribeGet(t) \/ SubscribeCheck(t) \/ SubscribeLock(t)
                \/ SubscribeStore(t) \/ UnsubscribeDelete(t) \/ UnsubscribeEnd(t)
             \/ \/ RelayUnsubscribeGet(t) \/ RelayUnsubscribeLock(t)
                \/ CloseSwap(t) \/ CloseLoop(t)
                \/ ShutdownLock(t) \/ ShutdownRoomLock(t)
    <3>1. UNCHANGED <<rooms, subscribers, userID, stray>>
      BY <2>3 DEF SubscribeGet, SubscribeCheck, Admit, SubscribeLock,
                  SubscribeStore, UnsubscribeDelete, UnsubscribeEnd,
                  RelayUnsubscribeGet, RelayUnsubscribeLock, CloseSwap, CloseLoop,
                  ShutdownLock, ShutdownRoomLock, maps, table
    <3> QED
      BY <1>1, <3>1
  <2>4. CASE CloseCopy(t)
    <3>1. /\ UNCHANGED <<rooms, subscribers, userID>>
          /\ stray' = [stray EXCEPT ![f.h] = @ \/ Subscribing(f.h)]
      BY <2>4, <2>a DEF CloseCopy, maps
    <3>2. \A h \in Handlers : stray[h] => stray'[h]
      BY <1>0, <3>1 DEF TypeOK
    <3> QED
      BY <1>1, <3>1, <3>2
  <2>5. CASE RelayUnsubscribeDelete(t)
    <3>1. /\ UNCHANGED <<rooms, userID, stray>>
          /\ subscribers' = [subscribers EXCEPT ![f.o][f.u] = Nobody]
      BY <2>5, <2>a DEF RelayUnsubscribeDelete, table
    <3>2. \A o \in Objects, u \in Users :
            subscribers'[o][u] = subscribers[o][u] \/ subscribers'[o][u] = Nobody
      BY <1>0, <3>1 DEF TypeOK
    <3> QED
      BY <1>1, <3>1, <3>2
  <2>6. CASE ShutdownNext(t)
    <3>1. /\ UNCHANGED <<subscribers, userID, stray>>
          /\ \A c \in Channels : rooms'[c] = rooms[c] \/ rooms'[c] = 0
      BY <2>6 DEF ShutdownNext, table
    <3> QED
      BY <1>1, <3>1
  <2>7. CASE ShutdownRoom(t)
    <3>1. /\ UNCHANGED <<rooms, userID, stray>>
          /\ \/ UNCHANGED subscribers
             \/ subscribers' = [subscribers EXCEPT ![f.o] = [u \in Users |-> Nobody]]
      BY <2>7, <2>a DEF ShutdownRoom, table
    <3>2. CASE subscribers' = [subscribers EXCEPT ![f.o] = [u \in Users |-> Nobody]]
      <4>1. \A o \in Objects, u \in Users :
              subscribers'[o][u] = subscribers[o][u] \/ subscribers'[o][u] = Nobody
        BY <1>0, <3>2 DEF TypeOK
      <4> QED
        BY <1>1, <3>1, <4>1
    <3> QED
      BY <1>1, <3>1, <3>2
  <2> QED
    BY <1>2, <2>1, <2>2, <2>3, <2>4, <2>5, <2>6, <2>7 DEF Step
<1>3. ASSUME NEW h \in Handlers, NEW ch \in Channels,
             SubscribeCommand(h, ch) \/ UnsubscribeCommand(h, ch)
      PROVE  OwnName'
  <2>1. CASE SubscribeCommand(h, ch)
    <3>1. /\ UNCHANGED <<rooms, subscribers, userID>>
          /\ stray' = [stray EXCEPT ![h] = @ \/ closed[h]]
      BY <2>1 DEF SubscribeCommand, maps
    <3>2. \A k \in Handlers : stray[k] => stray'[k]
      BY <1>0, <3>1 DEF TypeOK
    <3> QED
      BY <1>1, <3>1, <3>2
  <2>2. CASE UnsubscribeCommand(h, ch)
    <3>1. UNCHANGED <<rooms, subscribers, userID, stray>>
      BY <2>2 DEF UnsubscribeCommand, maps, table
    <3> QED
      BY <1>1, <3>1
  <2> QED
    BY <1>3, <2>1, <2>2
<1>4. ASSUME NEW h \in Handlers, PingTimeout(h) PROVE OwnName'
  <2>1. UNCHANGED <<rooms, subscribers, userID, stray>>
    BY <1>4 DEF PingTimeout, maps, table
  <2> QED
    BY <1>1, <2>1
<1>5. ASSUME NEW a \in Apps, RelayClose(a) \/ \E ch \in Channels : DeleteRoom(a, ch)
      PROVE  OwnName'
  <2>1. UNCHANGED <<rooms, subscribers, userID, stray>>
    BY <1>5 DEF RelayClose, DeleteRoom, Shutdown, maps, table
  <2> QED
    BY <1>1, <2>1
<1>6. CASE UNCHANGED vars
  <2>1. UNCHANGED <<rooms, subscribers, userID, stray>>
    BY <1>6 DEF vars
  <2> QED
    BY <1>1, <2>1
<1> QED
  BY <1>a, <1>2, <1>3, <1>4, <1>5, <1>6, LeaveConnect DEF Next

(* In the first state nobody is in a room and nothing runs. *)
LEMMA LeaveInit == Init => LeaveInv
<1> USE SessionAssumption
<1> SUFFICES ASSUME Init PROVE LeaveInv
  OBVIOUS
<1>1. LockInv
  BY LockInit
<1>2. /\ \A t \in Threads : stack[t] = << >> /\ DOMAIN stack[t] = {}
      /\ \A h \in Handlers : ~gone[h] /\ ~closed[h]
      /\ \A c \in Channels : rooms[c] = 0
      /\ created = 0
      /\ \A o \in Objects, u \in Users : subscribers[o][u] = Nobody
  BY DEF Init
<1>3. Calls
  BY <1>2 DEF Calls
<1>4. Belongs
  BY <1>2 DEF Belongs
<1>5. \A h \in Handlers : OneClose(h) /\ Noted(h)
  BY <1>2 DEF OneClose, Noted
<1>6. \A h \in Handlers, ch \in Channels : Justified(h, ch)
  BY <1>2 DEF Justified
<1> QED
  BY <1>1, <1>3, <1>4, <1>5, <1>6 DEF LeaveInv

(* No room of the relay lists a handler whose Close has returned, under any *)
(* name, unless a subscribe command overlapped the Close, or a second       *)
(* connect gave the handler another name while it was in rooms or closed:   *)
(* for any number of handlers, users, rooms and application goroutines, and *)
(* whatever Close is called from.                                           *)
THEOREM ClosedLeaves == Spec => []ClosedLeavesRooms
<1> USE SessionAssumption
<1>1. ASSUME LeaveInv, OwnName, NEW h \in Handlers, NEW ch \in Channels,
             gone[h], ~stray[h], stack[Reader(h)] = << >>, rooms[ch] # 0,
             NEW u \in Users, subscribers[rooms[ch]][u] = h
      PROVE  FALSE
  <2>1. u = userID[h]
    BY <1>1 DEF OwnName
  <2>2. Explained(h, ch)
    BY <1>1, <2>1 DEF LeaveInv, Justified
  <2>3. TypeOK /\ Stacks /\ Calls /\ OneClose(h)
    BY <1>1 DEF LeaveInv, LockInv
  <2> QED
    BY <1>1, <2>2, <2>3, Unexplained
<1>2. LeaveInv /\ OwnName => ClosedLeavesRooms
  BY <1>1 DEF ClosedLeavesRooms
<1>3. Init => LeaveInv /\ OwnName
  <2>1. Init => OwnName
    BY DEF Init, OwnName
  <2> QED
    BY <2>1, LeaveInit
<1>4. (LeaveInv /\ OwnName) /\ [Next]_vars => (LeaveInv /\ OwnName)'
  BY LeaveNext, OwnNext
<1> QED
  BY <1>2, <1>3, <1>4, PTL DEF Spec
=============================================================================
