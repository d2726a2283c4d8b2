----------------------------- MODULE RingBuffer -----------------------------
(***************************************************************************)
(* The circular buffer in which the in-memory relay keeps the last Size    *)
(* messages of a room.                                                     *)
(*                                                                         *)
(* Source: engine/memory_relay.go, type RingBuffer.  Its methods are       *)
(* critical sections of rb.mu, so they are operators on a buffer value.    *)
(***************************************************************************)
EXTENDS Integers, Sequences

CONSTANTS
  Size,      \* rb.size, positive after NewRingBuffer
  Message,   \* the messages that may be stored
  Nil        \* an empty slot

Buffer == [messages : [0 .. Size - 1 -> Message \cup {Nil}],
           head : 0 .. Size - 1, count : 0 .. Size]

NewRingBuffer == [messages |-> [i \in 0 .. Size - 1 |-> Nil], head |-> 0,
                  count |-> 0]

(* Mutant of Add: the count goes on past the size. *)
AddUncapped(rb, m) ==
  [messages |-> [rb.messages EXCEPT ![rb.head] = m],
   head |-> (rb.head + 1) % Size,
   count |-> rb.count + 1]

(* Mutant of Add: the head is not moved round when the buffer is full. *)
AddStuck(rb, m) ==
  [messages |-> [rb.messages EXCEPT ![rb.head] = m],
   head |-> IF rb.count < Size THEN (rb.head + 1) % Size ELSE rb.head,
   count |-> IF rb.count < Size THEN rb.count + 1 ELSE rb.count]

Add(rb, m) ==
  [messages |-> [rb.messages EXCEPT ![rb.head] = m],
   head |-> (rb.head + 1) % Size,
   count |-> IF rb.count < Size THEN rb.count + 1 ELSE rb.count]

(* Oldest to newest.  The loop also skips empty slots, of which there are   *)
(* none among the last count ones.                                          *)
GetAll(rb) ==
  LET start == (rb.head - rb.count + Size) % Size IN
  [i \in 1 .. rb.count |-> rb.messages[(start + i - 1) % Size]]

(* Mutant of GetSince: the message behind the given one is left out too. *)
GetSinceOffByOne(rb, m) ==
  LET all == GetAll(rb)
      i == CHOOSE j \in DOMAIN all : all[j] = m
  IN  IF \E j \in DOMAIN all : all[j] = m THEN SubSeq(all, i + 2, Len(all))
      ELSE << >>

(* The messages behind m, the message with the given ID; none when the      *)
(* buffer no longer has it.                                                 *)
GetSince(rb, m) ==
  LET all == GetAll(rb)
      i == CHOOSE j \in DOMAIN all : all[j] = m
  IN  IF \E j \in DOMAIN all : all[j] = m THEN SubSeq(all, i + 1, Len(all))
      ELSE << >>

LastOf(s, n) == IF Len(s) <= n THEN s ELSE SubSeq(s, Len(s) - n + 1, Len(s))
=============================================================================
