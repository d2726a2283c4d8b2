---------------------------- MODULE DedupeCache ----------------------------
(***************************************************************************)
(* The cache of message IDs by which a broker recognises what it has       *)
(* already relayed.                                                        *)
(*                                                                         *)
(* Source: engine/broker.go, type DedupeCache.  Its methods are critical   *)
(* sections of d.mu, so they are operators on a cache value.  The list     *)
(* "order" holds exactly the keys of the maps "cache" and "elements".  A   *)
(* key is appended when it gets its time, so the keys older than the TTL   *)
(* are the first ones of the list: "old" is their number.                  *)
(***************************************************************************)
EXTENDS Naturals, Sequences

CONSTANTS Key, MaxSize

Cache == [order : Seq(Key), old : Nat]

NewDedupeCache == [order |-> << >>, old |-> 0]

(* The keys that are in the cache and have not expired. *)
Fresh(d) == {d.order[i] : i \in d.old + 1 .. Len(d.order)}

IsDuplicate(d, k) == k \in Fresh(d)

(* The oldest key that is not over its TTL now is. *)
Expire(d) == [d EXCEPT !.old = @ + 1]

(* The element of an expired entry of k is taken out of the list. *)
Without(d, k) ==
  LET at == {i \in 1 .. d.old : d.order[i] = k}
      i == CHOOSE j \in at : TRUE
  IN IF at = {} THEN d
     ELSE [order |-> SubSeq(d.order, 1, i - 1)
                       \o SubSeq(d.order, i + 1, Len(d.order)),
           old |-> d.old - 1]

(* Mutant of Evict: off by one. *)
EvictLate(d) ==
  IF Len(d.order) > MaxSize + 1
  THEN [order |-> Tail(d.order), old |-> IF d.old > 0 THEN d.old - 1 ELSE 0]
  ELSE d

(* Over the size, the first of the list goes. *)
Evict(d) ==
  IF Len(d.order) > MaxSize
  THEN [order |-> Tail(d.order), old |-> IF d.old > 0 THEN d.old - 1 ELSE 0]
  ELSE d

(* Mutant of Mark: the key is looked up and not remembered. *)
MarkForgets(d, k) == d

(* The cache after IsDuplicate has answered no. *)
Mark(d, k) ==
  LET rest == Without(d, k) IN Evict([rest EXCEPT !.order = Append(@, k)])

Cleanup(d) == [order |-> SubSeq(d.order, d.old + 1, Len(d.order)), old |-> 0]
=============================================================================
