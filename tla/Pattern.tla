------------------------------ MODULE Pattern ------------------------------
(***************************************************************************)
(* Channel patterns with the wildcard "*".  Names are sequences of         *)
(* letters, which are ASCII: permissions.go:288 makes a literal with       *)
(* string(pattern[pi]), which turns a byte above 127 into two.             *)
(*                                                                         *)
(* Source: engine/permissions.go, matchPattern.  Glob is the reference: a  *)
(* wildcard stands for any sequence of letters.                            *)
(***************************************************************************)
EXTENDS Naturals, Sequences

CONSTANT Star   \* the byte '*'

(* Whether s is a sequence. *)
Name(s) == s \in Seq({s[i] : i \in DOMAIN s})

Least(s) == CHOOSE k \in s : \A j \in s : k <= j

(* The letters of p from position i up to the next wildcard. *)
Literal(p, i) ==
  LET stars == {k \in i .. Len(p) : p[k] = Star}
  IN SubSeq(p, i, IF stars = {} THEN Len(p) ELSE Least(stars) - 1)

(* The places of c, from ci on, at which lit stands. *)
Finds(c, ci, lit) ==
  {k \in ci .. Len(c) : /\ k + Len(lit) - 1 <= Len(c)
                        /\ SubSeq(c, k, k + Len(lit) - 1) = lit}

(* After the loop: nothing is left but wildcards of the pattern. *)
Exhausted(p, c, pi, ci) == ci > Len(c) /\ \A k \in pi .. Len(p) : p[k] = Star

(* A turn of the loop at pi and ci, where rest tells how it ends from later *)
(* places.  A wildcard that is not the last takes the first place at which  *)
(* the literal after it is found, and never a later one.                    *)
Turn(p, c, rest, pi, ci) ==
  IF pi <= Len(p) /\ ci <= Len(c)
  THEN IF p[pi] = Star
       THEN LET lit == Literal(p, pi + 1)
                found == Finds(c, ci, lit)
            IN \/ pi = Len(p)
               \/ found # {} /\ rest[pi + 1 + Len(lit)][Least(found) + Len(lit)]
       ELSE p[pi] = c[ci] /\ rest[pi + 1][ci + 1]
  ELSE Exhausted(p, c, pi, ci)

Scan(p, c) ==
  LET scan[pi \in 1 .. Len(p) + 1] ==
        [ci \in 1 .. Len(c) + 1 |-> Turn(p, c, scan, pi, ci)]
  IN scan

matchPattern(p, c) == p = <<Star>> \/ Scan(p, c)[1][1]

(* Letter i of p stands for the letters of c from at[i] up to at[i + 1]. *)
Stands(p, c, at, i) ==
  IF p[i] = Star THEN at[i] <= at[i + 1]
                 ELSE at[i + 1] = at[i] + 1 /\ p[i] = c[at[i]]

(* The letters of p from pi on stand for those of c from ci on. *)
GlobFrom(p, c, pi, ci) ==
  \E at \in [pi .. Len(p) + 1 -> ci .. Len(c) + 1] :
    /\ at[pi] = ci /\ at[Len(p) + 1] = Len(c) + 1
    /\ \A i \in pi .. Len(p) : Stands(p, c, at, i)

Glob(p, c) == GlobFrom(p, c, 1, 1)

(* The form of every pattern in the documentation: one wildcard, at the end. *)
TrailingStar(p) == \A k \in 1 .. Len(p) - 1 : p[k] # Star
=============================================================================
