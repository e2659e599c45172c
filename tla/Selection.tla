----------------------------- MODULE Selection -----------------------------
(***************************************************************************)
(* Keeping some elements of a sequence, named by their positions: what     *)
(* VecDeque::remove and a loop that sorts elements into two vectors leave. *)
(* Keep(s, {i \in DOMAIN s : Test(s[i])}) is SelectSeq(s, Test); it is     *)
(* defined by ranks, without recursion, so that it can be reasoned about.  *)
(***************************************************************************)
EXTENDS Naturals, Sequences, FiniteSets

Rank(P, i) == Cardinality({j \in P : j <= i})

(* The n lowest positions.                                                 *)
First(P, n) == {i \in P : Rank(P, i) <= n}

Keep(s, P) == [k \in 1 .. Cardinality(P) |-> s[CHOOSE i \in P : Rank(P, i) = k]]

===========================================================================
