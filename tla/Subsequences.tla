---------------------------- MODULE Subsequences ----------------------------
(***************************************************************************)
(* The loops and patterns of the code that keep some places of a sequence  *)
(* and drop the others.  The definition counts instead of recurring, so    *)
(* that it can be reasoned about.                                          *)
(***************************************************************************)
EXTENDS Integers, Sequences, FiniteSets, SequencesExt

\* The k-th of some places.
NthPlace(places, k) ==
  CHOOSE i \in places : Cardinality({j \in places : j < i}) = k - 1

\* What stands at the given places of a sequence, in its order.
Kept(s, places) == [k \in 1 .. Cardinality(places) |-> s[NthPlace(places, k)]]

\* The elements of a sequence that are wanted.
Only(s, wanted) == Kept(s, {i \in DOMAIN s : s[i] \in wanted})

=============================================================================
