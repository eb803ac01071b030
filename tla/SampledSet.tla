----------------------------- MODULE SampledSet -----------------------------
(***************************************************************************)
(* The sampled set of a hyperbolic cache and its order                     *)
(* (cache/hyperbolic.c): get_oc and get_ec draw positions of the tree, the *)
(* same one several times perhaps, and sort what they drew by priority     *)
(* with a QuickSort of their own.  get_oc takes the last, get_ec looks at  *)
(* them from the first on.                                                 *)
(*                                                                         *)
(* An item is its priority here.  A priority is a double: an object below  *)
(* 1 KB nobody asked for has 0 / 0, which is neither less nor greater      *)
(* than any other.                                                         *)
(***************************************************************************)
EXTENDS Integers, Sequences, FiniteSets

CONSTANTS SampleSize,      \* hc->sample_size
          MaxPrio          \* bound: different priorities

ASSUME SampleAssumption == SampleSize \in Nat /\ MaxPrio \in Nat

NaN   == -1
Prios == 0 .. MaxPrio

Less(p, q)    == NaN \notin {p, q} /\ p < q
Greater(p, q) == Less(q, p)

VARIABLES set,       \* hc->set, its sample_size first entries
          drawn      \* history: the sample as it was drawn, or empty

sampleVars == <<set, drawn>>

SampleInit == set = << >> /\ drawn = << >>

(* The first loop's i: the first entry from i on that is not less than the *)
(* pivot, and the last entry at the latest.                                *)
FirstNotLess(a, pivot, i, right) ==
  CHOOSE k \in i .. right : /\ k = right \/ ~Less(a[k], pivot)
                            /\ \A m \in i .. k - 1 : Less(a[m], pivot)

(* The second loop's j.                                                    *)
LastNotGreater(a, pivot, left, j) ==
  CHOOSE k \in left .. j : /\ k = left \/ ~Greater(a[k], pivot)
                           /\ \A m \in k + 1 .. j : Greater(a[m], pivot)

\* Mutant: an item is copied over another.
SwappedHalf(a, i, j) == [a EXCEPT ![i] = a[j]]

Swapped(a, i, j) == [a EXCEPT ![i] = a[j], ![j] = a[i]]

\* Mutant: the two indices move on where nothing was swapped, too.
PassBothMove(s, pivot, left, right) ==
  LET k == FirstNotLess(s.a, pivot, s.i, right)
      l == LastNotGreater(s.a, pivot, left, s.j)
  IN [a |-> IF k <= l THEN Swapped(s.a, k, l) ELSE s.a, i |-> k + 1, j |-> l - 1]

(* The body of the outer loop.                                             *)
Pass(s, pivot, left, right) ==
  LET k == FirstNotLess(s.a, pivot, s.i, right)
      l == LastNotGreater(s.a, pivot, left, s.j)
  IN IF k <= l THEN [a |-> Swapped(s.a, k, l), i |-> k + 1, j |-> l - 1]
               ELSE [a |-> s.a, i |-> k, j |-> l]

(* What the outer loop has made of the entries left to right of a after at *)
(* most n passes; it ends when i has passed j.                             *)
Partition(a, pivot, left, right) ==
  LET after[n \in 0 .. right - left + 1] ==
        IF n = 0 THEN [a |-> a, i |-> left, j |-> right]
        ELSE IF after[n - 1].i > after[n - 1].j THEN after[n - 1]
        ELSE Pass(after[n - 1], pivot, left, right)
  IN after[right - left + 1]

Calls == [a : Seq(Prios \cup {NaN}), left : Int, right : Int]
Call(a, left, right) == [a |-> a, left |-> left, right |-> right]

(* Entries left to right, of which there are no more than n, are put on    *)
(* either side of the pivot, then each side is sorted.                     *)
QuickSort[n \in 0 .. SampleSize] ==
  [q \in Calls |->
     IF n = 0 \/ q.left >= q.right THEN q.a
     ELSE LET p == Partition(q.a, q.a[(q.left + q.right) \div 2], q.left, q.right)
              b == QuickSort[n - 1][Call(p.a, q.left, p.j)]
          IN QuickSort[n - 1][Call(b, p.i, q.right)]]

(* RandomlySample, then SortSampledSet, on entries 1 .. n for 0 .. n - 1.  *)
Sample(s) ==
  /\ drawn' = s
  /\ set' = QuickSort[Len(s)][Call(s, 1, Len(s))]

SampleNext == \E n \in 1 .. SampleSize : \E s \in [1 .. n -> Prios \cup {NaN}] : drawn = << >> /\ Sample(s)

SampleSpec == SampleInit /\ [][SampleNext]_sampleVars

-----------------------------------------------------------------------------
Occurrences(a, p) == Cardinality({k \in DOMAIN a : a[k] = p})

(* Sorting loses and repeats nothing, not even where priorities compare    *)
(* with nothing: get_ec, which looks for an item on the NIC among them,    *)
(* sees every item of the sample.                                          *)
SortKeepsAll ==
  /\ Len(set) = Len(drawn)
  /\ \A p \in Prios \cup {NaN} : Occurrences(set, p) = Occurrences(drawn, p)

Ascending(a) == \A k \in 1 .. Len(a) - 1 : a[k] <= a[k + 1]

(* hyperbolic.c: "Sort to ascending orer".  As long as every priority is a *)
(* number the order is ascending, so get_oc takes the greatest.            *)
SortAscending == NaN \notin {drawn[k] : k \in DOMAIN drawn} => Ascending(set)

(* What the comment says without that reservation: an entry is never       *)
(* followed by a smaller one.                                              *)
SortTotal == \A k, m \in DOMAIN set : k < m => ~Greater(set[k], set[m])
=============================================================================
