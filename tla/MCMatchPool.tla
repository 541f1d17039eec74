---------------------------- MODULE MCMatchPool ----------------------------
(***************************************************************************)
(* Instances of MatchPool for TLC.  Ratings are chosen so that players     *)
(* share buckets, sit in neighbouring ones and lie beyond the borders.     *)
(***************************************************************************)
EXTENDS MatchPool

CONSTANTS p1, p2, p3, p4, w1, w2

(* Buckets 10 wide: two players in bucket 0, one in 1 and one in 3.  The   *)
(* pairs with p4, across buckets or, were the borders to wrap, around the  *)
(* carousel, pass once one of the two has waited a tick; others at once.   *)
RatingsApart == (p1 :> 5) @@ (p2 :> 5) @@ (p3 :> 12) @@ (p4 :> 64)

(* The fewest players two workers can put back in the wrong order. *)
RatingsTrio == (p1 :> 10) @@ (p2 :> 20) @@ (p3 :> 70)

(* Buckets 64 wide: two players in bucket 0 and one in 1.  The pairs with  *)
(* p1 are refused, and returned to their buckets, for two ticks.           *)
RatingsNear == (p1 :> 0) @@ (p2 :> 63) @@ (p3 :> 64)

(* Two workers are alike, and so are the two players of one rating. *)
PoolSymmetry == Permutations(Worker) \cup Permutations({p1, p2})
=============================================================================
