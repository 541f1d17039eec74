---------------------------- MODULE SplitSearch ----------------------------
(***************************************************************************)
(* optimize_split of src/src/matcher.rs as the loop it is: one step per    *)
(* mask, then the result.  The gate that compares its spread with the      *)
(* tolerance is Passes of MatchPool.                                       *)
(***************************************************************************)
EXTENDS TeamSplit, Functions

CONSTANTS
  Rating      \* the ratings a player can have

ASSUME InputAssumption == Rating \subseteq Nat

VARIABLES
  lobby,      \* the ratings of the harvested group
  mask,       \* the loop variable
  best,       \* best_mask, best_penalty and best_macro
  result      \* the MatchResult, once the loop has ended

vars == <<lobby, mask, best, result>>

\* best_penalty = i64::MAX: ratings are 32 bits wide, so no penalty reaches it.
NoSplit  == [mask |-> 0, penalty |-> -1, macro |-> 0]
NoResult == [team_a |-> {}, team_b |-> {}, spread |-> 0]

Init ==
  /\ lobby \in [Slot -> Rating]
  /\ mask = 0
  /\ best = NoSplit
  /\ result = NoResult

SearchDone == mask = 2 ^ GroupSize

(* Mutant of Improves: <= keeps the last of equally good splits. *)
ImprovesOrTies == best = NoSplit \/ Penalty(lobby, mask) <= best.penalty

Improves   == best = NoSplit \/ Penalty(lobby, mask) < best.penalty

(* `if mask.count_ones() != 5 { continue; }` *)
SkipMask ==
  /\ mask \in Mask \ Split
  /\ mask' = mask + 1
  /\ UNCHANGED <<lobby, best, result>>

Consider ==
  /\ mask \in Split
  /\ mask' = mask + 1
  /\ best' = IF Improves
               THEN [mask    |-> mask,
                     penalty |-> Penalty(lobby, mask),
                     macro   |-> MacroGap(lobby, mask)]
               ELSE best
  /\ UNCHANGED <<lobby, result>>

(* Mutant of Return: the penalty is reported where the macro gap belongs. *)
ReturnPenalty ==
  /\ SearchDone
  /\ result = NoResult
  /\ result' = [team_a |-> TeamA(best.mask),
                team_b |-> TeamB(best.mask),
                spread |-> best.penalty \div TeamSize]
  /\ UNCHANGED <<lobby, mask, best>>

(* The teams are read back from best_mask. *)
Return ==
  /\ SearchDone
  /\ result = NoResult
  /\ result' = [team_a |-> TeamA(best.mask),
                team_b |-> TeamB(best.mask),
                spread |-> best.macro \div TeamSize]
  /\ UNCHANGED <<lobby, mask, best>>

Next == SkipMask \/ Consider \/ Return

Spec == Init /\ [][Next]_vars
-----------------------------------------------------------------------------
TypeOK ==
  /\ lobby \in [Slot -> Rating]
  /\ mask \in 0 .. 2 ^ GroupSize
  /\ best \in [mask : Mask, penalty : Nat \cup {-1}, macro : Nat]
  /\ result \in [team_a : SUBSET Slot, team_b : SUBSET Slot, spread : Nat]

(* Every pairing of the two teams costs at least the position-by-position  *)
(* one and some pairing costs exactly that: sanction_score is the 1D       *)
(* Wasserstein distance the comment of optimize_split calls it.            *)
SanctionIsTransport ==
  mask \in Split =>
    LET Cost(pairing) ==
          SumFunction([i \in TeamA(mask) |-> Distance(lobby[i], lobby[pairing[i]])])
    IN  Sanction(lobby, mask) =
          Min({Cost(p) : p \in Bijection(TeamA(mask), TeamB(mask))})

(* What the loop has kept is the first of the best splits it has seen, so  *)
(* the split it returns is BestMask: no split of this lobby has a smaller  *)
(* hybrid penalty, and ties go to the smallest mask.                       *)
BestSoFar ==
  LET Seen == {m \in Split : m < mask}
  IN  IF Seen = {}
        THEN best = NoSplit
        ELSE /\ best.mask \in Seen
             /\ best.penalty = Penalty(lobby, best.mask)
             /\ best.macro = MacroGap(lobby, best.mask)
             /\ \A m \in Seen : NoWorse(best, [mask |-> m, penalty |-> Penalty(lobby, m)])

(* The match returned splits the ten players in two teams of five and      *)
(* reports the gap of that very split, whichever lobby it was given.       *)
FairResult ==
  result # NoResult =>
    /\ result.team_a \cap result.team_b = {}
    /\ Cardinality(result.team_a) = TeamSize
    /\ Cardinality(result.team_b) = TeamSize
    /\ result.team_a = TeamA(BestMask(lobby))
    /\ result.spread = Spread(lobby, BestMask(lobby))
=============================================================================
