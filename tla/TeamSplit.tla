----------------------------- MODULE TeamSplit -----------------------------
(***************************************************************************)
(* The arithmetic of src/src/matcher.rs (Algorithm 3): what a split of a   *)
(* lobby is, its penalty, and the tolerance gate.  A split is numbered as  *)
(* in the code, by a mask over the lobby's slots; slot i is bit i - 1.     *)
(* A lobby is a function from slots to ratings.                            *)
(***************************************************************************)
EXTENDS Integers, Sequences, SequencesExt

CONSTANT TeamSize     \* players per team; 5 in the code

ASSUME TeamSizeAssumption == TeamSize \in Nat \ {0}

GroupSize == 2 * TeamSize
Slot      == 1 .. GroupSize
Mask      == 0 .. (2 ^ GroupSize) - 1

TeamA(mask) == {i \in Slot : (mask \div (2 ^ (i - 1))) % 2 = 1}
TeamB(mask) == Slot \ TeamA(mask)

(* The masks the loop does not skip: count_ones() equals the team size. *)
Split == {mask \in Mask : Cardinality(TeamA(mask)) = TeamSize}

Distance(x, y) == IF x < y THEN y - x ELSE x - y

Strength(lobby, team) == SumFunction([i \in team |-> lobby[i]])

(* Mutant of MacroGap: without abs(). *)
MacroGapSigned(lobby, mask) ==
  Strength(lobby, TeamA(mask)) - Strength(lobby, TeamB(mask))

MacroGap(lobby, mask) ==
  Distance(Strength(lobby, TeamA(mask)), Strength(lobby, TeamB(mask)))

(* Mutant of Ranked: the ratings in lobby order, never sorted. *)
RankedBySlot(lobby, team) ==
  CHOOSE r \in [1 .. TeamSize -> team] : \A j, k \in 1 .. TeamSize : j < k => r[j] < r[k]

(* Slot i comes before slot j in a team sorted by rating. *)
Before(lobby, i, j) == lobby[i] < lobby[j] \/ (lobby[i] = lobby[j] /\ i < j)

(* The team's slots by ascending rating, as sort_unstable leaves its ratings. *)
Ranked(lobby, team) ==
  CHOOSE r \in [1 .. TeamSize -> team] :
    \A j, k \in 1 .. TeamSize : j < k => Before(lobby, r[j], r[k])

(* sanction_score: the teams compared position by position, lowest first. *)
Sanction(lobby, mask) ==
  LET a == Ranked(lobby, TeamA(mask))
      b == Ranked(lobby, TeamB(mask))
  IN  SumFunction([k \in 1 .. TeamSize |-> Distance(lobby[a[k]], lobby[b[k]])])

Penalty(lobby, mask) == MacroGap(lobby, mask) + Sanction(lobby, mask)

(* The strict < of the loop keeps the first of equally good masks. *)
NoWorse(s, t) == s.penalty < t.penalty \/ (s.penalty = t.penalty /\ s.mask <= t.mask)

BestMask(lobby) ==
  LET Scores == {[mask |-> m, penalty |-> Penalty(lobby, m)] : m \in Split}
      Best   == CHOOSE s \in Scores : \A t \in Scores : NoWorse(s, t)
  IN  Best.mask

(* What the match reports, and the gate compares: a per-player average. *)
Spread(lobby, mask) == MacroGap(lobby, mask) \div TeamSize

(* t_max, for a wait in units of 100 ms.  README.md says it is capped; the *)
(* code has no cap.                                                        *)
MaxTeamGap(wait) == 50 + 10 * wait
=============================================================================
