---------------------------- MODULE Matchmaking ----------------------------
(***************************************************************************)
(* What the matchmaker promises, without buckets, locks or threads: a      *)
(* player waits from the moment it arrives until it is in one match, and   *)
(* a match takes GroupSize waiting players in one step, who may play       *)
(* together after the time the one of them that came first has waited.     *)
(***************************************************************************)
EXTENDS Naturals, Functions, FiniteSetsExt

CONSTANTS
  Player,
  None,         \* no instant
  GroupSize,    \* players in a match
  Fair(_, _),   \* whether a group may play after a given wait
  LastArrival,  \* bound: no player arrives after this instant
  MaxClock      \* bound: the clock stops here

VARIABLES
  waiting,      \* the players who wait
  since,        \* when each player arrived
  matches,      \* the groups that play
  clock

vars == <<waiting, since, matches, clock>>

Init ==
  /\ waiting = {}
  /\ since = [p \in Player |-> None]
  /\ matches = {}
  /\ clock = 0

Arrive(p) ==
  /\ since[p] = None
  /\ clock <= LastArrival
  /\ since' = [since EXCEPT ![p] = clock]
  /\ waiting' = waiting \cup {p}
  /\ UNCHANGED <<matches, clock>>

LongestWait(g) == Max({clock - since[g[i]] : i \in 1 .. GroupSize})

Form(g) ==
  /\ matches' = matches \cup {g}
  /\ IsInjective(g)
  /\ Range(g) \subseteq waiting
  /\ waiting' = waiting \ Range(g)
  /\ UNCHANGED <<since, clock>>
  /\ Fair(g, LongestWait(g))

Tick ==
  /\ clock < MaxClock
  /\ clock' = clock + 1
  /\ UNCHANGED <<waiting, since, matches>>

Next ==
  \/ \E p \in Player : Arrive(p)
  \/ \E g \in [1 .. GroupSize -> Player] : Form(g)
  \/ Tick

Spec == Init /\ [][Next]_vars
=============================================================================
