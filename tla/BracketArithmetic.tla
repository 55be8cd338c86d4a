------------------------- MODULE BracketArithmetic --------------------------
(***************************************************************************)
(* A loop-by-loop account of bracket_backend and of the padding loop of    *)
(* Tournament.generate, run for one number of entrants after another, and  *)
(* compared with the closed forms of BracketBackend that the state         *)
(* machines use.                                                           *)
(***************************************************************************)
EXTENDS BracketBackend, Sequences, SequencesExt

CONSTANT MaxEntrants    \* the largest number of entrants that is tried
ASSUME MaxEntrantsAssumption == MaxEntrants \in Nat \ {0, 1}

VARIABLE entrants       \* the number of groups the host has entered
vars == <<entrants>>

\* while size > 1 { size = size / 2; rounds = rounds + 1 }
RoundsLoop[size \in Nat] == IF size > 1 THEN 1 + RoundsLoop[size \div 2] ELSE 0

\* for _ in 0..<r { list.append(n); n = n / 2 }, with some passes left
Passes[left \in Nat] ==
  [n \in Nat |-> IF left = 0 THEN << >> ELSE <<n>> \o Passes[left - 1][n \div 2]]

MatchesLoop(r) == Passes[r][(2^r) \div 2]

\* A power of two is what repeated halving without remainder brings to 1.
Halves[k \in Nat] == k = 1 \/ (k > 1 /\ k % 2 = 0 /\ Halves[k \div 2])

\* while !_isPowerOf2(count) { count += 1 }
PaddingLoop[count \in Nat] == IF Halves[count] THEN count ELSE PaddingLoop[count + 1]
-----------------------------------------------------------------------------
\* AddGroupsController only generates a tournament of two groups or more.
Init == entrants = 2
Next == entrants < MaxEntrants /\ entrants' = entrants + 1
Spec == Init /\ [][Next]_vars
-----------------------------------------------------------------------------
field == PaddedSize(entrants)
matches == GenerateMatches(GenerateRounds(field))

\* The closed forms compute what the loops of bracket_backend.generate_rounds
\* and generate_matches and of Tournament.generate compute, and the rounds of
\* an unpadded field are counted the same way.
LoopsAgree ==
  /\ field = PaddingLoop[entrants]
  /\ GenerateRounds(entrants) = RoundsLoop[entrants]
  /\ GenerateRounds(field) = RoundsLoop[field]
  /\ matches = MatchesLoop(GenerateRounds(field))

\* The rounds of a bracket fit together: round i seats everyone who is left
\* after round i - 1, the last round is one final, and all the matchups
\* together eliminate everyone but the champion.  (BracketController looks the
\* round up by comparing half the number of winners with this list.)
RoundsFit ==
  /\ \A i \in DOMAIN matches : matches[i] * 2^i = field
  /\ matches[Len(matches)] = 1
  /\ FoldSeq(+, 0, matches) = field - 1

\* The pairing of cellForRowAt (row i against row count - 1 - i) gives every
\* entrant at most one FREE opponent and never pairs two FREE groups, and a
\* FREE group always sits in the second place, whose button ignores it.
FreeGroupsSitOut ==
  \A row \in 1..matches[1] : row <= entrants
=============================================================================
