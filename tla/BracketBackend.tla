--------------------------- MODULE BracketBackend ---------------------------
(***************************************************************************)
(* The arithmetic of a bracket (class bracket_backend): how many rounds a  *)
(* tournament of g groups has and how many matchups each round has, and    *)
(* the size Tournament.generate pads a field to.  The code computes them   *)
(* with loops; these are the closed forms, and BracketArithmetic compares  *)
(* them with the loops.                                                    *)
(***************************************************************************)
EXTENDS Integers, FiniteSets

\* n has no odd factor: n > 0 and the bits of n and n - 1 are disjoint.
IsPowerOfTwo(n) == n > 0 /\ \A d \in 2..n : n % d = 0 => d % 2 = 0

\* Mutant of GenerateRounds: halves once more, while size >= 1.
GenerateRoundsTooMany(g) == Cardinality({m \in 1..g : IsPowerOfTwo(m)})

\* The number of halvings that bring g down to 1: one for each power of two
\* in 2..g.  It is 0 when g is not positive.
GenerateRounds(g) == Cardinality({m \in 2..g : IsPowerOfTwo(m)})

\* Mutant of GenerateMatches: starts from the groups, not from the matchups.
GenerateMatchesOfGroups(r) == [i \in 1..r |-> 2^(r - i + 1)]

\* The matchups of each of r rounds: 2^r / 2, halved from round to round.
GenerateMatches(r) == [i \in 1..r |-> 2^(r - i)]

\* Mutant of PaddedSize: an even field is taken to be enough.
PaddedSizeEven(n) == n + (n % 2)

\* The size of the field once generate has added one FREE group for every size
\* from n on until the standard library's _isPowerOf2 holds.
PaddedSize(n) ==
  n + Cardinality({size \in n..2*n : \A m \in n..size : ~IsPowerOfTwo(m)})
=============================================================================
