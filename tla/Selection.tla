----------------------------- MODULE Selection ------------------------------
(***************************************************************************)
(* How the service draws reviewers: shuffleUsers goes through the list     *)
(* from its end and swaps each place with a random one that is not behind  *)
(* it, selectRandomReviewers takes the first ones.                         *)
(***************************************************************************)
EXTENDS Naturals, Sequences, FiniteSets

CONSTANTS
    MaxCandidates, \* bounds of the candidates a team has, ...
    MaxCount       \* ... and of the reviewers that are wanted

VARIABLES
    candidates,    \* the active members of a team, as the table returns them
    maxCount       \* how many reviewers are wanted

selectionVars == <<candidates, maxCount>>

\* Mutant: rand.Int(i) in the place of rand.Int(i+1).
Draws_neverStays(n) == {d \in [2 .. n -> 1 .. n] : \A i \in 2 .. n : d[i] <= i - 1}

\* The numbers drawn for the places n .. 2.
Draws(n) == {d \in [2 .. n -> 1 .. n] : \A i \in 2 .. n : d[i] <= i}

Swap(s, i, j) == [s EXCEPT ![i] = s[j], ![j] = s[i]]

\* The list when the places behind last have been drawn; a random source that
\* fails leaves it at that.
Shuffled(users, draw, last) ==
    LET after[i \in last .. Len(users)] ==
          IF i = Len(users) THEN users
                            ELSE Swap(after[i + 1], i + 1, draw[i + 1])
    IN  after[last]

Count(users, count) == IF Len(users) < count THEN Len(users) ELSE count

selectRandomReviewers(users, count, draw, last) ==
    IF users = <<>> THEN <<>>
                    ELSE SubSeq(Shuffled(users, draw, last), 1, Count(users, count))

-----------------------------------------------------------------------------
SelectionInit == candidates = <<>> /\ maxCount = 0

\* A pull request is created in a team of any size under any limit.
Ask ==
    /\ candidates = <<>>
    /\ \E n \in 1 .. MaxCandidates : candidates' = [i \in 1 .. n |-> i]
    /\ maxCount' \in 0 .. MaxCount

SelectionSpec == SelectionInit /\ [][Ask]_selectionVars

-----------------------------------------------------------------------------
\* The lists a fair selection of k candidates draws from.
Lists(k) ==
    {s \in [1 .. k -> DOMAIN candidates] : \A i, j \in 1 .. k : s[i] = s[j] => i = j}

\* Every list of different candidates that is long enough comes from equally
\* many draws, and from no draw comes anything else; nor does it when the random
\* source fails on the way.
SelectionIsFair ==
    candidates # <<>> =>
       LET n == Len(candidates)
           lists == Lists(Count(candidates, maxCount))
           select(d, last) == selectRandomReviewers(candidates, maxCount, d, last)
           selected == [d \in Draws(n) |-> select(d, 1)]
           ways(s) == Cardinality({d \in Draws(n) : selected[d] = s})
       IN  /\ \A s \in lists : ways(s) * Cardinality(lists) = Cardinality(Draws(n))
           /\ \A d \in Draws(n), last \in 1 .. n : select(d, last) \in lists
=============================================================================
