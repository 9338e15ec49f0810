------------------------------- MODULE Listing -------------------------------
(***************************************************************************)
(* A finite set as the sequence that a sort makes of it: the n-th element  *)
(* is the one that n - 1 others come before. The operators on sequences    *)
(* that the pages use are those of Seqs.                                   *)
(***************************************************************************)
EXTENDS Naturals, FiniteSets, Sequences

Seqs == INSTANCE SequencesExt

\* The elements of S that come before x; `before` is the order, as pairs.
Earlier(S, before, x) == {y \in S : <<y, x>> \in before}

Listed(S, before) ==
    [n \in 1 .. Cardinality(S) |->
        CHOOSE x \in S : Cardinality(Earlier(S, before, x)) = n - 1]

Ascending(S) == Listed(S, {p \in S \X S : p[1] < p[2]})
Descending(S) == Listed(S, {p \in S \X S : p[1] > p[2]})

\* The elements of s at these places, in the order they have in s.
Chosen(s, places) ==
    LET chosen[n \in 0 .. Len(s)] ==
            IF n = 0 THEN <<>>
            ELSE IF n \in places THEN Append(chosen[n - 1], s[n]) ELSE chosen[n - 1]
    IN  chosen[Len(s)]

=============================================================================
