---------------------------- MODULE Subsequences ----------------------------
(***************************************************************************)
(* What Array.prototype.filter makes of a sequence when the test is        *)
(* membership in a set.  SelectSeq with a set in the place of the test:    *)
(* the facts of SequenceLemmas quantify over it.                           *)
(***************************************************************************)
EXTENDS Integers, SequencesExt

\* The elements of s that are in S, in the order of s.
Select(s, S) ==
    LET upto[n \in 0..Len(s)] ==
            IF n = 0 THEN <<>>
            ELSE IF s[n] \in S THEN Append(upto[n - 1], s[n]) ELSE upto[n - 1]
    IN  upto[Len(s)]

=============================================================================
