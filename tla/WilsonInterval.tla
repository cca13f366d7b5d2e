--------------------------- MODULE WilsonInterval ---------------------------
(***************************************************************************)
(* wilsonCI of packages/egac/src/index.js: the lower end of the 95% Wilson *)
(* score interval of k detections in n outcomes, in percent, rounded down. *)
(* The code computes it in floating point with z = 1.96; here it is the    *)
(* rate at which the score test rejects, from which the formula derives.   *)
(***************************************************************************)
EXTENDS Integers, FiniteSetsExt

CONSTANT MaxOutcomes     \* bound on the outcomes of a tier, all of them tabulated

Percent == 0..100

\* The observed rate itself.
WilsonLow_Point == [n \in 1..MaxOutcomes |-> [k \in 0..n |-> (100 * k) \div n]]

\* q / 100 is at least z standard errors of its own away from k / n (z * z = 96 / 25).
Apart(q, k, n) == 25 * (100 * k - n * q) * (100 * k - n * q) >= 96 * n * q * (100 - q)

\* The rates below k / n that, with all before them, are apart from it; 0 is one in any case.
Rejected(k, n) ==
    {q \in Percent : (q = 0 \/ q * n < 100 * k) /\ \A r \in 0..q : Apart(r, k, n)}

\* The misses are counted for the detections.
WilsonLow_Missed == [n \in 1..MaxOutcomes |-> [k \in 0..n |-> Max(Rejected(n - k, n))]]

\* The lower end of the 95% Wilson interval of k / n: the rates up to it are apart from k / n.
WilsonLow == [n \in 1..MaxOutcomes |-> [k \in 0..n |-> Max(Rejected(k, n))]]

=============================================================================
