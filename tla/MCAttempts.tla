----------------------------- MODULE MCAttempts -----------------------------
(* TLC instances of Attempts. *)
EXTENDS Attempts, TLC

CONSTANTS q1, q2, q3, p1, m1

\* Papers of one kind; the pretest is of that kind too, since _resume can hand
\* out an open five-question pretest.  A mock or a past paper has its own.
KindOf == [a \in Attempts |-> CASE a \in Mocks -> "mock"
                                [] a \in PastPapers -> "past paper"
                                [] OTHER -> "quiz"]

RequestSymmetry == Permutations(Requests)
=============================================================================
