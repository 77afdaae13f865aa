---------------------------- MODULE AttemptLedger ----------------------------
(***************************************************************************)
(* What the assessments service promises of a quiz (docs/backend-port/     *)
(* 06-assessments.md, "Attempt lifecycle" and "Submit and grading"): it is *)
(* open once, then either graded or, only if late, abandoned, and the      *)
(* evidence for the mastery model appears in that same step.               *)
(***************************************************************************)
EXTENDS Naturals

CONSTANT Papers

VARIABLES
    ledger,     \* [Papers -> "none" | "open" | "graded" | "abandoned"]
    late,       \* the open papers whose deadline and grace have passed
    evidence    \* [Papers -> <<batches of answers, batches of abandons>>]

lvars == <<ledger, late, evidence>>

Init ==
    /\ ledger = [p \in Papers |-> "none"]
    /\ late = {}
    /\ evidence = [p \in Papers |-> <<0, 0>>]

GoLate(p) ==
    /\ ledger[p] = "open"
    /\ late' = late \cup {p}
    /\ UNCHANGED <<ledger, evidence>>

Grade(p) ==
    /\ ledger[p] = "open"
    /\ ledger' = [ledger EXCEPT ![p] = "graded"]
    /\ evidence' = [evidence EXCEPT ![p] = <<1, 0>>]
    /\ UNCHANGED late

\* The papers in O appear and those in A are given up, in one transaction.
OpenAndAbandon(O, A) ==
    /\ \A p \in O : ledger[p] = "none"
    /\ \A p \in A : ledger[p] = "open" /\ p \in late
    /\ ledger' = [p \in Papers |-> IF p \in O THEN "open"
                                   ELSE IF p \in A THEN "abandoned" ELSE ledger[p]]
    /\ evidence' = [p \in Papers |-> IF p \in A THEN <<0, 1>> ELSE evidence[p]]
    /\ UNCHANGED late

Next ==
    \/ \E p \in Papers : GoLate(p) \/ Grade(p)
    \/ \E O, A \in SUBSET Papers : OpenAndAbandon(O, A)

Spec == Init /\ [][Next]_lvars
=============================================================================
