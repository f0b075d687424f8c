----------------------------- MODULE MCAdmissions -----------------------------
(* Instances of Admissions for TLC: applications that compete for one year      *)
(* group, and the checkout sessions opened for the first two of them.           *)
EXTENDS AdmissionsRefinement, TLC

CONSTANTS a1, a2, a3, g1, e1, e2, m1, m2, t1, t2, null

OneApp == {a1}
Pair == {a1, a2}
Trio == {a1, a2, a3}
OneYearGroup == {g1}
ToG1 == [a \in App |-> g1]
NoEvent == {}
OneEvent == {e1}
TwoEvents == {e1, e2}
FirstPays == [e \in Event |-> a1]
EachPays == [e \in Event |-> IF e = e1 THEN a1 ELSE a2]
NoSibling == {}
SecondIsSibling == {a2}
OneFee == {m1}
TwoFees == {m1, m2}
OneRequest == {t1}
TwoRequests == {t1, t2}

\* Requests are interchangeable; applications are when none has a session and all
\* are, or none is, a sibling's.
Requests == Permutations(Txn)
RequestsAndApps == Permutations(Txn) \cup Permutations(App)
=============================================================================
