----------------------------- MODULE MCApprovals -----------------------------
(* Instances of Approvals for TLC: one entity of one kind, or an announcement    *)
(* and an invoice, with the requests that may be opened for them.               *)
EXTENDS ApprovalsRefinement, TLC

CONSTANTS e1, e2, r1, r2, u1, u2, s1, s2, w1, w2

OneEntity == {e1}
TwoEntities == {e1, e2}
OneRequest == {r1}
TwoRequests == {r1, r2}
TwoUsers == {u1, u2}
TargetEach == [r \in Req |-> IF r = r1 THEN e1 ELSE e2]
TargetsE1 == [r \in Req |-> e1]
Announcements == [e \in Entity |-> "announcement"]
Invoices == [e \in Entity |-> "invoice"]
OneOfEach == [e \in Entity |-> IF e = e1 THEN "announcement" ELSE "invoice"]
PayrollRuns == [e \in Entity |-> "payroll"]

\* The behaviours in which nobody works on an entity while somebody else does.
SerialSpec == Init /\ [][Next /\ NoOverlap']_vars

\* Handlers, workers and requests are interchangeable; users are when none of
\* them has direct authority.
Processes == Permutations(Slot) \cup Permutations(Worker) \cup Permutations(Req)
ProcessesAndUsers == Processes \cup Permutations(User)
=============================================================================
