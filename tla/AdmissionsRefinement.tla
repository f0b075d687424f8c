------------------------ MODULE AdmissionsRefinement ------------------------
(* The admissions pipeline implements SeatRegister: the count under the         *)
(* advisory lock and the commit that follows it are one step of the register,   *)
(* and so are a payment event, however often it is delivered, and its student.   *)
EXTENDS Admissions

WithStatus(st) == {a \in App : app[a].status = st}

Register == INSTANCE SeatRegister WITH
  cut <- shrunk,
  ready <- WithStatus("ready_to_admit"),
  held <- WithStatus("conditional_approval"),
  paid <- {a \in App : a \in desk \/ Succeeded(a) # {}}

\* Whatever requests, the webhook and the expiry job do to each other's rows, seats
\* are granted and turned into students as if each of these were one step
\* (moveToConditionalApproval, convertToStudent and promoteYearGroup together).
ImplementsSeatRegister == Register!Spec
=============================================================================
