---------------------- MODULE AdmissionsRefinementProofs ----------------------
(* The admissions pipeline implements SeatRegister, for any number of           *)
(* applications, year groups, requests and payment events, and any number of    *)
(* faults.                                                                      *)
EXTENDS AdmissionsProofs, AdmissionsRefinement

USE DEF AppStatus, TxnPcs, classes, money, used

RegisterStep == [Register!Next]_(Register!vars)

OnRecord(a) == a \in desk \/ Succeeded(a) # {}

\* The steps that the register sees as something else than applications changing
\* places.
TakesSeat == \E t \in Txn, fee \in Fee : ApproveCommit(t, fee)
TakesPayment == (\E a \in App : DeskPayment(a)) \/ (\E t \in Txn : StripeConvert(t))
TakesCapacity == \E g \in Group, n \in 0..MaxSeats : ResizeClass(g, n)

\* The register counts as the pipeline does.
LEMMA SameCount ==
  ASSUME NEW S
  PROVE  Register!Cardinality(S) = Cardinality(S)
BY DEF Register!Cardinality, Cardinality

\* Every other step leaves students, payments and lost capacity alone.
LEMMA OthersLeaveBooks ==
  ASSUME IndInv, Next, ~TakesPayment
  PROVE  UNCHANGED students /\ \A a \in App : OnRecord(a)' <=> OnRecord(a)
<1>ledger. ledger \in [Event -> {"none", "succeeded", "out_of_band"}]
  BY DEF IndInv, TypeOK
<1>1. UNCHANGED <<students, desk>> /\ (UNCHANGED ledger \/ \E t \in Txn : StripeStray(t))
  BY DEF Next, RequestStep, TxnStep, Deliver, CronStep, FaultStep, SubmitCount, ApproveLock,
      BypassLock, CloseRead, OpenClass, ResizeClass, Enrol, OpenCheckout, ParentPays, ToggleModule,
      StripeDuplicate, StripeRead, Lapse, SessionExpires, SubmitCommit, ApproveCount, ApproveCommit,
      CloseWrite, PromoteCommit, BypassCount, BypassCommit, StripeStray, Abort, CronScan, CronSelect,
      CronPromote, CronDone, CronRead, CronWrite, CronCount, CronCrash, CronSkips, TakesPayment
<1>2. ASSUME NEW t \in Txn, StripeStray(t)
      PROVE  \A e \in Event : ledger'[e] = "succeeded" <=> ledger[e] = "succeeded"
  <2> DEFINE e == txn[t].ev
  <2>1. \/ ledger' = [ledger EXCEPT ![e] = "out_of_band"] /\ ledger[e] = "none"
        \/ ledger' = [ledger EXCEPT ![e] = ledger[e]]
    BY <1>2 DEF StripeStray, Record, RollBack, LedgerAfterRollback
  <2> HIDE DEF e
  <2> QED
    BY <2>1, <1>ledger
<1>3. \A e \in Event : ledger'[e] = "succeeded" <=> ledger[e] = "succeeded"
  BY <1>1, <1>2
<1> QED
  BY <1>1, <1>3 DEF OnRecord, Succeeded

LEMMA OthersLeaveCapacity ==
  ASSUME IndInv, Next, ~TakesCapacity
  PROVE  UNCHANGED shrunk /\ \A g \in Group : seats'[g] >= seats[g]
<1>type. seats \in [Group -> Nat] /\ txn \in [Txn -> Request]
  BY DEF IndInv, TypeOK
<1>1. UNCHANGED shrunk /\ (UNCHANGED seats \/ \E t \in Txn : PromoteCommit(t))
  BY DEF Next, RequestStep, TxnStep, Deliver, CronStep, FaultStep, SubmitCount, ApproveLock,
      BypassLock, CloseRead, OpenClass, DeskPayment, Enrol, OpenCheckout, ParentPays, ToggleModule,
      StripeDuplicate, StripeRead, Lapse, SessionExpires, SubmitCommit, ApproveCount, ApproveCommit,
      CloseWrite, PromoteCommit, BypassCount, BypassCommit, StripeStray, StripeConvert, Abort,
      CronScan, CronSelect, CronPromote, CronDone, CronRead, CronWrite, CronCount, CronCrash,
      CronSkips, TakesCapacity
<1>2. ASSUME NEW t \in Txn, PromoteCommit(t), NEW g \in Group
      PROVE  seats'[g] >= seats[g]
  <2>1. txn[t].adds \in 0..1 /\ seats[g] \in Nat
    BY <1>type DEF Request
  <2>2. seats' = [seats EXCEPT ![txn[t].group] = @ + txn[t].adds]
    BY <1>2 DEF PromoteCommit
  <2> QED
    BY <2>1, <2>2, <1>type
<1> QED
  BY <1>1, <1>2, <1>type

\* The commit of an approval takes a seat that is free at that moment.
LEMMA GrantStep ==
  ASSUME IndInv, NEW t \in Txn, NEW fee \in Fee, ApproveCommit(t, fee)
  PROVE  RegisterStep
<1> DEFINE a == txn[t].app
           g == Target[a]
<1>type. app \in [App -> AppRow] /\ seats \in [Group -> Nat]
  BY DEF IndInv, TypeOK
<1>1. a \in App /\ txn[t].group = g /\ g \in Group /\ app[a].status = "ready_to_admit"
  BY GroupAssumption DEF ApproveCommit, IndInv, References, RowsHeld
<1>2. \A b \in App : app'[b].status = IF b = a THEN "conditional_approval" ELSE app[b].status
  BY <1>1, <1>type DEF ApproveCommit, AppRow
<1>3. UNCHANGED <<students, seats, shrunk, desk, ledger>>
  BY DEF ApproveCommit
<1>4. g \notin shrunk => Cardinality(Conditional(g)) < seats[g]
  <2>1. Granting(g)
    BY <1>1 DEF Granting, ApproveCommit
  <2>2. Conditional(g) \in SUBSET App
    BY DEF Conditional
  <2>3. Cardinality(Conditional(g)) \in Nat /\ seats[g] \in Nat
    BY <1>1, <1>type, <2>2, Countable
  <2>4. g \notin shrunk => Cardinality(Conditional(g)) + 1 <= seats[g]
    BY <1>1, <2>1 DEF IndInv, SeatsReserved
  <2> QED
    BY <2>3, <2>4
<1>5. Register!Holders(g) = Conditional(g)
  BY DEF Register!Holders, Conditional, WithStatus
<1> HIDE DEF a, g
<1>6. /\ WithStatus("ready_to_admit")' = WithStatus("ready_to_admit") \ {a}
      /\ WithStatus("conditional_approval")' = WithStatus("conditional_approval") \cup {a}
      /\ a \in WithStatus("ready_to_admit")
  BY <1>1, <1>2 DEF WithStatus
<1>7. {b \in App : b \in desk \/ Succeeded(b) # {}}' = {b \in App : b \in desk \/ Succeeded(b) # {}}
  BY <1>3 DEF Succeeded
<1>8. g \in shrunk \/ Register!Cardinality(Register!Holders(g)) < seats[g]
  BY <1>4, <1>5, SameCount
<1>9. Register!Grant(a)
  BY <1>3, <1>6, <1>7, <1>8 DEF Register!Grant, g
<1> QED
  BY <1>1, <1>9 DEF RegisterStep, Register!Next

\* An admission, from the desk or from Stripe, puts a student in a held seat.
LEMMA AdmitStep ==
  ASSUME IndInv, IndInv', NEW a \in App, Admit(a), app[a].status = "conditional_approval",
         UNCHANGED <<seats, shrunk>>,
         \A b \in App : OnRecord(b)' <=> (b = a \/ OnRecord(b))
  PROVE  RegisterStep
<1>type. app \in [App -> AppRow] /\ students \in [App -> Nat] /\ students' \in [App -> Nat]
  BY DEF IndInv, TypeOK
<1>1. /\ app'[a].status = "approved" /\ app'[a].student = TRUE
      /\ \A b \in App \ {a} : app'[b] = app[b] /\ students'[b] = students[b]
  <2>1. app'[a].status = "approved"
    BY <1>type DEF Admit, AppRow
  <2> QED
    BY <2>1, AdmitResult DEF IndInv
<1>2. students'[a] = 1
  BY <1>1 DEF IndInv, StudentsCounted
<1>3. students' = [students EXCEPT ![a] = 1]
  BY <1>type, <1>1, <1>2
<1>4. /\ WithStatus("ready_to_admit")' = WithStatus("ready_to_admit")
      /\ WithStatus("conditional_approval")' = WithStatus("conditional_approval") \ {a}
      /\ a \in WithStatus("conditional_approval")
  BY <1>1 DEF WithStatus
<1>5. {b \in App : b \in desk \/ Succeeded(b) # {}}'
        = {b \in App : b \in desk \/ Succeeded(b) # {}} \cup {a}
  BY DEF OnRecord
<1>6. Register!Admit(a)
  BY <1>3, <1>4, <1>5 DEF Register!Admit
<1> QED
  BY <1>6 DEF RegisterStep, Register!Next

LEMMA DeskStep ==
  ASSUME IndInv, IndInv', NEW a \in App, DeskPayment(a)
  PROVE  RegisterStep
<1>1. \A b \in App : OnRecord(b)' <=> (b = a \/ OnRecord(b))
  BY DEF DeskPayment, OnRecord, Succeeded
<1> QED
  BY <1>1, AdmitStep DEF DeskPayment, classes

\* A converted event is a payment on record; one that was rolled back is nothing.
LEMMA ConvertStep ==
  ASSUME IndInv, IndInv', NEW t \in Txn, StripeConvert(t)
  PROVE  RegisterStep
<1> DEFINE e == txn[t].ev
           a == txn[t].app
<1>type. ledger \in [Event -> {"none", "succeeded", "out_of_band"}]
  BY DEF IndInv, TypeOK
<1>1. e \in Event /\ a = Pays[e] /\ a \in App
  BY PaysAssumption DEF StripeConvert, IndInv, References
<1>2. UNCHANGED <<seats, shrunk, desk>>
  BY DEF StripeConvert
<1>3. CASE Convertible(e)
  <2>1. Admit(a) /\ ledger' = [ledger EXCEPT ![e] = "succeeded"]
    BY <1>3 DEF StripeConvert, Record
  <2>2. app[a].status = "conditional_approval"
    BY <1>1, <1>3 DEF Convertible
  <2> HIDE DEF e, a
  <2>3. \A b \in App : Succeeded(b)' = IF b = a THEN Succeeded(b) \cup {e} ELSE Succeeded(b)
    BY <1>1, <1>type, <2>1 DEF Succeeded
  <2>4. \A b \in App : OnRecord(b)' <=> (b = a \/ OnRecord(b))
    BY <1>2, <2>3 DEF OnRecord
  <2> QED
    BY <1>1, <1>2, <2>1, <2>2, <2>4, AdmitStep
<1>4. CASE ~Convertible(e)
  <2>1. ledger' = [ledger EXCEPT ![e] = ledger[e]] /\ UNCHANGED <<app, students>>
    BY <1>4 DEF StripeConvert, RollBack, LedgerAfterRollback
  <2>2. ledger' = ledger
    BY <2>1, <1>type
  <2> QED
    BY <1>2, <2>1, <2>2 DEF RegisterStep, Register!vars, WithStatus, Succeeded
<1> QED
  BY <1>3, <1>4

\* Rejections, expiry, promotion and the rest only move applications around.
LEMMA ReassignStep ==
  ASSUME IndInv, IndInv', Next, ~TakesSeat, ~TakesPayment, ~TakesCapacity
  PROVE  RegisterStep
<1>1. UNCHANGED students /\ \A a \in App : OnRecord(a)' <=> OnRecord(a)
  BY OthersLeaveBooks
<1>2. UNCHANGED shrunk /\ \A g \in Group : seats'[g] >= seats[g]
  BY OthersLeaveCapacity
<1>3. seats' \in [Group -> Nat]
  BY DEF IndInv, TypeOK
<1>4. \A a \in App : app'[a].status = "conditional_approval" => app[a].status = "conditional_approval"
  BY StatusMoves DEF TakesSeat
<1>5. /\ WithStatus("ready_to_admit")' \subseteq App
      /\ WithStatus("conditional_approval")'
           \subseteq WithStatus("conditional_approval") \ WithStatus("ready_to_admit")'
  BY <1>4 DEF WithStatus
<1>6. {b \in App : b \in desk \/ Succeeded(b) # {}}' = {b \in App : b \in desk \/ Succeeded(b) # {}}
  BY <1>1 DEF OnRecord
<1>7. Register!Reassign
  BY <1>1, <1>2, <1>3, <1>5, <1>6 DEF Register!Reassign
<1> QED
  BY <1>7 DEF RegisterStep, Register!Next

\* A class is edited, closed or reopened.
LEMMA ResizeStep ==
  ASSUME IndInv, IndInv', NEW g \in Group, NEW n \in 0..MaxSeats, ResizeClass(g, n)
  PROVE  RegisterStep
<1>type. seats \in [Group -> Nat] /\ seats' \in [Group -> Nat] /\ shrunk' \subseteq Group
  BY DEF IndInv, TypeOK
<1>1. UNCHANGED <<app, students, desk, ledger>> /\ shrunk \subseteq shrunk'
  BY DEF ResizeClass, money
<1>2. \A h \in Group : seats'[h] < seats[h] => h \in shrunk'
  <2> SUFFICES ASSUME NEW h \in Group, seats'[h] < seats[h]
               PROVE  h \in shrunk'
    OBVIOUS
  <2>1. seats' = [seats EXCEPT ![g] = n] /\ shrunk' = IF n < seats[g] THEN shrunk \cup {g} ELSE shrunk
    BY DEF ResizeClass
  <2>2. h = g
    BY <2>1, <1>type
  <2> QED
    BY <2>1, <2>2, <1>type
<1>3. /\ WithStatus("ready_to_admit")' = WithStatus("ready_to_admit")
      /\ WithStatus("conditional_approval")' = WithStatus("conditional_approval")
      /\ {b \in App : b \in desk \/ Succeeded(b) # {}}' = {b \in App : b \in desk \/ Succeeded(b) # {}}
  BY <1>1 DEF WithStatus, Succeeded
<1>4. Register!Resize
  BY <1>type, <1>1, <1>2, <1>3 DEF Register!Resize
<1> QED
  BY <1>4 DEF RegisterStep, Register!Next

\* The empty pipeline is the empty register.
LEMMA RegisterInit ==
  ASSUME Init
  PROVE  Register!Init
<1>1. seats \in [Group -> Nat]
  BY LimitAssumption DEF Init
<1>2. /\ WithStatus("ready_to_admit") = {} /\ WithStatus("conditional_approval") = {}
      /\ {b \in App : b \in desk \/ Succeeded(b) # {}} = {}
  BY DEF Init, WithStatus, Succeeded
<1> QED
  BY <1>1, <1>2 DEF Init, Register!Init

\* Every step of a request, of Stripe, of the expiry job or of a fault is a step
\* of the register or changes nothing of it.
LEMMA RegisterNext ==
  ASSUME IndInv, IndInv', [Next]_vars
  PROVE  RegisterStep
<1>1. CASE UNCHANGED vars
  BY <1>1 DEF vars, RegisterStep, Register!vars, WithStatus, Succeeded
<1>2. CASE Next
  BY <1>2, GrantStep, DeskStep, ConvertStep, ResizeStep, ReassignStep
  DEF TakesSeat, TakesPayment, TakesCapacity
<1> QED
  BY <1>1, <1>2

\* Admissions keeps the promise of the register: an approval that counts, waits and
\* commits takes a seat as if in one step, and no payment, however late or often
\* its event is delivered, admits an application that holds none.
THEOREM PipelineImplementsRegister == Spec => ImplementsSeatRegister
<1>1. Init => Register!Init
  BY RegisterInit
<1>2. IndInv /\ IndInv' /\ [Next]_vars => [Register!Next]_(Register!vars)
  BY RegisterNext DEF RegisterStep
<1> QED
  BY <1>1, <1>2, InvariantHolds, PTL DEF Spec, ImplementsSeatRegister, Register!Spec

=============================================================================
