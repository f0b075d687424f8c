--------------------------- MODULE AdmissionsProofs ---------------------------
(* Theorems about Admissions for any number of applications, year groups,      *)
(* checkout sessions and concurrent requests, and for any bounds.               *)
EXTENDS Admissions, FiniteSetTheorems, TLAPS

USE DEF AppStatus, TxnPcs, classes, money, used

-----------------------------------------------------------------------------
(* Counting seats                                                              *)

\* Any set of applications can be counted.
LEMMA Countable ==
  ASSUME NEW S \in SUBSET App
  PROVE  IsFiniteSet(S) /\ Cardinality(S) \in Nat
BY FiniteAssumption, FS_Subset, FS_CardinalityType

\* getAvailableSeats is a natural number, and when it is not zero the capacity
\* exceeds the applications that hold a seat.
LEMMA AvailableSeats ==
  ASSUME TypeOK, NEW g \in Group, NEW own \in SUBSET App, NEW added \in 0..1
  PROVE  /\ Available(g, own, added) \in Nat
         /\ FreeSeats(g) \in Nat
         /\ FreeSeats(g) # 0 => Cardinality(Conditional(g)) + 1 <= seats[g]
<1>1. Enrolled(g) \subseteq App /\ Conditional(g) \subseteq App
  BY DEF Enrolled, Conditional, TypeOK
<1>2. /\ Cardinality(Enrolled(g)) \in Nat
      /\ Cardinality(Conditional(g) \ own) \in Nat
      /\ Cardinality(Conditional(g) \ {}) \in Nat
  BY <1>1, Countable
<1>3. Conditional(g) \ {} = Conditional(g)
  OBVIOUS
<1>4. seats[g] \in Nat
  BY DEF TypeOK
<1> HIDE DEF Enrolled, Conditional
<1> QED
  BY <1>2, <1>3, <1>4 DEF Available, FreeSeats, Clamp

-----------------------------------------------------------------------------
(* Types                                                                       *)

\* The columns of an application, written one at a time.
LEMMA AppWritten ==
  ASSUME NEW f \in [App -> AppRow], NEW a \in App
  PROVE  /\ \A v \in AppStatus : [f EXCEPT ![a].status = v] \in [App -> AppRow]
         /\ \A v \in BOOLEAN : [f EXCEPT ![a].setup = v] \in [App -> AppRow]
         /\ \A v \in {"none", "open", "lapsed"} : [f EXCEPT ![a].deadline = v] \in [App -> AppRow]
         /\ \A v \in BOOLEAN : [f EXCEPT ![a].student = v] \in [App -> AppRow]
         /\ \A v \in Nat : [f EXCEPT ![a].applied = v] \in [App -> AppRow]
<1>1. f[a] \in AppRow
  OBVIOUS
<1> DEFINE row == f[a]
<1> HIDE DEF row
<1>2. ASSUME row \in AppRow, NEW v \in AppStatus PROVE [row EXCEPT !.status = v] \in AppRow
  BY <1>2 DEF AppRow
<1>3. ASSUME row \in AppRow, NEW v \in BOOLEAN PROVE [row EXCEPT !.setup = v] \in AppRow
  BY <1>3 DEF AppRow
<1>4. ASSUME row \in AppRow, NEW v \in {"none", "open", "lapsed"}
      PROVE  [row EXCEPT !.deadline = v] \in AppRow
  BY <1>4 DEF AppRow
<1>5. ASSUME row \in AppRow, NEW v \in BOOLEAN PROVE [row EXCEPT !.student = v] \in AppRow
  BY <1>5 DEF AppRow
<1>6. ASSUME row \in AppRow, NEW v \in Nat PROVE [row EXCEPT !.applied = v] \in AppRow
  BY <1>6 DEF AppRow
<1> QED
  BY <1>1, <1>2, <1>3, <1>4, <1>5, <1>6 DEF row

LEMMA RunningType ==
  ASSUME NEW pc \in TxnPcs, NEW a \in App \cup {None}, NEW held \in SUBSET App
  PROVE  Running(pc, a, held) \in Request
BY GroupAssumption DEF Running, Request

\* Every step leaves the requests in shape.
LEMMA RequestType ==
  ASSUME IndInv, Next
  PROVE  txn' \in [Txn -> Request]
<1>type. TypeOK
  BY DEF IndInv
<1>ref. References
  BY DEF IndInv
<1>txn. txn \in [Txn -> Request]
  BY <1>type DEF TypeOK
<1>app. app \in [App -> AppRow]
  BY <1>type DEF TypeOK
<1>goto. ASSUME NEW t \in Txn, NEW step \in Request, Goto(t, step)
         PROVE  txn' \in [Txn -> Request]
  BY <1>goto, <1>txn DEF Goto
<1>idle. Idle \in Request
  BY RunningType DEF Idle
<1>1. ASSUME NEW t \in Txn, NEW a \in App, SubmitCount(t, a)
      PROVE  txn' \in [Txn -> Request]
  <2> DEFINE to == IF FreeSeats(Target[a]) > 0 THEN "ready_to_admit" ELSE "waiting_list"
             setup == ~Configured(Target[a])
             run == Running("route", a, {})
  <2>1. run \in Request
    BY RunningType
  <2>2. to \in AppStatus /\ setup \in BOOLEAN
    OBVIOUS
  <2> HIDE DEF run, to, setup
  <2> DEFINE mid == [run EXCEPT !.to = to]
  <2>4. mid \in Request
    BY <2>1, <2>2 DEF Request
  <2>5. [run EXCEPT !.to = to, !.setup = setup] = [mid EXCEPT !.setup = setup]
    OBVIOUS
  <2> HIDE DEF mid
  <2>6. [mid EXCEPT !.setup = setup] \in Request
    BY <2>2, <2>4 DEF Request
  <2>3. [run EXCEPT !.to = to, !.setup = setup] \in Request
    BY <2>5, <2>6
  <2> QED
    BY <1>1, <1>goto, <2>3 DEF SubmitCount, run, to, setup
<1>2. ASSUME NEW t \in Txn, NEW a \in App, ApproveLock(t, a) \/ BypassLock(t, a)
      PROVE  txn' \in [Txn -> Request]
  <2>1. Running("approve", a, {a}) \in Request /\ Running("queue", a, {a}) \in Request
    BY RunningType
  <2> QED
    BY <1>2, <1>goto, <2>1 DEF ApproveLock, BypassLock
<1>3. ASSUME NEW t \in Txn, ApproveCount(t) \/ BypassCount(t)
      PROVE  txn' \in [Txn -> Request]
  <2>1. /\ [txn[t] EXCEPT !.pc = "grant"] \in Request
        /\ [txn[t] EXCEPT !.pc = "bypass"] \in Request
    BY <1>txn DEF Request
  <2> QED
    BY <1>3, <1>goto, <1>idle, <2>1 DEF ApproveCount, BypassCount
<1>4. ASSUME NEW t \in Txn, NEW a \in App, NEW to \in {"rejected", "withdrawn"}, CloseRead(t, a, to)
      PROVE  txn' \in [Txn -> Request]
  <2> DEFINE run == Running("close", a, {})
             seen == app[a].status
  <2>1. run \in Request
    BY RunningType
  <2>2. seen \in AppStatus
    BY <1>app DEF AppRow
  <2> HIDE DEF run, seen
  <2>3. [run EXCEPT !.to = to, !.seen = seen] \in Request
    BY <2>1, <2>2 DEF Request
  <2> QED
    BY <1>4, <1>goto, <2>3 DEF CloseRead, run, seen
<1>5. ASSUME NEW t \in Txn, CloseWrite(t)
      PROVE  txn' \in [Txn -> Request]
  <2> DEFINE a == txn[t].app
             free == Available(txn[t].group, {a}, 0)
             step == [txn[t] EXCEPT !.pc = "promote", !.held = {a}, !.free = free]
  <2>1. a \in App /\ txn[t].group \in Group
    BY <1>5, <1>ref, GroupAssumption DEF CloseWrite, References
  <2>2. free \in Nat
    BY <2>1, <1>type, AvailableSeats
  <2>3. txn[t] \in Request
    BY <1>txn
  <2>4. txn' = [txn EXCEPT ![t] = step] \/ txn' = [txn EXCEPT ![t] = Idle]
    BY <1>5 DEF CloseWrite, Goto
  <2> HIDE DEF a, free
  <2>5. step \in Request
    BY <2>1, <2>2, <2>3 DEF Request
  <2> HIDE DEF step
  <2> QED
    BY <1>txn, <1>idle, <2>4, <2>5
<1>6. ASSUME NEW t \in Txn, NEW g \in Group, OpenClass(t, g)
      PROVE  txn' \in [Txn -> Request]
  <2> DEFINE setup == {a \in App : Target[a] = g /\ app[a].status = "waiting_list" /\ app[a].setup}
             lifted == IF Configured(g) THEN {} ELSE setup
             run == Running("promote", None, lifted)
             free == Available(g, {}, 1)
  <2>1. run \in Request
    BY RunningType
  <2>2. free \in Nat
    BY <1>type, AvailableSeats
  <2> HIDE DEF run, free
  <2>3. [run EXCEPT !.group = g] \in Request
    BY <2>1 DEF Request
  <2> DEFINE aimed == [run EXCEPT !.group = g]
  <2> HIDE DEF aimed
  <2>4. [aimed EXCEPT !.free = free] \in Request
    BY <2>2, <2>3 DEF Request, aimed
  <2>5. 1 \in 0..1
    OBVIOUS
  <2>6. [[aimed EXCEPT !.free = free] EXCEPT !.adds = 1] \in Request
    BY <2>4, <2>5 DEF Request
  <2>7. [run EXCEPT !.group = g, !.adds = 1, !.free = free]
          = [[aimed EXCEPT !.free = free] EXCEPT !.adds = 1]
    BY DEF aimed
  <2> QED
    BY <1>6, <1>goto, <2>6, <2>7 DEF OpenClass, run, free
<1>7. ASSUME NEW t \in Txn, NEW e \in Event, StripeRead(t, e)
      PROVE  txn' \in [Txn -> Request]
  <2> DEFINE pc == IF app[Pays[e]].status = "conditional_approval" THEN "convert" ELSE "stray"
             run == Running(pc, Pays[e], {})
  <2>1. run \in Request
    BY RunningType, PaysAssumption
  <2> HIDE DEF run
  <2>2. [run EXCEPT !.ev = e] \in Request
    BY <2>1 DEF Request
  <2> QED
    BY <1>7, <1>goto, <2>2 DEF StripeRead, run
<1>8. ASSUME NEW t \in Txn,
             \/ SubmitCommit(t) \/ PromoteCommit(t) \/ BypassCommit(t)
             \/ StripeStray(t) \/ StripeConvert(t) \/ Abort(t)
             \/ \E fee \in Fee : ApproveCommit(t, fee)
      PROVE  txn' \in [Txn -> Request]
  <2>1. Goto(t, Idle)
    BY <1>8
    DEF SubmitCommit, PromoteCommit, BypassCommit, StripeStray, StripeConvert, Abort, ApproveCommit
  <2> QED
    BY <2>1, <1>goto, <1>idle
<1>9. ASSUME UNCHANGED txn
      PROVE  txn' \in [Txn -> Request]
  BY <1>9, <1>txn
<1> QED
  BY <1>1, <1>2, <1>3, <1>4, <1>5, <1>6, <1>7, <1>8, <1>9
  DEF Next, RequestStep, TxnStep, Deliver, CronStep, FaultStep, ResizeClass, DeskPayment, Enrol,
      OpenCheckout, ParentPays, ToggleModule, StripeDuplicate, Lapse, SessionExpires, CronScan,
      CronSelect, CronPromote, CronDone, CronRead, CronWrite, CronCount, CronCrash, CronSkips

\* The steps that write a row of applications.
WritesRow ==
  \/ \E t \in Txn : \/ SubmitCommit(t) \/ CloseWrite(t) \/ PromoteCommit(t)
                    \/ BypassCommit(t) \/ StripeConvert(t)
                    \/ \E fee \in Fee : ApproveCommit(t, fee)
  \/ \E a \in App : DeskPayment(a) \/ Lapse(a) \/ CronWrite(a)
  \/ CronPromote

LEMMA RowWriters == Next => WritesRow \/ UNCHANGED app
BY DEF WritesRow, Next, RequestStep, TxnStep, Deliver, CronStep, FaultStep, SubmitCount,
       ApproveLock, BypassLock, CloseRead, OpenClass, ResizeClass, Enrol, OpenCheckout, ParentPays,
       ToggleModule, ApproveCount, BypassCount, StripeStray, StripeDuplicate, StripeRead,
       SessionExpires, CronScan, CronSelect, CronDone, CronRead, CronCount, CronCrash, CronSkips,
       Abort

\* What convertToStudent and markApproved leave behind.
LEMMA AdmitType ==
  ASSUME app \in [App -> AppRow], students \in [App -> Nat], NEW a \in App, Admit(a)
  PROVE  app' \in [App -> AppRow] /\ students' \in [App -> Nat]
<1>1. students' \in [App -> Nat]
  BY DEF Admit
<1> DEFINE approved == [app EXCEPT ![a].status = "approved"]
           paid == [approved EXCEPT ![a].deadline = "none"]
<1>2. app' = [paid EXCEPT ![a].student = TRUE]
  BY DEF Admit
<1>3. approved \in [App -> AppRow]
  BY AppWritten DEF AppStatus
<1> HIDE DEF approved
<1>4. paid \in [App -> AppRow]
  BY <1>3, AppWritten
<1> HIDE DEF paid
<1>5. app' \in [App -> AppRow]
  BY <1>2, <1>4, AppWritten
<1> QED
  BY <1>1, <1>5

\* Every step leaves the applications in shape.
LEMMA RowType ==
  ASSUME IndInv, Next
  PROVE  app' \in [App -> AppRow]
<1>type. TypeOK
  BY DEF IndInv
<1>ref. References
  BY DEF IndInv
<1>txn. txn \in [Txn -> Request]
  BY <1>type DEF TypeOK
<1>app. app \in [App -> AppRow]
  BY <1>type DEF TypeOK
<1>1. ASSUME NEW t \in Txn, SubmitCommit(t)
      PROVE  app' \in [App -> AppRow]
  <2> DEFINE a == txn[t].app
             n == Cardinality({b \in App : app[b].status # "absent"})
             st == txn[t].to
             su == txn[t].setup
             early == [app EXCEPT ![a].status = st]
             row == [early EXCEPT ![a].setup = su]
  <2>1. n \in Nat
    BY Countable
  <2>2. st \in AppStatus /\ su \in BOOLEAN
    BY <1>txn DEF Request
  <2>3. app' = [row EXCEPT ![a].applied = n]
    BY <1>1 DEF SubmitCommit
  <2>6. a \in App
    BY <1>1, <1>ref DEF SubmitCommit, References
  <2> HIDE DEF n, a, st, su
  <2>5. early \in [App -> AppRow]
    BY <1>app, <2>2, <2>6, AppWritten
  <2> HIDE DEF early
  <2>4. row \in [App -> AppRow]
    BY <2>2, <2>5, <2>6, AppWritten
  <2> HIDE DEF row
  <2> QED
    BY <2>1, <2>3, <2>4, <2>6, AppWritten
<1>2. ASSUME NEW t \in Txn, NEW fee \in Fee, ApproveCommit(t, fee)
      PROVE  app' \in [App -> AppRow]
  <2> DEFINE a == txn[t].app
             held == [app EXCEPT ![a].status = "conditional_approval"]
             charged == [held EXCEPT ![a].amount = fee]
  <2>1. app' = [charged EXCEPT ![a].deadline = "open"]
    BY <1>2 DEF ApproveCommit
  <2> HIDE DEF a
  <2>2. held \in [App -> AppRow]
    BY <1>app DEF AppRow
  <2> HIDE DEF held
  <2>3. charged \in [App -> AppRow]
    BY <2>2 DEF AppRow
  <2> HIDE DEF charged
  <2> QED
    BY <2>1, <2>3 DEF AppRow
<1>3. ASSUME NEW t \in Txn, CloseWrite(t)
      PROVE  app' \in [App -> AppRow]
  <2> DEFINE a == txn[t].app
             to == txn[t].to
  <2>1. to \in AppStatus
    BY <1>txn DEF Request
  <2>2. app' = app \/ app' = [app EXCEPT ![a].status = to]
    BY <1>3 DEF CloseWrite
  <2> HIDE DEF a, to
  <2> QED
    BY <1>app, <2>1, <2>2 DEF AppRow
<1>4. ASSUME NEW t \in Txn, PromoteCommit(t)
      PROVE  app' \in [App -> AppRow]
  <2> DEFINE picks == Tiered(Promotable(t), txn[t].free)
             to == txn[t].to
  <2>1. to \in AppStatus
    BY <1>txn DEF Request
  <2>2. app' = [a \in App |->
                  IF a = txn[t].app THEN [app[a] EXCEPT !.status = to]
                  ELSE [app[a] EXCEPT
                          !.status = IF a \in picks THEN "ready_to_admit" ELSE @,
                          !.setup = @ /\ a \notin txn[t].held]]
    BY <1>4 DEF PromoteCommit
  <2> HIDE DEF picks, to
  <2>3. ASSUME NEW a \in App
        PROVE  app'[a] \in AppRow
    <3>1. app[a] \in AppRow
      BY <1>app
    <3> DEFINE st == IF a \in picks THEN "ready_to_admit" ELSE app[a].status
               su == app[a].setup /\ a \notin txn[t].held
    <3>2. st \in AppStatus
      BY <3>1 DEF AppRow
    <3>3. su \in BOOLEAN
      OBVIOUS
    <3>4. app'[a] = [app[a] EXCEPT !.status = to]
            \/ app'[a] = [app[a] EXCEPT !.status = st, !.setup = su]
      BY <2>2
    <3> HIDE DEF st, su
    <3> QED
      BY <2>1, <3>1, <3>2, <3>3, <3>4 DEF AppRow
  <2>4. DOMAIN app' = App /\ app' = [a \in App |-> app'[a]]
    BY <2>2
  <2> QED
    BY <2>3, <2>4
<1>5. ASSUME NEW t \in Txn, BypassCommit(t)
      PROVE  app' \in [App -> AppRow]
  <2>1. txn[t].app \in App
    BY <1>5, <1>ref DEF BypassCommit, References
  <2>2. app' = [app EXCEPT ![txn[t].app].status = "ready_to_admit"]
    BY <1>5 DEF BypassCommit
  <2> QED
    BY <1>app, <2>1, <2>2, AppWritten
<1>6. ASSUME NEW t \in Txn, StripeConvert(t)
      PROVE  app' \in [App -> AppRow]
  <2>1. txn[t].app \in App
    BY <1>6, <1>ref DEF StripeConvert, References
  <2>2. app' = app \/ Admit(txn[t].app)
    BY <1>6 DEF StripeConvert
  <2> QED
    BY <1>app, <1>type, <2>1, <2>2, AdmitType DEF TypeOK
<1>7. ASSUME NEW a \in App, DeskPayment(a)
      PROVE  app' \in [App -> AppRow]
  BY <1>7, <1>app, <1>type, AdmitType DEF DeskPayment, TypeOK
<1>8. ASSUME NEW a \in App, Lapse(a)
      PROVE  app' \in [App -> AppRow]
  BY <1>8, <1>app DEF Lapse, AppRow
<1>9. ASSUME NEW a \in App, CronWrite(a)
      PROVE  app' \in [App -> AppRow]
  BY <1>9, <1>app DEF CronWrite, AppRow
<1>10. ASSUME CronPromote
       PROVE  app' \in [App -> AppRow]
  BY <1>10, <1>app DEF CronPromote, AppRow
<1>11. ASSUME UNCHANGED app
       PROVE  app' \in [App -> AppRow]
  BY <1>11, <1>app
<1> QED
  BY <1>1, <1>2, <1>3, <1>4, <1>5, <1>6, <1>7, <1>8, <1>9, <1>10, <1>11, RowWriters DEF WritesRow

\* Every step leaves the expiry job in shape.
LEMMA ExpiryType ==
  ASSUME IndInv, Next
  PROVE  cron' \in Expiry
<1>type. TypeOK
  BY DEF IndInv
<1>cron. cron \in Expiry
  BY <1>type DEF TypeOK
<1>idle. CronIdle \in Expiry
  BY DEF CronIdle, Expiry
<1>1. ASSUME CronScan
      PROVE  cron' \in Expiry
  <2> DEFINE due == {a \in App : Expired(a)}
  <2>1. due \in SUBSET App
    OBVIOUS
  <2>2. cron' = [CronIdle EXCEPT !.pc = "revert", !.todo = due]
    BY <1>1 DEF CronScan
  <2> HIDE DEF due
  <2> QED
    BY <2>1, <2>2 DEF CronIdle, Expiry
<1>2. ASSUME NEW a \in App, CronRead(a)
      PROVE  cron' \in Expiry
  BY <1>2, <1>cron DEF CronRead, Expiry
<1>3. ASSUME NEW a \in App, CronWrite(a)
      PROVE  cron' \in Expiry
  <2> DEFINE done == [cron EXCEPT !.pc = "revert", !.todo = @ \ {a}]
  <2>1. done \in Expiry
    BY <1>cron DEF Expiry
  <2>2. cron' = [done EXCEPT !.app = None, !.groups = @ \cup {Target[a]}]
    BY <1>3 DEF CronWrite
  <2> HIDE DEF done
  <2> QED
    BY <2>1, <2>2, GroupAssumption DEF Expiry
<1>4. ASSUME NEW g \in Group, CronCount(g)
      PROVE  cron' \in Expiry
  <2> DEFINE free == FreeSeats(g)
  <2>1. free \in Nat
    BY <1>type, AvailableSeats
  <2>2. \/ cron' = [cron EXCEPT !.groups = @ \ {g}]
        \/ cron' = [cron EXCEPT !.pc = "select", !.group = g, !.free = free]
    BY <1>4 DEF CronCount
  <2> HIDE DEF free
  <2> QED
    BY <1>cron, <2>1, <2>2 DEF Expiry
<1>5. ASSUME CronSelect
      PROVE  cron' \in Expiry
  <2> DEFINE picks == ByDate(Queue(cron.group), cron.free)
  <2>1. picks \subseteq App
    BY DEF ByDate, Queue
  <2>2. cron' = [cron EXCEPT !.pc = "promote", !.picks = picks]
    BY <1>5 DEF CronSelect
  <2> HIDE DEF picks
  <2> QED
    BY <1>cron, <2>1, <2>2 DEF Expiry
<1>6. ASSUME CronPromote
      PROVE  cron' \in Expiry
  <2> DEFINE g == cron.group
             done == [cron EXCEPT !.pc = "revert", !.groups = @ \ {g}]
  <2>1. done \in Expiry
    BY <1>cron DEF Expiry
  <2>2. cron' = [done EXCEPT !.group = None, !.free = 0, !.picks = {}]
    BY <1>6 DEF CronPromote
  <2> HIDE DEF done
  <2> QED
    BY <2>1, <2>2 DEF Expiry
<1>7. ASSUME NEW a \in App, CronSkips(a)
      PROVE  cron' \in Expiry
  BY <1>7, <1>cron DEF CronSkips, Expiry
<1>8. ASSUME CronDone \/ CronCrash
      PROVE  cron' \in Expiry
  BY <1>8, <1>idle DEF CronDone, CronCrash
<1>9. ASSUME UNCHANGED cron
      PROVE  cron' \in Expiry
  BY <1>9, <1>cron
<1> QED
  BY <1>1, <1>2, <1>3, <1>4, <1>5, <1>6, <1>7, <1>8, <1>9
  DEF Next, RequestStep, TxnStep, Deliver, CronStep, FaultStep, SubmitCount, ApproveLock,
      BypassLock, CloseRead, OpenClass, ResizeClass, DeskPayment, Enrol, OpenCheckout, ParentPays,
      ToggleModule, SubmitCommit, ApproveCount, CloseWrite, PromoteCommit, BypassCount,
      BypassCommit, StripeStray, StripeConvert, ApproveCommit, StripeDuplicate, StripeRead, Lapse,
      SessionExpires, Abort

\* Every step leaves sessions, their events and the payments in shape.
LEMMA MoneyType ==
  ASSUME IndInv, Next
  PROVE  /\ session' \in [Event -> Session]
         /\ ledger' \in [Event -> {"none", "succeeded", "out_of_band"}]
         /\ desk' \subseteq App
<1> DEFINE Shape == /\ session' \in [Event -> Session]
                    /\ ledger' \in [Event -> {"none", "succeeded", "out_of_band"}]
                    /\ desk' \subseteq App
<1>type. TypeOK
  BY DEF IndInv
<1>ref. References
  BY DEF IndInv
<1>app. app \in [App -> AppRow]
  BY <1>type DEF TypeOK
<1>money. /\ session \in [Event -> Session]
          /\ ledger \in [Event -> {"none", "succeeded", "out_of_band"}]
          /\ desk \subseteq App
  BY <1>type DEF TypeOK
<1>acked. ASSUME NEW e \in Event
          PROVE  [session EXCEPT ![e].state = "acked"] \in [Event -> Session]
  BY <1>money DEF Session
<1>1. ASSUME NEW e \in Event, OpenCheckout(e)
      PROVE  Shape
  <2> DEFINE fee == app[Pays[e]].amount
             row == [state |-> "open", amount |-> fee]
  <2>1. row \in Session
    BY <1>app, PaysAssumption DEF AppRow, Session
  <2>2. session' = [session EXCEPT ![e] = row] /\ UNCHANGED <<ledger, desk>>
    BY <1>1 DEF OpenCheckout
  <2> HIDE DEF row
  <2> QED
    BY <1>money, <2>1, <2>2
<1>2. ASSUME NEW e \in Event, ParentPays(e) \/ SessionExpires(e) \/ StripeDuplicate(e)
      PROVE  Shape
  <2>1. CASE ParentPays(e)
    BY <2>1, <1>money DEF ParentPays, Session
  <2>2. CASE SessionExpires(e)
    BY <2>2, <1>money DEF SessionExpires, NoSession, Session
  <2>3. CASE StripeDuplicate(e)
    BY <2>3, <1>money, <1>acked DEF StripeDuplicate
  <2> QED
    BY <1>2, <2>1, <2>2, <2>3
<1>3. ASSUME NEW a \in App, Lapse(a)
      PROVE  Shape
  BY <1>3, <1>money DEF Lapse, NoSession, Session
<1>4. ASSUME NEW a \in App, DeskPayment(a)
      PROVE  Shape
  BY <1>4, <1>money DEF DeskPayment
<1>recorded. ASSUME NEW e \in Event, NEW st \in {"succeeded", "out_of_band"}, Record(e, st),
                    UNCHANGED desk
             PROVE  Shape
  BY <1>recorded, <1>money, <1>acked DEF Record
<1>rolled. ASSUME NEW e \in Event, RollBack(e), UNCHANGED desk
           PROVE  Shape
  <2>1. session' \in [Event -> Session]
    BY <1>rolled, <1>money DEF RollBack, AfterRollback, Session
  <2>2. ledger' \in [Event -> {"none", "succeeded", "out_of_band"}]
    BY <1>rolled, <1>money DEF RollBack, LedgerAfterRollback
  <2> QED
    BY <2>1, <2>2, <1>rolled, <1>money
<1>5. ASSUME NEW t \in Txn, StripeStray(t) \/ StripeConvert(t)
      PROVE  Shape
  <2>1. txn[t].ev \in Event /\ UNCHANGED desk
    BY <1>5, <1>ref DEF StripeStray, StripeConvert, References
  <2>2. \/ Record(txn[t].ev, "succeeded") \/ Record(txn[t].ev, "out_of_band")
        \/ RollBack(txn[t].ev)
    BY <1>5 DEF StripeStray, StripeConvert
  <2> QED
    BY <2>1, <2>2, <1>recorded, <1>rolled
<1>6. ASSUME UNCHANGED money
      PROVE  Shape
  BY <1>6, <1>money
<1> HIDE DEF Shape
<1>7. Shape
  BY <1>1, <1>2, <1>3, <1>4, <1>5, <1>6
  DEF Next, RequestStep, TxnStep, Deliver, CronStep, FaultStep, SubmitCount, ApproveLock,
      BypassLock, CloseRead, OpenClass, ResizeClass, Enrol, ToggleModule, SubmitCommit,
      ApproveCount, CloseWrite, PromoteCommit, BypassCount, BypassCommit, ApproveCommit,
      StripeRead, Abort, CronScan, CronSelect, CronPromote, CronDone, CronRead, CronWrite,
      CronCount, CronCrash, CronSkips
<1> QED
  BY <1>7 DEF Shape

\* Every step leaves students, classes and settings in shape.
LEMMA SchoolType ==
  ASSUME IndInv, Next
  PROVE  /\ students' \in [App -> Nat]
         /\ placed' \subseteq App /\ seats' \in [Group -> Nat] /\ shrunk' \subseteq Group
         /\ moduleOn' \in BOOLEAN /\ changes' \in Nat /\ faults' \in Nat
<1> DEFINE Shape == /\ students' \in [App -> Nat]
                    /\ placed' \subseteq App /\ seats' \in [Group -> Nat] /\ shrunk' \subseteq Group
                    /\ moduleOn' \in BOOLEAN /\ changes' \in Nat /\ faults' \in Nat
<1>type. TypeOK
  BY DEF IndInv
<1>ref. References
  BY DEF IndInv
<1>rest. /\ app \in [App -> AppRow] /\ students \in [App -> Nat]
         /\ placed \subseteq App /\ seats \in [Group -> Nat] /\ shrunk \subseteq Group
         /\ moduleOn \in BOOLEAN /\ changes \in Nat /\ faults \in Nat
  BY <1>type DEF TypeOK
<1>txn. txn \in [Txn -> Request]
  BY <1>type DEF TypeOK
<1>1. ASSUME NEW a \in App, DeskPayment(a)
      PROVE  Shape
  <2>1. students' \in [App -> Nat]
    BY <1>1, <1>rest, AdmitType DEF DeskPayment
  <2> QED
    BY <1>1, <1>rest, <2>1 DEF DeskPayment
<1>fault. ASSUME faults' = faults \/ Fault
          PROVE  faults' \in Nat
  BY <1>fault, <1>rest DEF Fault
<1>change. ASSUME changes' = changes \/ Change
           PROVE  changes' \in Nat
  BY <1>change, <1>rest DEF Change
<1>2. ASSUME NEW t \in Txn, StripeConvert(t)
      PROVE  Shape
  <2>1. txn[t].app \in App
    BY <1>2, <1>ref DEF StripeConvert, References
  <2>2. students' = students \/ Admit(txn[t].app)
    BY <1>2 DEF StripeConvert
  <2>3. students' \in [App -> Nat]
    BY <1>rest, <2>1, <2>2, AdmitType
  <2>4. faults' \in Nat
    BY <1>2, <1>fault DEF StripeConvert, Record, RollBack
  <2> QED
    BY <1>2, <1>rest, <2>3, <2>4 DEF StripeConvert
<1>3. ASSUME NEW t \in Txn, StripeStray(t)
      PROVE  Shape
  <2>1. faults' \in Nat
    BY <1>3, <1>fault DEF StripeStray, Record, RollBack
  <2> QED
    BY <1>3, <1>rest, <2>1 DEF StripeStray
<1>4. ASSUME NEW t \in Txn, PromoteCommit(t)
      PROVE  Shape
  <2>1. txn[t].group \in Group /\ txn[t].adds \in 0..1
    BY <1>4, <1>ref, <1>txn DEF PromoteCommit, References, Request
  <2> DEFINE g == txn[t].group
             n == seats[g] + txn[t].adds
  <2>2. n \in Nat
    BY <2>1, <1>rest
  <2>3. seats' = [seats EXCEPT ![g] = n]
    BY <1>4 DEF PromoteCommit
  <2> HIDE DEF g, n
  <2>4. seats' \in [Group -> Nat]
    BY <1>rest, <2>2, <2>3
  <2> QED
    BY <1>4, <1>rest, <2>4 DEF PromoteCommit
<1>5. ASSUME NEW t \in Txn, NEW g \in Group, OpenClass(t, g)
      PROVE  Shape
  BY <1>5, <1>rest, <1>change DEF OpenClass
<1>6. ASSUME NEW g \in Group, NEW n \in 0..MaxSeats, ResizeClass(g, n)
      PROVE  Shape
  <2>1. n \in Nat
    BY LimitAssumption
  <2> QED
    BY <1>6, <1>rest, <1>change, <2>1 DEF ResizeClass
<1>7. ASSUME ToggleModule
      PROVE  Shape
  BY <1>7, <1>rest, <1>change DEF ToggleModule
<1>8. ASSUME NEW a \in App, Enrol(a)
      PROVE  Shape
  BY <1>8, <1>rest DEF Enrol
<1>9. ASSUME CronCrash \/ (\E a \in App : CronSkips(a)) \/ (\E t \in Txn : Abort(t))
      PROVE  Shape
  <2>1. Fault /\ UNCHANGED <<students, classes, moduleOn, changes>>
    BY <1>9 DEF CronCrash, CronSkips, Abort
  <2> QED
    BY <1>rest, <1>fault, <2>1
<1>10. ASSUME UNCHANGED <<students, classes, moduleOn, used>>
       PROVE  Shape
  BY <1>10, <1>rest
<1> HIDE DEF Shape
<1>11. Shape
  BY <1>1, <1>2, <1>3, <1>4, <1>5, <1>6, <1>7, <1>8, <1>9, <1>10
  DEF Next, RequestStep, TxnStep, Deliver, CronStep, FaultStep, SubmitCount, ApproveLock,
      BypassLock, CloseRead, OpenCheckout, ParentPays, SubmitCommit, ApproveCount, CloseWrite,
      BypassCount, BypassCommit, ApproveCommit, StripeDuplicate, StripeRead, Lapse,
      SessionExpires, CronScan, CronSelect, CronPromote, CronDone, CronRead, CronWrite, CronCount
<1> QED
  BY <1>11 DEF Shape

LEMMA TypeStep ==
  ASSUME IndInv, Next
  PROVE  TypeOK'
BY RequestType, RowType, ExpiryType, MoneyType, SchoolType DEF TypeOK

-----------------------------------------------------------------------------
(* What requests work on                                                       *)

\* The conjunct of References about request t.
Refers(t) ==
  /\ txn[t].pc \notin {"idle", "promote"} =>
       txn[t].app \in App /\ txn[t].group = Target[txn[t].app]
  /\ txn[t].pc \in {"stray", "convert"} =>
       txn[t].ev \in Event /\ txn[t].app = Pays[txn[t].ev]
  /\ txn[t].pc = "route" => txn[t].to \in {"ready_to_admit", "waiting_list"}
  /\ txn[t].pc = "close" => txn[t].to \in {"rejected", "withdrawn"}
  /\ txn[t].pc = "promote" =>
       /\ txn[t].group \in Group
       /\ \/ txn[t].app = None
          \/ /\ txn[t].app \in App /\ txn[t].held = {txn[t].app}
             /\ txn[t].to \in {"rejected", "withdrawn"}

\* A request that moves on still works on the application it was made for.
LEMMA ReferencesStep ==
  ASSUME IndInv, Next
  PROVE  References'
<1>type. TypeOK
  BY DEF IndInv
<1>ref. \A t \in Txn : Refers(t)
  BY DEF IndInv, References, Refers
<1>txn. txn \in [Txn -> Request]
  BY <1>type DEF TypeOK
<1>null. None \notin App
  BY NullAssumption
<1>rest. ASSUME NEW t \in Txn, NEW step, Goto(t, step)
         PROVE  txn'[t] = step /\ \A t2 \in Txn \ {t} : txn'[t2] = txn[t2] /\ Refers(t2)'
  <2>1. txn'[t] = step /\ \A t2 \in Txn \ {t} : txn'[t2] = txn[t2]
    BY <1>rest, <1>txn DEF Goto
  <2> QED
    BY <2>1, <1>ref DEF Refers
<1>idle. ASSUME NEW t \in Txn, Goto(t, Idle)
         PROVE  \A t2 \in Txn : Refers(t2)'
  <2>1. txn'[t].pc = "idle"
    BY <1>idle, <1>rest DEF Idle, Running
  <2>2. Refers(t)'
    BY <2>1 DEF Refers
  <2> QED
    BY <1>idle, <1>rest, <2>2
<1>1. ASSUME NEW t \in Txn, NEW a \in App, SubmitCount(t, a)
      PROVE  \A t2 \in Txn : Refers(t2)'
  <2> DEFINE to == IF FreeSeats(Target[a]) > 0 THEN "ready_to_admit" ELSE "waiting_list"
             setup == ~Configured(Target[a])
             step == [Running("route", a, {}) EXCEPT !.to = to, !.setup = setup]
  <2>1. Goto(t, step)
    BY <1>1 DEF SubmitCount
  <2>2. to \in {"ready_to_admit", "waiting_list"}
    OBVIOUS
  <2> HIDE DEF to, setup
  <2>3. step.pc = "route" /\ step.app = a /\ step.group = Target[a] /\ step.to = to
    BY <1>null DEF Running
  <2> HIDE DEF step
  <2>4. Refers(t)'
    BY <2>1, <2>2, <2>3, <1>rest DEF Refers
  <2> QED
    BY <2>1, <2>4, <1>rest
<1>2. ASSUME NEW t \in Txn, NEW a \in App, NEW pc \in {"approve", "queue"},
             Goto(t, Running(pc, a, {a}))
      PROVE  \A t2 \in Txn : Refers(t2)'
  <2>1. txn'[t].pc = pc /\ txn'[t].app = a /\ txn'[t].group = Target[a]
    BY <1>2, <1>rest, <1>null DEF Running
  <2>2. Refers(t)'
    BY <2>1 DEF Refers
  <2> QED
    BY <1>2, <2>2, <1>rest
<1>3. ASSUME NEW t \in Txn, ApproveCount(t) \/ BypassCount(t)
      PROVE  \A t2 \in Txn : Refers(t2)'
  <2>1. CASE Goto(t, Idle)
    BY <2>1, <1>idle
  <2>2. ASSUME NEW pc \in {"grant", "bypass"}, Goto(t, [txn[t] EXCEPT !.pc = pc])
        PROVE  \A t2 \in Txn : Refers(t2)'
    <3>1. txn[t].app \in App /\ txn[t].group = Target[txn[t].app]
      BY <1>3, <1>ref DEF ApproveCount, BypassCount, Refers
    <3>2. txn'[t].pc = pc /\ txn'[t].app = txn[t].app /\ txn'[t].group = txn[t].group
      BY <2>2, <1>rest, <1>txn DEF Request
    <3>3. Refers(t)'
      BY <3>1, <3>2 DEF Refers
    <3> QED
      BY <2>2, <3>3, <1>rest
  <2> QED
    BY <1>3, <2>1, <2>2 DEF ApproveCount, BypassCount
<1>4. ASSUME NEW t \in Txn, NEW a \in App, NEW to \in {"rejected", "withdrawn"}, CloseRead(t, a, to)
      PROVE  \A t2 \in Txn : Refers(t2)'
  <2> DEFINE seen == app[a].status
             step == [Running("close", a, {}) EXCEPT !.to = to, !.seen = seen]
  <2>1. Goto(t, step)
    BY <1>4 DEF CloseRead
  <2> HIDE DEF seen
  <2>2. step.pc = "close" /\ step.app = a /\ step.group = Target[a] /\ step.to = to
    BY <1>null DEF Running
  <2> HIDE DEF step
  <2>3. Refers(t)'
    BY <2>1, <2>2, <1>rest DEF Refers
  <2> QED
    BY <2>1, <2>3, <1>rest
<1>5. ASSUME NEW t \in Txn, CloseWrite(t)
      PROVE  \A t2 \in Txn : Refers(t2)'
  <2> DEFINE a == txn[t].app
             free == Available(txn[t].group, {a}, 0)
             step == [txn[t] EXCEPT !.pc = "promote", !.held = {a}, !.free = free]
  <2>1. /\ a \in App /\ txn[t].group \in Group
        /\ txn[t].to \in {"rejected", "withdrawn"}
    BY <1>5, <1>ref, GroupAssumption DEF CloseWrite, Refers
  <2>2. Goto(t, Idle) \/ Goto(t, step)
    BY <1>5 DEF CloseWrite
  <2> HIDE DEF free
  <2>3. /\ step.pc = "promote" /\ step.app = a /\ step.group = txn[t].group
        /\ step.held = {a} /\ step.to = txn[t].to
    BY <1>txn DEF Request
  <2> HIDE DEF step
  <2>4. ASSUME Goto(t, step)
        PROVE  Refers(t)'
    BY <2>1, <2>3, <2>4, <1>rest DEF Refers
  <2> QED
    BY <2>2, <2>4, <1>rest, <1>idle
<1>6. ASSUME NEW t \in Txn, NEW g \in Group, OpenClass(t, g)
      PROVE  \A t2 \in Txn : Refers(t2)'
  <2> DEFINE setup == {a \in App : Target[a] = g /\ app[a].status = "waiting_list" /\ app[a].setup}
             lifted == IF Configured(g) THEN {} ELSE setup
             free == Available(g, {}, 1)
             step == [Running("promote", None, lifted) EXCEPT !.group = g, !.adds = 1, !.free = free]
  <2>1. Goto(t, step)
    BY <1>6 DEF OpenClass
  <2> HIDE DEF lifted, free
  <2>2. step.pc = "promote" /\ step.app = None /\ step.group = g
    BY DEF Running
  <2> HIDE DEF step
  <2>3. Refers(t)'
    BY <2>1, <2>2, <1>rest DEF Refers
  <2> QED
    BY <2>1, <2>3, <1>rest
<1>7. ASSUME NEW t \in Txn, NEW e \in Event, StripeRead(t, e)
      PROVE  \A t2 \in Txn : Refers(t2)'
  <2> DEFINE pc == IF app[Pays[e]].status = "conditional_approval" THEN "convert" ELSE "stray"
             step == [Running(pc, Pays[e], {}) EXCEPT !.ev = e]
  <2>1. Goto(t, step)
    BY <1>7 DEF StripeRead
  <2>2. pc \in {"stray", "convert"} /\ Pays[e] \in App
    BY PaysAssumption
  <2> HIDE DEF pc
  <2>3. step.pc = pc /\ step.app = Pays[e] /\ step.group = Target[Pays[e]] /\ step.ev = e
    BY <2>2, <1>null DEF Running
  <2> HIDE DEF step
  <2>4. Refers(t)'
    BY <2>1, <2>2, <2>3, <1>rest DEF Refers
  <2> QED
    BY <2>1, <2>4, <1>rest
<1>8. ASSUME NEW t \in Txn,
             \/ SubmitCommit(t) \/ PromoteCommit(t) \/ BypassCommit(t)
             \/ StripeStray(t) \/ StripeConvert(t) \/ Abort(t)
             \/ \E fee \in Fee : ApproveCommit(t, fee)
      PROVE  \A t2 \in Txn : Refers(t2)'
  <2>1. Goto(t, Idle)
    BY <1>8
    DEF SubmitCommit, PromoteCommit, BypassCommit, StripeStray, StripeConvert, Abort, ApproveCommit
  <2> QED
    BY <2>1, <1>idle
<1>9. ASSUME UNCHANGED txn
      PROVE  \A t2 \in Txn : Refers(t2)'
  BY <1>9, <1>ref DEF Refers
<1>10. ASSUME NEW t \in Txn, NEW a \in App, ApproveLock(t, a) \/ BypassLock(t, a)
       PROVE  \A t2 \in Txn : Refers(t2)'
  BY <1>10, <1>2 DEF ApproveLock, BypassLock
<1>11. \A t2 \in Txn : Refers(t2)'
  BY <1>1, <1>3, <1>4, <1>5, <1>6, <1>7, <1>8, <1>9, <1>10
  DEF Next, RequestStep, TxnStep, Deliver, CronStep, FaultStep, ResizeClass, DeskPayment, Enrol,
      OpenCheckout, ParentPays, ToggleModule, StripeDuplicate, Lapse, SessionExpires, CronScan,
      CronSelect, CronPromote, CronDone, CronRead, CronWrite, CronCount, CronCrash, CronSkips
<1> QED
  BY <1>11 DEF References, Refers

-----------------------------------------------------------------------------
(* Rows and the requests that hold them                                        *)

\* No step writes a row that a checking request holds: the writers take the lock,
\* wait for it, or skip the row.
LEMMA HeldRowStays ==
  ASSUME IndInv, Next, NEW t \in Txn, NEW a \in App,
         a \in txn[t].held, app[a].status # "absent", txn'[t].pc # "idle"
  PROVE  app'[a].status = app[a].status
<1>type. TypeOK
  BY DEF IndInv
<1>app. app \in [App -> AppRow]
  BY <1>type DEF TypeOK
<1>txn. txn \in [Txn -> Request]
  BY <1>type DEF TypeOK
<1>ref. References
  BY DEF IndInv
<1>held. RowsHeld
  BY DEF IndInv
<1>locked. Locked(a) /\ \A t2 \in Txn \ {t} : LockedByOther(t2, a)
  BY DEF Locked, LockedByOther
<1>gone. ASSUME NEW t2 \in Txn, Goto(t2, Idle)
         PROVE  t2 # t
  BY <1>gone, <1>txn DEF Goto, Idle, Running
<1>other. ASSUME NEW t2 \in Txn, t2 # t
          PROVE  a \notin txn[t2].held
  BY <1>other, <1>held DEF RowsHeld
<1>row. ASSUME NEW b, b # a, NEW f, app' = [app EXCEPT ![b] = f]
        PROVE  app'[a].status = app[a].status
  BY <1>row, <1>app
<1>1. ASSUME NEW t2 \in Txn, SubmitCommit(t2)
      PROVE  app'[a].status = app[a].status
  <2>1. txn[t2].app # a
    BY <1>1, <1>held DEF SubmitCommit, RowsHeld
  <2> QED
    BY <1>1, <1>app, <2>1 DEF SubmitCommit
<1>2. ASSUME NEW t2 \in Txn, (\E fee \in Fee : ApproveCommit(t2, fee)) \/ BypassCommit(t2)
      PROVE  app'[a].status = app[a].status
  <2>1. txn[t2].app # a
    BY <1>2, <1>held, <1>gone, <1>other DEF ApproveCommit, BypassCommit, RowsHeld
  <2> QED
    BY <1>2, <1>app, <2>1 DEF ApproveCommit, BypassCommit
<1>3. ASSUME NEW t2 \in Txn, CloseWrite(t2)
      PROVE  app'[a].status = app[a].status
  BY <1>3, <1>app, <1>locked DEF CloseWrite
<1>4. ASSUME NEW t2 \in Txn, PromoteCommit(t2)
      PROVE  app'[a].status = app[a].status
  <2>1. t2 # t
    BY <1>4, <1>gone DEF PromoteCommit
  <2>2. txn[t2].app # a
    BY <1>4, <2>1, <1>ref, <1>other, NullAssumption DEF PromoteCommit, References
  <2>3. a \notin Promotable(t2)
    BY <2>1, <1>other, <1>locked DEF Promotable
  <2> DEFINE picks == Tiered(Promotable(t2), txn[t2].free)
  <2>4. a \notin picks
    BY <2>3 DEF Tiered
  <2> HIDE DEF picks
  <2>5. app'[a] = [app[a] EXCEPT !.status = IF a \in picks THEN "ready_to_admit" ELSE @,
                                 !.setup = @ /\ a \notin txn[t2].held]
    BY <1>4, <2>2 DEF PromoteCommit, picks
  <2> QED
    BY <2>4, <2>5, <1>app DEF AppRow
<1>5. ASSUME NEW t2 \in Txn, StripeConvert(t2)
      PROVE  app'[a].status = app[a].status
  BY <1>5, <1>app, <1>locked DEF StripeConvert, Admit
<1>6. ASSUME NEW b \in App, DeskPayment(b) \/ CronWrite(b)
      PROVE  app'[a].status = app[a].status
  BY <1>6, <1>app, <1>locked DEF DeskPayment, CronWrite, Admit
<1>7. ASSUME NEW b \in App, Lapse(b)
      PROVE  app'[a].status = app[a].status
  BY <1>7, <1>app DEF Lapse, AppRow
<1>8. ASSUME CronPromote
      PROVE  app'[a].status = app[a].status
  BY <1>8, <1>app, <1>locked DEF CronPromote
<1> QED
  BY <1>1, <1>2, <1>3, <1>4, <1>5, <1>6, <1>7, <1>8, RowWriters DEF WritesRow

\* Locks are taken on rows that nobody holds and otherwise only given up.
LEMMA HeldStep ==
  ASSUME IndInv, Next
  PROVE  \A t1, t2 \in Txn : t1 # t2 => txn'[t1].held \cap txn'[t2].held = {}
<1> DEFINE Disjoint == \A t1, t2 \in Txn : t1 # t2 => txn'[t1].held \cap txn'[t2].held = {}
<1>txn. txn \in [Txn -> Request]
  BY DEF IndInv, TypeOK
<1>held. \A t1, t2 \in Txn : t1 # t2 => txn[t1].held \cap txn[t2].held = {}
  BY DEF IndInv, RowsHeld
<1>goto. ASSUME NEW t \in Txn, NEW step, Goto(t, step),
                \A a \in step.held : a \in txn[t].held \/ ~Locked(a)
         PROVE  Disjoint
  <2>1. txn'[t] = step /\ \A t2 \in Txn \ {t} : txn'[t2] = txn[t2]
    BY <1>goto, <1>txn DEF Goto
  <2>2. \A t2 \in Txn \ {t} : step.held \cap txn[t2].held = {}
    BY <1>goto, <1>held DEF Locked
  <2> QED
    BY <2>1, <2>2, <1>held
<1>idle. ASSUME NEW t \in Txn, Goto(t, Idle)
         PROVE  Disjoint
  <2>1. Idle.held = {}
    BY DEF Idle, Running
  <2> QED
    BY <2>1, <1>idle, <1>goto
<1> HIDE DEF Disjoint
<1>1. ASSUME NEW t \in Txn, NEW a \in App, SubmitCount(t, a)
      PROVE  Disjoint
  <2> DEFINE to == IF FreeSeats(Target[a]) > 0 THEN "ready_to_admit" ELSE "waiting_list"
             setup == ~Configured(Target[a])
             step == [Running("route", a, {}) EXCEPT !.to = to, !.setup = setup]
  <2>1. Goto(t, step)
    BY <1>1 DEF SubmitCount
  <2> HIDE DEF to, setup
  <2>2. step.held = {}
    BY DEF Running
  <2> HIDE DEF step
  <2> QED
    BY <2>1, <2>2, <1>goto
<1>2. ASSUME NEW t \in Txn, NEW a \in App, ApproveLock(t, a) \/ BypassLock(t, a)
      PROVE  Disjoint
  <2>1. PICK pc \in {"approve", "queue"} : Goto(t, Running(pc, a, {a}))
    BY <1>2 DEF ApproveLock, BypassLock
  <2>2. Running(pc, a, {a}).held = {a} /\ ~Locked(a)
    BY <1>2 DEF Running, ApproveLock, BypassLock
  <2> QED
    BY <2>1, <2>2, <1>goto
<1>3. ASSUME NEW t \in Txn, ApproveCount(t) \/ BypassCount(t)
      PROVE  Disjoint
  <2>1. ASSUME NEW pc \in {"grant", "bypass"}, Goto(t, [txn[t] EXCEPT !.pc = pc])
        PROVE  Disjoint
    <3>1. [txn[t] EXCEPT !.pc = pc].held = txn[t].held
      BY <1>txn DEF Request
    <3> QED
      BY <2>1, <3>1, <1>goto
  <2> QED
    BY <1>3, <2>1, <1>idle DEF ApproveCount, BypassCount
<1>4. ASSUME NEW t \in Txn, NEW a \in App, NEW to \in {"rejected", "withdrawn"}, CloseRead(t, a, to)
      PROVE  Disjoint
  <2> DEFINE seen == app[a].status
             step == [Running("close", a, {}) EXCEPT !.to = to, !.seen = seen]
  <2>1. Goto(t, step)
    BY <1>4 DEF CloseRead
  <2> HIDE DEF seen
  <2>2. step.held = {}
    BY DEF Running
  <2> HIDE DEF step
  <2> QED
    BY <2>1, <2>2, <1>goto
<1>5. ASSUME NEW t \in Txn, CloseWrite(t)
      PROVE  Disjoint
  <2> DEFINE a == txn[t].app
             free == Available(txn[t].group, {a}, 0)
             step == [txn[t] EXCEPT !.pc = "promote", !.held = {a}, !.free = free]
  <2>1. Goto(t, Idle) \/ Goto(t, step)
    BY <1>5 DEF CloseWrite
  <2>2. ~Locked(a)
    BY <1>5 DEF CloseWrite
  <2> HIDE DEF a, free
  <2>3. step.held = {a}
    BY <1>txn DEF Request
  <2> HIDE DEF step
  <2> QED
    BY <2>1, <2>2, <2>3, <1>goto, <1>idle
<1>6. ASSUME NEW t \in Txn, NEW g \in Group, OpenClass(t, g)
      PROVE  Disjoint
  <2> DEFINE setup == {a \in App : Target[a] = g /\ app[a].status = "waiting_list" /\ app[a].setup}
             lifted == IF Configured(g) THEN {} ELSE setup
             free == Available(g, {}, 1)
             step == [Running("promote", None, lifted) EXCEPT !.group = g, !.adds = 1, !.free = free]
  <2>1. Goto(t, step) /\ \A a \in lifted : ~Locked(a)
    BY <1>6 DEF OpenClass
  <2> HIDE DEF lifted, free
  <2>2. step.held = lifted
    BY DEF Running
  <2> HIDE DEF step
  <2> QED
    BY <2>1, <2>2, <1>goto
<1>7. ASSUME NEW t \in Txn, NEW e \in Event, StripeRead(t, e)
      PROVE  Disjoint
  <2> DEFINE pc == IF app[Pays[e]].status = "conditional_approval" THEN "convert" ELSE "stray"
             step == [Running(pc, Pays[e], {}) EXCEPT !.ev = e]
  <2>1. Goto(t, step)
    BY <1>7 DEF StripeRead
  <2> HIDE DEF pc
  <2>2. step.held = {}
    BY DEF Running
  <2> HIDE DEF step
  <2> QED
    BY <2>1, <2>2, <1>goto
<1>8. ASSUME NEW t \in Txn,
             \/ SubmitCommit(t) \/ PromoteCommit(t) \/ BypassCommit(t)
             \/ StripeStray(t) \/ StripeConvert(t) \/ Abort(t)
             \/ \E fee \in Fee : ApproveCommit(t, fee)
      PROVE  Disjoint
  <2>1. Goto(t, Idle)
    BY <1>8
    DEF SubmitCommit, PromoteCommit, BypassCommit, StripeStray, StripeConvert, Abort, ApproveCommit
  <2> QED
    BY <2>1, <1>idle
<1>9. ASSUME UNCHANGED txn
      PROVE  Disjoint
  BY <1>9, <1>held DEF Disjoint
<1>10. Disjoint
  BY <1>1, <1>2, <1>3, <1>4, <1>5, <1>6, <1>7, <1>8, <1>9
  DEF Next, RequestStep, TxnStep, Deliver, CronStep, FaultStep, ResizeClass, DeskPayment, Enrol,
      OpenCheckout, ParentPays, ToggleModule, StripeDuplicate, Lapse, SessionExpires, CronScan,
      CronSelect, CronPromote, CronDone, CronRead, CronWrite, CronCount, CronCrash, CronSkips
<1> QED
  BY <1>10 DEF Disjoint

\* How a request gets anywhere but to its end.
Moves(t) ==
  \/ \E a \in App : SubmitCount(t, a) \/ ApproveLock(t, a) \/ BypassLock(t, a)
  \/ \E a \in App, to \in {"rejected", "withdrawn"} : CloseRead(t, a, to)
  \/ ApproveCount(t) \/ BypassCount(t) \/ CloseWrite(t)
  \/ \E g \in Group : OpenClass(t, g)
  \/ \E e \in Event : StripeRead(t, e)

LEMMA RequestSteps ==
  ASSUME IndInv, Next, NEW t \in Txn
  PROVE  txn'[t] = txn[t] \/ txn'[t].pc = "idle" \/ Moves(t)
<1>txn. txn \in [Txn -> Request]
  BY DEF IndInv, TypeOK
<1>1. ASSUME NEW t2 \in Txn, NEW step, Goto(t2, step), t2 # t
      PROVE  txn'[t] = txn[t]
  BY <1>1, <1>txn DEF Goto
<1>2. ASSUME NEW t2 \in Txn, Moves(t2)
      PROVE  txn'[t] = txn[t] \/ Moves(t)
  <2>1. \E step : Goto(t2, step)
    BY <1>2
    DEF Moves, SubmitCount, ApproveLock, BypassLock, CloseRead, ApproveCount, BypassCount,
        CloseWrite, OpenClass, StripeRead
  <2> QED
    BY <2>1, <1>1, <1>2
<1>3. ASSUME NEW t2 \in Txn,
             \/ SubmitCommit(t2) \/ PromoteCommit(t2) \/ BypassCommit(t2)
             \/ StripeStray(t2) \/ StripeConvert(t2) \/ Abort(t2)
             \/ \E fee \in Fee : ApproveCommit(t2, fee)
      PROVE  txn'[t] = txn[t] \/ txn'[t].pc = "idle"
  <2>1. Goto(t2, Idle)
    BY <1>3
    DEF SubmitCommit, PromoteCommit, BypassCommit, StripeStray, StripeConvert, Abort, ApproveCommit
  <2> QED
    BY <2>1, <1>txn DEF Goto, Idle, Running
<1>4. (\E t2 \in Txn : Moves(t2)) \/ UNCHANGED txn
      \/ \E t2 \in Txn : \/ SubmitCommit(t2) \/ PromoteCommit(t2) \/ BypassCommit(t2)
                         \/ StripeStray(t2) \/ StripeConvert(t2) \/ Abort(t2)
                         \/ \E fee \in Fee : ApproveCommit(t2, fee)
  BY DEF Moves, Next, RequestStep, TxnStep, Deliver, CronStep, FaultStep, ResizeClass, DeskPayment,
         Enrol, OpenCheckout, ParentPays, ToggleModule, StripeDuplicate, Lapse, SessionExpires,
         CronScan, CronSelect, CronPromote, CronDone, CronRead, CronWrite, CronCount, CronCrash,
         CronSkips
<1> QED
  BY <1>2, <1>3, <1>4

\* What a request is after it has moved.
LEMMA MovesTo ==
  ASSUME IndInv, NEW t \in Txn, Moves(t), txn'[t].pc # "idle"
  PROVE  /\ UNCHANGED <<app, seats, shrunk, cron>>
         /\ \A t2 \in Txn \ {t} : txn'[t2] = txn[t2]
         /\ \/ /\ txn'[t].pc = "route" /\ app[txn'[t].app].status = "absent"
               /\ \A t2 \in Txn : txn[t2].pc # "route"
            \/ /\ txn'[t].pc = "approve" /\ txn'[t].held = {txn'[t].app}
               /\ app[txn'[t].app].status = "ready_to_admit"
            \/ /\ txn'[t].pc = "queue" /\ txn'[t].held = {txn'[t].app}
               /\ app[txn'[t].app].status = "waiting_list"
            \/ /\ txn'[t].pc = "grant" /\ txn[t].pc = "approve"
               /\ AdvisoryFree(txn[t].group) /\ FreeSeats(txn[t].group) # 0
               /\ txn'[t] = [txn[t] EXCEPT !.pc = "grant"]
            \/ /\ txn'[t].pc = "bypass" /\ txn[t].pc = "queue" /\ AdvisoryFree(txn[t].group)
               /\ txn'[t] = [txn[t] EXCEPT !.pc = "bypass"]
            \/ txn'[t].pc = "close" /\ app[txn'[t].app].status # "absent"
            \/ txn'[t].pc = "promote" /\ txn[t].pc = "close" /\ txn'[t].app = txn[t].app
            \/ txn'[t].pc = "promote" /\ txn'[t].app = None
            \/ txn'[t].pc \in {"stray", "convert"}
<1> DEFINE After ==
  \/ /\ txn'[t].pc = "route" /\ app[txn'[t].app].status = "absent"
     /\ \A t2 \in Txn : txn[t2].pc # "route"
  \/ /\ txn'[t].pc = "approve" /\ txn'[t].held = {txn'[t].app}
     /\ app[txn'[t].app].status = "ready_to_admit"
  \/ /\ txn'[t].pc = "queue" /\ txn'[t].held = {txn'[t].app}
     /\ app[txn'[t].app].status = "waiting_list"
  \/ /\ txn'[t].pc = "grant" /\ txn[t].pc = "approve"
     /\ AdvisoryFree(txn[t].group) /\ FreeSeats(txn[t].group) # 0
     /\ txn'[t] = [txn[t] EXCEPT !.pc = "grant"]
  \/ /\ txn'[t].pc = "bypass" /\ txn[t].pc = "queue" /\ AdvisoryFree(txn[t].group)
     /\ txn'[t] = [txn[t] EXCEPT !.pc = "bypass"]
  \/ txn'[t].pc = "close" /\ app[txn'[t].app].status # "absent"
  \/ txn'[t].pc = "promote" /\ txn[t].pc = "close" /\ txn'[t].app = txn[t].app
  \/ txn'[t].pc = "promote" /\ txn'[t].app = None
  \/ txn'[t].pc \in {"stray", "convert"}
<1>txn. txn \in [Txn -> Request]
  BY DEF IndInv, TypeOK
<1>goto. ASSUME NEW step, Goto(t, step)
         PROVE  txn'[t] = step /\ \A t2 \in Txn \ {t} : txn'[t2] = txn[t2]
  BY <1>goto, <1>txn DEF Goto
<1>idle. Idle.pc = "idle"
  BY DEF Idle, Running
<1>1. ASSUME NEW a \in App, SubmitCount(t, a)
      PROVE  After
  <2> DEFINE to == IF FreeSeats(Target[a]) > 0 THEN "ready_to_admit" ELSE "waiting_list"
             setup == ~Configured(Target[a])
             step == [Running("route", a, {}) EXCEPT !.to = to, !.setup = setup]
  <2>1. Goto(t, step)
    BY <1>1 DEF SubmitCount
  <2> HIDE DEF to, setup
  <2>2. step.pc = "route" /\ step.app = a
    BY DEF Running
  <2> HIDE DEF step
  <2> QED
    BY <2>1, <2>2, <1>1, <1>goto DEF SubmitCount
<1>2. ASSUME NEW a \in App, ApproveLock(t, a) \/ BypassLock(t, a)
      PROVE  After
  <2>1. CASE ApproveLock(t, a)
    <3>1. txn'[t] = Running("approve", a, {a})
      BY <2>1, <1>goto DEF ApproveLock
    <3> QED
      BY <2>1, <3>1 DEF ApproveLock, Running
  <2>2. CASE BypassLock(t, a)
    <3>1. txn'[t] = Running("queue", a, {a})
      BY <2>2, <1>goto DEF BypassLock
    <3> QED
      BY <2>2, <3>1 DEF BypassLock, Running
  <2> QED
    BY <1>2, <2>1, <2>2
<1>3. ASSUME NEW a \in App, NEW to \in {"rejected", "withdrawn"}, CloseRead(t, a, to)
      PROVE  After
  <2> DEFINE seen == app[a].status
             step == [Running("close", a, {}) EXCEPT !.to = to, !.seen = seen]
  <2>1. Goto(t, step) /\ app[a].status # "absent"
    BY <1>3 DEF CloseRead, Closable
  <2> HIDE DEF seen
  <2>2. step.pc = "close" /\ step.app = a
    BY DEF Running
  <2> HIDE DEF step
  <2> QED
    BY <2>1, <2>2, <1>goto
<1>4. ASSUME ApproveCount(t)
      PROVE  After
  <2> DEFINE step == [txn[t] EXCEPT !.pc = "grant"]
  <2>1. Goto(t, step) /\ FreeSeats(txn[t].group) # 0
    BY <1>4, <1>goto, <1>idle DEF ApproveCount
  <2>2. step.pc = "grant"
    BY <1>txn DEF Request
  <2> HIDE DEF step
  <2>3. txn'[t] = step
    BY <2>1, <1>goto
  <2> QED
    BY <2>1, <2>2, <2>3, <1>4 DEF ApproveCount, step
<1>5. ASSUME BypassCount(t)
      PROVE  After
  <2> DEFINE step == [txn[t] EXCEPT !.pc = "bypass"]
  <2>1. Goto(t, step)
    BY <1>5, <1>goto, <1>idle DEF BypassCount
  <2>2. step.pc = "bypass"
    BY <1>txn DEF Request
  <2> HIDE DEF step
  <2>3. txn'[t] = step
    BY <2>1, <1>goto
  <2> QED
    BY <2>1, <2>2, <2>3, <1>5 DEF BypassCount, step
<1>6. ASSUME CloseWrite(t)
      PROVE  After
  <2> DEFINE a == txn[t].app
             free == Available(txn[t].group, {a}, 0)
             step == [txn[t] EXCEPT !.pc = "promote", !.held = {a}, !.free = free]
  <2>1. Goto(t, step)
    BY <1>6, <1>goto, <1>idle DEF CloseWrite
  <2> HIDE DEF free
  <2>2. step.pc = "promote" /\ step.app = a
    BY <1>txn DEF Request
  <2> HIDE DEF step
  <2> QED
    BY <2>1, <2>2, <1>6, <1>goto DEF CloseWrite
<1>7. ASSUME NEW g \in Group, OpenClass(t, g)
      PROVE  After
  <2> DEFINE setup == {a \in App : Target[a] = g /\ app[a].status = "waiting_list" /\ app[a].setup}
             lifted == IF Configured(g) THEN {} ELSE setup
             free == Available(g, {}, 1)
             step == [Running("promote", None, lifted) EXCEPT !.group = g, !.adds = 1, !.free = free]
  <2>1. Goto(t, step)
    BY <1>7 DEF OpenClass
  <2> HIDE DEF lifted, free
  <2>2. step.pc = "promote" /\ step.app = None
    BY DEF Running
  <2> HIDE DEF step
  <2> QED
    BY <2>1, <2>2, <1>goto
<1>8. ASSUME NEW e \in Event, StripeRead(t, e)
      PROVE  After
  <2> DEFINE pc == IF app[Pays[e]].status = "conditional_approval" THEN "convert" ELSE "stray"
             step == [Running(pc, Pays[e], {}) EXCEPT !.ev = e]
  <2>1. Goto(t, step) /\ pc \in {"stray", "convert"}
    BY <1>8 DEF StripeRead
  <2> HIDE DEF pc
  <2>2. step.pc = pc
    BY DEF Running
  <2> HIDE DEF step
  <2> QED
    BY <2>1, <2>2, <1>goto
<1> HIDE DEF After
<1>9. After
  BY <1>1, <1>2, <1>3, <1>4, <1>5, <1>6, <1>7, <1>8 DEF Moves
<1>10. \E step : Goto(t, step)
  BY DEF Moves, SubmitCount, ApproveLock, BypassLock, CloseRead, ApproveCount, BypassCount,
         CloseWrite, OpenClass, StripeRead
<1>11. \A t2 \in Txn \ {t} : txn'[t2] = txn[t2]
  BY <1>10, <1>goto
<1>12. CloseWrite(t) => UNCHANGED app
  BY <1>goto, <1>idle DEF CloseWrite
<1>13. UNCHANGED <<app, seats, shrunk, cron>>
  BY <1>12 DEF Moves, SubmitCount, ApproveLock, BypassLock, CloseRead, ApproveCount, BypassCount,
               CloseWrite, OpenClass, StripeRead
<1> QED
  BY <1>9, <1>11, <1>13 DEF After

\* A submitted application stays one.
LEMMA SubmittedStays ==
  ASSUME IndInv, Next, NEW a \in App, app[a].status # "absent"
  PROVE  app'[a].status # "absent"
<1>app. app \in [App -> AppRow]
  BY DEF IndInv, TypeOK
<1>ref. References
  BY DEF IndInv
<1>1. ASSUME NEW t \in Txn, SubmitCommit(t) \/ CloseWrite(t) \/ BypassCommit(t)
      PROVE  app'[a].status # "absent"
  <2>1. CASE SubmitCommit(t)
    <3>1. txn[t].to \in {"ready_to_admit", "waiting_list"} /\ txn[t].app \in App
      BY <1>ref, <2>1 DEF SubmitCommit, References
    <3>2. app'[a].status = IF a = txn[t].app THEN txn[t].to ELSE app[a].status
      BY <1>app, <2>1, <3>1 DEF SubmitCommit, AppRow
    <3> QED
      BY <3>1, <3>2
  <2>2. CASE CloseWrite(t)
    <3>1. txn[t].to \in {"rejected", "withdrawn"}
      BY <1>ref, <2>2 DEF CloseWrite, References
    <3>2. app' = app \/ app' = [app EXCEPT ![txn[t].app].status = txn[t].to]
      BY <2>2 DEF CloseWrite
    <3>3. app'[a].status = app[a].status \/ app'[a].status = txn[t].to
      BY <1>app, <3>2 DEF AppRow
    <3> QED
      BY <3>1, <3>3
  <2>3. CASE BypassCommit(t)
    BY <1>app, <1>ref, <2>3 DEF BypassCommit, References, AppRow
  <2> QED
    BY <1>1, <2>1, <2>2, <2>3
<1>2. ASSUME NEW t \in Txn, NEW fee \in Fee, ApproveCommit(t, fee)
      PROVE  app'[a].status # "absent"
  BY <1>2, <1>app DEF ApproveCommit, AppRow
<1>3. ASSUME NEW t \in Txn, PromoteCommit(t)
      PROVE  app'[a].status # "absent"
  <2>1. txn[t].app = a => txn[t].to \in {"rejected", "withdrawn"}
    BY <1>3, <1>ref, NullAssumption DEF PromoteCommit, References
  <2> DEFINE picks == Tiered(Promotable(t), txn[t].free)
  <2>2. app'[a] = IF a = txn[t].app THEN [app[a] EXCEPT !.status = txn[t].to]
                  ELSE [app[a] EXCEPT
                          !.status = IF a \in picks THEN "ready_to_admit" ELSE @,
                          !.setup = @ /\ a \notin txn[t].held]
    BY <1>3 DEF PromoteCommit
  <2> HIDE DEF picks
  <2> QED
    BY <2>1, <2>2, <1>app DEF AppRow
<1>4. ASSUME NEW b \in App, Admit(b)
      PROVE  app'[a].status # "absent"
  BY <1>4, <1>app DEF Admit, AppRow
<1>5. ASSUME NEW b \in App, Lapse(b) \/ CronWrite(b)
      PROVE  app'[a].status # "absent"
  BY <1>5, <1>app DEF Lapse, CronWrite, AppRow
<1>6. ASSUME CronPromote
      PROVE  app'[a].status # "absent"
  BY <1>6, <1>app DEF CronPromote, AppRow
<1>7. ASSUME NEW t \in Txn, StripeConvert(t)
      PROVE  app'[a].status # "absent"
  BY <1>7, <1>4, <1>ref DEF StripeConvert, References
<1>8. ASSUME NEW b \in App, DeskPayment(b)
      PROVE  app'[a].status # "absent"
  BY <1>8, <1>4 DEF DeskPayment
<1> QED
  BY <1>1, <1>2, <1>3, <1>5, <1>6, <1>7, <1>8, RowWriters DEF WritesRow

\* While a submission is being routed nobody else writes its row.
LEMMA RoutedRowStays ==
  ASSUME IndInv, Next, NEW t \in Txn, txn[t].pc = "route", txn'[t].pc = "route"
  PROVE  app'[txn[t].app].status = "absent"
<1> DEFINE a == txn[t].app
<1>txn. txn \in [Txn -> Request]
  BY DEF IndInv, TypeOK
<1>app. app \in [App -> AppRow]
  BY DEF IndInv, TypeOK
<1>ref. References
  BY DEF IndInv
<1>held. RowsHeld
  BY DEF IndInv
<1>exist. RowsExist
  BY DEF IndInv
<1>a. a \in App /\ app[a].status = "absent"
  BY <1>ref, <1>held DEF References, RowsHeld
<1> HIDE DEF a
<1>1. ASSUME NEW t2 \in Txn, SubmitCommit(t2)
      PROVE  app'[a].status = "absent"
  <2>1. t2 = t
    BY <1>1, <1>held DEF SubmitCommit, RowsHeld
  <2> QED
    BY <1>1, <2>1, <1>txn DEF SubmitCommit, Goto, Idle, Running
<1>2. ASSUME NEW t2 \in Txn, (\E fee \in Fee : ApproveCommit(t2, fee)) \/ BypassCommit(t2)
      PROVE  app'[a].status = "absent"
  <2>1. txn[t2].app # a
    BY <1>2, <1>a, <1>held DEF ApproveCommit, BypassCommit, RowsHeld
  <2> QED
    BY <1>2, <1>a, <1>app, <2>1 DEF ApproveCommit, BypassCommit
<1>3. ASSUME NEW t2 \in Txn, CloseWrite(t2)
      PROVE  app'[a].status = "absent"
  <2>1. txn[t2].app # a
    BY <1>3, <1>a, <1>ref, <1>exist, NullAssumption DEF CloseWrite, References, RowsExist
  <2> QED
    BY <1>3, <1>a, <1>app, <2>1 DEF CloseWrite
<1>4. ASSUME NEW t2 \in Txn, PromoteCommit(t2)
      PROVE  app'[a].status = "absent"
  <2>1. txn[t2].app # a
    BY <1>4, <1>a, <1>exist, NullAssumption DEF PromoteCommit, RowsExist
  <2> DEFINE picks == Tiered(Promotable(t2), txn[t2].free)
  <2>2. a \notin picks
    BY <1>a DEF Tiered, Promotable
  <2> HIDE DEF picks
  <2>3. app'[a] = [app[a] EXCEPT !.status = IF a \in picks THEN "ready_to_admit" ELSE @,
                                 !.setup = @ /\ a \notin txn[t2].held]
    BY <1>4, <1>a, <2>1 DEF PromoteCommit, picks
  <2> QED
    BY <1>a, <2>2, <2>3, <1>app DEF AppRow
<1>5. ASSUME NEW t2 \in Txn, StripeConvert(t2)
      PROVE  app'[a].status = "absent"
  <2>1. app' = app \/ (Admit(txn[t2].app) /\ app[txn[t2].app].status = "conditional_approval")
    BY <1>5, <1>ref DEF StripeConvert, Convertible, References
  <2> QED
    BY <2>1, <1>a, <1>app DEF Admit
<1>6. ASSUME NEW b \in App, DeskPayment(b) \/ CronWrite(b)
      PROVE  app'[a].status = "absent"
  <2>1. b # a
    BY <1>6, <1>a, <1>exist DEF DeskPayment, CronWrite, RowsExist
  <2> QED
    BY <1>6, <2>1, <1>a, <1>app DEF DeskPayment, CronWrite, Admit
<1>7. ASSUME NEW b \in App, Lapse(b)
      PROVE  app'[a].status = "absent"
  BY <1>7, <1>a, <1>app DEF Lapse, AppRow
<1>8. ASSUME CronPromote
      PROVE  app'[a].status = "absent"
  BY <1>8, <1>a, <1>app, <1>exist DEF CronPromote, RowsExist
<1>9. ASSUME UNCHANGED app
      PROVE  app'[a].status = "absent"
  BY <1>9, <1>a
<1> QED
  BY <1>1, <1>2, <1>3, <1>4, <1>5, <1>6, <1>7, <1>8, <1>9, RowWriters DEF WritesRow, a

-----------------------------------------------------------------------------
(* Row locks                                                                   *)

\* A row is locked by one request at a time, and the status checked under the
\* lock is still there.
LEMMA RowsHeldStep ==
  ASSUME IndInv, Next
  PROVE  RowsHeld'
<1>txn. txn \in [Txn -> Request]
  BY DEF IndInv, TypeOK
<1>ref. References
  BY DEF IndInv
<1>held. RowsHeld
  BY DEF IndInv
<1> DEFINE Holds(t) ==
      /\ txn'[t].pc \in {"approve", "grant"} =>
           /\ txn'[t].held = {txn'[t].app}
           /\ app'[txn'[t].app].status = "ready_to_admit"
      /\ txn'[t].pc \in {"queue", "bypass"} =>
           /\ txn'[t].held = {txn'[t].app}
           /\ app'[txn'[t].app].status = "waiting_list"
      /\ txn'[t].pc = "route" => app'[txn'[t].app].status = "absent"
<1>1. ASSUME NEW t \in Txn
      PROVE  Holds(t)
  <2>1. CASE txn'[t].pc = "idle"
    BY <2>1
  <2>2. CASE txn'[t] = txn[t] /\ txn[t].pc \in {"approve", "grant", "queue", "bypass"}
    <3> DEFINE a == txn[t].app
    <3>1. a \in App
      BY <2>2, <1>ref DEF References
    <3>2. /\ txn[t].held = {a}
          /\ txn[t].pc \in {"approve", "grant"} => app[a].status = "ready_to_admit"
          /\ txn[t].pc \in {"queue", "bypass"} => app[a].status = "waiting_list"
      BY <2>2, <1>held DEF RowsHeld
    <3>3. app'[a].status = app[a].status
      BY <2>2, <3>1, <3>2, HeldRowStays
    <3> QED
      BY <2>2, <3>2, <3>3
  <2>3. CASE txn'[t] = txn[t] /\ txn[t].pc = "route"
    BY <2>3, RoutedRowStays
  <2>4. CASE txn'[t] = txn[t] /\ txn[t].pc \notin {"approve", "grant", "queue", "bypass", "route"}
    BY <2>4
  <2>5. CASE Moves(t) /\ txn'[t].pc # "idle"
    <3>1. UNCHANGED app
      BY <2>5, MovesTo
    <3>2. CASE txn'[t].pc = "grant"
      <4>1. txn[t].pc = "approve" /\ txn'[t] = [txn[t] EXCEPT !.pc = "grant"]
        BY <2>5, <3>2, MovesTo
      <4>2. txn'[t].held = txn[t].held /\ txn'[t].app = txn[t].app
        BY <4>1, <1>txn DEF Request
      <4> QED
        BY <3>1, <3>2, <4>1, <4>2, <1>held DEF RowsHeld
    <3>3. CASE txn'[t].pc = "bypass"
      <4>1. txn[t].pc = "queue" /\ txn'[t] = [txn[t] EXCEPT !.pc = "bypass"]
        BY <2>5, <3>3, MovesTo
      <4>2. txn'[t].held = txn[t].held /\ txn'[t].app = txn[t].app
        BY <4>1, <1>txn DEF Request
      <4> QED
        BY <3>1, <3>3, <4>1, <4>2, <1>held DEF RowsHeld
    <3>4. CASE txn'[t].pc \notin {"grant", "bypass"}
      BY <2>5, <3>1, <3>4, MovesTo
    <3> QED
      BY <3>2, <3>3, <3>4
  <2> QED
    BY <2>1, <2>2, <2>3, <2>4, <2>5, RequestSteps
<1>2. ASSUME NEW s \in Txn, NEW t \in Txn, txn'[s].pc = "route", txn'[t].pc = "route", s # t
      PROVE  FALSE
  <2>1. CASE Moves(s)
    BY <2>1, <1>2, MovesTo
  <2>2. CASE Moves(t)
    BY <2>2, <1>2, MovesTo
  <2>3. CASE ~Moves(s) /\ ~Moves(t)
    <3>1. txn[s].pc = "route" /\ txn[t].pc = "route"
      BY <1>2, <2>3, RequestSteps
    <3> QED
      BY <3>1, <1>2, <1>held DEF RowsHeld
  <2> QED
    BY <2>1, <2>2, <2>3
<1> HIDE DEF Holds
<1>3. \A t \in Txn : Holds(t)
  BY <1>1
<1>4. \A t1, t2 \in Txn : txn'[t1].pc = "route" /\ txn'[t2].pc = "route" => t1 = t2
  BY <1>2
<1> QED
  BY <1>3, <1>4, HeldStep DEF RowsHeld, Holds

\* Whoever goes on with a row it has read goes on with a submitted application.
LEMMA RowsExistStep ==
  ASSUME IndInv, Next
  PROVE  RowsExist'
<1>type. TypeOK
  BY DEF IndInv
<1>ref. References
  BY DEF IndInv
<1>exist. RowsExist
  BY DEF IndInv
<1>1. ASSUME NEW t \in Txn, txn'[t].pc \in {"close", "promote"}, txn'[t].app # None
      PROVE  app'[txn'[t].app].status # "absent"
  <2>1. CASE txn'[t] = txn[t]
    <3>1. txn[t].app \in App /\ app[txn[t].app].status # "absent"
      BY <1>1, <2>1, <1>ref, <1>exist DEF References, RowsExist
    <3> QED
      BY <2>1, <3>1, SubmittedStays
  <2>2. CASE Moves(t)
    <3>1. CASE txn'[t].pc = "close"
      BY <2>2, <3>1, MovesTo
    <3>2. CASE txn'[t].pc = "promote"
      <4>1. UNCHANGED app /\ txn[t].pc = "close" /\ txn'[t].app = txn[t].app
        BY <1>1, <2>2, <3>2, MovesTo
      <4> QED
        BY <1>1, <4>1, <1>exist DEF RowsExist
    <3> QED
      BY <1>1, <3>1, <3>2
  <2> QED
    BY <1>1, <2>1, <2>2, RequestSteps
<1> DEFINE Sure == /\ cron'.pc = "write" => cron'.app \in App /\ app'[cron'.app].status # "absent"
                   /\ \A a \in cron'.picks : app'[a].status # "absent"
<1>cron. cron \in Expiry
  BY <1>type DEF TypeOK
<1>2. ASSUME cron'.pc = "write" => cron.pc = "write" /\ cron'.app = cron.app,
             cron'.picks \subseteq cron.picks
      PROVE  Sure
  <2>1. cron.picks \subseteq App
    BY <1>cron DEF Expiry
  <2>2. \A a \in cron.picks : app'[a].status # "absent"
    BY <2>1, <1>exist, SubmittedStays DEF RowsExist
  <2>3. cron'.pc = "write" => cron'.app \in App /\ app'[cron'.app].status # "absent"
    BY <1>2, <1>exist, SubmittedStays DEF RowsExist
  <2> QED
    BY <1>2, <2>2, <2>3
<1>3. ASSUME NEW a \in App, CronRead(a)
      PROVE  Sure
  <2>1. CASE Expired(a)
    <3>1. cron' = [cron EXCEPT !.pc = "write", !.app = a] /\ UNCHANGED app
      BY <1>3, <2>1 DEF CronRead
    <3>2. cron'.picks = cron.picks /\ cron'.app = a
      BY <3>1, <1>cron DEF Expiry
    <3> QED
      BY <3>1, <3>2, <2>1, <1>exist DEF Expired, RowsExist
  <2>2. CASE ~Expired(a)
    <3>1. cron' = [cron EXCEPT !.todo = @ \ {a}] /\ cron.pc = "revert"
      BY <1>3, <2>2 DEF CronRead
    <3> QED
      BY <3>1, <1>2, <1>cron DEF Expiry
  <2> QED
    BY <2>1, <2>2
<1>4. ASSUME CronSelect
      PROVE  Sure
  <2>1. \A a \in ByDate(Queue(cron.group), cron.free) : app[a].status = "waiting_list"
    BY DEF ByDate, Queue
  <2> DEFINE picks == ByDate(Queue(cron.group), cron.free)
  <2>2. cron' = [cron EXCEPT !.pc = "promote", !.picks = picks] /\ UNCHANGED app
    BY <1>4 DEF CronSelect
  <2> HIDE DEF picks
  <2>3. cron'.pc = "promote" /\ cron'.picks = picks
    BY <2>2, <1>cron DEF Expiry
  <2> QED
    BY <2>1, <2>2, <2>3 DEF picks
<1>5. ASSUME \/ CronScan \/ CronDone \/ CronCrash \/ CronPromote
             \/ \E a \in App : CronWrite(a) \/ CronSkips(a)
      PROVE  Sure
  <2>1. CASE CronScan \/ CronDone \/ CronCrash
    <3> DEFINE due == {a \in App : Expired(a)}
    <3>1. cron' = CronIdle \/ cron' = [CronIdle EXCEPT !.pc = "revert", !.todo = due]
      BY <2>1 DEF CronScan, CronDone, CronCrash
    <3> HIDE DEF due
    <3>2. cron'.pc # "write" /\ cron'.picks = {}
      <4>1. CASE cron' = CronIdle
        BY <4>1 DEF CronIdle
      <4>2. CASE cron' = [CronIdle EXCEPT !.pc = "revert", !.todo = due]
        BY <4>2 DEF CronIdle
      <4> QED
        BY <3>1, <4>1, <4>2
    <3> QED
      BY <3>2, <1>2
  <2>2. CASE CronPromote
    <3> DEFINE rest == cron.groups \ {cron.group}
    <3>1. cron' = [cron EXCEPT !.pc = "revert", !.groups = rest, !.group = None,
                               !.free = 0, !.picks = {}]
      BY <2>2 DEF CronPromote
    <3> HIDE DEF rest
    <3>2. cron'.pc # "write" /\ cron'.picks = {}
      BY <3>1, <1>cron DEF Expiry
    <3> QED
      BY <3>2, <1>2
  <2>3. ASSUME NEW a \in App, CronWrite(a) \/ CronSkips(a)
        PROVE  Sure
    <3> DEFINE rest == cron.todo \ {a}
               freed == cron.groups \cup {Target[a]}
    <3>1. \/ cron' = [cron EXCEPT !.pc = "revert", !.todo = rest, !.app = None, !.groups = freed]
          \/ cron' = [cron EXCEPT !.pc = "revert", !.todo = rest, !.app = None]
      BY <2>3 DEF CronWrite, CronSkips
    <3> HIDE DEF rest, freed
    <3>2. cron'.pc # "write" /\ cron'.picks = cron.picks
      BY <3>1, <1>cron DEF Expiry
    <3> QED
      BY <3>2, <1>2
  <2> QED
    BY <1>5, <2>1, <2>2, <2>3
<1>6. ASSUME NEW g \in Group, CronCount(g)
      PROVE  Sure
  <2> DEFINE free == FreeSeats(g)
  <2>1. /\ cron.pc = "revert"
        /\ \/ cron' = [cron EXCEPT !.groups = @ \ {g}]
           \/ cron' = [cron EXCEPT !.pc = "select", !.group = g, !.free = free]
    BY <1>6 DEF CronCount
  <2> HIDE DEF free
  <2>2. cron'.pc # "write" /\ cron'.picks = cron.picks
    BY <2>1, <1>cron DEF Expiry
  <2> QED
    BY <2>2, <1>2
<1>7. ASSUME UNCHANGED cron
      PROVE  Sure
  BY <1>7, <1>2
<1>8. Sure
  BY <1>3, <1>4, <1>5, <1>6, <1>7
  DEF Next, RequestStep, TxnStep, Deliver, CronStep, FaultStep, SubmitCount, ApproveLock, BypassLock,
      CloseRead, OpenClass, ResizeClass, DeskPayment, Enrol, OpenCheckout, ParentPays, ToggleModule,
      StripeDuplicate, StripeRead, Lapse, SessionExpires, SubmitCommit, ApproveCount, ApproveCommit,
      CloseWrite, PromoteCommit, BypassCount, BypassCommit, StripeStray, StripeConvert, Abort
<1> QED
  BY <1>1, <1>8 DEF RowsExist

-----------------------------------------------------------------------------
(* Seats                                                                       *)

\* Only the commit of an approval makes an application hold a seat, and only a
\* payment turns a held seat into an approval.
LEMMA StatusMoves ==
  ASSUME IndInv, Next, NEW a \in App
  PROVE  /\ app'[a].status = "conditional_approval" /\ app[a].status # "conditional_approval"
              => \E t \in Txn, fee \in Fee : ApproveCommit(t, fee) /\ txn[t].app = a
         /\ app'[a].status = "approved" /\ app[a].status # "approved"
              => app[a].status = "conditional_approval"
<1>app. app \in [App -> AppRow]
  BY DEF IndInv, TypeOK
<1>ref. References
  BY DEF IndInv
<1> DEFINE Guarded ==
      /\ app'[a].status = "conditional_approval" /\ app[a].status # "conditional_approval"
           => \E t \in Txn, fee \in Fee : ApproveCommit(t, fee) /\ txn[t].app = a
      /\ app'[a].status = "approved" /\ app[a].status # "approved"
           => app[a].status = "conditional_approval"
<1>1. ASSUME app'[a].status \in {app[a].status, "ready_to_admit", "waiting_list", "rejected", "withdrawn"}
      PROVE  Guarded
  BY <1>1
<1>2. ASSUME NEW t \in Txn, SubmitCommit(t) \/ CloseWrite(t) \/ BypassCommit(t)
      PROVE  Guarded
  <2>1. app'[a].status \in {app[a].status, "ready_to_admit", "waiting_list", "rejected", "withdrawn"}
    <3>1. CASE SubmitCommit(t)
      <4>1. txn[t].to \in {"ready_to_admit", "waiting_list"} /\ txn[t].app \in App
        BY <1>ref, <3>1 DEF SubmitCommit, References
      <4>2. app'[a].status = IF a = txn[t].app THEN txn[t].to ELSE app[a].status
        BY <1>app, <3>1, <4>1 DEF SubmitCommit, AppRow
      <4> QED
        BY <4>1, <4>2
    <3>2. CASE CloseWrite(t)
      <4>1. txn[t].to \in {"rejected", "withdrawn"}
        BY <1>ref, <3>2 DEF CloseWrite, References
      <4>2. app' = app \/ app' = [app EXCEPT ![txn[t].app].status = txn[t].to]
        BY <3>2 DEF CloseWrite
      <4>3. app'[a].status = app[a].status \/ app'[a].status = txn[t].to
        BY <1>app, <4>2 DEF AppRow
      <4> QED
        BY <4>1, <4>3
    <3>3. CASE BypassCommit(t)
      BY <1>app, <1>ref, <3>3 DEF BypassCommit, References, AppRow
    <3> QED
      BY <1>2, <3>1, <3>2, <3>3
  <2> QED
    BY <2>1, <1>1
<1>3. ASSUME NEW t \in Txn, NEW fee \in Fee, ApproveCommit(t, fee)
      PROVE  Guarded
  <2>1. CASE txn[t].app = a
    <3>1. app'[a].status = "conditional_approval"
      BY <1>3, <2>1, <1>app DEF ApproveCommit, AppRow
    <3> QED
      BY <1>3, <2>1, <3>1
  <2>2. CASE txn[t].app # a
    BY <1>3, <2>2, <1>app, <1>1 DEF ApproveCommit
  <2> QED
    BY <2>1, <2>2
<1>4. ASSUME NEW t \in Txn, PromoteCommit(t)
      PROVE  Guarded
  <2>1. txn[t].app = a => txn[t].to \in {"rejected", "withdrawn"}
    BY <1>4, <1>ref, NullAssumption DEF PromoteCommit, References
  <2> DEFINE picks == Tiered(Promotable(t), txn[t].free)
  <2>2. app'[a] = IF a = txn[t].app THEN [app[a] EXCEPT !.status = txn[t].to]
                  ELSE [app[a] EXCEPT
                          !.status = IF a \in picks THEN "ready_to_admit" ELSE @,
                          !.setup = @ /\ a \notin txn[t].held]
    BY <1>4 DEF PromoteCommit
  <2> HIDE DEF picks
  <2>3. app'[a].status \in {app[a].status, "ready_to_admit", "waiting_list", "rejected", "withdrawn"}
    BY <2>1, <2>2, <1>app DEF AppRow
  <2> QED
    BY <2>3, <1>1
<1>5. ASSUME NEW b \in App, Admit(b), app[b].status = "conditional_approval"
      PROVE  Guarded
  <2>1. CASE a = b
    <3>1. app'[a].status = "approved"
      BY <1>5, <2>1, <1>app DEF Admit, AppRow
    <3> QED
      BY <1>5, <2>1, <3>1
  <2>2. CASE a # b
    BY <1>5, <2>2, <1>app, <1>1 DEF Admit
  <2> QED
    BY <2>1, <2>2
<1>6. ASSUME NEW t \in Txn, StripeConvert(t)
      PROVE  Guarded
  <2>1. app' = app \/ (Admit(txn[t].app) /\ app[txn[t].app].status = "conditional_approval")
    BY <1>6, <1>ref DEF StripeConvert, Convertible, References
  <2>2. txn[t].app \in App
    BY <1>6, <1>ref DEF StripeConvert, References
  <2> QED
    BY <2>1, <2>2, <1>5, <1>1
<1>7. ASSUME NEW b \in App, DeskPayment(b)
      PROVE  Guarded
  BY <1>7, <1>5 DEF DeskPayment
<1>8. ASSUME NEW b \in App, Lapse(b) \/ CronWrite(b)
      PROVE  Guarded
  <2>1. app'[a].status \in {app[a].status, "waiting_list"}
    BY <1>8, <1>app DEF Lapse, CronWrite, AppRow
  <2> QED
    BY <2>1, <1>1
<1>9. ASSUME CronPromote
      PROVE  Guarded
  <2>1. app'[a].status \in {app[a].status, "ready_to_admit"}
    BY <1>9, <1>app DEF CronPromote, AppRow
  <2> QED
    BY <2>1, <1>1
<1>10. ASSUME UNCHANGED app
       PROVE  Guarded
  BY <1>10
<1> QED
  BY <1>2, <1>3, <1>4, <1>6, <1>7, <1>8, <1>9, <1>10, RowWriters DEF WritesRow

\* A year group keeps its capacity or is known to have lost some.
LEMMA SeatsStay ==
  ASSUME IndInv, Next, NEW g \in Group
  PROVE  shrunk \subseteq shrunk' /\ (g \in shrunk' \/ seats'[g] >= seats[g])
<1>type. seats \in [Group -> Nat] /\ txn \in [Txn -> Request]
  BY DEF IndInv, TypeOK
<1> DEFINE Kept == shrunk \subseteq shrunk' /\ (g \in shrunk' \/ seats'[g] >= seats[g])
<1>1. ASSUME NEW h \in Group, NEW n \in 0..MaxSeats, ResizeClass(h, n)
      PROVE  Kept
  <2>1. seats' = [seats EXCEPT ![h] = n] /\ shrunk' = IF n < seats[h] THEN shrunk \cup {h} ELSE shrunk
    BY <1>1 DEF ResizeClass
  <2>2. n \in Nat /\ seats[g] \in Nat
    BY <1>type, LimitAssumption
  <2>3. CASE h = g
    BY <2>1, <2>2, <2>3, <1>type
  <2>4. CASE h # g
    BY <2>1, <2>2, <2>4, <1>type
  <2> QED
    BY <2>3, <2>4
<1>2. ASSUME NEW t \in Txn, PromoteCommit(t)
      PROVE  Kept
  <2>1. txn[t].adds \in 0..1 /\ seats[g] \in Nat
    BY <1>type DEF Request
  <2>2. seats' = [seats EXCEPT ![txn[t].group] = @ + txn[t].adds] /\ UNCHANGED shrunk
    BY <1>2 DEF PromoteCommit
  <2> QED
    BY <2>1, <2>2, <1>type
<1>3. ASSUME UNCHANGED <<seats, shrunk>>
      PROVE  Kept
  BY <1>3, <1>type
<1> QED
  BY <1>1, <1>2, <1>3
  DEF Next, RequestStep, TxnStep, Deliver, CronStep, FaultStep, SubmitCount, ApproveLock, BypassLock,
      CloseRead, OpenClass, DeskPayment, Enrol, OpenCheckout, ParentPays, ToggleModule,
      StripeDuplicate, StripeRead, Lapse, SessionExpires, SubmitCommit, ApproveCount, ApproveCommit,
      CloseWrite, BypassCount, BypassCommit, StripeStray, StripeConvert, Abort, CronScan, CronSelect,
      CronPromote, CronDone, CronRead, CronWrite, CronCount, CronCrash, CronSkips

\* The seat an approval has found free is still free when it commits: the advisory
\* lock lets nobody else count until then.
LEMMA SeatsReservedStep ==
  ASSUME IndInv, Next
  PROVE  SeatsReserved'
<1>type. TypeOK
  BY DEF IndInv
<1>txn. txn \in [Txn -> Request]
  BY <1>type DEF TypeOK
<1>ref. References
  BY DEF IndInv
<1>one. \A t1, t2 \in Txn :
          (/\ txn[t1].pc \in {"grant", "bypass"} /\ txn[t2].pc \in {"grant", "bypass"}
           /\ txn[t1].group = txn[t2].group) => t1 = t2
  BY DEF IndInv, SeatsReserved
<1>fit. \A g \in Group \ shrunk :
          Cardinality(Conditional(g)) + (IF Granting(g) THEN 1 ELSE 0) <= seats[g]
  BY DEF IndInv, SeatsReserved
<1>1. ASSUME NEW t1 \in Txn, NEW t2 \in Txn, t1 # t2, Moves(t1),
             txn'[t1].pc \in {"grant", "bypass"}, txn'[t2].pc \in {"grant", "bypass"},
             txn'[t1].group = txn'[t2].group
      PROVE  FALSE
  <2>1. AdvisoryFree(txn[t1].group) /\ txn'[t2] = txn[t2]
    BY <1>1, MovesTo
  <2>2. txn'[t1].group = txn[t1].group
    <3>1. txn'[t1].pc \in {"grant", "bypass"}
      BY <1>1
    <3>2. txn'[t1] = [txn[t1] EXCEPT !.pc = txn'[t1].pc]
      BY <1>1, <3>1, MovesTo
    <3>3. txn[t1] \in Request
      BY <1>txn
    <3> QED
      BY <3>2, <3>3 DEF Request
  <2> QED
    BY <1>1, <2>1, <2>2 DEF AdvisoryFree
<1>2. ASSUME NEW t1 \in Txn, NEW t2 \in Txn, t1 # t2,
             txn'[t1].pc \in {"grant", "bypass"}, txn'[t2].pc \in {"grant", "bypass"},
             txn'[t1].group = txn'[t2].group
      PROVE  FALSE
  <2>1. ~Moves(t1) /\ ~Moves(t2)
    BY <1>1, <1>2
  <2>2. txn'[t1] = txn[t1] /\ txn'[t2] = txn[t2]
    BY <1>2, <2>1, RequestSteps
  <2> QED
    BY <1>2, <2>2, <1>one
<1>3. ASSUME NEW g \in Group \ shrunk'
      PROVE  Cardinality(Conditional(g)') + (IF Granting(g)' THEN 1 ELSE 0) <= seats'[g]
  <2> DEFINE C == Conditional(g)
             D == Conditional(g)'
  <2>1. C \subseteq App /\ D \subseteq App /\ seats[g] \in Nat
    BY <1>type DEF Conditional, TypeOK
  <2>2. /\ IsFiniteSet(C) /\ Cardinality(C) \in Nat
        /\ IsFiniteSet(D) /\ Cardinality(D) \in Nat
    BY <2>1, Countable
  <2>3. g \in Group \ shrunk /\ seats'[g] >= seats[g]
    BY <1>3, SeatsStay
  <2>4. Cardinality(C) + (IF Granting(g) THEN 1 ELSE 0) <= seats[g]
    BY <2>3, <1>fit
  <2>5. seats' \in [Group -> Nat]
    BY SchoolType
  <2>6. CASE \E t \in Txn, fee \in Fee : ApproveCommit(t, fee) /\ txn[t].group = g
    <3>1. PICK t \in Txn, fee \in Fee : ApproveCommit(t, fee) /\ txn[t].group = g
      BY <2>6
    <3>2. Granting(g)
      BY <3>1 DEF ApproveCommit, Granting
    <3>3. ~Granting(g)'
      <4>1. txn'[t].pc = "idle" /\ \A t2 \in Txn \ {t} : txn'[t2] = txn[t2]
        BY <3>1, <1>txn DEF ApproveCommit, Goto, Idle, Running
      <4>2. \A t2 \in Txn \ {t} : ~(txn[t2].pc = "grant" /\ txn[t2].group = g)
        BY <3>1, <1>one DEF ApproveCommit
      <4> QED
        BY <4>1, <4>2 DEF Granting
    <3>4. D \subseteq C \cup {txn[t].app}
      <4>1. app' = [app EXCEPT ![txn[t].app].status = "conditional_approval",
                               ![txn[t].app].amount = fee, ![txn[t].app].deadline = "open"]
        BY <3>1 DEF ApproveCommit
      <4>2. \A a \in App \ {txn[t].app} : app'[a] = app[a]
        BY <4>1, <1>type DEF TypeOK
      <4> QED
        BY <4>2 DEF Conditional
    <3> HIDE DEF C, D
    <3>5. /\ IsFiniteSet(C \cup {txn[t].app})
          /\ Cardinality(C \cup {txn[t].app}) \in Nat
          /\ Cardinality(C \cup {txn[t].app}) <= Cardinality(C) + 1
      <4> DEFINE a == txn[t].app
      <4> HIDE DEF a
      <4>1. /\ IsFiniteSet(C \cup {a})
            /\ Cardinality(C \cup {a}) = IF a \in C THEN Cardinality(C) ELSE Cardinality(C) + 1
        BY <2>2, FS_AddElement
      <4>2. Cardinality(C) <= Cardinality(C) + 1 /\ Cardinality(C) + 1 \in Nat
        BY <2>2
      <4> QED
        BY <4>1, <4>2, <2>2 DEF a
    <3>6. Cardinality(D) <= Cardinality(C \cup {txn[t].app})
      BY <3>4, <3>5, FS_Subset
    <3>7. Cardinality(D) <= Cardinality(C) + 1
      BY <2>2, <3>5, <3>6
    <3>8. Cardinality(D) + 0 <= seats'[g]
      BY <2>1, <2>2, <2>3, <2>4, <2>5, <3>2, <3>7
    <3> QED
      BY <3>3, <3>8 DEF D
  <2>7. CASE ~\E t \in Txn, fee \in Fee : ApproveCommit(t, fee) /\ txn[t].group = g
    <3>1. \A a \in D : a \in C
      <4> SUFFICES ASSUME NEW a \in App, Target[a] = g, app'[a].status = "conditional_approval",
                          app[a].status # "conditional_approval"
                   PROVE  FALSE
        BY DEF Conditional
      <4>1. \E t \in Txn, fee \in Fee : ApproveCommit(t, fee) /\ txn[t].app = a
        BY StatusMoves
      <4> QED
        BY <4>1, <2>7, <1>ref DEF ApproveCommit, References
    <3> HIDE DEF C, D
    <3>2. Cardinality(D) <= Cardinality(C)
      BY <3>1, <2>2, FS_Subset
    <3>3. CASE Granting(g)' => Granting(g)
      <4>1. Cardinality(D) + (IF Granting(g)' THEN 1 ELSE 0)
              <= Cardinality(C) + (IF Granting(g) THEN 1 ELSE 0)
        BY <3>2, <3>3, <2>2
      <4> QED
        BY <4>1, <2>1, <2>2, <2>3, <2>4, <2>5 DEF D
    <3>4. CASE Granting(g)' /\ ~Granting(g)
      <4>1. PICK t \in Txn : txn'[t].pc = "grant" /\ txn'[t].group = g
        BY <3>4 DEF Granting
      <4>2. txn'[t] # txn[t]
        BY <3>4, <4>1 DEF Granting
      <4>3. Moves(t)
        BY <4>1, <4>2, RequestSteps
      <4>4. /\ txn[t].pc = "approve" /\ FreeSeats(txn[t].group) # 0 /\ UNCHANGED seats
            /\ txn'[t] = [txn[t] EXCEPT !.pc = "grant"]
        BY <4>1, <4>3, MovesTo
      <4>5. txn[t].group = g
        BY <4>1, <4>4, <1>txn DEF Request
      <4>6. Cardinality(C) + 1 <= seats[g]
        BY <4>4, <4>5, <1>type, AvailableSeats DEF C
      <4>7. Cardinality(D) + 1 <= seats'[g]
        BY <4>4, <4>6, <3>2, <2>1, <2>2
      <4> QED
        BY <3>4, <4>7 DEF D
    <3> QED
      BY <3>3, <3>4 DEF D
  <2> QED
    BY <2>6, <2>7
<1> QED
  BY <1>2, <1>3 DEF SeatsReserved

-----------------------------------------------------------------------------
(* Payments and students                                                       *)

\* A step that admits nobody leaves students and payments as they are; a desk
\* payment and a converted event put the payment on record with the student.
LEMMA BooksStep ==
  ASSUME IndInv, Next
  PROVE  \/ /\ UNCHANGED <<students, desk>>
            /\ \A a \in App : app'[a].student = app[a].student
            /\ \A e \in Event : ledger'[e] = "succeeded" <=> ledger[e] = "succeeded"
         \/ \E a \in App : Admit(a) /\ desk' = desk \cup {a} /\ UNCHANGED ledger
         \/ \E e \in Event : /\ Admit(Pays[e]) /\ UNCHANGED desk
                             /\ ledger' = [ledger EXCEPT ![e] = "succeeded"]
<1>type. TypeOK
  BY DEF IndInv
<1>app. app \in [App -> AppRow]
  BY <1>type DEF TypeOK
<1>ledger. ledger \in [Event -> {"none", "succeeded", "out_of_band"}]
  BY <1>type DEF TypeOK
<1>ref. References
  BY DEF IndInv
<1> DEFINE Kept == /\ UNCHANGED <<students, desk>>
                   /\ \A a \in App : app'[a].student = app[a].student
                   /\ \A e \in Event : ledger'[e] = "succeeded" <=> ledger[e] = "succeeded"
           Desk == \E a \in App : Admit(a) /\ desk' = desk \cup {a} /\ UNCHANGED ledger
           Converted == \E e \in Event : /\ Admit(Pays[e]) /\ UNCHANGED desk
                                         /\ ledger' = [ledger EXCEPT ![e] = "succeeded"]
<1>1. ASSUME NEW a \in App, DeskPayment(a)
      PROVE  Desk
  BY <1>1 DEF DeskPayment
<1>2. ASSUME NEW t \in Txn, StripeConvert(t)
      PROVE  Kept \/ Converted
  <2> DEFINE e == txn[t].ev
  <2>1. e \in Event /\ txn[t].app = Pays[e]
    BY <1>2, <1>ref DEF StripeConvert, References
  <2>2. CASE Convertible(e)
    BY <1>2, <2>1, <2>2 DEF StripeConvert, Record
  <2>3. CASE ~Convertible(e)
    BY <1>2, <2>3, <1>ledger DEF StripeConvert, RollBack, LedgerAfterRollback
  <2> QED
    BY <2>2, <2>3
<1>3. ASSUME NEW t \in Txn, StripeStray(t)
      PROVE  Kept
  <2> DEFINE e == txn[t].ev
  <2>1. \/ ledger' = [ledger EXCEPT ![e] = "out_of_band"] /\ ledger[e] = "none"
        \/ ledger' = [ledger EXCEPT ![e] = ledger[e]]
    BY <1>3 DEF StripeStray, Record, RollBack, LedgerAfterRollback
  <2>2. UNCHANGED <<students, desk, app>>
    BY <1>3 DEF StripeStray
  <2> HIDE DEF e
  <2> QED
    BY <2>1, <2>2, <1>ledger
<1>4. ASSUME NEW t \in Txn, SubmitCommit(t) \/ CloseWrite(t) \/ BypassCommit(t)
      PROVE  Kept
  BY <1>4, <1>app DEF SubmitCommit, CloseWrite, BypassCommit, AppRow
<1>5. ASSUME NEW t \in Txn, NEW fee \in Fee, ApproveCommit(t, fee)
      PROVE  Kept
  BY <1>5, <1>app DEF ApproveCommit, AppRow
<1>6. ASSUME NEW t \in Txn, PromoteCommit(t)
      PROVE  Kept
  <2> DEFINE picks == Tiered(Promotable(t), txn[t].free)
  <2>1. app' = [a \in App |->
                  IF a = txn[t].app THEN [app[a] EXCEPT !.status = txn[t].to]
                  ELSE [app[a] EXCEPT
                          !.status = IF a \in picks THEN "ready_to_admit" ELSE @,
                          !.setup = @ /\ a \notin txn[t].held]]
    BY <1>6 DEF PromoteCommit
  <2> HIDE DEF picks
  <2>2. \A a \in App : app'[a].student = app[a].student
    BY <2>1, <1>app DEF AppRow
  <2> QED
    BY <1>6, <2>2 DEF PromoteCommit
<1>7. ASSUME NEW a \in App, Lapse(a) \/ CronWrite(a)
      PROVE  Kept
  BY <1>7, <1>app DEF Lapse, CronWrite, AppRow
<1>8. ASSUME CronPromote
      PROVE  Kept
  BY <1>8, <1>app DEF CronPromote, AppRow
<1>9. ASSUME UNCHANGED <<app, students, desk, ledger>>
      PROVE  Kept
  BY <1>9
<1> HIDE DEF Kept, Desk, Converted
<1>10. Kept \/ Desk \/ Converted
  BY <1>1, <1>2, <1>3, <1>4, <1>5, <1>6, <1>7, <1>8, <1>9
  DEF Next, RequestStep, TxnStep, Deliver, CronStep, FaultStep, SubmitCount, ApproveLock, BypassLock,
      CloseRead, OpenClass, ResizeClass, Enrol, OpenCheckout, ParentPays, ToggleModule,
      StripeDuplicate, StripeRead, SessionExpires, ApproveCount, BypassCount, Abort, CronScan,
      CronSelect, CronDone, CronRead, CronCount, CronCrash, CronSkips
<1> QED
  BY <1>10 DEF Kept, Desk, Converted

\* The rows changed by an admission.
LEMMA AdmitResult ==
  ASSUME TypeOK, NEW b \in App, Admit(b)
  PROVE  /\ app'[b].student = TRUE
         /\ students'[b] = IF app[b].student THEN students[b] ELSE students[b] + 1
         /\ \A a \in App \ {b} : app'[a] = app[a] /\ students'[a] = students[a]
<1>1. app \in [App -> AppRow] /\ students \in [App -> Nat]
  BY DEF TypeOK
<1>2. app'[b].student = TRUE
  BY <1>1 DEF Admit, AppRow
<1>3. \A a \in App \ {b} : app'[a] = app[a]
  BY <1>1 DEF Admit
<1>4. /\ students'[b] = IF app[b].student THEN students[b] ELSE students[b] + 1
      /\ \A a \in App \ {b} : students'[a] = students[a]
  BY <1>1 DEF Admit, Materialised
<1> QED
  BY <1>2, <1>3, <1>4

\* materialised_student_id and the student are written together.
LEMMA StudentsCountedStep ==
  ASSUME IndInv, Next
  PROVE  StudentsCounted'
<1>type. TypeOK
  BY DEF IndInv
<1>one. StudentsCounted
  BY DEF IndInv
<1>1. ASSUME NEW b \in App, Admit(b)
      PROVE  StudentsCounted'
  <2>1. students[b] = IF app[b].student THEN 1 ELSE 0
    BY <1>one DEF StudentsCounted
  <2>2. students'[b] = IF app[b].student THEN students[b] ELSE students[b] + 1
    BY <1>1, <1>type, AdmitResult
  <2>3. students'[b] = 1
    BY <2>1, <2>2
  <2> QED
    <3>1. app'[b].student = TRUE /\ \A a \in App \ {b} : app'[a] = app[a] /\ students'[a] = students[a]
      BY <1>1, <1>type, AdmitResult
    <3> QED
      BY <2>3, <3>1, <1>one DEF StudentsCounted
<1>2. ASSUME UNCHANGED students, \A a \in App : app'[a].student = app[a].student
      PROVE  StudentsCounted'
  BY <1>2, <1>one DEF StudentsCounted
<1> QED
  BY <1>1, <1>2, BooksStep, PaysAssumption

\* A student and the payment behind it are committed together.
LEMMA PaidMeansAdmittedStep ==
  ASSUME IndInv, Next
  PROVE  PaidMeansAdmitted'
<1>type. TypeOK
  BY DEF IndInv
<1>ledger. ledger \in [Event -> {"none", "succeeded", "out_of_band"}]
  BY <1>type DEF TypeOK
<1>paid. \A a \in App :
           app[a].student <=> (a \in desk \/ \E e \in Event : Pays[e] = a /\ ledger[e] = "succeeded")
  BY DEF IndInv, PaidMeansAdmitted, Succeeded
<1> DEFINE Paid == \A a \in App : app'[a].student
                     <=> (a \in desk' \/ \E e \in Event : Pays[e] = a /\ ledger'[e] = "succeeded")
<1>1. ASSUME UNCHANGED desk, \A a \in App : app'[a].student = app[a].student,
             \A e \in Event : ledger'[e] = "succeeded" <=> ledger[e] = "succeeded"
      PROVE  Paid
  BY <1>1, <1>paid
<1>2. ASSUME NEW b \in App, Admit(b), desk' = desk \cup {b}, UNCHANGED ledger
      PROVE  Paid
  <2>1. app'[b].student = TRUE /\ \A a \in App \ {b} : app'[a] = app[a]
    BY <1>2, <1>type, AdmitResult
  <2> QED
    BY <1>2, <2>1, <1>paid
<1>3. ASSUME NEW f \in Event, Admit(Pays[f]), UNCHANGED desk,
             ledger' = [ledger EXCEPT ![f] = "succeeded"]
      PROVE  Paid
  <2>1. Pays[f] \in App
    BY PaysAssumption
  <2>2. app'[Pays[f]].student = TRUE /\ \A a \in App \ {Pays[f]} : app'[a] = app[a]
    BY <1>3, <2>1, <1>type, AdmitResult
  <2>3. ledger'[f] = "succeeded" /\ \A e \in Event \ {f} : ledger'[e] = ledger[e]
    BY <1>3, <1>ledger
  <2> QED
    BY <1>3, <2>1, <2>2, <2>3, <1>paid
<1>4. Paid
  BY <1>1, <1>2, <1>3, BooksStep
<1> QED
  BY <1>4 DEF PaidMeansAdmitted, Succeeded

\* Stripe gets a 200 with the commit, or for what has been recorded before.
LEMMA AckedStep ==
  ASSUME IndInv, Next
  PROVE  AckedIsRecorded'
<1>session. session \in [Event -> Session]
  BY DEF IndInv, TypeOK
<1>ledger. ledger \in [Event -> {"none", "succeeded", "out_of_band"}]
  BY DEF IndInv, TypeOK
<1>ref. References
  BY DEF IndInv
<1>acked. \A e \in Event : session[e].state = "acked" => ledger[e] # "none"
  BY DEF IndInv, AckedIsRecorded
<1> DEFINE Recorded == \A e \in Event : session'[e].state = "acked" => ledger'[e] # "none"
<1>1. ASSUME NEW e \in Event, NEW status \in {"succeeded", "out_of_band"}, Record(e, status)
      PROVE  Recorded
  <2>1. ledger'[e] # "none" /\ \A f \in Event \ {e} : ledger'[f] = ledger[f]
    BY <1>1, <1>ledger DEF Record
  <2>2. \A f \in Event \ {e} : session'[f] = session[f]
    BY <1>1, <1>session DEF Record
  <2> QED
    BY <2>1, <2>2, <1>acked
<1>2. ASSUME NEW e \in Event, RollBack(e)
      PROVE  Recorded
  <2>1. \A f \in Event : ledger'[f] = ledger[f]
    BY <1>2, <1>ledger DEF RollBack, LedgerAfterRollback
  <2>2. \A f \in Event : session'[f].state = session[f].state
    BY <1>2, <1>session DEF RollBack, AfterRollback, Session
  <2> QED
    BY <2>1, <2>2, <1>acked
<1>3. ASSUME NEW t \in Txn, StripeStray(t) \/ StripeConvert(t)
      PROVE  Recorded
  BY <1>3, <1>1, <1>2, <1>ref DEF StripeStray, StripeConvert, References
<1>4. ASSUME NEW e \in Event, StripeDuplicate(e)
      PROVE  Recorded
  BY <1>4, <1>session, <1>acked DEF StripeDuplicate, Session
<1>5. ASSUME UNCHANGED ledger, NEW e \in Event, NEW row \in Session, row.state # "acked",
             session' = [session EXCEPT ![e] = row]
      PROVE  Recorded
  BY <1>5, <1>session, <1>acked
<1>6. ASSUME NEW e \in Event, OpenCheckout(e) \/ ParentPays(e) \/ SessionExpires(e)
      PROVE  Recorded
  <2>1. UNCHANGED ledger /\ \A f \in Event \ {e} : session'[f] = session[f]
    BY <1>6, <1>session DEF OpenCheckout, ParentPays, SessionExpires
  <2>2. session'[e].state # "acked"
    BY <1>6, <1>session DEF OpenCheckout, ParentPays, SessionExpires, NoSession, Session
  <2> QED
    BY <2>1, <2>2, <1>acked
<1>7. ASSUME NEW a \in App, Lapse(a)
      PROVE  Recorded
  BY <1>7, <1>acked DEF Lapse, NoSession
<1>8. ASSUME UNCHANGED <<session, ledger>>
      PROVE  Recorded
  BY <1>8, <1>acked
<1> HIDE DEF Recorded
<1>9. Recorded
  BY <1>3, <1>4, <1>6, <1>7, <1>8
  DEF Next, RequestStep, TxnStep, Deliver, CronStep, FaultStep, SubmitCount, ApproveLock, BypassLock,
      CloseRead, OpenClass, ResizeClass, Enrol, ToggleModule, DeskPayment, SubmitCommit, CloseWrite,
      PromoteCommit, BypassCommit, ApproveCommit, ApproveCount, BypassCount, StripeRead, Abort,
      CronScan, CronSelect, CronPromote, CronDone, CronRead, CronWrite, CronCount, CronCrash,
      CronSkips
<1> QED
  BY <1>9 DEF AckedIsRecorded, Recorded

-----------------------------------------------------------------------------
(* The inductive invariant                                                     *)

\* An empty pipeline satisfies it.
LEMMA IndInvInit ==
  ASSUME Init
  PROVE  IndInv
<1>idle. /\ \A t \in Txn : txn[t] = Idle
         /\ Idle.pc = "idle" /\ Idle.held = {} /\ Idle.app = None
  BY DEF Init, Idle, Running
<1>1. TypeOK
  <2>1. app \in [App -> AppRow]
    BY DEF Init, AppRow
  <2>2. Idle \in Request
    BY RunningType DEF Idle
  <2>3. CronIdle \in Expiry
    BY DEF CronIdle, Expiry
  <2>4. session \in [Event -> Session]
    BY DEF Init, Session, NoSession
  <2>5. seats \in [Group -> Nat]
    BY LimitAssumption DEF Init
  <2>6. students \in [App -> Nat] /\ ledger \in [Event -> {"none", "succeeded", "out_of_band"}]
    BY DEF Init
  <2>7. txn \in [Txn -> Request] /\ cron \in Expiry
    BY <2>2, <2>3 DEF Init
  <2>8. /\ placed \subseteq App /\ shrunk \subseteq Group /\ desk \subseteq App
        /\ moduleOn \in BOOLEAN /\ changes \in Nat /\ faults \in Nat
    BY DEF Init
  <2> QED
    BY <2>1, <2>4, <2>5, <2>6, <2>7, <2>8 DEF TypeOK
<1>2. References
  BY <1>idle DEF References
<1>3. RowsHeld
  BY <1>idle DEF RowsHeld
<1>4. RowsExist
  BY <1>idle DEF RowsExist, Init, CronIdle
<1>5. SeatsReserved
  <2>1. ASSUME NEW g \in Group
        PROVE  Conditional(g) = {} /\ ~Granting(g) /\ seats[g] \in Nat
    BY <1>1, <1>idle DEF Init, Conditional, Granting, TypeOK
  <2>2. Cardinality({}) = 0
    BY FS_EmptySet
  <2>3. \A g \in Group \ shrunk :
          Cardinality(Conditional(g)) + (IF Granting(g) THEN 1 ELSE 0) <= seats[g]
    <3> SUFFICES ASSUME NEW g \in Group
                 PROVE  Cardinality(Conditional(g)) + (IF Granting(g) THEN 1 ELSE 0) <= seats[g]
      OBVIOUS
    <3>1. Cardinality(Conditional(g)) = 0 /\ (IF Granting(g) THEN 1 ELSE 0) = 0
      BY <2>1, <2>2
    <3> QED
      BY <2>1, <3>1
  <2> QED
    BY <2>3, <1>idle DEF SeatsReserved
<1>6. StudentsCounted
  BY DEF Init, StudentsCounted
<1>7. PaidMeansAdmitted
  BY DEF Init, PaidMeansAdmitted, Succeeded
<1>8. AckedIsRecorded
  BY DEF Init, AckedIsRecorded, NoSession
<1> QED
  BY <1>1, <1>2, <1>3, <1>4, <1>5, <1>6, <1>7, <1>8 DEF IndInv

\* Every step keeps it.
LEMMA IndInvStep ==
  ASSUME IndInv, [Next]_vars
  PROVE  IndInv'
<1>1. CASE Next
  BY <1>1, TypeStep, ReferencesStep, RowsHeldStep, RowsExistStep, SeatsReservedStep,
     StudentsCountedStep, PaidMeansAdmittedStep, AckedStep DEF IndInv
<1>2. CASE UNCHANGED vars
  <2> USE <1>2 DEF vars
  <2>1. TypeOK'
    BY DEF IndInv, TypeOK
  <2>2. References'
    BY DEF IndInv, References
  <2>3. RowsHeld' /\ RowsExist'
    BY DEF IndInv, RowsHeld, RowsExist
  <2>4. SeatsReserved'
    BY DEF IndInv, SeatsReserved, Conditional, Granting
  <2>5. StudentsCounted' /\ AckedIsRecorded'
    BY DEF IndInv, StudentsCounted, AckedIsRecorded
  <2>6. PaidMeansAdmitted'
    BY DEF IndInv, PaidMeansAdmitted, Succeeded
  <2> QED
    BY <2>1, <2>2, <2>3, <2>4, <2>5, <2>6 DEF IndInv
<1> QED
  BY <1>1, <1>2

\* What the row locks, the advisory lock and the order of reads and writes in the
\* handlers keep true together, for any number of requests.
THEOREM InvariantHolds == Spec => []IndInv
<1>1. Init => IndInv
  BY IndInvInit
<1>2. IndInv /\ [Next]_vars => IndInv'
  BY IndInvStep
<1> QED
  BY <1>1, <1>2, PTL DEF Spec

\* Every variable keeps its shape; in particular the seats counted for a promotion
\* are never negative.
THEOREM TypeCorrect == Spec => []TypeOK
<1>1. IndInv => TypeOK
  BY DEF IndInv
<1> QED
  BY <1>1, InvariantHolds, PTL

\* moveToConditionalApproval never grants more seats than a year group has, unless
\* its capacity is cut: it counts and commits under the advisory lock.
THEOREM SeatsFit == Spec => []SeatsHeldFit
<1>1. ASSUME IndInv
      PROVE  SeatsHeldFit
  <2> SUFFICES ASSUME NEW g \in Group \ shrunk
               PROVE  Cardinality(Conditional(g)) <= seats[g]
    BY DEF SeatsHeldFit
  <2>1. Cardinality(Conditional(g)) + (IF Granting(g) THEN 1 ELSE 0) <= seats[g]
    BY <1>1 DEF IndInv, SeatsReserved
  <2>2. Conditional(g) \in SUBSET App
    BY DEF Conditional
  <2>3. Cardinality(Conditional(g)) \in Nat /\ seats[g] \in Nat
    BY <1>1, <2>2, Countable DEF IndInv, TypeOK
  <2> QED
    BY <2>1, <2>3
<1>2. IndInv => SeatsHeldFit
  BY <1>1
<1> QED
  BY <1>2, InvariantHolds, PTL

\* convertToStudent creates at most one student for an application, however often
\* it becomes conditional again and by whatever way it is paid for.
THEOREM OneStudentEach == Spec => []OneStudent
<1>1. IndInv => OneStudent
  BY DEF IndInv, StudentsCounted, OneStudent
<1> QED
  BY <1>1, InvariantHolds, PTL

\* The financial gate: a student exists exactly when a payment or an override is on
\* record, whatever is rolled back, delivered twice or answered too late.
THEOREM AdmittedArePaid == Spec => []PaidMeansAdmitted
<1>1. IndInv => PaidMeansAdmitted
  BY DEF IndInv
<1> QED
  BY <1>1, InvariantHolds, PTL

\* The webhook answers Stripe with 200 only for events that are on record.
THEOREM AcknowledgedAreRecorded == Spec => []AckedIsRecorded
<1>1. IndInv => AckedIsRecorded
  BY DEF IndInv
<1> QED
  BY <1>1, InvariantHolds, PTL

\* No handler grants a seat to an application that has left ready_to_admit since
\* it was read, or approves one that no longer holds a seat.
THEOREM TransitionsGuarded == Spec => GuardedTransitions
<1> DEFINE Guarded ==
      \A a \in App :
        /\ app'[a].status = "conditional_approval" /\ app[a].status # "conditional_approval"
             => app[a].status = "ready_to_admit"
        /\ app'[a].status = "approved" /\ app[a].status # "approved"
             => app[a].status = "conditional_approval"
<1>1. ASSUME IndInv, Next
      PROVE  Guarded
  <2> SUFFICES ASSUME NEW a \in App
               PROVE  /\ app'[a].status = "conditional_approval"
                         /\ app[a].status # "conditional_approval"
                           => app[a].status = "ready_to_admit"
                      /\ app'[a].status = "approved" /\ app[a].status # "approved"
                           => app[a].status = "conditional_approval"
    OBVIOUS
  <2>1. ASSUME NEW t \in Txn, NEW fee \in Fee, ApproveCommit(t, fee)
        PROVE  app[txn[t].app].status = "ready_to_admit"
    BY <1>1, <2>1 DEF IndInv, RowsHeld, ApproveCommit
  <2> QED
    BY <1>1, <2>1, StatusMoves
<1>2. IndInv /\ [Next]_vars => [Guarded]_vars
  BY <1>1
<1> HIDE DEF Guarded
<1>3. Spec => [][Guarded]_vars
  BY <1>2, InvariantHolds, PTL DEF Spec
<1> QED
  BY <1>3 DEF GuardedTransitions, Guarded
=============================================================================
