----------------------------- MODULE Admissions -----------------------------
(***************************************************************************)
(* The admissions pipeline: applications compete for the seats of a year   *)
(* group, a conditional approval holds a seat until it is paid for or its   *)
(* deadline lapses, and a payment creates the student.                      *)
(*                                                                          *)
(* Every handler is one PostgreSQL transaction under READ COMMITTED.  Its    *)
(* reads see committed rows and its own writes; its writes are published at  *)
(* the commit, which is its last step.  held is the set of application rows  *)
(* it has locked (SELECT ... FOR UPDATE, or an update not yet committed); a  *)
(* writer waits for a row somebody else holds.  What takes a lock or writes  *)
(* and then reads nothing more is one step with what follows.                *)
(***************************************************************************)
EXTENDS Integers, FiniteSets

CONSTANTS
  App,           \* applications
  Group,         \* pairs of academic year and year group
  Target,        \* [App -> Group]: target_academic_year_id, target_year_group_id
  Sibling,       \* applications with is_sibling_application
  Event,         \* Stripe checkout sessions, each with its completion event
  Pays,          \* [Event -> App]: the session's metadata.application_id
  Fee,           \* upfront amounts a fee structure may yield
  Txn,           \* requests being served at the same time
  None,          \* SQL NULL
  MaxSeats,      \* bound: seats of a year group
  MaxChanges,    \* bound: changes of a class or of the module's setting
  MaxFaults      \* bound: rolled back transactions, lost answers, crashes of the cron

ASSUME GroupAssumption == Target \in [App -> Group]
ASSUME PaysAssumption == Pays \in [Event -> App]
ASSUME FiniteAssumption == IsFiniteSet(App)
ASSUME SiblingAssumption == Sibling \subseteq App
ASSUME NullAssumption == None \notin App \cup Group \cup Event \cup Fee
ASSUME LimitAssumption == MaxSeats \in Nat /\ MaxChanges \in Nat /\ MaxFaults \in Nat

VARIABLES
  app,        \* rows of applications
  students,   \* rows of students created from an application
  placed,     \* applications whose student is enrolled in a class
  seats,      \* capacity of the active classes of a year group
  shrunk,     \* year groups that have lost capacity (history)
  session,    \* checkout sessions and the delivery of their events
  ledger,     \* admissions_payment_events, by stripe_event_id
  desk,       \* applications with a cash, bank transfer or override record
  txn,        \* what each request is doing
  cron,       \* the payment-expiry job
  moduleOn,   \* the admissions module is enabled
  changes, faults   \* how much of each bound has been used

classes == <<placed, seats, shrunk>>
money == <<session, ledger, desk>>
used == <<changes, faults>>
vars == <<app, students, placed, seats, shrunk, session, ledger, desk, txn, cron,
          moduleOn, changes, faults>>

-----------------------------------------------------------------------------
AppStatus == {"absent", "ready_to_admit", "waiting_list", "conditional_approval",
              "approved", "rejected", "withdrawn"}
Closable == {"ready_to_admit", "waiting_list", "conditional_approval"}

\* A transaction at step pc on application a; what it has read is filled in.
Running(pc, a, held) ==
  [pc |-> pc, app |-> a, group |-> IF a = None THEN None ELSE Target[a], ev |-> None,
   to |-> "absent", setup |-> FALSE, seen |-> "absent", free |-> 0, held |-> held, adds |-> 0]
Idle == Running("idle", None, {})
NoSession == [state |-> "none", amount |-> None]
CronIdle == [pc |-> "idle", todo |-> {}, groups |-> {}, app |-> None, group |-> None,
             free |-> 0, picks |-> {}]

Init ==
  /\ app = [a \in App |-> [status |-> "absent", setup |-> FALSE, amount |-> None,
                           deadline |-> "none", student |-> FALSE, applied |-> 0]]
  /\ students = [a \in App |-> 0]
  /\ placed = {}
  /\ seats \in [Group -> 0..MaxSeats] /\ shrunk = {}
  /\ session = [e \in Event |-> NoSession]
  /\ ledger = [e \in Event |-> "none"]
  /\ desk = {}
  /\ txn = [t \in Txn |-> Idle]
  /\ cron = CronIdle
  /\ moduleOn = TRUE
  /\ changes = 0 /\ faults = 0

Fault == faults < MaxFaults /\ faults' = faults + 1
Change == changes < MaxChanges /\ changes' = changes + 1
Goto(t, step) == txn' = [txn EXCEPT ![t] = step]

-----------------------------------------------------------------------------
(* Locks and capacity                                                         *)

Locked_Never(a) == FALSE   \* mutant: the row locks are not taken
Locked(a) == \E t \in Txn : a \in txn[t].held
LockedByOther(t, a) == \E t2 \in Txn \ {t} : a \in txn[t2].held

\* pg_advisory_xact_lock on the year group, kept until the transaction ends.
AdvisoryFree_Never(g) == TRUE   \* mutant: the advisory lock is not taken
AdvisoryFree(g) == ~\E t \in Txn : txn[t].group = g /\ txn[t].pc \in {"grant", "bypass"}

Clamp(n) == IF n < 0 THEN 0 ELSE n

Conditional(g) == {a \in App : Target[a] = g /\ app[a].status = "conditional_approval"}
Enrolled(g) == {a \in placed : Target[a] = g}

\* getAvailableSeats, for a transaction that has already written the rows in own
\* and added some seats of its own.
Available(g, own, added) ==
  Clamp(seats[g] + added - Cardinality(Enrolled(g)) - Cardinality(Conditional(g) \ own))
FreeSeats(g) == Available(g, {}, 0)
Configured(g) == seats[g] > 0

\* The waiting list: ORDER BY is_sibling_application DESC, apply_date ASC in the
\* API, by apply_date alone in the worker.
Queue(g) == {a \in App : Target[a] = g /\ app[a].status = "waiting_list" /\ ~app[a].setup}
Earlier(a, b) == app[a].applied < app[b].applied
Ahead(a, b) == \/ a \in Sibling /\ b \notin Sibling
               \/ (a \in Sibling <=> b \in Sibling) /\ Earlier(a, b)
Tiered(W, n) == {b \in W : Cardinality({a \in W : Ahead(a, b)}) < n}
ByDate(W, n) == {b \in W : Cardinality({a \in W : Earlier(a, b)}) < n}

-----------------------------------------------------------------------------
(* submit: the application number's sequence row is locked until the commit,   *)
(* so submissions are routed one after the other.                              *)

SubmitCount(t, a) ==
  LET g == Target[a]
  IN /\ txn[t].pc = "idle" /\ app[a].status = "absent"
     /\ \A t2 \in Txn : txn[t2].pc # "route"
     /\ Goto(t, [Running("route", a, {}) EXCEPT
                   !.to = IF FreeSeats(g) > 0 THEN "ready_to_admit" ELSE "waiting_list",
                   !.setup = ~Configured(g)])
     /\ UNCHANGED <<app, students, classes, money, cron, moduleOn, used>>

SubmitCommit(t) ==
  LET a == txn[t].app
  IN /\ txn[t].pc = "route"
     /\ app' = [app EXCEPT ![a].status = txn[t].to, ![a].setup = txn[t].setup,
                           ![a].applied = Cardinality({b \in App : app[b].status # "absent"})]
     /\ Goto(t, Idle)
     /\ UNCHANGED <<students, classes, money, cron, moduleOn, used>>

-----------------------------------------------------------------------------
(* moveToConditionalApproval                                                   *)

ApproveLock(t, a) ==
  /\ txn[t].pc = "idle" /\ moduleOn
  /\ app[a].status = "ready_to_admit" /\ ~Locked(a)
  /\ Goto(t, Running("approve", a, {a}))
  /\ UNCHANGED <<app, students, classes, money, cron, moduleOn, used>>

ApproveCount(t) ==
  LET g == txn[t].group
  IN /\ txn[t].pc = "approve" /\ AdvisoryFree(g)
     /\ Goto(t, IF FreeSeats(g) = 0 THEN Idle ELSE [txn[t] EXCEPT !.pc = "grant"])
     /\ UNCHANGED <<app, students, classes, money, cron, moduleOn, used>>

ApproveCommit(t, fee) ==
  LET a == txn[t].app
  IN /\ txn[t].pc = "grant"
     /\ app' = [app EXCEPT ![a].status = "conditional_approval",
                           ![a].amount = fee, ![a].deadline = "open"]
     /\ Goto(t, Idle)
     /\ UNCHANGED <<students, classes, money, cron, moduleOn, used>>

-----------------------------------------------------------------------------
(* reject and withdraw: read without a lock, then an unconditional update; a   *)
(* seat released is offered to the waiting list in the same transaction.       *)

CloseRead(t, a, to) ==
  /\ txn[t].pc = "idle" /\ moduleOn
  /\ app[a].status \in Closable
  /\ Goto(t, [Running("close", a, {}) EXCEPT !.to = to, !.seen = app[a].status])
  /\ UNCHANGED <<app, students, classes, money, cron, moduleOn, used>>

CloseWrite(t) ==
  LET a == txn[t].app
      g == txn[t].group
  IN /\ txn[t].pc = "close" /\ ~Locked(a)
     /\ IF txn[t].seen = "conditional_approval"
          THEN /\ Goto(t, [txn[t] EXCEPT !.pc = "promote", !.held = {a},
                                         !.free = Available(g, {a}, 0)])
               /\ UNCHANGED app
          ELSE /\ app' = [app EXCEPT ![a].status = txn[t].to]
               /\ Goto(t, Idle)
     /\ UNCHANGED <<students, classes, money, cron, moduleOn, used>>

\* A new active class; the first one of a year group also lifts
\* awaiting_year_setup from its waiting list (onYearGroupActivated).
OpenClass(t, g) ==
  LET setup == {a \in App : Target[a] = g /\ app[a].status = "waiting_list" /\ app[a].setup}
      lifted == IF Configured(g) THEN {} ELSE setup
  IN /\ txn[t].pc = "idle" /\ seats[g] < MaxSeats
     /\ ~\E t2 \in Txn : txn[t2].group = g /\ txn[t2].adds > 0   \* keeps seats within MaxSeats
     /\ \A a \in lifted : ~Locked(a)
     /\ Change
     /\ Goto(t, [Running("promote", None, lifted) EXCEPT
                   !.group = g, !.adds = 1, !.free = Available(g, {}, 1)])
     /\ UNCHANGED <<app, students, classes, money, cron, moduleOn, faults>>

\* promoteYearGroup, SELECT ... FOR UPDATE SKIP LOCKED, and the commit of the
\* transaction it runs in.
Promotable(t) ==
  {a \in App \ {txn[t].app} :
     /\ Target[a] = txn[t].group /\ app[a].status = "waiting_list"
     /\ a \in txn[t].held \/ (~app[a].setup /\ ~LockedByOther(t, a))}

PromoteCommit(t) ==
  LET picks == Tiered(Promotable(t), txn[t].free)
  IN /\ txn[t].pc = "promote"
     /\ app' = [a \in App |->
                  IF a = txn[t].app THEN [app[a] EXCEPT !.status = txn[t].to]
                  ELSE [app[a] EXCEPT
                          !.status = IF a \in picks THEN "ready_to_admit" ELSE @,
                          !.setup = @ /\ a \notin txn[t].held]]
     /\ seats' = [seats EXCEPT ![txn[t].group] = @ + txn[t].adds]
     /\ Goto(t, Idle)
     /\ UNCHANGED <<students, placed, shrunk, money, cron, moduleOn, used>>

-----------------------------------------------------------------------------
(* manuallyPromoteToReadyToAdmit                                               *)

BypassLock(t, a) ==
  /\ txn[t].pc = "idle" /\ moduleOn
  /\ app[a].status = "waiting_list" /\ ~app[a].setup /\ ~Locked(a)
  /\ Goto(t, Running("queue", a, {a}))
  /\ UNCHANGED <<app, students, classes, money, cron, moduleOn, used>>

BypassCount(t) ==
  LET g == txn[t].group
      ready == {a \in App : Target[a] = g /\ app[a].status = "ready_to_admit"}
  IN /\ txn[t].pc = "queue" /\ AdvisoryFree(g)
     /\ Goto(t, IF FreeSeats(g) - Cardinality(ready) <= 0 THEN Idle
                ELSE [txn[t] EXCEPT !.pc = "bypass"])
     /\ UNCHANGED <<app, students, classes, money, cron, moduleOn, used>>

BypassCommit(t) ==
  /\ txn[t].pc = "bypass"
  /\ app' = [app EXCEPT ![txn[t].app].status = "ready_to_admit"]
  /\ Goto(t, Idle)
  /\ UNCHANGED <<students, classes, money, cron, moduleOn, used>>

-----------------------------------------------------------------------------
(* Payment: convertToStudent and markApproved under the row lock               *)

Materialised_Ignored(a) == FALSE   \* mutant: materialised_student_id is not looked at
Materialised(a) == app[a].student

Admit(a) ==
  /\ students' = [students EXCEPT ![a] = IF Materialised(a) THEN @ ELSE @ + 1]
  /\ app' = [app EXCEPT ![a].status = "approved", ![a].deadline = "none", ![a].student = TRUE]

\* recordCashPayment, recordBankTransfer and forceApproveWithOverride; only the
\* override goes through without an amount on the row.
DeskPayment(a) ==
  /\ moduleOn
  /\ app[a].status = "conditional_approval" /\ ~Locked(a)
  /\ Admit(a)
  /\ desk' = desk \cup {a}
  /\ UNCHANGED <<classes, session, ledger, txn, cron, moduleOn, used>>

\* createAdmissionsCheckoutSession.  Stripe refuses an expires_at in the past, and
\* the idempotency key returns the open session instead of a second one.
OpenCheckout(e) ==
  LET a == Pays[e]
  IN /\ session[e].state = "none" /\ ledger[e] = "none"
     /\ \A e2 \in Event : Pays[e2] = a => session[e2].state # "open"
     /\ app[a].status = "conditional_approval"
     /\ app[a].amount # None /\ app[a].deadline = "open"
     /\ session' = [session EXCEPT ![e] = [state |-> "open", amount |-> app[a].amount]]
     /\ UNCHANGED <<app, students, classes, ledger, desk, txn, cron, moduleOn, used>>

ParentPays(e) ==
  /\ session[e].state = "open"
  /\ session' = [session EXCEPT ![e].state = "paid"]
  /\ UNCHANGED <<app, students, classes, ledger, desk, txn, cron, moduleOn, used>>

\* Stripe closes a session after 23 hours, however far the deadline is.
SessionExpires(e) ==
  /\ session[e].state = "open"
  /\ session' = [session EXCEPT ![e] = NoSession]
  /\ UNCHANGED <<app, students, classes, ledger, desk, txn, cron, moduleOn, used>>

\* The payment window closes, and with it the session opened in it.
Lapse(a) ==
  /\ app[a].deadline = "open"
  /\ app' = [app EXCEPT ![a].deadline = "lapsed"]
  /\ session' = [e \in Event |-> IF Pays[e] = a /\ session[e].state = "open"
                                   THEN NoSession ELSE session[e]]
  /\ UNCHANGED <<students, classes, ledger, desk, txn, cron, moduleOn, used>>

-----------------------------------------------------------------------------
(* handleAdmissionsCheckoutCompleted.  Stripe delivers an event until it is     *)
(* answered with 200, possibly to two requests at once; a mismatch between the  *)
(* session's amount and the row's is refused without a write.                   *)

StripeDuplicate(e) ==
  /\ session[e].state = "paid" /\ ledger[e] # "none"
  /\ session' = [session EXCEPT ![e].state = "acked"]
  /\ UNCHANGED <<app, students, classes, ledger, desk, txn, cron, moduleOn, used>>

StripeRead(t, e) ==
  LET a == Pays[e]
  IN /\ txn[t].pc = "idle"
     /\ session[e].state = "paid" /\ ledger[e] = "none"
     /\ app[a].amount = session[e].amount
     /\ Goto(t, [Running(IF app[a].status = "conditional_approval" THEN "convert" ELSE "stray",
                         a, {}) EXCEPT !.ev = e])
     /\ UNCHANGED <<app, students, classes, money, cron, moduleOn, used>>

\* The event is recorded; the answer may get lost on its way to Stripe.
Record(e, status) ==
  /\ ledger' = [ledger EXCEPT ![e] = status]
  /\ \/ session' = [session EXCEPT ![e].state = "acked"] /\ UNCHANGED faults
     \/ Fault /\ UNCHANGED session

AfterRollback_Swallowed == "acked"   \* mutant: the exception is answered with 200
AfterRollback == "paid"              \* an exception is answered with an error
LedgerAfterRollback_Kept(e) == IF ledger[e] = "none" THEN "succeeded" ELSE ledger[e]   \* mutant: recorded on its own
LedgerAfterRollback(e) == ledger[e]

RollBack(e) ==
  /\ ledger' = [ledger EXCEPT ![e] = LedgerAfterRollback(e)]
  /\ session' = [session EXCEPT ![e].state = IF @ = "paid" THEN AfterRollback ELSE @]
  /\ UNCHANGED faults

\* Recorded as received_out_of_band; stripe_event_id is unique.
StripeStray(t) ==
  LET e == txn[t].ev
  IN /\ txn[t].pc = "stray"
     /\ IF ledger[e] = "none" THEN Record(e, "out_of_band") ELSE RollBack(e)
     /\ Goto(t, Idle)
     /\ UNCHANGED <<app, students, classes, desk, cron, moduleOn, changes>>

Convertible_Stale(e) == ledger[e] = "none"   \* mutant: the status read before the lock is trusted
Convertible(e) == ledger[e] = "none" /\ app[Pays[e]].status = "conditional_approval"

StripeConvert(t) ==
  LET e == txn[t].ev
      a == txn[t].app
  IN /\ txn[t].pc = "convert" /\ ~Locked(a)
     /\ IF Convertible(e) THEN Record(e, "succeeded") /\ Admit(a)
                          ELSE RollBack(e) /\ UNCHANGED <<app, students>>
     /\ Goto(t, Idle)
     /\ UNCHANGED <<classes, desk, cron, moduleOn, changes>>

-----------------------------------------------------------------------------
(* admissions:payment-expiry, every 15 minutes.  Each row is read without a     *)
(* lock and then updated by id; the year groups to promote are kept in memory.  *)

Expired_Swapped(a) == app[a].status = "conditional_approval" /\ app[a].deadline = "open"   \* mutant: deadline compared the wrong way round
Expired(a) == app[a].status = "conditional_approval" /\ app[a].deadline = "lapsed"

CronScan ==
  /\ cron.pc = "idle" /\ moduleOn
  /\ \E a \in App : Expired(a)
  /\ cron' = [CronIdle EXCEPT !.pc = "revert", !.todo = {a \in App : Expired(a)}]
  /\ UNCHANGED <<app, students, classes, money, txn, moduleOn, used>>

CronRead(a) ==
  /\ cron.pc = "revert" /\ a \in cron.todo
  /\ cron' = IF Expired(a) THEN [cron EXCEPT !.pc = "write", !.app = a]
                           ELSE [cron EXCEPT !.todo = @ \ {a}]
  /\ UNCHANGED <<app, students, classes, money, txn, moduleOn, used>>

CronWrite(a) ==
  /\ cron.pc = "write" /\ a = cron.app /\ ~Locked(a)
  /\ app' = [app EXCEPT ![a].status = "waiting_list", ![a].setup = FALSE,
                        ![a].amount = None, ![a].deadline = "none"]
  /\ cron' = [cron EXCEPT !.pc = "revert", !.todo = @ \ {a}, !.app = None,
                          !.groups = @ \cup {Target[a]}]
  /\ UNCHANGED <<students, classes, money, txn, moduleOn, used>>

CronCount(g) ==
  /\ cron.pc = "revert" /\ cron.todo = {} /\ g \in cron.groups
  /\ cron' = IF FreeSeats(g) = 0 THEN [cron EXCEPT !.groups = @ \ {g}]
             ELSE [cron EXCEPT !.pc = "select", !.group = g, !.free = FreeSeats(g)]
  /\ UNCHANGED <<app, students, classes, money, txn, moduleOn, used>>

CronSelect ==
  /\ cron.pc = "select"
  /\ cron' = [cron EXCEPT !.pc = "promote", !.picks = ByDate(Queue(cron.group), cron.free)]
  /\ UNCHANGED <<app, students, classes, money, txn, moduleOn, used>>

CronPromote ==
  /\ cron.pc = "promote"
  /\ \A a \in cron.picks : ~Locked(a)
  /\ app' = [a \in App |-> IF a \in cron.picks THEN [app[a] EXCEPT !.status = "ready_to_admit"]
                           ELSE app[a]]
  /\ cron' = [cron EXCEPT !.pc = "revert", !.groups = @ \ {cron.group}, !.group = None,
                          !.free = 0, !.picks = {}]
  /\ UNCHANGED <<students, classes, money, txn, moduleOn, used>>

CronDone ==
  /\ cron.pc = "revert" /\ cron.todo = {} /\ cron.groups = {}
  /\ cron' = CronIdle
  /\ UNCHANGED <<app, students, classes, money, txn, moduleOn, used>>

\* The revert of one row fails and the batch goes on with the next.
CronSkips(a) ==
  /\ cron.pc = "write" /\ a = cron.app
  /\ Fault
  /\ cron' = [cron EXCEPT !.pc = "revert", !.todo = @ \ {a}, !.app = None]
  /\ UNCHANGED <<app, students, classes, money, txn, moduleOn, changes>>

CronCrash ==
  /\ cron.pc # "idle"
  /\ Fault
  /\ cron' = CronIdle
  /\ UNCHANGED <<app, students, classes, money, txn, moduleOn, changes>>

-----------------------------------------------------------------------------
(* Around the pipeline: enrolments, classes and the module's setting            *)

\* bulkAssign: a student is enrolled in an active class of the year group; nothing
\* checks the class's capacity.
Enrol(a) ==
  /\ app[a].student /\ a \notin placed /\ Configured(Target[a])
  /\ placed' = placed \cup {a}
  /\ UNCHANGED <<app, students, seats, shrunk, money, txn, cron, moduleOn, used>>

\* A class is edited, closed or reopened (update, updateStatus): no hook runs.
ResizeClass(g, n) ==
  /\ Change
  /\ \A t \in Txn : txn[t].group = g => txn[t].adds = 0   \* keeps seats within MaxSeats
  /\ n # seats[g]
  /\ seats' = [seats EXCEPT ![g] = n]
  /\ shrunk' = IF n < seats[g] THEN shrunk \cup {g} ELSE shrunk
  /\ UNCHANGED <<app, students, placed, money, txn, cron, moduleOn, faults>>

ToggleModule ==
  /\ Change
  /\ moduleOn' = ~moduleOn
  /\ UNCHANGED <<app, students, classes, money, txn, cron, faults>>

\* An error, a timeout or a deadlock rolls a transaction back.
Abort(t) ==
  /\ txn[t].pc # "idle"
  /\ Fault
  /\ Goto(t, Idle)
  /\ UNCHANGED <<app, students, classes, money, cron, moduleOn, changes>>

-----------------------------------------------------------------------------
\* What families and staff ask for.
RequestStep ==
  \/ \E t \in Txn, a \in App :
       \/ SubmitCount(t, a) \/ ApproveLock(t, a) \/ BypassLock(t, a)
       \/ \E to \in {"rejected", "withdrawn"} : CloseRead(t, a, to)
  \/ \E t \in Txn, g \in Group : OpenClass(t, g)
  \/ \E g \in Group, n \in 0..MaxSeats : ResizeClass(g, n)
  \/ \E a \in App : DeskPayment(a) \/ Enrol(a)
  \/ \E e \in Event : OpenCheckout(e) \/ ParentPays(e)
  \/ ToggleModule

\* The next step of a transaction that has started.
TxnStep(t) ==
  \/ SubmitCommit(t) \/ ApproveCount(t) \/ CloseWrite(t) \/ PromoteCommit(t)
  \/ BypassCount(t) \/ BypassCommit(t) \/ StripeStray(t) \/ StripeConvert(t)
  \/ \E fee \in Fee : ApproveCommit(t, fee)

\* Stripe delivers the event of session e.
Deliver(e) == StripeDuplicate(e) \/ \E t \in Txn : StripeRead(t, e)

CronStep ==
  \/ CronScan \/ CronSelect \/ CronPromote \/ CronDone
  \/ \E a \in App : CronRead(a) \/ CronWrite(a)
  \/ \E g \in Group : CronCount(g)

FaultStep == CronCrash \/ (\E a \in App : CronSkips(a)) \/ (\E t \in Txn : Abort(t))

Next ==
  \/ RequestStep
  \/ \E t \in Txn : TxnStep(t)
  \/ \E e \in Event : Deliver(e)
  \/ \E a \in App : Lapse(a)
  \/ \E e \in Event : SessionExpires(e)
  \/ CronStep
  \/ FaultStep

Spec == Init /\ [][Next]_vars

\* Transactions end, deadlines pass, the cron runs every 15 minutes and Stripe
\* retries.  PostgreSQL hands a row or advisory lock to the requests waiting for
\* it in turn, so a step that can run again and again is taken at last (strong
\* fairness).  Families, staff and faults owe nothing.
Fairness ==
  /\ \A t \in Txn : SF_vars(TxnStep(t))
  /\ \A e \in Event : SF_vars(Deliver(e))
  /\ \A a \in App : WF_vars(Lapse(a))
  /\ SF_vars(CronStep)

FairSpec == Spec /\ Fairness

-----------------------------------------------------------------------------
(* Properties                                                                  *)

TxnPcs == {"idle", "route", "approve", "grant", "close", "promote", "queue", "bypass",
           "stray", "convert"}

AppRow == [status : AppStatus, setup : BOOLEAN, amount : Fee \cup {None},
           deadline : {"none", "open", "lapsed"}, student : BOOLEAN, applied : Nat]
Session == [state : {"none", "open", "paid", "acked"}, amount : Fee \cup {None}]
Request == [pc : TxnPcs, app : App \cup {None}, group : Group \cup {None},
            ev : Event \cup {None}, to : AppStatus, setup : BOOLEAN, seen : AppStatus,
            free : Nat, held : SUBSET App, adds : 0..1]
Expiry == [pc : {"idle", "revert", "write", "select", "promote"}, todo : SUBSET App,
           groups : SUBSET Group, app : App \cup {None}, group : Group \cup {None},
           free : Nat, picks : SUBSET App]

\* Every variable has the shape the handlers rely on; the seats counted for an
\* automatic promotion are never negative.
TypeOK ==
  /\ app \in [App -> AppRow] /\ students \in [App -> Nat]
  /\ placed \subseteq App /\ seats \in [Group -> Nat] /\ shrunk \subseteq Group
  /\ session \in [Event -> Session]
  /\ ledger \in [Event -> {"none", "succeeded", "out_of_band"}]
  /\ desk \subseteq App
  /\ txn \in [Txn -> Request] /\ cron \in Expiry
  /\ moduleOn \in BOOLEAN /\ changes \in Nat /\ faults \in Nat

\* Concurrent approvals never hold more seats than the year group has, unless its
\* capacity was cut: moveToConditionalApproval counts under the advisory lock.
SeatsHeldFit ==
  \A g \in Group \ shrunk : Cardinality(Conditional(g)) <= seats[g]

\* An application yields at most one student, although the expiry job may send an
\* approved one through the pipeline again: convertToStudent looks at
\* materialised_student_id under the row lock.
OneStudent == \A a \in App : students[a] <= 1

Succeeded(a) == {e \in Event : Pays[e] = a /\ ledger[e] = "succeeded"}

\* The financial gate: a student exists exactly when an upfront payment, a desk
\* payment or an override is on record, whichever requests were rolled back.
PaidMeansAdmitted ==
  \A a \in App : app[a].student <=> (a \in desk \/ Succeeded(a) # {})

\* Stripe is told to stop delivering only what is on record.
AckedIsRecorded == \A e \in Event : session[e].state = "acked" => ledger[e] # "none"

\* A seat is granted only from ready_to_admit, and only a held seat turns into an
\* approval, whatever the status was when the request first read it.
GuardedTransitions ==
  [][\A a \in App :
       /\ app'[a].status = "conditional_approval" /\ app[a].status # "conditional_approval"
            => app[a].status = "ready_to_admit"
       /\ app'[a].status = "approved" /\ app[a].status # "approved"
            => app[a].status = "conditional_approval"]_vars

\* While the module is enabled no seat is held for ever: it is paid for or given up,
\* or the expiry job takes it back.
HoldEnds ==
  \A a \in App : app[a].status = "conditional_approval"
                    ~> (app[a].status # "conditional_approval" \/ ~moduleOn)

\* --- The inductive invariant behind the safety properties ---

\* What a transaction works on, and what a closing or a submission will write.
References ==
  \A t \in Txn :
    /\ txn[t].pc \notin {"idle", "promote"} =>
         txn[t].app \in App /\ txn[t].group = Target[txn[t].app]
    /\ txn[t].pc \in {"stray", "convert"} =>
         txn[t].ev \in Event /\ txn[t].app = Pays[txn[t].ev]
    /\ txn[t].pc = "route" => txn[t].to \in {"ready_to_admit", "waiting_list"}
    /\ txn[t].pc = "close" => txn[t].to \in {"rejected", "withdrawn"}
    /\ txn[t].pc = "promote" =>
         /\ txn[t].group \in Group
         /\ \/ txn[t].app = None
            \/ /\ txn[t].app \in App /\ txn[t].held = {txn[t].app}
               /\ txn[t].to \in {"rejected", "withdrawn"}

\* A row is held by one transaction at a time, and whoever checked a row's status
\* under its lock may still rely on it.
RowsHeld ==
  /\ \A t1, t2 \in Txn : t1 # t2 => txn[t1].held \cap txn[t2].held = {}
  /\ \A t \in Txn :
       /\ txn[t].pc \in {"approve", "grant"} =>
            /\ txn[t].held = {txn[t].app}
            /\ app[txn[t].app].status = "ready_to_admit"
       /\ txn[t].pc \in {"queue", "bypass"} =>
            /\ txn[t].held = {txn[t].app}
            /\ app[txn[t].app].status = "waiting_list"
       /\ txn[t].pc = "route" => app[txn[t].app].status = "absent"
  /\ \A t1, t2 \in Txn : txn[t1].pc = "route" /\ txn[t2].pc = "route" => t1 = t2

\* Whoever goes on with a row it has read goes on with a submitted application.
RowsExist ==
  /\ \A t \in Txn : txn[t].pc \in {"close", "promote"} /\ txn[t].app # None
                     => app[txn[t].app].status # "absent"
  /\ cron.pc = "write" => cron.app \in App /\ app[cron.app].status # "absent"
  /\ \A a \in cron.picks : app[a].status # "absent"

\* A seat found free under the advisory lock stays reserved until the commit.
Granting(g) == \E t \in Txn : txn[t].pc = "grant" /\ txn[t].group = g
SeatsReserved ==
  /\ \A t1, t2 \in Txn :
       (/\ txn[t1].pc \in {"grant", "bypass"} /\ txn[t2].pc \in {"grant", "bypass"}
        /\ txn[t1].group = txn[t2].group) => t1 = t2
  /\ \A g \in Group \ shrunk :
       Cardinality(Conditional(g)) + (IF Granting(g) THEN 1 ELSE 0) <= seats[g]

\* The row's materialised_student_id tells whether the student exists.
StudentsCounted == \A a \in App : students[a] = IF app[a].student THEN 1 ELSE 0

\* Everything the invariants above rest on, closed under every step: what the row
\* locks, the advisory lock and the order of reads and writes keep true together.
IndInv ==
  /\ TypeOK /\ References /\ RowsHeld /\ RowsExist /\ SeatsReserved
  /\ StudentsCounted /\ PaidMeansAdmitted /\ AckedIsRecorded

-----------------------------------------------------------------------------
(* What the documents say and the code does not do                              *)

\* "approved*", "rejected*" and "withdrawn*" are terminal: nothing leaves them.
Terminal == {"approved", "rejected", "withdrawn"}
TerminalIsFinal ==
  [][\A a \in App : app[a].status \in Terminal => app'[a].status = app[a].status]_vars

\* Automatic promotion takes siblings before others; this is about the expiry job's.
SiblingsFirst ==
  [][cron.pc = "select" =>
       \A b \in cron'.picks \ Sibling : Sibling \cap Queue(cron.group) \subseteq cron'.picks]_vars

\* Applications that hold a seat or have won one.
Taken(g) == {a \in App : Target[a] = g /\ app[a].status \in {"conditional_approval", "approved"}}

\* Held seats and admitted students together fit into the year group.
AdmittedFit == \A g \in Group \ shrunk : Cardinality(Taken(g)) <= seats[g]

\* A payment whose application has moved on is recorded as received_out_of_band.
PaidIsRecorded == \A e \in Event : session[e].state = "paid" ~> ledger[e] # "none"

\* Activating a year group drops awaiting_year_setup from its waiting list.
SetupMeansUnconfigured ==
  \A a \in App : app[a].status = "waiting_list" /\ app[a].setup => ~Configured(Target[a])

\* A seat of g is free, somebody waits for it and nobody is about to take it.
SeatUnoffered(g) ==
  /\ moduleOn /\ FreeSeats(g) > 0 /\ Cardinality(Taken(g)) < seats[g] /\ Queue(g) # {}
  /\ ~\E a \in App : Target[a] = g /\ app[a].status = "ready_to_admit"

\* A seat that becomes free is offered to the next applicant of the waiting list.
FreedSeatIsOffered == \A g \in Group : SeatUnoffered(g) ~> ~SeatUnoffered(g)
=============================================================================
