-------------------------------- MODULE Ledger --------------------------------
(***************************************************************************)
(* The money of one household: payments and how they are allocated to       *)
(* invoices, refunds that reverse allocations, credit notes, late fees,      *)
(* write-offs, the overdue job and card payments confirmed by Stripe.        *)
(*                                                                          *)
(* Every handler is a PostgreSQL transaction under READ COMMITTED, or reads  *)
(* a row in one statement and updates it by id in a later one.  A step that  *)
(* reads fills in the handler's copy; its writes are published by its last   *)
(* step.  Only confirmAllocations locks rows (SELECT ... FOR UPDATE), so it   *)
(* is the only one the others wait for.  Amounts are whole units; unit u of   *)
(* allocation row k is the pair <<k, u>>.                                     *)
(***************************************************************************)
EXTENDS Integers, FiniteSets

CONSTANTS
  Invoice, Payment, Refund, CreditNote,
  Desk,          \* payments staff record; the others come from Stripe
  Session,       \* Stripe checkout sessions, each with its completion event
  User,          \* staff who request and approve refunds
  Slot,          \* handlers being served at the same time
  None,          \* SQL NULL
  Total,         \* [Invoice -> Nat]: total_amount when the invoice was created
  Worth,         \* [CreditNote -> Nat]: the amount of a credit note
  Fee,           \* the amount of a late fee
  MaxApplications, \* max_applications of the late fee's configuration
  Fresh,         \* statuses an invoice starts with: "draft", "issued"
  MaxAmount,     \* bound: the amount of a payment or refund
  MaxRows,       \* bound: allocations of a payment
  MaxFaults      \* bound: rolled back transactions, lost answers, crashes

ASSUME NullAssumption ==
  None \notin Invoice \cup Payment \cup Refund \cup CreditNote \cup Session \cup User
ASSUME FiniteAssumption == IsFiniteSet(Payment) /\ IsFiniteSet(Refund) /\ Desk \subseteq Payment
ASSUME AmountAssumption == MaxAmount \in Nat /\ MaxRows \in Nat \ {0} /\ MaxFaults \in Nat
ASSUME PriceAssumption == /\ Total \in [Invoice -> Nat] /\ Worth \in [CreditNote -> Nat]
                          /\ Fee \in Nat /\ MaxApplications \in Nat
ASSUME FreshAssumption == Fresh \subseteq {"draft", "issued"}

VARIABLES
  inv,      \* rows of invoices
  pay,      \* rows of payments
  alloc,    \* rows of payment_allocations, by payment and in order of creation
  refund,   \* rows of refunds, and how often Stripe has returned the money
  note,     \* rows of credit_notes, and the sum of their applications
  session,  \* checkout sessions and the delivery of their events
  api,      \* what each handler is doing
  job,      \* the overdue-detection job
  loose,    \* invoices whose balance was written without their row lock (history)
  faults    \* how much of the bound has been used

vars == <<inv, pay, alloc, refund, note, session, api, job, loose, faults>>

-----------------------------------------------------------------------------
InvoiceStatus == {"draft", "issued", "partially_paid", "paid", "overdue", "void",
                  "cancelled", "written_off"}
Payable == {"issued", "partially_paid", "overdue"}
\* The targets the code asks of VALID_INVOICE_TRANSITIONS, and where they start.
MayBecome(to) == CASE to = "issued" -> {"draft"}
                   [] to = "cancelled" -> {"draft"}
                   [] to = "void" -> {"issued", "overdue"}
                   [] to = "written_off" -> Payable

Amount == 1..MaxAmount
Index == 1..MaxRows
Row == [inv : Invoice \cup {None}, amt : 0..MaxAmount]
NoRow == [inv |-> None, amt |-> 0]
RecalculatedRow == [balance : Int, status : InvoiceStatus]
ASSUME RowAssumption == None \notin Row /\ None \notin RecalculatedRow

\* The units of money a payment's rows allocate, and those that reach invoice i.
Units(rows) == {x \in Index \X Amount : x[2] <= rows[x[1]].amt}
Allocated(p) == Cardinality(Units(alloc[p]))
On(al, i) == {x \in Payment \X (Index \X Amount) :
                x[2] \in Units(al[x[1]]) /\ al[x[1]][x[2][1]].inv = i}
\* A handler's writes: what it leaves alone is None.
Written(f) == {k \in DOMAIN f : f[k] # None}
NoPlan == [k \in Index |-> None]
NoResult == [i \in Invoice |-> None]
Overlay(rows, plan) == [k \in Index |-> IF k \in Written(plan) THEN plan[k] ELSE rows[k]]

\* A handler at step pc; what it has read is filled in.
Running(pc, p, i) ==
  [pc |-> pc, pay |-> p, inv |-> i, ref |-> None, event |-> None, note |-> None, to |-> "posted",
   amt |-> 0, left |-> 0, total |-> 0, balance |-> 0, plan |-> NoPlan, fresh |-> NoResult]
Idle == Running("idle", None, None)

Init ==
  /\ \E first \in [Invoice -> Fresh] :
       inv = [i \in Invoice |-> [status |-> first[i], total |-> Total[i], balance |-> Total[i],
                                 written |-> 0, past |-> FALSE, marked |-> FALSE, fees |-> 0]]
  /\ pay = [p \in Payment |-> [status |-> "absent", amount |-> 0, session |-> None]]
  /\ alloc = [p \in Payment |-> [k \in Index |-> NoRow]]
  /\ refund = [f \in Refund |-> [status |-> "absent", pay |-> None, amt |-> 0,
                                 requester |-> None, approver |-> None, returned |-> 0]]
  /\ note = [c \in CreditNote |-> [left |-> Worth[c], applied |-> 0]]
  /\ session = [e \in Session |-> [state |-> "none", inv |-> None, amt |-> 0]]
  /\ api = [s \in Slot |-> Idle]
  /\ job = {}
  /\ loose = {}
  /\ faults = 0

Goto(s, step) == api' = [api EXCEPT ![s] = step]
Starts(s) == api[s].pc = "idle"
Fault == faults < MaxFaults /\ faults' = faults + 1

\* FOR UPDATE locks of confirmAllocations: the payment, and the invoices of the plan.
Confirming(s) == api[s].pc \in {"confirm", "confirm_commit"}
PaymentLocked(p) == \E s \in Slot : Confirming(s) /\ api[s].pay = p
Touched(plan) == {plan[k].inv : k \in Written(plan)} \ {None}
\* mutant: the invoices' rows are read without FOR UPDATE.
InvoiceLocked_Never(i) == FALSE
InvoiceLocked(i) == \E s \in Slot : Confirming(s) /\ i \in Touched(api[s].plan)
\* The key-share lock an inserted allocation holds on its invoice until the commit.
KeyShared(i) == \E s \in Slot : api[s].pc = "checkout_commit" /\ i \in Touched(api[s].plan)

-----------------------------------------------------------------------------
(* recalculateBalance: what a transaction that has made the writes al sees of   *)
(* an invoice, and the row it will leave behind.                                *)

deriveInvoiceStatus(row, balance) ==
  IF row.status \in {"void", "cancelled"} THEN row.status
  ELSE IF balance = 0 THEN IF row.written > 0 THEN "written_off" ELSE "paid"
  ELSE IF balance > 0 /\ balance # row.total THEN "partially_paid"
  ELSE IF balance = row.total /\ row.past THEN "overdue"
  ELSE "issued"

NewBalance(al, i) == inv[i].total - Cardinality(On(al, i)) - inv[i].written
Recalculated(al, i) == [balance |-> NewBalance(al, i),
                        status |-> deriveInvoiceStatus(inv[i], NewBalance(al, i))]
\* The allocations once plan has been written to the rows of p.
Applied(al, p, plan) == [al EXCEPT ![p] = Overlay(al[p], plan)]
RecalculatedAll(p, plan, I) ==
  [i \in Invoice |-> IF i \in I THEN Recalculated(Applied(alloc, p, plan), i) ELSE None]

\* The rows a committing handler publishes.
WriteInvoices(fresh) ==
  inv' = [i \in Invoice |-> IF i \in Written(fresh)
                            THEN [inv[i] EXCEPT !.balance = fresh[i].balance, !.status = fresh[i].status]
                            ELSE inv[i]]
WriteRows(p, plan) == alloc' = Applied(alloc, p, plan)

-----------------------------------------------------------------------------
(* createManual and confirmAllocations                                          *)

CreatePayment(p, n) ==
  /\ p \in Desk /\ pay[p].status = "absent"
  /\ pay' = [pay EXCEPT ![p].status = "posted", ![p].amount = n]
  /\ UNCHANGED <<inv, alloc, refund, note, session, api, job, loose, faults>>

Used(rows) == {k \in Index : rows[k] # NoRow}
\* The request's allocations: new rows after those the payment has.
Requests(p) == {plan \in [Index -> [inv : Invoice, amt : Amount] \cup {None}] :
                  /\ Written(plan) # {} /\ Written(plan) \cap Used(alloc[p]) = {}
                  /\ \E n \in Index : Used(alloc[p]) \cup Written(plan) = 1..n}

\* mutants: the remaining amount is not checked; the status is checked before the
\* lock is held.
ConfirmLock_Unchecked(s, p, plan) ==
  /\ Starts(s) /\ pay[p].status = "posted" /\ ~PaymentLocked(p)
  /\ \A k \in Written(plan) : ~InvoiceLocked(plan[k].inv) /\ plan[k].amt <= inv[plan[k].inv].balance
  /\ Goto(s, [Running("confirm", p, None) EXCEPT !.plan = plan])
  /\ UNCHANGED <<inv, pay, alloc, refund, note, session, job, loose, faults>>
ConfirmLock_Stale(s, p, plan) ==
  /\ Starts(s) /\ pay[p].status # "absent" /\ ~PaymentLocked(p)
  /\ Cardinality(Units(Overlay(alloc[p], plan))) <= pay[p].amount
  /\ \A k \in Written(plan) : ~InvoiceLocked(plan[k].inv) /\ plan[k].amt <= inv[plan[k].inv].balance
  /\ Goto(s, [Running("confirm", p, None) EXCEPT !.plan = plan])
  /\ UNCHANGED <<inv, pay, alloc, refund, note, session, job, loose, faults>>
ConfirmLock(s, p, plan) ==
  /\ Starts(s) /\ pay[p].status = "posted" /\ ~PaymentLocked(p)
  /\ Cardinality(Units(Overlay(alloc[p], plan))) <= pay[p].amount
  /\ \A k \in Written(plan) : LET i == plan[k].inv
                            IN ~InvoiceLocked(i) /\ ~KeyShared(i) /\ plan[k].amt <= inv[i].balance
  /\ Goto(s, [Running("confirm", p, None) EXCEPT !.plan = plan])
  /\ UNCHANGED <<inv, pay, alloc, refund, note, session, job, loose, faults>>

\* The rows are inserted and the balances recomputed from what is committed.
ConfirmRecalculate(s) ==
  /\ api[s].pc = "confirm"
  /\ Goto(s, [api[s] EXCEPT !.pc = "confirm_commit",
                !.fresh = RecalculatedAll(api[s].pay, api[s].plan, Touched(api[s].plan))])
  /\ UNCHANGED <<inv, pay, alloc, refund, note, session, job, loose, faults>>

ConfirmCommit(s) ==
  /\ api[s].pc = "confirm_commit"
  /\ WriteRows(api[s].pay, api[s].plan) /\ WriteInvoices(api[s].fresh)
  /\ Goto(s, Idle)
  /\ UNCHANGED <<pay, refund, note, session, job, loose, faults>>

-----------------------------------------------------------------------------
(* Refunds                                                                      *)

Live == {"pending_approval", "approved", "executed"}
\* A sum over refunds, in the same units.
RefundUnits(p, S) == {x \in Refund \X Amount :
                        refund[x[1]].pay = p /\ refund[x[1]].status \in S /\ x[2] <= refund[x[1]].amt}
Refunded(p, S) == Cardinality(RefundUnits(p, S))
Closed(p) == \E k \in Used(alloc[p]) : inv[alloc[p][k].inv].status \in {"void", "written_off"}

\* create reads the payment and its refunds; the insert follows the sequence's row lock.
RefundRead(s, f, p, n) ==
  /\ Starts(s) /\ refund[f].status = "absent" /\ \A o \in Slot : api[o].ref # f
  /\ pay[p].status \in {"posted", "refunded_partial"}
  /\ n <= pay[p].amount - Refunded(p, Live) /\ ~Closed(p)
  /\ Goto(s, [Running("refund", p, None) EXCEPT !.ref = f, !.amt = n])
  /\ UNCHANGED <<inv, pay, alloc, refund, note, session, job, loose, faults>>

RefundInsert(s, u) ==
  /\ api[s].pc = "refund" /\ ~PaymentLocked(api[s].pay)
  /\ refund' = [refund EXCEPT ![api[s].ref] = [@ EXCEPT
                  !.status = "pending_approval", !.pay = api[s].pay, !.amt = api[s].amt, !.requester = u]]
  /\ Goto(s, Idle)
  /\ UNCHANGED <<inv, pay, alloc, note, session, job, loose, faults>>

Decide(f, u, to) ==
  /\ refund[f].status = "pending_approval"
  /\ refund' = [refund EXCEPT ![f].status = to, ![f].approver = u]
  /\ UNCHANGED <<inv, pay, alloc, note, session, api, job, loose, faults>>
\* mutant: the requester may approve as well.
MayApprove_Anyone(f, u) == TRUE
MayApprove(f, u) == u # refund[f].requester
Approve(f, u) == MayApprove(f, u) /\ Decide(f, u, "approved")
Reject(f, u) == Decide(f, u, "rejected")

Executing == {"execute", "execute_commit"}
\* mutant: execute reads the status instead of claiming the row.
Claimed_Never(f) == FALSE
Claimed(f) == \E s \in Slot : api[s].pc \in Executing /\ api[s].ref = f
\* What a refund of n units takes from a payment's rows: the unallocated part
\* first, then the rows from the last one back.
Later(rows, k) == Cardinality({x \in Units(rows) : x[1] > k})
Reversal(p, n) ==
  LET free == pay[p].amount - Allocated(p)
      left(k) == n - (IF free > 0 THEN free ELSE 0) - Later(alloc[p], k)   \* still to reverse at row k
  IN [k \in Index |-> IF k \notin Used(alloc[p]) \/ left(k) <= 0 THEN None
                      ELSE IF left(k) >= alloc[p][k].amt THEN NoRow
                      ELSE [alloc[p][k] EXCEPT !.amt = @ - left(k)]]

\* mutant: a refund that has not been approved yet is executed too.
ExecuteClaim_Pending(s, f) ==
  /\ Starts(s) /\ refund[f].status \in {"pending_approval", "approved"} /\ ~Claimed(f)
  /\ Goto(s, [Running("execute", refund[f].pay, None) EXCEPT
                !.ref = f, !.plan = Reversal(refund[f].pay, refund[f].amt)])
  /\ UNCHANGED <<inv, pay, alloc, refund, note, session, job, loose, faults>>
\* execute: the conditional update holds the refund's row until the commit.
ExecuteClaim(s, f) ==
  /\ Starts(s) /\ refund[f].status = "approved" /\ ~Claimed(f)
  /\ Goto(s, [Running("execute", refund[f].pay, None) EXCEPT
                !.ref = f, !.plan = Reversal(refund[f].pay, refund[f].amt)])
  /\ UNCHANGED <<inv, pay, alloc, refund, note, session, job, loose, faults>>

RowsBusy(s) == \E o \in Slot \ {s} : /\ api[o].pc = "execute_commit" /\ api[o].pay = api[s].pay
                                     /\ Written(api[o].plan) \cap Written(api[s].plan) # {}
Gone(s) == \E k \in Written(api[s].plan) : alloc[api[s].pay][k] = NoRow
PaymentStatus(p, n) == IF Refunded(p, {"executed"}) + n >= pay[p].amount
                       THEN "refunded_full" ELSE "refunded_partial"

\* The rows are written; balances and the payment's status come from what is
\* committed and the transaction's own writes.
ExecuteRecalculate(s) ==
  LET p == api[s].pay
      touched == {alloc[p][k].inv : k \in Written(api[s].plan)}
  IN /\ api[s].pc = "execute" /\ ~RowsBusy(s) /\ ~Gone(s)
     /\ Goto(s, [api[s] EXCEPT !.pc = "execute_commit", !.to = PaymentStatus(p, refund[api[s].ref].amt),
                               !.fresh = RecalculatedAll(p, api[s].plan, touched)])
     /\ UNCHANGED <<inv, pay, alloc, refund, note, session, job, loose, faults>>

\* A row read for the reversal has been deleted by another refund: rolled back.
ExecuteConflict(s) ==
  /\ api[s].pc = "execute" /\ ~RowsBusy(s) /\ Gone(s)
  /\ Goto(s, Idle)
  /\ UNCHANGED <<inv, pay, alloc, refund, note, session, job, loose, faults>>

ExecuteCommit(s) ==
  LET p == api[s].pay
  IN /\ api[s].pc = "execute_commit"
     /\ ~PaymentLocked(p) /\ \A i \in Written(api[s].fresh) : ~InvoiceLocked(i)
     /\ WriteRows(p, api[s].plan) /\ WriteInvoices(api[s].fresh)
     /\ refund' = [refund EXCEPT ![api[s].ref].status = "executed"]
     /\ pay' = [pay EXCEPT ![p].status = api[s].to]
     /\ loose' = loose \cup Written(api[s].fresh)
     /\ Goto(s, IF pay[p].session = None THEN Idle
                ELSE [Running("stripe", p, None) EXCEPT !.ref = api[s].ref])
     /\ UNCHANGED <<note, session, job, faults>>

\* Stripe returns no more than the charge; a refused call marks the refund failed
\* and leaves the reversal in place.
Returned(p) == Cardinality({x \in Refund \X Amount : /\ refund[x[1]].pay = p /\ refund[x[1]].returned > 0
                                                    /\ x[2] <= refund[x[1]].amt})
StripeReturns(s) ==
  LET f == api[s].ref
  IN /\ api[s].pc = "stripe" /\ Returned(api[s].pay) + refund[f].amt <= pay[api[s].pay].amount
     /\ \/ refund' = [refund EXCEPT ![f].returned = @ + 1] /\ UNCHANGED faults
        \/ refund' = [refund EXCEPT ![f].returned = @ + 1, ![f].status = "failed"] /\ Fault
     /\ Goto(s, Idle)
     /\ UNCHANGED <<inv, pay, alloc, note, session, job, loose>>
StripeRefuses(s) ==
  /\ api[s].pc = "stripe"
  /\ \/ Returned(api[s].pay) + refund[api[s].ref].amt > pay[api[s].pay].amount /\ UNCHANGED faults
     \/ Fault
  /\ refund' = [refund EXCEPT ![api[s].ref].status = "failed"]
  /\ Goto(s, Idle)
  /\ UNCHANGED <<inv, pay, alloc, note, session, job, loose>>

-----------------------------------------------------------------------------
(* Card payments: createCheckoutSession, the parent's payment, and the webhook   *)
(* that Stripe repeats until it is answered.                                     *)

CheckoutOpen(e, i) ==
  /\ session[e].state = "none" /\ inv[i].status \in Payable
  /\ inv[i].balance \in Amount
  /\ session' = [session EXCEPT ![e] = [state |-> "open", inv |-> i, amt |-> inv[i].balance]]
  /\ UNCHANGED <<inv, pay, alloc, refund, note, api, job, loose, faults>>

ParentPays(e) ==
  /\ session[e].state = "open"
  /\ session' = [session EXCEPT ![e].state = "paid"]
  /\ UNCHANGED <<inv, pay, alloc, refund, note, api, job, loose, faults>>

Recorded(e) == \E p \in Payment : pay[p].session = e
Acknowledge(e) == session' = [session EXCEPT ![e].state = "acked"]

\* handleCheckoutCompleted finds no payment of this session and reads the invoice.
CheckoutRead(s, e) ==
  /\ Starts(s) /\ session[e].state = "paid" /\ ~Recorded(e)
  /\ Goto(s, [Running("checkout", None, session[e].inv) EXCEPT
                !.amt = session[e].amt, !.event = e, !.balance = inv[session[e].inv].balance])
  /\ UNCHANGED <<inv, pay, alloc, refund, note, session, job, loose, faults>>

CheckoutDuplicate(e) ==
  /\ session[e].state = "paid" /\ Recorded(e)
  /\ Acknowledge(e)
  /\ UNCHANGED <<inv, pay, alloc, refund, note, api, job, loose, faults>>

\* The unique index on external_event_id: an insert waits for another one of the
\* same event and fails once that one has been committed.
Inserting(s, e) == \E o \in Slot \ {s} : api[o].pc = "checkout_commit" /\ api[o].event = e
\* mutant: the index is missing.
DuplicateKey_Never(e) == FALSE
DuplicateKey(e) == Recorded(e)

\* The payment and, when the invoice read has a balance, its allocation are inserted.
CheckoutInsert(s, p) ==
  LET e == api[s].event
      i == api[s].inv
      part == IF api[s].balance < api[s].amt THEN api[s].balance ELSE api[s].amt
      plan == IF part > 0 THEN [NoPlan EXCEPT ![1] = [inv |-> i, amt |-> part]] ELSE NoPlan
  IN /\ api[s].pc = "checkout" /\ ~Inserting(s, e) /\ ~DuplicateKey(e)
     /\ p \notin Desk /\ pay[p].status = "absent" /\ \A o \in Slot : api[o].pay # p
     /\ part > 0 => ~InvoiceLocked(i)
     /\ Goto(s, [api[s] EXCEPT !.pc = "checkout_commit", !.pay = p, !.plan = plan,
                   !.fresh = RecalculatedAll(p, plan, Touched(plan))])
     /\ UNCHANGED <<inv, pay, alloc, refund, note, session, job, loose, faults>>

CheckoutRejected(s) ==
  /\ api[s].pc = "checkout" /\ ~Inserting(s, api[s].event) /\ DuplicateKey(api[s].event)
  /\ Goto(s, Idle)
  /\ UNCHANGED <<inv, pay, alloc, refund, note, session, job, loose, faults>>

\* The answer to Stripe may be lost after the commit; the event is then sent again.
CheckoutCommit(s) ==
  LET p == api[s].pay
  IN /\ api[s].pc = "checkout_commit"
     /\ pay' = [pay EXCEPT ![p] = [status |-> "posted", amount |-> api[s].amt, session |-> api[s].event]]
     /\ WriteRows(p, api[s].plan) /\ WriteInvoices(api[s].fresh)
     /\ loose' = loose \cup Written(api[s].fresh)
     /\ \/ Acknowledge(api[s].event) /\ UNCHANGED faults
        \/ UNCHANGED session /\ Fault
     /\ Goto(s, Idle)
     /\ UNCHANGED <<refund, note, job>>

-----------------------------------------------------------------------------
(* Invoices: a row is read, checked, and written by id in a later statement.     *)

InvoiceRead(s, i, pc, total, balance) ==
  /\ Starts(s)
  /\ Goto(s, [Running(pc, None, i) EXCEPT !.total = total, !.balance = balance])
  /\ UNCHANGED <<inv, pay, alloc, refund, note, session, job, loose, faults>>
InvoiceWrite(s, pc, row) ==
  /\ api[s].pc = pc /\ ~InvoiceLocked(api[s].inv)
  /\ inv' = [inv EXCEPT ![api[s].inv] = row]
  /\ Goto(s, Idle)
Here(s) == inv[api[s].inv]
Loosen(s) == loose' = loose \cup {api[s].inv}

\* issue without approval, cancel of a draft, voidInvoice.
StatusRead(s, i, to) ==
  /\ inv[i].status \in MayBecome(to)
  /\ to = "void" => inv[i].balance = inv[i].total
  /\ InvoiceRead(s, i, to, 0, 0)
StatusWrite(s, to) ==
  /\ InvoiceWrite(s, to, [Here(s) EXCEPT !.status = to])
  /\ UNCHANGED <<pay, alloc, refund, note, session, job, loose, faults>>

WriteOffRead(s, i) ==
  /\ inv[i].status \in MayBecome("written_off")
  /\ InvoiceRead(s, i, "write_off", 0, inv[i].balance)
WriteOffWrite(s) ==
  /\ InvoiceWrite(s, "write_off", [Here(s) EXCEPT !.status = "written_off",
                                                  !.written = api[s].balance, !.balance = 0])
  /\ Loosen(s)
  /\ UNCHANGED <<pay, alloc, refund, note, session, job, faults>>

LateFeeRead(s, i) ==
  /\ inv[i].status \in Payable /\ inv[i].past /\ inv[i].fees < MaxApplications
  /\ InvoiceRead(s, i, "late_fee", inv[i].total, inv[i].balance)
LateFeeWrite(s) ==
  /\ InvoiceWrite(s, "late_fee", [Here(s) EXCEPT !.total = api[s].total + Fee,
                                                 !.balance = api[s].balance + Fee, !.fees = @ + 1])
  /\ Loosen(s)
  /\ UNCHANGED <<pay, alloc, refund, note, session, job, faults>>

\* applyToInvoice: the note's and the invoice's rows as read decide and are written.
CreditRead(s, c, i, n) ==
  /\ Starts(s) /\ n <= note[c].left /\ inv[i].status \in Payable /\ inv[i].balance > 0
  /\ Goto(s, [Running("credit", None, i) EXCEPT !.balance = inv[i].balance, !.note = c, !.left = note[c].left,
                !.amt = IF n < inv[i].balance THEN n ELSE inv[i].balance])
  /\ UNCHANGED <<inv, pay, alloc, refund, note, session, job, loose, faults>>
CreditWrite(s) ==
  LET b == api[s].balance - api[s].amt
  IN /\ InvoiceWrite(s, "credit", [Here(s) EXCEPT !.balance = b,
                                     !.status = IF b = 0 THEN "paid" ELSE "partially_paid"])
     /\ note' = [note EXCEPT ![api[s].note] = [left |-> api[s].left - api[s].amt,
                                               applied |-> @.applied + api[s].amt]]
     /\ Loosen(s)
     /\ UNCHANGED <<pay, alloc, refund, session, job, faults>>

DueDatePasses(i) ==
  /\ ~inv[i].past
  /\ inv' = [inv EXCEPT ![i].past = TRUE]
  /\ UNCHANGED <<pay, alloc, refund, note, session, api, job, loose, faults>>

\* The overdue job selects the invoices and then marks each of them by id.
Unmarked == {i \in Invoice : inv[i].status \in {"issued", "partially_paid"} /\ inv[i].past /\ ~inv[i].marked}
OverdueScan ==
  /\ job = {} /\ Unmarked # {}
  /\ job' = Unmarked
  /\ UNCHANGED <<inv, pay, alloc, refund, note, session, api, loose, faults>>
OverdueWrite ==
  /\ job # {} /\ \A i \in job : ~InvoiceLocked(i)
  /\ inv' = [i \in Invoice |-> IF i \in job THEN [inv[i] EXCEPT !.status = "overdue", !.marked = TRUE]
                                ELSE inv[i]]
  /\ job' = {}
  /\ UNCHANGED <<pay, alloc, refund, note, session, api, loose, faults>>

\* mutant: the webhook answers 200 although it was rolled back.
RollBack_Acknowledged(s) ==
  /\ ~Starts(s) /\ Fault /\ Goto(s, Idle)
  /\ session' = [e \in Session |-> IF e = api[s].event THEN [session[e] EXCEPT !.state = "acked"]
                                  ELSE session[e]]
  /\ UNCHANGED <<inv, pay, alloc, refund, note, job, loose>>
\* A handler is rolled back, or the server stops: after a committed execution the
\* call to Stripe is then never made.
RollBack(s) ==
  /\ ~Starts(s) /\ Fault
  /\ Goto(s, Idle)
  /\ UNCHANGED <<inv, pay, alloc, refund, note, session, job, loose>>

-----------------------------------------------------------------------------
Handler(s) ==
  \/ \E p \in Payment : \/ \E plan \in Requests(p) : ConfirmLock(s, p, plan)
                         \/ \E f \in Refund, n \in Amount : RefundRead(s, f, p, n)
                         \/ CheckoutInsert(s, p)
  \/ ConfirmRecalculate(s) \/ ConfirmCommit(s)
  \/ \E u \in User : RefundInsert(s, u)
  \/ \E f \in Refund : ExecuteClaim(s, f)
  \/ ExecuteRecalculate(s) \/ ExecuteConflict(s) \/ ExecuteCommit(s)
  \/ StripeReturns(s) \/ StripeRefuses(s)
  \/ \E e \in Session : CheckoutRead(s, e)
  \/ CheckoutRejected(s) \/ CheckoutCommit(s)
  \/ \E i \in Invoice : \/ \E to \in {"issued", "cancelled", "void"} : StatusRead(s, i, to)
                         \/ WriteOffRead(s, i) \/ LateFeeRead(s, i)
                         \/ \E c \in CreditNote, n \in Amount : CreditRead(s, c, i, n)
  \/ \E to \in {"issued", "cancelled", "void"} : StatusWrite(s, to)
  \/ WriteOffWrite(s) \/ LateFeeWrite(s) \/ CreditWrite(s) \/ RollBack(s)

Environment ==
  \/ \E p \in Payment, n \in Amount : CreatePayment(p, n)
  \/ \E f \in Refund, u \in User : Approve(f, u) \/ Reject(f, u)
  \/ \E e \in Session : ParentPays(e) \/ CheckoutDuplicate(e) \/ \E i \in Invoice : CheckoutOpen(e, i)
  \/ \E i \in Invoice : DueDatePasses(i)
  \/ OverdueScan \/ OverdueWrite

Next == Environment \/ \E s \in Slot : Handler(s)
Spec == Init /\ [][Next]_vars

\* A handler that has started runs on, and Stripe repeats an event until it is
\* answered; nobody has to open a session, pay, or work on invoices and refunds.
Continues(s) ==
  \/ ConfirmRecalculate(s) \/ ConfirmCommit(s)
  \/ \E u \in User : RefundInsert(s, u)
  \/ ExecuteRecalculate(s) \/ ExecuteConflict(s) \/ ExecuteCommit(s)
  \/ StripeReturns(s) \/ StripeRefuses(s)
  \/ \E p \in Payment : CheckoutInsert(s, p)
  \/ CheckoutRejected(s) \/ CheckoutCommit(s)
  \/ \E to \in {"issued", "cancelled", "void"} : StatusWrite(s, to)
  \/ WriteOffWrite(s) \/ LateFeeWrite(s) \/ CreditWrite(s)
Fairness == /\ \A s \in Slot : WF_vars(Continues(s))
            /\ \A e \in Session : SF_vars(\E s \in Slot : CheckoutRead(s, e))
LiveSpec == Spec /\ Fairness

-----------------------------------------------------------------------------
(* Properties                                                                    *)

InvoiceRow == [status : InvoiceStatus, total : Nat, balance : Int, written : Int,
               past : BOOLEAN, marked : BOOLEAN, fees : Nat]
PaymentStatuses == {"posted", "refunded_partial", "refunded_full"}
PaymentRow == [status : PaymentStatuses \cup {"absent"}, amount : 0..MaxAmount,
               session : Session \cup {None}]
RefundRow == [status : Live \cup {"absent", "rejected", "failed"}, pay : Payment \cup {None},
              amt : 0..MaxAmount, requester : User \cup {None}, approver : User \cup {None},
              returned : Nat]
NoteRow == [left : Int, applied : Nat]
SessionRow == [state : {"none", "open", "paid", "acked"}, inv : Invoice \cup {None}, amt : 0..MaxAmount]
Plan == [Index -> Row \cup {None}]
Result == [Invoice -> RecalculatedRow \cup {None}]
Pcs == {"idle", "confirm", "confirm_commit", "refund", "execute", "execute_commit", "stripe",
        "checkout", "checkout_commit", "issued", "cancelled", "void", "write_off", "late_fee", "credit"}

Process ==
  [pc : Pcs, pay : Payment \cup {None}, inv : Invoice \cup {None}, ref : Refund \cup {None},
   event : Session \cup {None}, note : CreditNote \cup {None}, to : PaymentStatuses,
   amt : 0..MaxAmount, left : Int, total : Nat, balance : Int, plan : Plan, fresh : Result]

\* Every row and every copy a handler holds has the shape the schema gives it.
TypeOK ==
  /\ inv \in [Invoice -> InvoiceRow] /\ pay \in [Payment -> PaymentRow]
  /\ alloc \in [Payment -> [Index -> Row]]
  /\ refund \in [Refund -> RefundRow] /\ note \in [CreditNote -> NoteRow]
  /\ session \in [Session -> SessionRow]
  /\ api \in [Slot -> Process]
  /\ job \subseteq Invoice /\ loose \subseteq Invoice
  /\ faults \in 0..MaxFaults

\* confirmAllocations, the Stripe webhook and executing refunds, however they
\* interleave, never allocate more of a payment than its amount.
AllocationCap == \A p \in Payment : Allocated(p) <= pay[p].amount

\* An invoice whose balance only confirmAllocations has written owes its total less
\* what is allocated to it: concurrent confirmations never lose one another's rows.
ConfirmedBalance ==
  \A i \in Invoice \ loose : inv[i].balance = inv[i].total - Cardinality(On(alloc, i))

\* Two people stand behind every refund that has been executed or has left
\* through Stripe, and Stripe is asked to return its money at most once.
RefundsHonoured ==
  \A f \in Refund :
    /\ refund[f].returned <= 1
    /\ refund[f].status \in {"approved", "executed"} \/ refund[f].returned > 0 =>
         refund[f].approver # None /\ refund[f].approver # refund[f].requester

\* Concurrent and repeated deliveries of one checkout event record one payment.
OnePaymentPerSession ==
  \A p, q \in Payment : pay[p].session = pay[q].session /\ pay[p].session # None => p = q

\* A payment's allocations shrink only in a step that executes an approved refund.
ReversedByRefund ==
  [][\A p \in Payment : Allocated(p)' < Allocated(p) =>
       \E f \in Refund : refund[f].pay = p /\ refund[f].status = "approved"
                         /\ refund'[f].status = "executed"]_vars

\* Once a refund has been executed no further row is allocated from the payment.
RefundedClosed ==
  [][\A p \in Payment : pay[p].status \in {"refunded_partial", "refunded_full"} =>
       Used(alloc'[p]) \subseteq Used(alloc[p])]_vars

\* A card payment the parent has made is eventually recorded.
PaidIsRecorded == \A e \in Session : session[e].state = "paid" ~> Recorded(e)

-----------------------------------------------------------------------------
(* The inductive invariant behind the safety properties                          *)

\* Whatever the executing refunds of p have read and are about to write, together
\* with the rows p has, is within the payment: rows never grow beyond it again.
ExecutingOn(p) == {s \in Slot : api[s].pc \in Executing /\ api[s].pay = p}
Ceiling(p) == Units(alloc[p]) \cup UNION {Units(Overlay(alloc[p], api[s].plan)) : s \in ExecutingOn(p)}

\* What a handler h may rely on while it runs.
ConfirmSound(h) ==
  h.pc \in {"confirm", "confirm_commit"} =>
    /\ h.pay \in Payment /\ pay[h.pay].status = "posted"
    /\ Written(h.plan) \cap Used(alloc[h.pay]) = {}
    /\ \A k \in Written(h.plan) : h.plan[k].inv \in Invoice
    /\ Cardinality(Units(Overlay(alloc[h.pay], h.plan))) <= pay[h.pay].amount
FreshSound(h) ==
  h.pc = "confirm_commit" =>
    /\ Written(h.fresh) = Touched(h.plan)
    /\ \A i \in Written(h.fresh) \ loose :
         h.fresh[i].balance = inv[i].total - Cardinality(On(Applied(alloc, h.pay, h.plan), i))
RefundSound(h) ==
  /\ h.ref # None => h.pc \in Executing \cup {"refund", "stripe"}
  /\ h.pc = "refund" => /\ h.ref \in Refund /\ refund[h.ref].status = "absent"
                        /\ h.pay \in Payment /\ pay[h.pay].status # "absent"
ExecuteSound(h) ==
  h.pc \in Executing =>
    /\ h.ref \in Refund /\ refund[h.ref].status = "approved" /\ refund[h.ref].pay = h.pay
    /\ \A k \in Written(h.plan) :
         /\ k \in Used(alloc[h.pay]) => h.plan[k] = NoRow \/ h.plan[k].inv = alloc[h.pay][k].inv
         /\ pay[h.pay].status = "posted" =>
              k \in Used(alloc[h.pay]) /\ h.plan[k].amt <= alloc[h.pay][k].amt
CommitSound(h) ==
  h.pc = "execute_commit" =>
    /\ h.to # "posted"
    /\ \A k \in Written(h.plan) : /\ k \in Used(alloc[h.pay])
                                    /\ alloc[h.pay][k].inv \in Written(h.fresh) \cup {None}
StripeSound(h) ==
  h.pc = "stripe" => /\ h.ref \in Refund /\ refund[h.ref].returned = 0
                     /\ refund[h.ref].status = "executed"
CheckoutSound(h) ==
  /\ h.pc \in {"checkout", "checkout_commit"} => h.event \in Session /\ h.inv \in Invoice
  /\ h.pc = "checkout_commit" =>
       /\ h.pay \in Payment \ Desk /\ pay[h.pay].status = "absent" /\ ~Recorded(h.event)
       /\ Written(h.fresh) = Touched(h.plan)
       /\ Cardinality(Units(Overlay(alloc[h.pay], h.plan))) <= h.amt
InvoiceSound(h) ==
  /\ h.pc \in {"issued", "cancelled", "void", "write_off", "late_fee", "credit"} => h.inv \in Invoice
  /\ h.pc = "credit" => h.note \in CreditNote
Sound(h) == /\ ConfirmSound(h) /\ FreshSound(h) /\ RefundSound(h) /\ ExecuteSound(h)
            /\ CommitSound(h) /\ StripeSound(h) /\ CheckoutSound(h) /\ InvoiceSound(h)

\* What two handlers never share.
IsConfirming(h) == h.pc \in {"confirm", "confirm_commit"}
Apart(h, g) ==
  /\ h.ref = g.ref => h.ref = None
  /\ IsConfirming(h) /\ IsConfirming(g) => h.pay # g.pay /\ Touched(h.plan) \cap Touched(g.plan) = {}
  /\ IsConfirming(h) /\ g.pc = "checkout_commit" => Touched(h.plan) \cap Touched(g.plan) = {}
  /\ h.pc = "checkout_commit" => h.pay # g.pay
  /\ h.pc = "checkout_commit" /\ g.pc = "checkout_commit" => h.event # g.event
  /\ h.pc = "execute_commit" /\ g.pc = "execute_commit" /\ h.pay = g.pay =>
       Written(h.plan) \cap Written(g.plan) = {}

PaymentSound(p) ==
  /\ pay[p].status = "absent" => pay[p].session = None /\ Used(alloc[p]) = {}
  /\ Cardinality(Ceiling(p)) <= pay[p].amount
Signed(f) == refund[f].approver # None /\ refund[f].approver # refund[f].requester
RefundRowSound(f) ==
  /\ refund[f].status # "absent" => refund[f].pay \in Payment /\ pay[refund[f].pay].status # "absent"
  /\ refund[f].status \in {"approved", "executed", "failed"} => Signed(f)
  /\ refund[f].returned <= 1
  /\ refund[f].returned > 0 => refund[f].status \in {"executed", "failed"}
InvoiceRowSound(i) ==
  i \notin loose => /\ inv[i].balance = inv[i].total - Cardinality(On(alloc, i))
                    /\ inv[i].written = 0
SessionSound(e) == session[e].state \in {"open", "paid"} => session[e].inv \in Invoice

IndInv ==
  /\ TypeOK
  /\ \A s \in Slot : Sound(api[s])
  /\ \A s \in Slot, t \in Slot : s # t => Apart(api[s], api[t])
  /\ \A p \in Payment : PaymentSound(p)
  /\ \A f \in Refund : RefundRowSound(f)
  /\ \A i \in Invoice : InvoiceRowSound(i)
  /\ \A e \in Session : SessionSound(e)
  /\ OnePaymentPerSession

-----------------------------------------------------------------------------
(* What the documents say and the code does not do                               *)

\* finance-security-spec 13.5 and the comment in create: concurrent refunds never
\* total more than the payment.
RefundCap == \A p \in Payment : Refunded(p, {"executed"}) <= pay[p].amount

\* finance-security-spec 13.7: a fully refunded payment pays for nothing any more.
RefundReleases == \A p \in Payment : pay[p].status = "refunded_full" => Allocated(p) = 0

\* finance-e2e-spec 48.1: the balance equation after every flow.
BalanceEquation ==
  \A i \in Invoice : inv[i].balance = inv[i].total - Cardinality(On(alloc, i)) - inv[i].written

\* finance-e2e-spec 48.4: the status follows from the executed refunds.
StatusDerived ==
  \A p \in Payment : pay[p].status # "absent" =>
    pay[p].status = IF Refunded(p, {"executed"}) = 0 THEN "posted"
                    ELSE IF Refunded(p, {"executed"}) < pay[p].amount THEN "refunded_partial"
                    ELSE "refunded_full"

\* The check against the balance: confirmed allocations never overpay an invoice.
NotOverpaid == \A i \in Invoice \ loose : inv[i].balance >= 0

\* state-machines.md: only a payable invoice accepts an allocation.
PayableOnly ==
  [][\A i \in Invoice : Cardinality(On(alloc, i)') > Cardinality(On(alloc, i)) =>
       inv[i].status \in Payable]_vars

\* finance-integration-spec 7.4 and 7.5: parallel applications respect the note's
\* amount and the configuration's max_applications.
CreditCap == \A c \in CreditNote : note[c].applied <= Worth[c]
LateFeeCap == \A i \in Invoice : inv[i].fees <= MaxApplications

\* invoice-status.ts: paid, void, cancelled and written_off are terminal.
TerminalStays ==
  [][\A i \in Invoice : inv[i].status \in {"paid", "void", "cancelled", "written_off"} =>
       inv'[i].status = inv[i].status]_vars

\* A refund executed for a card payment is returned by Stripe or marked failed.
ReturnedOrFailed ==
  \A f \in Refund : refund[f].status = "executed" /\ pay[refund[f].pay].session # None
                      ~> refund[f].returned > 0 \/ refund[f].status = "failed"
=============================================================================
