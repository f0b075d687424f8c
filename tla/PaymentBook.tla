----------------------------- MODULE PaymentBook -----------------------------
(* What the ledger promises about payments and refunds, without invoices,         *)
(* transactions, locks or webhooks: a payment is recorded once, what is allocated   *)
(* of it never exceeds it, only a refund two people stand behind takes anything      *)
(* back, in one step after which nothing is added, and its money leaves once.        *)
EXTENDS Naturals

CONSTANTS
  Payment, Refund, User,
  Session,     \* checkout sessions a payment may come from
  Money,       \* possible amounts
  None

VARIABLES
  payment,     \* status (absent, open, closed), amount and source
  rows,        \* the allocations of each payment
  allocated,   \* what they add up to
  refund,      \* status, payment, requester and approver
  returned     \* refunds whose money has left

vars == <<payment, rows, allocated, refund, returned>>

Init ==
  /\ payment = [p \in Payment |-> [status |-> "absent", amount |-> 0, source |-> None]]
  /\ rows = [p \in Payment |-> {}] /\ allocated = [p \in Payment |-> 0]
  /\ refund = [f \in Refund |-> [status |-> "absent", pay |-> None,
                                 requester |-> None, approver |-> None]]
  /\ returned = [f \in Refund |-> 0]

\* Only the rows of p are written, and they stay within its amount.
Writes(p) ==
  /\ allocated'[p] <= payment'[p].amount
  /\ \A q \in Payment \ {p} : rows'[q] = rows[q] /\ allocated'[q] = allocated[q]

\* A card payment brings its allocation along.
Record(p, e, n) ==
  /\ payment[p].status = "absent" /\ \A q \in Payment : payment[q].source = e => e = None
  /\ payment' = [payment EXCEPT ![p] = [status |-> "open", amount |-> n, source |-> e]]
  /\ Writes(p)
  /\ UNCHANGED <<refund, returned>>

Allocate(p) ==
  /\ payment[p].status = "open"
  /\ rows[p] \subseteq rows'[p] /\ allocated[p] <= allocated'[p] /\ Writes(p)
  /\ UNCHANGED <<payment, refund, returned>>

Ask(f, p, u) ==
  /\ refund[f].status = "absent" /\ payment[p].status # "absent"
  /\ refund' = [refund EXCEPT ![f].status = "pending_approval", ![f].pay = p, ![f].requester = u]
  /\ UNCHANGED <<payment, rows, allocated, returned>>

Decide(f, u) ==
  /\ refund[f].status = "pending_approval"
  /\ \E to \in {"approved", "rejected"} :
       /\ to = "approved" => u # refund[f].requester
       /\ refund' = [refund EXCEPT ![f].status = to, ![f].approver = u]
  /\ UNCHANGED <<payment, rows, allocated, returned>>

Execute(f) ==
  LET p == refund[f].pay
  IN /\ refund[f].status = "approved"
     /\ refund' = [refund EXCEPT ![f].status = "executed"]
     /\ payment' = [payment EXCEPT ![p].status = "closed"]
     /\ rows'[p] \subseteq rows[p] /\ Writes(p)
     /\ UNCHANGED returned

\* The money leaves, or it does not; either way the refund may be reported as failed.
Answer(f) ==
  /\ refund[f].status = "executed" /\ returned[f] = 0
  /\ returned' \in {returned, [returned EXCEPT ![f] = 1]}
  /\ refund' \in {refund, [refund EXCEPT ![f].status = "failed"]}
  /\ UNCHANGED <<payment, rows, allocated>>

Next ==
  \/ \E p \in Payment : \/ Allocate(p)
                         \/ \E e \in Session \cup {None}, n \in Money : Record(p, e, n)
  \/ \E f \in Refund : \/ Execute(f) \/ Answer(f)
                        \/ \E u \in User : Decide(f, u) \/ \E p \in Payment : Ask(f, p, u)

Spec == Init /\ [][Next]_vars
=============================================================================
