--------------------------- MODULE LedgerRefinement ---------------------------
(* The ledger implements PaymentBook: a confirmation, a delivery of a webhook and   *)
(* the execution of a refund are each one step of the book, taken when they        *)
(* commit, and what they read and lock before that does not show.                 *)
EXTENDS Ledger

BookStatus(p) == CASE pay[p].status = "absent" -> "absent"
                   [] pay[p].status = "posted" -> "open"
                   [] OTHER -> "closed"

Book == INSTANCE PaymentBook WITH
  Money <- 0..MaxAmount,
  payment <- [p \in Payment |-> [status |-> BookStatus(p), amount |-> pay[p].amount,
                                 source |-> pay[p].session]],
  rows <- [p \in Payment |-> Used(alloc[p])],
  allocated <- [p \in Payment |-> Allocated(p)],
  refund <- [f \in Refund |-> [status |-> refund[f].status, pay |-> refund[f].pay,
                               requester |-> refund[f].requester, approver |-> refund[f].approver]],
  returned <- [f \in Refund |-> refund[f].returned]

\* However confirmations, refunds and deliveries of checkout events overlap, are
\* repeated or rolled back, payments, allocations and refunds change as if each were one
\* step (confirmAllocations, RefundsService and handleCheckoutCompleted together).
ImplementsPaymentBook == Book!Spec
=============================================================================
