------------------------------- MODULE MCLedger -------------------------------
(* Instances of Ledger for TLC: one household with few units of money.           *)
EXTENDS LedgerRefinement, TLC

CONSTANTS i1, i2, p1, p2, p3, f1, f2, c1, e1, e2, u1, u2, s1, s2, null

OneInvoice == {i1}
TwoInvoices == {i1, i2}
NoPayment == {}
FirstPayment == {p1}
TwoPayments == {p1, p2}
ThreePayments == {p1, p2, p3}
NoRefund == {}
OneRefund == {f1}
TwoRefunds == {f1, f2}
NoNote == {}
OneNote == {c1}
NoSession == {}
OneSession == {e1}
TwoSessions == {e1, e2}
NoUser == {}
TwoUsers == {u1, u2}
OneHandler == {s1}
TwoHandlers == {s1, s2}
OneUnit == [i \in Invoice |-> 1]
TwoUnits == [i \in Invoice |-> 2]
ThreeUnits == [i \in Invoice |-> 3]
OneUnitNote == [c \in CreditNote |-> 1]
Issued == {"issued"}
DraftOrIssued == {"draft", "issued"}

\* Handlers and users are interchangeable; so are invoices, refunds, and the
\* payments of the desk and those of Stripe among themselves.
Handlers == Permutations(Slot)
Everything == Permutations(Slot) \cup Permutations(User) \cup Permutations(Refund)
              \cup Permutations(Invoice) \cup Permutations(Desk)
              \cup Permutations(Payment \ Desk)
=============================================================================
