----------------------------- MODULE LedgerProofs -----------------------------
(* Theorems about Ledger for any number of invoices, payments, refunds, credit   *)
(* notes, checkout sessions and concurrent handlers, and for any amounts.        *)
EXTENDS LedgerRefinement, FiniteSetTheorems, TLAPS

-----------------------------------------------------------------------------
(* Counting units of money                                                       *)

\* The units of a payment's rows can be counted; fewer rows make fewer units.
LEMMA UnitsCount ==
  ASSUME NEW S \in SUBSET (Index \X Amount)
  PROVE  /\ IsFiniteSet(S) /\ Cardinality(S) \in Nat
         /\ \A T \in SUBSET S : IsFiniteSet(T) /\ Cardinality(T) <= Cardinality(S)
<1>1. IsFiniteSet(Index) /\ IsFiniteSet(Amount)
  BY AmountAssumption, FS_Interval DEF Index, Amount
<1>2. IsFiniteSet(Index \X Amount)
  BY <1>1, FS_Product
<1>3. IsFiniteSet(S) /\ Cardinality(S) \in Nat
  BY <1>2, FS_Subset, FS_CardinalityType
<1>4. ASSUME NEW T \in SUBSET S PROVE IsFiniteSet(T) /\ Cardinality(T) <= Cardinality(S)
  BY <1>3, FS_Subset
<1> QED
  BY <1>3, <1>4

LEMMA UnitsOfRows ==
  ASSUME NEW rows
  PROVE  /\ Units(rows) \in SUBSET (Index \X Amount)
         /\ Cardinality(Units(rows)) \in Nat
<1>1. Units(rows) \in SUBSET (Index \X Amount)
  BY DEF Units
<1> QED
  BY <1>1, UnitsCount

LEMMA OnCount ==
  ASSUME NEW al, NEW i
  PROVE  Cardinality(On(al, i)) \in Nat
<1>1. IsFiniteSet(Index \X Amount)
  BY UnitsCount
<1>2. IsFiniteSet(Payment \X (Index \X Amount))
  BY <1>1, FiniteAssumption, FS_Product
<1>3. On(al, i) \in SUBSET (Payment \X (Index \X Amount))
  BY DEF On
<1> QED
  BY <1>2, <1>3, FS_Subset, FS_CardinalityType

\* What is allocated to an invoice depends on the rows that name it only.
LEMMA OnSame ==
  ASSUME NEW al, NEW bl, NEW i,
         \A p \in Payment, k \in Index : al[p][k].inv = i \/ bl[p][k].inv = i => al[p][k] = bl[p][k]
  PROVE  On(al, i) = On(bl, i)
BY DEF On, Units

-----------------------------------------------------------------------------
(* Types                                                                         *)

LEMMA NoPlanType == NoPlan \in Plan /\ NoResult \in Result /\ NoRow \in Row
BY AmountAssumption DEF NoPlan, NoResult, NoRow, Plan, Result, Row

LEMMA RunningType ==
  ASSUME NEW pc \in Pcs, NEW p \in Payment \cup {None}, NEW i \in Invoice \cup {None}
  PROVE  Running(pc, p, i) \in Process
BY NoPlanType, AmountAssumption DEF Running, Process, PaymentStatuses

LEMMA IdleType == Idle \in Process /\ Idle.pc = "idle" /\ Idle.ref = None /\ Idle.pay = None
BY RunningType DEF Idle, Pcs, Running

\* The fields of a handler, written one at a time.
LEMMA ProcessWritten ==
  ASSUME NEW h \in Process
  PROVE  /\ \A v \in Pcs : [h EXCEPT !.pc = v] \in Process
         /\ \A v \in Payment : [h EXCEPT !.pay = v] \in Process
         /\ \A v \in Refund : [h EXCEPT !.ref = v] \in Process
         /\ \A v \in Session : [h EXCEPT !.event = v] \in Process
         /\ \A v \in CreditNote : [h EXCEPT !.note = v] \in Process
         /\ \A v \in PaymentStatuses : [h EXCEPT !.to = v] \in Process
         /\ \A v \in 0..MaxAmount : [h EXCEPT !.amt = v] \in Process
         /\ \A v \in Int : [h EXCEPT !.left = v] \in Process /\ [h EXCEPT !.balance = v] \in Process
         /\ \A v \in Nat : [h EXCEPT !.total = v] \in Process
         /\ \A v \in Plan : [h EXCEPT !.plan = v] \in Process
         /\ \A v \in Result : [h EXCEPT !.fresh = v] \in Process
<1>1. ASSUME NEW v \in Pcs PROVE [h EXCEPT !.pc = v] \in Process
  BY DEF Process
<1>2. ASSUME NEW v \in Payment PROVE [h EXCEPT !.pay = v] \in Process
  BY DEF Process
<1>3. ASSUME NEW v \in Refund PROVE [h EXCEPT !.ref = v] \in Process
  BY DEF Process
<1>4. ASSUME NEW v \in Session PROVE [h EXCEPT !.event = v] \in Process
  BY DEF Process
<1>5. ASSUME NEW v \in CreditNote PROVE [h EXCEPT !.note = v] \in Process
  BY DEF Process
<1>6. ASSUME NEW v \in PaymentStatuses PROVE [h EXCEPT !.to = v] \in Process
  BY DEF Process
<1>7. ASSUME NEW v \in 0..MaxAmount PROVE [h EXCEPT !.amt = v] \in Process
  BY DEF Process
<1>8. ASSUME NEW v \in Int PROVE [h EXCEPT !.left = v] \in Process /\ [h EXCEPT !.balance = v] \in Process
  BY DEF Process
<1>9. ASSUME NEW v \in Nat PROVE [h EXCEPT !.total = v] \in Process
  BY DEF Process
<1>10. ASSUME NEW v \in Plan PROVE [h EXCEPT !.plan = v] \in Process
  BY DEF Process
<1>11. ASSUME NEW v \in Result PROVE [h EXCEPT !.fresh = v] \in Process
  BY DEF Process
<1> QED
  BY <1>1, <1>2, <1>3, <1>4, <1>5, <1>6, <1>7, <1>8, <1>9, <1>10, <1>11

LEMMA ProcessFields ==
  ASSUME NEW h \in Process
  PROVE  /\ h.pc \in Pcs /\ h.pay \in Payment \cup {None} /\ h.inv \in Invoice \cup {None}
         /\ h.ref \in Refund \cup {None} /\ h.event \in Session \cup {None}
         /\ h.note \in CreditNote \cup {None} /\ h.to \in PaymentStatuses /\ h.amt \in 0..MaxAmount
         /\ h.left \in Int /\ h.total \in Nat /\ h.balance \in Int
         /\ h.plan \in Plan /\ h.fresh \in Result
BY DEF Process

\* A row with some positions overwritten is a payment's rows again.
LEMMA OverlayType ==
  ASSUME NEW rows \in [Index -> Row], NEW plan \in Plan
  PROVE  /\ Overlay(rows, plan) \in [Index -> Row]
         /\ Written(plan) \subseteq Index
         /\ \A k \in Written(plan) : plan[k] \in Row
         /\ \A k \in Index : Overlay(rows, plan)[k] = IF k \in Written(plan) THEN plan[k] ELSE rows[k]
BY DEF Overlay, Written, Plan

LEMMA RecalculatedType ==
  ASSUME TypeOK, NEW al, NEW i \in Invoice
  PROVE  /\ Recalculated(al, i) \in RecalculatedRow
         /\ Recalculated(al, i) # None
         /\ Recalculated(al, i).balance = NewBalance(al, i)
<1>1. Cardinality(On(al, i)) \in Nat
  BY OnCount
<1>2. inv[i] \in InvoiceRow
  BY DEF TypeOK
<1>3. NewBalance(al, i) \in Int
  BY <1>1, <1>2 DEF NewBalance, InvoiceRow
<1>4. deriveInvoiceStatus(inv[i], NewBalance(al, i)) \in InvoiceStatus
  BY <1>2 DEF deriveInvoiceStatus, InvoiceStatus, InvoiceRow
<1>5. Recalculated(al, i) \in RecalculatedRow
  BY <1>3, <1>4 DEF Recalculated, RecalculatedRow
<1> QED
  BY <1>5, RowAssumption DEF Recalculated

LEMMA RecalculatedAllType ==
  ASSUME TypeOK, NEW p, NEW plan, NEW I
  PROVE  /\ RecalculatedAll(p, plan, I) \in Result
         /\ Written(RecalculatedAll(p, plan, I)) = I \cap Invoice
         /\ \A i \in I \cap Invoice :
              RecalculatedAll(p, plan, I)[i].balance = NewBalance(Applied(alloc, p, plan), i)
<1>1. \A i \in Invoice : /\ Recalculated(Applied(alloc, p, plan), i) \in RecalculatedRow
                         /\ Recalculated(Applied(alloc, p, plan), i) # None
                         /\ Recalculated(Applied(alloc, p, plan), i).balance = NewBalance(Applied(alloc, p, plan), i)
  BY RecalculatedType
<1>2. RecalculatedAll(p, plan, I)
        = [i \in Invoice |-> IF i \in I THEN Recalculated(Applied(alloc, p, plan), i) ELSE None]
  BY DEF RecalculatedAll
<1>3. RecalculatedAll(p, plan, I) \in Result
  BY <1>1, <1>2 DEF Result
<1>4. Written(RecalculatedAll(p, plan, I)) = I \cap Invoice
  BY <1>1, <1>2 DEF Written
<1>5. \A i \in I \cap Invoice :
        RecalculatedAll(p, plan, I)[i].balance = NewBalance(Applied(alloc, p, plan), i)
  BY <1>1, <1>2
<1> QED
  BY <1>3, <1>4, <1>5

-----------------------------------------------------------------------------
(* What a step that leaves a handler alone keeps for it                          *)

LEMMA UnitsWithin ==
  ASSUME NEW a \in [Index -> Row], NEW b \in [Index -> Row],
         \A k \in Index : a[k].amt <= b[k].amt
  PROVE  Units(a) \subseteq Units(b)
<1>1. \A k \in Index : a[k].amt \in Int /\ b[k].amt \in Int
  BY AmountAssumption DEF Row
<1>2. \A u \in Amount : u \in Int
  BY DEF Amount
<1> QED
  BY <1>1, <1>2 DEF Units

LEMMA CeilingCount ==
  ASSUME NEW p
  PROVE  /\ Ceiling(p) \in SUBSET (Index \X Amount)
         /\ Units(alloc[p]) \subseteq Ceiling(p)
         /\ Cardinality(Ceiling(p)) \in Nat
         /\ Cardinality(Units(alloc[p])) <= Cardinality(Ceiling(p))
<1>1. Ceiling(p) \in SUBSET (Index \X Amount) /\ Units(alloc[p]) \subseteq Ceiling(p)
  BY DEF Ceiling, Units
<1> QED
  BY <1>1, UnitsCount

\* Rows that only become smaller have no new units.
LEMMA OverlaySmaller ==
  ASSUME NEW rows \in [Index -> Row], NEW plan \in Plan,
         \A k \in Written(plan) : plan[k].amt <= rows[k].amt
  PROVE  Units(Overlay(rows, plan)) \subseteq Units(rows)
<1>1. \A k \in Index : rows[k].amt \in Int
  BY AmountAssumption DEF Row
<1>2. /\ Overlay(rows, plan) \in [Index -> Row]
      /\ \A k \in Index : Overlay(rows, plan)[k] = IF k \in Written(plan) THEN plan[k] ELSE rows[k]
  BY OverlayType
<1>3. \A k \in Index : Overlay(rows, plan)[k].amt <= rows[k].amt
  BY <1>1, <1>2
<1> QED
  BY <1>2, <1>3, UnitsWithin

LEMMA ConfirmKept ==
  ASSUME NEW t, api'[t] = api[t], ConfirmSound(api[t]),
         IsConfirming(api[t]) => /\ alloc'[api[t].pay] = alloc[api[t].pay]
                                 /\ pay'[api[t].pay].status = pay[api[t].pay].status
                                 /\ pay'[api[t].pay].amount = pay[api[t].pay].amount
  PROVE  ConfirmSound(api[t])'
BY DEF ConfirmSound, IsConfirming, Used, Written, Overlay, Units

LEMMA FreshKept ==
  ASSUME NEW t, api'[t] = api[t], FreshSound(api[t]), loose \subseteq loose',
         api[t].pc = "confirm_commit" =>
           \A i \in Touched(api[t].plan) \ loose' :
             /\ inv'[i].total = inv[i].total
             /\ On(Applied(alloc', api[t].pay, api[t].plan), i) = On(Applied(alloc, api[t].pay, api[t].plan), i)
  PROVE  FreshSound(api[t])'
<1> SUFFICES ASSUME api[t].pc = "confirm_commit"
             PROVE  FreshSound(api[t])'
  BY DEF FreshSound
<1>1. Written(api[t].fresh) = Touched(api[t].plan)
  BY DEF FreshSound
<1>2. \A i \in Written(api[t].fresh) \ loose' :
        api[t].fresh[i].balance = inv'[i].total - Cardinality(On(Applied(alloc', api[t].pay, api[t].plan), i))
  BY <1>1 DEF FreshSound
<1> QED
  BY <1>1, <1>2 DEF FreshSound

LEMMA RefundKept ==
  ASSUME NEW t, api'[t] = api[t],
         RefundSound(api[t]), ExecuteSound(api[t]), StripeSound(api[t]),
         api[t].ref # None => refund'[api[t].ref] = refund[api[t].ref],
         None \notin Refund,
         api[t].pc = "refund" => pay'[api[t].pay].status # "absent",
         api[t].pc \in Executing =>
           \A k \in Written(api[t].plan) :
             /\ k \in Used(alloc'[api[t].pay]) =>
                  api[t].plan[k] = NoRow \/ api[t].plan[k].inv = alloc'[api[t].pay][k].inv
             /\ pay'[api[t].pay].status = "posted" =>
                  k \in Used(alloc'[api[t].pay]) /\ api[t].plan[k].amt <= alloc'[api[t].pay][k].amt
  PROVE  RefundSound(api[t])' /\ ExecuteSound(api[t])' /\ StripeSound(api[t])'
<1>1. RefundSound(api[t])'
  BY DEF RefundSound
<1>2. ExecuteSound(api[t])'
  BY DEF ExecuteSound, Written, Used, Executing
<1>3. StripeSound(api[t])'
  BY DEF StripeSound
<1> QED
  BY <1>1, <1>2, <1>3

LEMMA CommitKept ==
  ASSUME NEW t, api'[t] = api[t], CommitSound(api[t]),
         api[t].pc = "execute_commit" =>
           \A k \in Written(api[t].plan) : alloc'[api[t].pay][k] = alloc[api[t].pay][k]
  PROVE  CommitSound(api[t])'
BY DEF CommitSound, Written, Used

LEMMA CheckoutKept ==
  ASSUME NEW t, api'[t] = api[t], CheckoutSound(api[t]),
         api[t].pc = "checkout_commit" =>
           /\ pay'[api[t].pay].status = pay[api[t].pay].status
           /\ alloc'[api[t].pay] = alloc[api[t].pay]
           /\ \A p \in Payment : pay'[p].session # api[t].event
  PROVE  CheckoutSound(api[t])'
<1>1. CASE api[t].pc # "checkout_commit"
  BY <1>1 DEF CheckoutSound
<1>2. CASE api[t].pc = "checkout_commit"
  <2>1. /\ api[t].event \in Session /\ api[t].inv \in Invoice
        /\ api[t].pay \in Payment \ Desk /\ pay'[api[t].pay].status = "absent"
        /\ Written(api[t].fresh) = Touched(api[t].plan)
    BY <1>2 DEF CheckoutSound
  <2>2. Cardinality(Units(Overlay(alloc'[api[t].pay], api[t].plan))) <= api[t].amt
    BY <1>2 DEF CheckoutSound
  <2>3. ~\E p \in Payment : pay'[p].session = api[t].event
    BY <1>2
  <2> QED
    BY <2>1, <2>2, <2>3 DEF CheckoutSound, Recorded
<1> QED
  BY <1>1, <1>2

LEMMA InvoiceKept ==
  ASSUME NEW t, api'[t] = api[t], InvoiceSound(api[t])
  PROVE  InvoiceSound(api[t])'
BY DEF InvoiceSound

LEMMA ApartKept ==
  ASSUME NEW s, NEW t, api'[s] = api[s], api'[t] = api[t], Apart(api[s], api[t])
  PROVE  Apart(api[s], api[t])'
BY DEF Apart, IsConfirming, Touched, Written

\* A handler that has finished relies on nothing.
LEMMA IdleSound ==
  ASSUME NEW t, api'[t] = Idle
  PROVE  Sound(api[t])'
BY IdleType DEF Sound, ConfirmSound, FreshSound, RefundSound, ExecuteSound, CommitSound,
   StripeSound, CheckoutSound, InvoiceSound, Executing

LEMMA IdleApart ==
  ASSUME NEW s, NEW t, api'[t] = Idle, Sound(api[s])', None \notin Payment
  PROVE  Apart(api[s], api[t])' /\ Apart(api[t], api[s])'
<1>1. /\ api'[t].pc = "idle" /\ api'[t].ref = None /\ api'[t].pay = None
  BY IdleType
<1>2. api'[s].pc = "checkout_commit" => api'[s].pay \in Payment
  BY DEF Sound, CheckoutSound
<1> QED
  BY <1>1, <1>2 DEF Apart, IsConfirming

-----------------------------------------------------------------------------
(* Steps that move one handler, and steps that write tables without touching     *)
(* payments and allocations                                                      *)

\* A handler reads, decides and goes on; no table is written.
LEMMA PureStep ==
  ASSUME IndInv, NEW s \in Slot, NEW h \in Process, api' = [api EXCEPT ![s] = h],
         UNCHANGED <<inv, pay, alloc, refund, note, session, job, loose, faults>>,
         Sound(h),
         \A t \in Slot \ {s} : Apart(h, api[t]) /\ Apart(api[t], h),
         h.pc \in Executing => Units(Overlay(alloc[h.pay], h.plan)) \subseteq Ceiling(h.pay)
  PROVE  IndInv'
<1>api. api \in [Slot -> Process]
  BY DEF IndInv, TypeOK
<1>s. api'[s] = h
  BY <1>api
<1>t. \A t \in Slot \ {s} : api'[t] = api[t]
  BY <1>api
<1>1. TypeOK'
  <2>1. api' \in [Slot -> Process]
    BY <1>api
  <2>2. TypeOK
    BY DEF IndInv
  <2> QED
    BY <2>1, <2>2 DEF TypeOK, Process, Result
<1>2. ASSUME NEW t \in Slot PROVE Sound(api[t])'
  <2>1. CASE t = s
    <3>1. ConfirmSound(api[s])' /\ FreshSound(api[s])' /\ RefundSound(api[s])'
      BY <1>s DEF Sound, ConfirmSound, FreshSound, RefundSound, Used
    <3>2. ExecuteSound(api[s])' /\ CommitSound(api[s])' /\ StripeSound(api[s])'
      BY <1>s DEF Sound, ExecuteSound, CommitSound, StripeSound, Used, Executing
    <3>3. CheckoutSound(api[s])' /\ InvoiceSound(api[s])'
      BY <1>s DEF Sound, CheckoutSound, InvoiceSound, Recorded
    <3> QED
      BY <2>1, <3>1, <3>2, <3>3 DEF Sound
  <2>2. CASE t # s
    <3>1. api'[t] = api[t] /\ Sound(api[t])
      BY <1>t, <2>2 DEF IndInv
    <3>2. ConfirmSound(api[t])'
      BY <3>1, ConfirmKept DEF Sound
    <3>3. FreshSound(api[t])'
      BY <3>1, FreshKept DEF Sound
    <3>4. RefundSound(api[t])' /\ ExecuteSound(api[t])' /\ StripeSound(api[t])'
      BY <3>1, RefundKept, NullAssumption DEF Sound, RefundSound, ExecuteSound
    <3>5. CommitSound(api[t])'
      BY <3>1, CommitKept DEF Sound
    <3>6. CheckoutSound(api[t])'
      BY <3>1, CheckoutKept DEF Sound, CheckoutSound, Recorded
    <3>7. InvoiceSound(api[t])'
      BY <3>1, InvoiceKept DEF Sound
    <3> QED
      BY <3>2, <3>3, <3>4, <3>5, <3>6, <3>7 DEF Sound
  <2> QED
    BY <2>1, <2>2
<1>3. ASSUME NEW t \in Slot, NEW u \in Slot, t # u PROVE Apart(api[t], api[u])'
  <2>1. CASE t # s /\ u # s
    <3>1. Apart(api[t], api[u]) /\ api'[t] = api[t] /\ api'[u] = api[u]
      BY <1>3, <1>t, <2>1 DEF IndInv
    <3> QED
      BY <3>1, ApartKept
  <2>2. CASE t = s
    <3>1. api'[t] = h /\ api'[u] = api[u] /\ Apart(h, api[u])
      BY <1>3, <1>s, <1>t, <2>2
    <3> QED
      BY <3>1 DEF Apart, IsConfirming
  <2>3. CASE u = s
    <3>1. api'[u] = h /\ api'[t] = api[t] /\ Apart(api[t], h)
      BY <1>3, <1>s, <1>t, <2>3
    <3> QED
      BY <3>1 DEF Apart, IsConfirming
  <2> QED
    BY <2>1, <2>2, <2>3
<1>4. ASSUME NEW p \in Payment PROVE PaymentSound(p)'
  <2>1. Ceiling(p)' \subseteq Ceiling(p)
    <3>1. ASSUME NEW t \in ExecutingOn(p)'
          PROVE  Units(Overlay(alloc'[p], api'[t].plan)) \subseteq Ceiling(p)
      <4>1. CASE t = s
        BY <1>s, <3>1, <4>1 DEF ExecutingOn
      <4>2. CASE t # s
        <5>1. t \in ExecutingOn(p) /\ api'[t] = api[t]
          BY <1>t, <3>1, <4>2 DEF ExecutingOn
        <5> QED
          BY <5>1 DEF Ceiling
      <4> QED
        BY <4>1, <4>2
    <3> QED
      BY <3>1 DEF Ceiling
  <2>2. PaymentSound(p)
    BY DEF IndInv
  <2>3. Cardinality(Ceiling(p)') <= Cardinality(Ceiling(p)) /\ Cardinality(Ceiling(p)) \in Nat
        /\ Cardinality(Ceiling(p)') \in Nat
    <3>1. Ceiling(p) \in SUBSET (Index \X Amount)
      BY CeilingCount
    <3>2. Ceiling(p)' \in SUBSET Ceiling(p)
      BY <2>1
    <3> HIDE DEF Ceiling
    <3> QED
      BY <3>1, <3>2, UnitsCount, FS_CardinalityType
  <2>4. pay[p].amount \in Int
    BY AmountAssumption DEF IndInv, TypeOK, PaymentRow
  <2> QED
    BY <2>2, <2>3, <2>4 DEF PaymentSound, Used
<1>5. \A f \in Refund : RefundRowSound(f)'
  BY DEF IndInv, RefundRowSound, Signed
<1>6. \A i \in Invoice : InvoiceRowSound(i)'
  BY DEF IndInv, InvoiceRowSound
<1>7. OnePaymentPerSession' /\ \A e \in Session : SessionSound(e)'
  BY DEF IndInv, OnePaymentPerSession, SessionSound
<1> QED
  BY <1>1, <1>2, <1>3, <1>4, <1>5, <1>6, <1>7 DEF IndInv

\* Payments and allocations are left alone, and handlers stay or finish.
LEMMA QuietStep ==
  ASSUME IndInv, TypeOK', UNCHANGED <<pay, alloc>>, loose \subseteq loose',
         \A t \in Slot : api'[t] = api[t] \/ api'[t] = Idle,
         \A i \in Invoice : i \notin loose' => /\ inv'[i].total = inv[i].total
                                               /\ inv'[i].balance = inv[i].balance
                                               /\ inv'[i].written = inv[i].written,
         \A f \in Refund : RefundRowSound(f)',
         \A e \in Session : SessionSound(e)',
         \A t \in Slot : api'[t] = api[t] /\ api[t].ref # None =>
                           refund'[api[t].ref] = refund[api[t].ref]
  PROVE  IndInv'
<1>touched. \A t \in Slot : api[t].pc = "confirm_commit" => Touched(api[t].plan) \subseteq Invoice
  BY DEF IndInv, Sound, ConfirmSound, Touched
<1>2. ASSUME NEW t \in Slot PROVE Sound(api[t])'
  <2>1. CASE api'[t] = Idle
    BY <2>1, IdleSound
  <2>2. CASE api'[t] = api[t]
    <3>1. api'[t] = api[t] /\ Sound(api[t])
      BY <2>2 DEF IndInv
    <3>2. ConfirmSound(api[t])'
      BY <3>1, ConfirmKept DEF Sound
    <3>3. FreshSound(api[t])'
      BY <3>1, <1>touched, FreshKept DEF Sound
    <3>4. RefundSound(api[t])' /\ ExecuteSound(api[t])' /\ StripeSound(api[t])'
      BY <3>1, RefundKept, NullAssumption DEF Sound, RefundSound, ExecuteSound
    <3>5. CommitSound(api[t])'
      BY <3>1, CommitKept DEF Sound
    <3>6. CheckoutSound(api[t])'
      BY <3>1, CheckoutKept DEF Sound, CheckoutSound, Recorded
    <3>7. InvoiceSound(api[t])'
      BY <3>1, InvoiceKept DEF Sound
    <3> QED
      BY <3>2, <3>3, <3>4, <3>5, <3>6, <3>7 DEF Sound
  <2> QED
    BY <2>1, <2>2
<1>3. ASSUME NEW t \in Slot, NEW u \in Slot, t # u PROVE Apart(api[t], api[u])'
  <2>1. CASE api'[t] = api[t] /\ api'[u] = api[u]
    <3>1. Apart(api[t], api[u])
      BY <1>3 DEF IndInv
    <3> QED
      BY <2>1, <3>1, ApartKept
  <2>2. CASE api'[u] = Idle
    BY <1>2, <2>2, IdleApart, NullAssumption
  <2>3. CASE api'[t] = Idle
    BY <1>2, <2>3, IdleApart, NullAssumption
  <2> QED
    BY <2>1, <2>2, <2>3
<1>4. ASSUME NEW p \in Payment PROVE PaymentSound(p)'
  <2>1. Ceiling(p)' \subseteq Ceiling(p)
    <3>1. ASSUME NEW t \in ExecutingOn(p)'
          PROVE  Units(Overlay(alloc'[p], api'[t].plan)) \subseteq Ceiling(p)
      <4>1. t \in Slot /\ api'[t].pc \in Executing /\ api'[t].pay = p
        BY <3>1 DEF ExecutingOn
      <4>2. api'[t] = api[t]
        BY <4>1, IdleType DEF Executing
      <4>3. t \in ExecutingOn(p)
        BY <4>1, <4>2 DEF ExecutingOn
      <4> QED
        BY <4>2, <4>3 DEF Ceiling
    <3> QED
      BY <3>1 DEF Ceiling
  <2>2. PaymentSound(p)
    BY DEF IndInv
  <2>3. Cardinality(Ceiling(p)') <= Cardinality(Ceiling(p)) /\ Cardinality(Ceiling(p)) \in Nat
        /\ Cardinality(Ceiling(p)') \in Nat
    <3>1. Ceiling(p) \in SUBSET (Index \X Amount)
      BY CeilingCount
    <3>2. Ceiling(p)' \in SUBSET Ceiling(p)
      BY <2>1
    <3> HIDE DEF Ceiling
    <3> QED
      BY <3>1, <3>2, UnitsCount, FS_CardinalityType
  <2>4. pay[p].amount \in Int
    BY AmountAssumption DEF IndInv, TypeOK, PaymentRow
  <2> QED
    BY <2>2, <2>3, <2>4 DEF PaymentSound, Used
<1>6. \A i \in Invoice : InvoiceRowSound(i)'
  BY DEF IndInv, InvoiceRowSound
<1>7. OnePaymentPerSession'
  BY DEF IndInv, OnePaymentPerSession
<1> QED
  BY <1>2, <1>3, <1>4, <1>6, <1>7 DEF IndInv

-----------------------------------------------------------------------------
(* The initial state                                                             *)

LEMMA EmptyUnits ==
  ASSUME NEW rows \in [Index -> Row], Used(rows) = {}
  PROVE  Units(rows) = {}
<1>1. \A k \in Index : rows[k].amt = 0
  BY DEF Used, NoRow
<1> QED
  BY <1>1 DEF Units, Amount

LEMMA InitInv == Init => IndInv
<1> SUFFICES ASSUME Init PROVE IndInv
  OBVIOUS
<1>idle. \A s \in Slot : api[s] = Idle
  BY DEF Init
<1>row. NoRow \in Row
  BY NoPlanType
<1>1. TypeOK
  <2>1. inv \in [Invoice -> InvoiceRow]
    <3>1. PICK first \in [Invoice -> Fresh] :
            inv = [i \in Invoice |-> [status |-> first[i], total |-> Total[i], balance |-> Total[i],
                                      written |-> 0, past |-> FALSE, marked |-> FALSE, fees |-> 0]]
      BY DEF Init
    <3>2. \A i \in Invoice : first[i] \in InvoiceStatus /\ Total[i] \in Nat
      BY PriceAssumption, FreshAssumption DEF InvoiceStatus
    <3> QED
      BY <3>1, <3>2 DEF InvoiceRow
  <2>2. pay \in [Payment -> PaymentRow] /\ session \in [Session -> SessionRow]
    BY AmountAssumption DEF Init, PaymentRow, SessionRow
  <2>3. alloc \in [Payment -> [Index -> Row]]
    BY <1>row DEF Init
  <2>4. refund \in [Refund -> RefundRow]
    BY AmountAssumption DEF Init, RefundRow
  <2>5. note \in [CreditNote -> NoteRow]
    BY PriceAssumption DEF Init, NoteRow
  <2>6. api \in [Slot -> Process]
    BY IdleType DEF Init
  <2>7. job \subseteq Invoice /\ loose \subseteq Invoice /\ faults \in 0..MaxFaults
    BY AmountAssumption DEF Init
  <2> QED
    BY <2>1, <2>2, <2>3, <2>4, <2>5, <2>6, <2>7 DEF TypeOK
<1>2. ASSUME NEW s \in Slot PROVE Sound(api[s])
  BY <1>idle, IdleType DEF Sound, ConfirmSound, FreshSound, RefundSound, ExecuteSound, CommitSound,
     StripeSound, CheckoutSound, InvoiceSound, Executing
<1>3. ASSUME NEW s \in Slot, NEW t \in Slot PROVE Apart(api[s], api[t])
  BY <1>idle, IdleType DEF Apart, IsConfirming
<1>4. ASSUME NEW p \in Payment PROVE PaymentSound(p) /\ Units(alloc[p]) = {}
  <2>1. Used(alloc[p]) = {} /\ alloc[p] \in [Index -> Row]
    BY <1>row DEF Init, Used
  <2>2. Units(alloc[p]) = {}
    BY <2>1, EmptyUnits
  <2>3. Ceiling(p) = {}
    BY <1>idle, <2>2, IdleType DEF Ceiling, ExecutingOn, Executing
  <2>4. Cardinality(Ceiling(p)) = 0
    BY <2>3, FS_EmptySet
  <2> QED
    BY <2>1, <2>2, <2>4 DEF PaymentSound, Init
<1>5. \A f \in Refund : RefundRowSound(f)
  BY DEF Init, RefundRowSound
<1>6. ASSUME NEW i \in Invoice PROVE InvoiceRowSound(i)
  <2>1. On(alloc, i) = {}
    BY <1>4 DEF On
  <2>2. Cardinality(On(alloc, i)) = 0
    BY <2>1, FS_EmptySet
  <2> QED
    BY <2>2, PriceAssumption DEF InvoiceRowSound, Init
<1>7. OnePaymentPerSession /\ \A e \in Session : SessionSound(e)
  BY DEF Init, OnePaymentPerSession, SessionSound
<1> QED
  BY <1>1, <1>2, <1>3, <1>4, <1>5, <1>6, <1>7 DEF IndInv

-----------------------------------------------------------------------------
(* Steps of a handler that write no table                                        *)

\* A handler that holds no lock, no refund and no payment is apart from any other.
LEMMA PlainApart ==
  ASSUME NEW h, NEW g, h.ref = None, h.pay = None, Sound(g),
         h.pc \notin {"confirm", "confirm_commit", "checkout_commit", "execute_commit"}
  PROVE  Apart(h, g) /\ Apart(g, h)
<1>1. g.pc = "checkout_commit" => g.pay # None
  BY NullAssumption DEF Sound, CheckoutSound
<1> QED
  BY <1>1 DEF Apart, IsConfirming

LEMMA PlainStep ==
  ASSUME IndInv, NEW s \in Slot, NEW h \in Process, Goto(s, h),
         UNCHANGED <<inv, pay, alloc, refund, note, session, job, loose, faults>>,
         h.ref = None, h.pay = None, Sound(h),
         h.pc \notin {"confirm", "confirm_commit", "checkout_commit", "execute", "execute_commit"}
  PROVE  IndInv'
<1>1. \A t \in Slot \ {s} : Apart(h, api[t]) /\ Apart(api[t], h)
  BY PlainApart DEF IndInv
<1>2. h.pc \notin Executing
  BY DEF Executing
<1>3. api' = [api EXCEPT ![s] = h]
  BY DEF Goto
<1> QED
  BY <1>1, <1>2, <1>3, PureStep

LEMMA PlainSound ==
  ASSUME NEW h,
         h.pc \in {"issued", "cancelled", "void", "write_off", "late_fee", "credit", "checkout"},
         h.inv \in Invoice, h.ref = None,
         h.pc = "credit" => h.note \in CreditNote,
         h.pc = "checkout" => h.event \in Session
  PROVE  Sound(h)
BY DEF Sound, ConfirmSound, FreshSound, RefundSound, ExecuteSound, CommitSound,
   StripeSound, CheckoutSound, InvoiceSound, Executing

LEMMA InvoiceReadStep ==
  ASSUME IndInv, NEW s \in Slot, NEW i \in Invoice, NEW total \in Nat, NEW balance \in Int,
         NEW pc \in {"issued", "cancelled", "void", "write_off", "late_fee"},
         InvoiceRead(s, i, pc, total, balance)
  PROVE  IndInv'
<1> DEFINE h == [Running(pc, None, i) EXCEPT !.total = total, !.balance = balance]
<1>1. Running(pc, None, i) \in Process
  BY RunningType DEF Pcs
<1>2. [Running(pc, None, i) EXCEPT !.total = total] \in Process
  BY <1>1, ProcessWritten
<1>3. h \in Process
  BY <1>1, <1>2 DEF Process
<1>4. h.pc = pc /\ h.inv = i /\ h.ref = None /\ h.pay = None
  BY <1>1 DEF Running
<1>5. Goto(s, h) /\ UNCHANGED <<inv, pay, alloc, refund, note, session, job, loose, faults>>
  BY DEF InvoiceRead
<1> HIDE DEF h
<1>6. Sound(h)
  BY <1>4, PlainSound
<1> QED
  BY <1>3, <1>4, <1>5, <1>6, PlainStep

LEMMA CreditReadStep ==
  ASSUME IndInv, NEW s \in Slot, NEW i \in Invoice, NEW c \in CreditNote, NEW n \in Amount,
         CreditRead(s, c, i, n)
  PROVE  IndInv'
<1> DEFINE amt == IF n < inv[i].balance THEN n ELSE inv[i].balance
           r == Running("credit", None, i)
           h == [r EXCEPT !.balance = inv[i].balance, !.note = c, !.left = note[c].left, !.amt = amt]
<1>1. r \in Process
  BY RunningType DEF Pcs
<1>2. inv[i].balance \in Int /\ note[c].left \in Int
  BY DEF IndInv, TypeOK, InvoiceRow, NoteRow
<1>3. amt \in 0..MaxAmount
  BY <1>2, AmountAssumption DEF CreditRead, Amount
<1>4. h.pc = "credit" /\ h.inv = i /\ h.ref = None /\ h.pay = None /\ h.note = c
  BY DEF Running
<1>5. Goto(s, h) /\ UNCHANGED <<inv, pay, alloc, refund, note, session, job, loose, faults>>
  BY DEF CreditRead
<1> HIDE DEF amt, r
<1>6. h \in Process
  BY <1>1, <1>2, <1>3 DEF Process
<1> HIDE DEF h
<1>7. Sound(h)
  BY <1>4, PlainSound
<1> QED
  BY <1>4, <1>5, <1>6, <1>7, PlainStep

LEMMA CheckoutReadStep ==
  ASSUME IndInv, NEW s \in Slot, NEW e \in Session, CheckoutRead(s, e)
  PROVE  IndInv'
<1> DEFINE i == session[e].inv
           r == Running("checkout", None, i)
           h == [r EXCEPT !.amt = session[e].amt, !.event = e, !.balance = inv[i].balance]
<1>1. session[e].state = "paid" /\ session[e].amt \in 0..MaxAmount
  BY DEF CheckoutRead, IndInv, TypeOK, SessionRow
<1>2. i \in Invoice
  BY <1>1 DEF IndInv, SessionSound
<1>3. inv[i].balance \in Int
  BY <1>2 DEF IndInv, TypeOK, InvoiceRow
<1>4. r \in Process
  BY <1>2, RunningType DEF Pcs
<1>5. h.pc = "checkout" /\ h.inv = i /\ h.ref = None /\ h.pay = None /\ h.event = e
  BY DEF Running
<1>6. Goto(s, h) /\ UNCHANGED <<inv, pay, alloc, refund, note, session, job, loose, faults>>
  BY DEF CheckoutRead
<1> HIDE DEF i, r
<1>7. h \in Process
  BY <1>1, <1>2, <1>3, <1>4 DEF Process
<1> HIDE DEF h
<1>8. Sound(h)
  BY <1>2, <1>5, PlainSound
<1> QED
  BY <1>5, <1>6, <1>7, <1>8, PlainStep

LEMMA ConfirmLockStep ==
  ASSUME IndInv, NEW s \in Slot, NEW p \in Payment, NEW plan \in Requests(p),
         ConfirmLock(s, p, plan)
  PROVE  IndInv'
<1> DEFINE r == Running("confirm", p, None)
           h == [r EXCEPT !.plan = plan]
<1>1. /\ plan \in Plan /\ Written(plan) \cap Used(alloc[p]) = {}
      /\ \A k \in Written(plan) : plan[k].inv \in Invoice
  BY DEF Requests, Plan, Row, Amount, Written
<1>2. r \in Process
  BY RunningType DEF Pcs
<1>3. h.pc = "confirm" /\ h.pay = p /\ h.ref = None /\ h.plan = plan
  BY DEF Running
<1>4. /\ api' = [api EXCEPT ![s] = h]
      /\ UNCHANGED <<inv, pay, alloc, refund, note, session, job, loose, faults>>
  BY DEF ConfirmLock, Goto
<1>5. h \in Process
  BY <1>1, <1>2, ProcessWritten
<1> HIDE DEF r, h
<1>6. Sound(h)
  <2>1. ConfirmSound(h)
    BY <1>1, <1>3 DEF ConfirmSound, ConfirmLock
  <2> QED
    BY <1>3, <2>1 DEF Sound, FreshSound, RefundSound, ExecuteSound, CommitSound,
       StripeSound, CheckoutSound, InvoiceSound, Executing
<1>7. ASSUME NEW t \in Slot \ {s} PROVE Apart(h, api[t]) /\ Apart(api[t], h)
  <2>1. IsConfirming(api[t]) => api[t].pay # p
    BY DEF ConfirmLock, PaymentLocked, Confirming, IsConfirming
  <2>2. IsConfirming(api[t]) => Touched(plan) \cap Touched(api[t].plan) = {}
    BY DEF ConfirmLock, InvoiceLocked, Confirming, IsConfirming, Touched
  <2>3. api[t].pc = "checkout_commit" => Touched(plan) \cap Touched(api[t].plan) = {}
    BY DEF ConfirmLock, KeyShared, Touched
  <2>4. api[t].pc = "checkout_commit" => api[t].pay # p
    BY DEF ConfirmLock, IndInv, Sound, CheckoutSound
  <2>5. IsConfirming(h) /\ h.pc # "checkout_commit" /\ h.pc # "execute_commit"
    BY <1>3 DEF IsConfirming
  <2> QED
    BY <1>3, <2>1, <2>2, <2>3, <2>4, <2>5 DEF Apart
<1>8. h.pc \notin Executing
  BY <1>3 DEF Executing
<1> QED
  BY <1>4, <1>5, <1>6, <1>7, <1>8, PureStep

LEMMA ConfirmRecalculateStep ==
  ASSUME IndInv, NEW s \in Slot, ConfirmRecalculate(s)
  PROVE  IndInv'
<1> DEFINE g == api[s]
           al == Applied(alloc, g.pay, g.plan)
           fresh == RecalculatedAll(g.pay, g.plan, Touched(g.plan))
           h == [g EXCEPT !.pc = "confirm_commit", !.fresh = fresh]
<1>1. g \in Process /\ g.pc = "confirm" /\ Sound(g) /\ TypeOK
  BY DEF IndInv, TypeOK, ConfirmRecalculate
<1>2. Touched(g.plan) \subseteq Invoice
  BY <1>1 DEF Sound, ConfirmSound, Touched
<1>3. /\ fresh \in Result /\ Written(fresh) = Touched(g.plan)
      /\ \A i \in Touched(g.plan) : fresh[i].balance = NewBalance(al, i)
  <2>1. Touched(g.plan) \cap Invoice = Touched(g.plan)
    BY <1>2
  <2>2. /\ fresh \in Result /\ Written(fresh) = Touched(g.plan) \cap Invoice
        /\ \A i \in Touched(g.plan) \cap Invoice : fresh[i].balance = NewBalance(al, i)
    BY <1>1, RecalculatedAllType
  <2> HIDE DEF fresh, al
  <2> QED
    BY <2>1, <2>2
<1>4. /\ api' = [api EXCEPT ![s] = h]
      /\ UNCHANGED <<inv, pay, alloc, refund, note, session, job, loose, faults>>
  BY DEF ConfirmRecalculate, Goto
<1> HIDE DEF fresh
<1>5. /\ h.pc = "confirm_commit" /\ h.fresh = fresh
      /\ h.pay = g.pay /\ h.ref = g.ref /\ h.plan = g.plan /\ h.event = g.event
  BY <1>1 DEF Process
<1>6. h \in Process
  BY <1>1, <1>3 DEF Process, Pcs
<1> HIDE DEF g, h
<1>7. Sound(h)
  <2>1. ConfirmSound(h)
    BY <1>1, <1>5 DEF Sound, ConfirmSound
  <2>2. FreshSound(h)
    <3>1. ASSUME NEW i \in Touched(g.plan) \ loose
          PROVE  fresh[i].balance = inv[i].total - Cardinality(On(al, i))
      <4>1. i \in Invoice /\ inv[i].written = 0 /\ inv[i].total \in Int
        BY <1>2, <3>1 DEF IndInv, InvoiceRowSound, TypeOK, InvoiceRow
      <4>2. Cardinality(On(al, i)) \in Nat
        BY OnCount
      <4>3. fresh[i].balance = inv[i].total - Cardinality(On(al, i)) - inv[i].written
        BY <1>3, <3>1 DEF NewBalance
      <4> HIDE DEF al
      <4> QED
        BY <4>1, <4>2, <4>3
    <3> QED
      BY <1>3, <1>5, <3>1 DEF FreshSound
  <2>3. h.ref = None
    BY <1>1, <1>5 DEF Sound, RefundSound, Executing
  <2> QED
    BY <1>5, <2>1, <2>2, <2>3 DEF Sound, RefundSound, ExecuteSound, CommitSound,
       StripeSound, CheckoutSound, InvoiceSound, Executing
<1>8. ASSUME NEW t \in Slot \ {s} PROVE Apart(h, api[t]) /\ Apart(api[t], h)
  <2>1. Apart(g, api[t]) /\ Apart(api[t], g)
    BY DEF IndInv, g
  <2> QED
    BY <1>1, <1>5, <2>1 DEF Apart, IsConfirming
<1>9. h.pc \notin Executing
  BY <1>5 DEF Executing
<1> QED
  BY <1>4, <1>6, <1>7, <1>8, <1>9, PureStep

LEMMA RefundReadStep ==
  ASSUME IndInv, NEW s \in Slot, NEW f \in Refund, NEW p \in Payment, NEW n \in Amount,
         RefundRead(s, f, p, n)
  PROVE  IndInv'
<1> DEFINE r == Running("refund", p, None)
           h == [r EXCEPT !.ref = f, !.amt = n]
<1>1. r \in Process /\ n \in 0..MaxAmount
  BY RunningType, AmountAssumption DEF Pcs, Amount
<1>2. h.pc = "refund" /\ h.pay = p /\ h.ref = f
  BY DEF Running
<1>3. /\ api' = [api EXCEPT ![s] = h]
      /\ UNCHANGED <<inv, pay, alloc, refund, note, session, job, loose, faults>>
  BY DEF RefundRead, Goto
<1> HIDE DEF r
<1>4. h \in Process
  BY <1>1 DEF Process
<1> HIDE DEF h
<1>5. pay[p].status # "absent" /\ refund[f].status = "absent"
  BY DEF RefundRead
<1>6. Sound(h)
  BY <1>2, <1>5 DEF Sound, ConfirmSound, FreshSound, RefundSound, ExecuteSound, CommitSound,
     StripeSound, CheckoutSound, InvoiceSound, Executing
<1>7. ASSUME NEW t \in Slot \ {s} PROVE Apart(h, api[t]) /\ Apart(api[t], h)
  <2>1. api[t].ref # f
    BY DEF RefundRead
  <2>2. api[t].pc = "checkout_commit" => api[t].pay # p
    BY <1>5 DEF IndInv, Sound, CheckoutSound
  <2> QED
    BY <1>2, <2>1, <2>2 DEF Apart, IsConfirming
<1>8. h.pc \notin Executing
  BY <1>2 DEF Executing
<1> QED
  BY <1>3, <1>4, <1>6, <1>7, <1>8, PureStep

\* What a refund writes to a payment's rows only makes them smaller.
LEMMA ReversalSound ==
  ASSUME TypeOK, NEW p \in Payment, NEW n \in 0..MaxAmount
  PROVE  /\ Reversal(p, n) \in Plan
         /\ Written(Reversal(p, n)) \subseteq Used(alloc[p])
         /\ \A k \in Written(Reversal(p, n)) :
              /\ Reversal(p, n)[k] = NoRow \/ Reversal(p, n)[k].inv = alloc[p][k].inv
              /\ Reversal(p, n)[k].amt <= alloc[p][k].amt
<1> DEFINE free == pay[p].amount - Allocated(p)
           left(k) == n - (IF free > 0 THEN free ELSE 0) - Later(alloc[p], k)
           plan == Reversal(p, n)
<1>1. Allocated(p) \in Nat
  BY UnitsOfRows DEF Allocated
<1>2. \A k \in Index : Later(alloc[p], k) \in Nat
  <2>1. ASSUME NEW k \in Index PROVE {x \in Units(alloc[p]) : x[1] > k} \in SUBSET (Index \X Amount)
    BY DEF Units
  <2> QED
    BY <2>1, UnitsCount DEF Later
<1>3. pay[p].amount \in Int /\ n \in Int
  BY AmountAssumption DEF TypeOK, PaymentRow
<1>4. \A k \in Index : left(k) \in Int
  BY <1>1, <1>2, <1>3
<1>5. plan = [k \in Index |-> IF k \notin Used(alloc[p]) \/ left(k) <= 0 THEN None
                             ELSE IF left(k) >= alloc[p][k].amt THEN NoRow
                             ELSE [alloc[p][k] EXCEPT !.amt = @ - left(k)]]
  BY DEF Reversal
<1> HIDE DEF free, left, plan
<1>6. \A k \in Index : alloc[p][k] \in Row
  BY DEF TypeOK
<1>7. NoRow \in Row /\ NoRow.inv = None /\ NoRow.amt = 0
  BY NoPlanType DEF NoRow
<1>8. ASSUME NEW k \in Index, left(k) > 0, ~(left(k) >= alloc[p][k].amt)
      PROVE  /\ [alloc[p][k] EXCEPT !.amt = @ - left(k)] \in Row
             /\ [alloc[p][k] EXCEPT !.amt = @ - left(k)].inv = alloc[p][k].inv
             /\ [alloc[p][k] EXCEPT !.amt = @ - left(k)].amt <= alloc[p][k].amt
  <2>1. alloc[p][k].amt \in 0..MaxAmount
    BY <1>6 DEF Row
  <2>2. alloc[p][k].amt - left(k) \in 0..MaxAmount /\ alloc[p][k].amt - left(k) <= alloc[p][k].amt
    BY <1>4, <1>8, <2>1, AmountAssumption
  <2>3. alloc[p][k] \in Row
    BY <1>6
  <2> QED
    BY <2>2, <2>3 DEF Row
<1>9. \A k \in Index : plan[k] \in Row \cup {None}
  BY <1>4, <1>5, <1>7, <1>8
<1>10. plan \in Plan
  BY <1>5, <1>9 DEF Plan
<1>11. Written(plan) \subseteq Used(alloc[p])
  BY <1>5 DEF Written
<1>12. ASSUME NEW k \in Written(plan)
       PROVE  (plan[k] = NoRow \/ plan[k].inv = alloc[p][k].inv) /\ plan[k].amt <= alloc[p][k].amt
  <2>1. k \in Index /\ plan[k] # None
    BY <1>5 DEF Written
  <2>2. plan[k] = IF left(k) >= alloc[p][k].amt THEN NoRow ELSE [alloc[p][k] EXCEPT !.amt = @ - left(k)]
    BY <1>5, <2>1
  <2>3. left(k) > 0
    BY <1>4, <1>5, <2>1
  <2>4. alloc[p][k].amt \in 0..MaxAmount
    BY <1>6, <2>1 DEF Row
  <2>5. CASE left(k) >= alloc[p][k].amt
    BY <1>7, <2>2, <2>4, <2>5, AmountAssumption
  <2>6. CASE ~(left(k) >= alloc[p][k].amt)
    BY <1>8, <2>1, <2>2, <2>3, <2>6
  <2> QED
    BY <2>5, <2>6
<1> QED
  BY <1>10, <1>11, <1>12 DEF plan

LEMMA ExecuteClaimStep ==
  ASSUME IndInv, NEW s \in Slot, NEW f \in Refund, ExecuteClaim(s, f)
  PROVE  IndInv'
<1> DEFINE p == refund[f].pay
           plan == Reversal(p, refund[f].amt)
           r == Running("execute", p, None)
           h == [r EXCEPT !.ref = f, !.plan = plan]
<1>1. TypeOK /\ refund[f].status = "approved" /\ refund[f].amt \in 0..MaxAmount
  BY DEF ExecuteClaim, IndInv, TypeOK, RefundRow
<1>2. p \in Payment
  BY <1>1 DEF IndInv, RefundRowSound
<1>3. /\ plan \in Plan /\ Written(plan) \subseteq Used(alloc[p])
      /\ \A k \in Written(plan) : (plan[k] = NoRow \/ plan[k].inv = alloc[p][k].inv) /\ plan[k].amt <= alloc[p][k].amt
  BY <1>1, <1>2, ReversalSound
<1>4. r \in Process
  BY <1>2, RunningType DEF Pcs
<1>5. h.pc = "execute" /\ h.pay = p /\ h.ref = f /\ h.plan = plan
  BY DEF Running
<1>6. /\ api' = [api EXCEPT ![s] = h]
      /\ UNCHANGED <<inv, pay, alloc, refund, note, session, job, loose, faults>>
  BY DEF ExecuteClaim, Goto
<1> HIDE DEF plan, r
<1>7. h \in Process
  BY <1>3, <1>4 DEF Process
<1> HIDE DEF p, h
<1>8. Sound(h)
  <2>1. ExecuteSound(h)
    <3>1. refund[f].pay = p
      BY DEF p
    <3> QED
      BY <1>1, <1>3, <1>5, <3>1 DEF ExecuteSound
  <2> QED
    BY <1>5, <2>1 DEF Sound, ConfirmSound, FreshSound, RefundSound, CommitSound,
       StripeSound, CheckoutSound, InvoiceSound, Executing
<1>9. ASSUME NEW t \in Slot \ {s} PROVE Apart(h, api[t]) /\ Apart(api[t], h)
  <2>1. Sound(api[t])
    BY DEF IndInv
  <2>2. api[t].ref # f
    <3>1. api[t].pc \in Executing => api[t].ref # f
      BY DEF ExecuteClaim, Claimed
    <3>2. f # None
      BY NullAssumption
    <3> QED
      BY <1>1, <2>1, <3>1, <3>2 DEF Sound, RefundSound, StripeSound
  <2>3. api[t].pc = "checkout_commit" => api[t].pay # p
    <3>1. refund[f].status # "absent" => pay[p].status # "absent"
      BY DEF IndInv, RefundRowSound, p
    <3> QED
      BY <1>1, <2>1, <3>1 DEF Sound, CheckoutSound
  <2> QED
    BY <1>5, <2>2, <2>3 DEF Apart, IsConfirming
<1>10. Units(Overlay(alloc[p], plan)) \subseteq Ceiling(p)
  <2>1. alloc[p] \in [Index -> Row]
    BY <1>1, <1>2 DEF TypeOK
  <2>2. Units(Overlay(alloc[p], plan)) \subseteq Units(alloc[p])
    BY <1>3, <2>1, OverlaySmaller
  <2> QED
    BY <2>2, CeilingCount
<1> QED
  BY <1>5, <1>6, <1>7, <1>8, <1>9, <1>10, PureStep

LEMMA ExecuteRecalculateStep ==
  ASSUME IndInv, NEW s \in Slot, ExecuteRecalculate(s)
  PROVE  IndInv'
<1> DEFINE g == api[s]
           p == g.pay
           to == PaymentStatus(p, refund[g.ref].amt)
           touched == {alloc[p][k].inv : k \in Written(g.plan)}
           fresh == RecalculatedAll(p, g.plan, touched)
           h == [g EXCEPT !.pc = "execute_commit", !.to = to, !.fresh = fresh]
<1>1. g \in Process /\ g.pc = "execute" /\ Sound(g) /\ TypeOK
  BY DEF IndInv, TypeOK, ExecuteRecalculate
<1>2. fresh \in Result /\ Written(fresh) = touched \cap Invoice
  BY <1>1, RecalculatedAllType
<1>3. to \in PaymentStatuses /\ to # "posted"
  BY DEF PaymentStatus, PaymentStatuses
<1>4. /\ api' = [api EXCEPT ![s] = h]
      /\ UNCHANGED <<inv, pay, alloc, refund, note, session, job, loose, faults>>
  BY DEF ExecuteRecalculate, Goto
<1>5. /\ \A k \in Written(g.plan) : alloc[p][k] # NoRow
      /\ \A t \in Slot \ {s} : api[t].pc = "execute_commit" /\ api[t].pay = p =>
           Written(api[t].plan) \cap Written(g.plan) = {}
  BY DEF ExecuteRecalculate, Gone, RowsBusy
<1> HIDE DEF to, fresh
<1>6. /\ h.pc = "execute_commit" /\ h.to = to /\ h.fresh = fresh
      /\ h.pay = p /\ h.ref = g.ref /\ h.plan = g.plan
  BY <1>1 DEF Process
<1>7. h \in Process
  BY <1>1, <1>2, <1>3 DEF Process, Pcs
<1>8. ASSUME NEW t \in Slot \ {s} PROVE Apart(g, api[t]) /\ Apart(api[t], g)
  BY DEF IndInv
<1>9. Units(Overlay(alloc[p], g.plan)) \subseteq Ceiling(p)
  BY <1>1 DEF Ceiling, ExecutingOn, Executing
<1>10. \A k \in Written(g.plan) : k \in Index /\ alloc[p][k].inv \in Invoice \cup {None}
  <2>1. p \in Payment
    BY <1>1, NullAssumption DEF Sound, ExecuteSound, Executing, IndInv, RefundRowSound
  <2>2. Written(g.plan) \subseteq Index
    BY <1>1, ProcessFields DEF Written, Plan
  <2> QED
    BY <1>1, <2>1, <2>2 DEF TypeOK, Row
<1> HIDE DEF g, h
<1>11. Sound(h)
  <2>1. ExecuteSound(h)
    BY <1>1, <1>6 DEF Sound, ExecuteSound, Executing
  <2>2. CommitSound(h)
    <3>1. \A k \in Written(g.plan) : /\ k \in Used(alloc[p])
                                     /\ alloc[p][k].inv \in Written(fresh) \cup {None}
      BY <1>2, <1>5, <1>10 DEF Used
    <3> QED
      BY <1>3, <1>6, <3>1 DEF CommitSound
  <2> QED
    BY <1>6, <2>1, <2>2 DEF Sound, ConfirmSound, FreshSound, RefundSound,
       StripeSound, CheckoutSound, InvoiceSound, Executing
<1>12. ASSUME NEW t \in Slot \ {s} PROVE Apart(h, api[t]) /\ Apart(api[t], h)
  BY <1>1, <1>5, <1>6, <1>8 DEF Apart, IsConfirming
<1> QED
  BY <1>4, <1>6, <1>7, <1>9, <1>11, <1>12, PureStep

\* One allocation of n units on an empty payment allocates n units.
LEMMA OneRowUnits ==
  ASSUME NEW rows \in [Index -> Row], NEW n \in 0..MaxAmount,
         rows[1].amt <= n, \A k \in Index \ {1} : rows[k].amt = 0
  PROVE  Cardinality(Units(rows)) <= n
<1>1. Units(rows) \subseteq {1} \X (1..n)
  <2>1. \A k \in Index : rows[k].amt \in Int
    BY AmountAssumption DEF Row
  <2> QED
    BY <2>1, AmountAssumption DEF Units, Amount, Index
<1>2. n \in Int /\ 1 \in Int /\ n >= 0
  BY AmountAssumption
<1>3. IsFiniteSet(1..n) /\ Cardinality(1..n) = n
  BY <1>2, FS_Interval
<1>4. IsFiniteSet({1}) /\ Cardinality({1}) = 1
  BY FS_Singleton
<1>5. IsFiniteSet({1} \X (1..n)) /\ Cardinality({1} \X (1..n)) = 1 * n
  <2> DEFINE S == {1}
             T == 1..n
  <2>1. IsFiniteSet(S) /\ Cardinality(S) = 1 /\ IsFiniteSet(T) /\ Cardinality(T) = n
    BY <1>3, <1>4
  <2> HIDE DEF S, T
  <2>2. IsFiniteSet(S \X T) /\ Cardinality(S \X T) = Cardinality(S) * Cardinality(T)
    BY <2>1, FS_Product
  <2> QED
    BY <2>1, <2>2 DEF S, T
<1>6. Cardinality(Units(rows)) <= 1 * n
  BY <1>1, <1>5, FS_Subset
<1> QED
  BY <1>2, <1>6

LEMMA CheckoutInsertStep ==
  ASSUME IndInv, NEW s \in Slot, NEW p \in Payment, CheckoutInsert(s, p)
  PROVE  IndInv'
<1> DEFINE g == api[s]
           i == g.inv
           part == IF g.balance < g.amt THEN g.balance ELSE g.amt
           plan == IF part > 0 THEN [NoPlan EXCEPT ![1] = [inv |-> i, amt |-> part]] ELSE NoPlan
           fresh == RecalculatedAll(p, plan, Touched(plan))
           h == [g EXCEPT !.pc = "checkout_commit", !.pay = p, !.plan = plan, !.fresh = fresh]
<1>1. g \in Process /\ g.pc = "checkout" /\ Sound(g) /\ TypeOK
  BY DEF IndInv, TypeOK, CheckoutInsert
<1>2. g.event \in Session /\ i \in Invoice /\ g.ref = None
  BY <1>1 DEF Sound, CheckoutSound, RefundSound, Executing
<1>3. part \in Int /\ part <= g.amt /\ g.amt \in 0..MaxAmount
  BY <1>1, AmountAssumption, ProcessFields
<1>4. 1 \in Index
  BY AmountAssumption DEF Index
<1>5. /\ plan \in Plan /\ Written(plan) \subseteq {1}
      /\ \A k \in Written(plan) : plan[k].inv = i /\ plan[k].amt = part /\ part > 0
  <2>1. CASE part > 0
    <3>1. [inv |-> i, amt |-> part] \in Row
      BY <1>2, <1>3, <2>1, AmountAssumption DEF Row
    <3>2. plan = [k \in Index |-> IF k = 1 THEN [inv |-> i, amt |-> part] ELSE None]
      BY <1>4, <2>1 DEF NoPlan
    <3> HIDE DEF plan, part
    <3> QED
      BY <2>1, <3>1, <3>2 DEF Plan, Written
  <2>2. CASE ~(part > 0)
    BY <2>2, NoPlanType DEF NoPlan, Written
  <2> QED
    BY <2>1, <2>2
<1>6. /\ api' = [api EXCEPT ![s] = h]
      /\ UNCHANGED <<inv, pay, alloc, refund, note, session, job, loose, faults>>
  BY DEF CheckoutInsert, Goto
<1>7. /\ pay[p].status = "absent" /\ ~Recorded(g.event) /\ p \in Payment \ Desk
      /\ \A t \in Slot : api[t].pay # p
      /\ \A t \in Slot \ {s} : ~(api[t].pc = "checkout_commit" /\ api[t].event = g.event)
      /\ part > 0 => ~InvoiceLocked(i)
  BY DEF CheckoutInsert, Inserting, DuplicateKey
<1>8. ASSUME NEW t \in Slot \ {s} PROVE Apart(g, api[t]) /\ Apart(api[t], g)
  BY DEF IndInv
<1> HIDE DEF i, part, plan
<1>9. Touched(plan) \subseteq {i} /\ (Touched(plan) # {} => part > 0)
  BY <1>5 DEF Touched
<1>10. fresh \in Result /\ Written(fresh) = Touched(plan)
  <2>1. fresh \in Result /\ Written(fresh) = Touched(plan) \cap Invoice
    BY <1>1, RecalculatedAllType
  <2> QED
    BY <1>2, <1>9, <2>1
<1> HIDE DEF fresh
<1>11. /\ h.pc = "checkout_commit" /\ h.pay = p /\ h.plan = plan /\ h.fresh = fresh
       /\ h.amt = g.amt /\ h.event = g.event /\ h.inv = i /\ h.ref = None
  BY <1>1, <1>2 DEF Process, i
<1>12. h \in Process
  BY <1>1, <1>5, <1>10 DEF Process, Pcs
<1>13. Cardinality(Units(Overlay(alloc[p], plan))) <= g.amt
  <2>1. alloc[p] \in [Index -> Row] /\ Used(alloc[p]) = {}
    BY <1>1, <1>7 DEF TypeOK, IndInv, PaymentSound
  <2>2. \A k \in Index : alloc[p][k].amt = 0
    BY <2>1 DEF Used, NoRow
  <2>3. /\ Overlay(alloc[p], plan) \in [Index -> Row]
        /\ \A k \in Index : Overlay(alloc[p], plan)[k] = IF k \in Written(plan) THEN plan[k] ELSE alloc[p][k]
    BY <1>5, <2>1, OverlayType
  <2>4. Overlay(alloc[p], plan)[1].amt <= g.amt
    BY <1>3, <1>4, <1>5, <2>2, <2>3, AmountAssumption
  <2>5. \A k \in Index \ {1} : Overlay(alloc[p], plan)[k].amt = 0
    BY <1>5, <2>2, <2>3
  <2> QED
    BY <1>3, <2>3, <2>4, <2>5, OneRowUnits
<1> HIDE DEF g, h
<1>14. Sound(h)
  <2>1. CheckoutSound(h)
    BY <1>2, <1>7, <1>10, <1>11, <1>13 DEF CheckoutSound
  <2> QED
    BY <1>11, <2>1 DEF Sound, ConfirmSound, FreshSound, RefundSound, ExecuteSound, CommitSound,
       StripeSound, InvoiceSound, Executing
<1>15. ASSUME NEW t \in Slot \ {s} PROVE Apart(h, api[t]) /\ Apart(api[t], h)
  <2>1. api[t].pay # p /\ ~(api[t].pc = "checkout_commit" /\ api[t].event = g.event)
    BY <1>7 DEF g
  <2>2. IsConfirming(api[t]) => Touched(plan) \cap Touched(api[t].plan) = {}
    BY <1>7, <1>9 DEF InvoiceLocked, Confirming, IsConfirming
  <2>3. h.ref = api[t].ref => h.ref = None
    BY <1>11
  <2> QED
    BY <1>11, <2>1, <2>2, <2>3 DEF Apart, IsConfirming
<1>16. h.pc \notin Executing
  BY <1>11 DEF Executing
<1> QED
  BY <1>6, <1>12, <1>14, <1>15, <1>16, PureStep

-----------------------------------------------------------------------------
(* Steps that write tables other than payments and allocations                   *)

\* A step that writes one refund, which no other handler that goes on is working at.
LEMMA RefundStep ==
  ASSUME IndInv, NEW f \in Refund, NEW row \in RefundRow, refund' = [refund EXCEPT ![f] = row],
         UNCHANGED <<inv, pay, alloc, note, session, job, loose>>, faults' \in 0..MaxFaults,
         \A t \in Slot : api'[t] = Idle \/ (api'[t] = api[t] /\ api[t].ref # f),
         api' \in [Slot -> Process],
         RefundRowSound(f)'
  PROVE  IndInv'
<1>1. refund \in [Refund -> RefundRow]
  BY DEF IndInv, TypeOK
<1>2. refund' \in [Refund -> RefundRow] /\ \A o \in Refund : o # f => refund'[o] = refund[o]
  BY <1>1
<1>3. TypeOK'
  BY <1>2 DEF IndInv, TypeOK
<1>4. ASSUME NEW o \in Refund, o # f PROVE RefundRowSound(o)'
  <2>1. RefundRowSound(o) /\ refund'[o] = refund[o]
    BY <1>2, <1>4 DEF IndInv
  <2> QED
    BY <2>1 DEF RefundRowSound, Signed
<1>5. \A o \in Refund : RefundRowSound(o)'
  BY <1>4
<1>6. \A e \in Session : SessionSound(e)'
  BY DEF IndInv, SessionSound
<1>7. \A t \in Slot : api'[t] = api[t] /\ api[t].ref # None => refund'[api[t].ref] = refund[api[t].ref]
  <2>1. ASSUME NEW t \in Slot, api'[t] = api[t], api[t].ref # None
        PROVE  refund'[api[t].ref] = refund[api[t].ref]
    <3>1. CASE api'[t] = Idle
      BY <2>1, <3>1, IdleType
    <3>2. CASE api[t].ref # f
      <4>1. api[t].ref \in Refund
        BY <2>1, ProcessFields DEF IndInv, TypeOK
      <4> QED
        BY <1>2, <3>2, <4>1
    <3> QED
      BY <2>1, <3>1, <3>2
  <2> QED
    BY <2>1
<1> QED
  BY <1>3, <1>5, <1>6, <1>7, QuietStep

\* The refund a handler is working at is its own.
LEMMA OwnRefund ==
  ASSUME IndInv, NEW s \in Slot, api[s].ref # None, Goto(s, Idle)
  PROVE  /\ api' \in [Slot -> Process]
         /\ \A t \in Slot : api'[t] = Idle \/ (api'[t] = api[t] /\ api[t].ref # api[s].ref)
<1>1. api \in [Slot -> Process]
  BY DEF IndInv, TypeOK
<1>2. api' \in [Slot -> Process] /\ api'[s] = Idle /\ \A t \in Slot \ {s} : api'[t] = api[t]
  BY <1>1, IdleType DEF Goto
<1>3. \A t \in Slot \ {s} : api[t].ref # api[s].ref
  BY DEF IndInv, Apart
<1> QED
  BY <1>2, <1>3

LEMMA RefundInsertStep ==
  ASSUME IndInv, NEW s \in Slot, NEW u \in User, RefundInsert(s, u)
  PROVE  IndInv'
<1>0. PICK f \in Refund : f = api[s].ref
  BY DEF IndInv, Sound, RefundSound, RefundInsert
<1> DEFINE row == [refund[f] EXCEPT !.status = "pending_approval", !.pay = api[s].pay,
                         !.amt = api[s].amt, !.requester = u]
<1>1. /\ refund[f].status = "absent" /\ f # None
      /\ api[s].pay \in Payment /\ pay[api[s].pay].status # "absent"
  BY <1>0, NullAssumption DEF IndInv, Sound, RefundSound, RefundInsert
<1>2. refund \in [Refund -> RefundRow] /\ api[s].amt \in 0..MaxAmount
  BY ProcessFields DEF IndInv, TypeOK
<1>3. refund[f] \in RefundRow
  BY <1>1, <1>2
<1>4. row \in RefundRow
  BY <1>1, <1>2, <1>3 DEF RefundRow, Live
<1>5. /\ row.status = "pending_approval" /\ row.pay = api[s].pay
      /\ row.returned = refund[f].returned
  BY <1>3 DEF RefundRow
<1>6. refund' = [refund EXCEPT ![f] = row] /\ Goto(s, Idle)
      /\ UNCHANGED <<inv, pay, alloc, note, session, job, loose, faults>>
  BY <1>0 DEF RefundInsert
<1>7. refund[f].returned = 0
  BY <1>1, <1>3 DEF IndInv, RefundRowSound, RefundRow
<1>8. /\ api' \in [Slot -> Process]
      /\ \A t \in Slot : api'[t] = Idle \/ (api'[t] = api[t] /\ api[t].ref # f)
  BY <1>0, <1>1, <1>6, OwnRefund
<1> HIDE DEF row
<1>9. refund'[f] = row
  BY <1>1, <1>2, <1>6
<1>10. RefundRowSound(f)'
  BY <1>1, <1>5, <1>6, <1>7, <1>9 DEF RefundRowSound
<1>11. faults' \in 0..MaxFaults
  BY <1>6 DEF IndInv, TypeOK
<1> QED
  BY <1>1, <1>4, <1>6, <1>8, <1>10, <1>11, RefundStep

LEMMA DecideStep ==
  ASSUME IndInv, NEW f \in Refund, NEW u \in User, NEW to \in {"approved", "rejected"},
         Decide(f, u, to), to = "approved" => u # refund[f].requester
  PROVE  IndInv'
<1> DEFINE row == [refund[f] EXCEPT !.status = to, !.approver = u]
<1>1. refund \in [Refund -> RefundRow] /\ api \in [Slot -> Process]
  BY DEF IndInv, TypeOK
<1>2. refund[f] \in RefundRow /\ refund[f].status = "pending_approval"
  BY <1>1 DEF Decide
<1>3. row \in RefundRow
  BY <1>2 DEF RefundRow, Live
<1>4. /\ row.status = to /\ row.approver = u /\ row.pay = refund[f].pay
      /\ row.requester = refund[f].requester /\ row.returned = refund[f].returned
  BY <1>2 DEF RefundRow
<1>5. refund' = [refund EXCEPT ![f] = row]
  BY <1>1 DEF Decide
<1> HIDE DEF row
<1>6. refund'[f] = row
  BY <1>1, <1>5
<1>7. RefundRowSound(f)'
  <2>1. RefundRowSound(f) /\ refund[f].returned \in Nat
    BY <1>2 DEF IndInv, RefundRow
  <2>2. refund[f].pay \in Payment /\ pay[refund[f].pay].status # "absent" /\ refund[f].returned = 0
    BY <1>2, <2>1 DEF RefundRowSound
  <2>3. u # None /\ pay' = pay
    BY NullAssumption DEF Decide
  <2> QED
    BY <1>4, <1>6, <2>2, <2>3 DEF RefundRowSound, Signed
<1>8. ASSUME NEW t \in Slot PROVE api'[t] = api[t] /\ api[t].ref # f
  <2>1. Sound(api[t]) /\ f # None /\ api' = api
    BY NullAssumption DEF IndInv, Decide
  <2> QED
    BY <1>2, <2>1 DEF Sound, RefundSound, ExecuteSound, StripeSound
<1>9. api' \in [Slot -> Process] /\ faults' \in 0..MaxFaults
      /\ UNCHANGED <<inv, pay, alloc, note, session, job, loose>>
  BY DEF Decide, IndInv, TypeOK
<1> QED
  BY <1>3, <1>5, <1>7, <1>8, <1>9, RefundStep

LEMMA FaultType ==
  ASSUME IndInv, Fault \/ UNCHANGED faults
  PROVE  faults' \in 0..MaxFaults
<1>1. faults \in 0..MaxFaults
  BY DEF IndInv, TypeOK
<1> QED
  BY <1>1, AmountAssumption DEF Fault

\* Stripe answers: the refund stays executed or becomes failed, and is returned
\* once at most.
LEMMA StripeStep ==
  ASSUME IndInv, NEW s \in Slot, api[s].pc = "stripe", Goto(s, Idle),
         NEW row \in RefundRow, refund' = [refund EXCEPT ![api[s].ref] = row],
         row.status \in {"executed", "failed"}, row.returned <= 1,
         row.pay = refund[api[s].ref].pay, row.requester = refund[api[s].ref].requester,
         row.approver = refund[api[s].ref].approver,
         Fault \/ UNCHANGED faults,
         UNCHANGED <<inv, pay, alloc, note, session, job, loose>>
  PROVE  IndInv'
<1>0. PICK f \in Refund : f = api[s].ref
  BY DEF IndInv, Sound, StripeSound
<1>1. f # None /\ refund[f].status = "executed"
  BY <1>0, NullAssumption DEF IndInv, Sound, StripeSound
<1>2. refund \in [Refund -> RefundRow]
  BY DEF IndInv, TypeOK
<1>3. /\ api' \in [Slot -> Process]
      /\ \A t \in Slot : api'[t] = Idle \/ (api'[t] = api[t] /\ api[t].ref # f)
  BY <1>0, <1>1, OwnRefund
<1>4. refund' = [refund EXCEPT ![f] = row] /\ refund'[f] = row
  BY <1>0, <1>2
<1>5. RefundRowSound(f)'
  BY <1>0, <1>1, <1>4 DEF IndInv, RefundRowSound, Signed
<1>6. faults' \in 0..MaxFaults
  BY FaultType
<1> QED
  BY <1>3, <1>4, <1>5, <1>6, RefundStep

LEMMA StripeAnswerStep ==
  ASSUME IndInv, NEW s \in Slot, StripeReturns(s) \/ StripeRefuses(s)
  PROVE  IndInv'
<1> DEFINE f == api[s].ref
           Answer(row) == /\ row \in RefundRow
                          /\ row.status \in {"executed", "failed"} /\ row.returned <= 1
                          /\ row.pay = refund[f].pay /\ row.requester = refund[f].requester
                          /\ row.approver = refund[f].approver
<1>1. api[s].pc = "stripe" /\ Goto(s, Idle) /\ UNCHANGED <<inv, pay, alloc, note, session, job, loose>>
      /\ (Fault \/ UNCHANGED faults)
  BY DEF StripeReturns, StripeRefuses
<1>2. f \in Refund /\ refund[f].status = "executed" /\ refund[f].returned = 0
  BY <1>1 DEF IndInv, Sound, StripeSound
<1>3. refund \in [Refund -> RefundRow]
  BY DEF IndInv, TypeOK
<1>4. refund[f] \in RefundRow
  BY <1>2, <1>3
<1>5. \E row : Answer(row) /\ refund' = [refund EXCEPT ![f] = row]
  <2>1. Answer([refund[f] EXCEPT !.returned = @ + 1])
    BY <1>2, <1>4 DEF RefundRow
  <2>2. Answer([refund[f] EXCEPT !.returned = @ + 1, !.status = "failed"])
    <3> DEFINE one == [refund[f] EXCEPT !.returned = @ + 1]
    <3>1. one \in RefundRow /\ Answer(one)
      BY <2>1
    <3>2. [one EXCEPT !.status = "failed"] = [refund[f] EXCEPT !.returned = @ + 1, !.status = "failed"]
      BY <1>4 DEF RefundRow
    <3> HIDE DEF one
    <3>3. Answer([one EXCEPT !.status = "failed"])
      BY <3>1 DEF RefundRow
    <3> QED
      BY <3>2, <3>3
  <2>3. Answer([refund[f] EXCEPT !.status = "failed"])
    BY <1>2, <1>4 DEF RefundRow
  <2>4. \/ refund' = [refund EXCEPT ![f] = [refund[f] EXCEPT !.returned = @ + 1]]
        \/ refund' = [refund EXCEPT ![f] = [refund[f] EXCEPT !.returned = @ + 1, !.status = "failed"]]
        \/ refund' = [refund EXCEPT ![f] = [refund[f] EXCEPT !.status = "failed"]]
    BY <1>2, <1>3 DEF StripeReturns, StripeRefuses
  <2> HIDE DEF Answer
  <2> QED
    BY <2>1, <2>2, <2>3, <2>4
<1> QED
  BY <1>1, <1>5, StripeStep

LEMMA FinishType ==
  ASSUME IndInv, NEW s \in Slot, Goto(s, Idle)
  PROVE  /\ api' \in [Slot -> Process]
         /\ \A t \in Slot : api'[t] = api[t] \/ api'[t] = Idle
<1>1. api \in [Slot -> Process]
  BY DEF IndInv, TypeOK
<1> QED
  BY <1>1, IdleType DEF Goto

LEMMA RefundsSame ==
  ASSUME IndInv, UNCHANGED <<pay, refund>>
  PROVE  \A f \in Refund : RefundRowSound(f)'
BY DEF IndInv, RefundRowSound, Signed

\* A handler gives up: a conflict, a duplicate key, a rollback.
LEMMA FinishStep ==
  ASSUME IndInv, NEW s \in Slot, Goto(s, Idle), Fault \/ UNCHANGED faults,
         UNCHANGED <<inv, pay, alloc, refund, note, session, job, loose>>
  PROVE  IndInv'
<1>1. api' \in [Slot -> Process] /\ \A t \in Slot : api'[t] = api[t] \/ api'[t] = Idle
  BY FinishType
<1>2. TypeOK'
  BY <1>1, FaultType DEF IndInv, TypeOK
<1>3. \A e \in Session : SessionSound(e)'
  BY DEF IndInv, SessionSound
<1> QED
  BY <1>1, <1>2, <1>3, RefundsSame, QuietStep

\* A checkout session is opened, paid or acknowledged.
LEMMA SessionStep ==
  ASSUME IndInv, NEW e \in Session, NEW row \in SessionRow, session' = [session EXCEPT ![e] = row],
         row.state \in {"open", "paid"} => row.inv \in Invoice,
         UNCHANGED <<inv, pay, alloc, refund, note, api, job, loose, faults>>
  PROVE  IndInv'
<1>1. session \in [Session -> SessionRow]
  BY DEF IndInv, TypeOK
<1>2. TypeOK'
  BY <1>1 DEF IndInv, TypeOK
<1>3. \A o \in Session : SessionSound(o)'
  BY <1>1 DEF IndInv, SessionSound
<1> QED
  BY <1>2, <1>3, RefundsSame, QuietStep

LEMMA SessionSteps ==
  ASSUME IndInv, NEW e \in Session,
         ParentPays(e) \/ CheckoutDuplicate(e) \/ \E i \in Invoice : CheckoutOpen(e, i)
  PROVE  IndInv'
<1>1. session \in [Session -> SessionRow]
  BY DEF IndInv, TypeOK
<1>2. session[e] \in SessionRow /\ SessionSound(e)
  BY <1>1 DEF IndInv
<1>3. CASE ParentPays(e)
  <2> DEFINE row == [session[e] EXCEPT !.state = "paid"]
  <2>1. row \in SessionRow /\ row.inv \in Invoice
    BY <1>2, <1>3 DEF SessionRow, ParentPays, SessionSound
  <2>2. session' = [session EXCEPT ![e] = row]
    BY <1>1, <1>3 DEF ParentPays
  <2> QED
    BY <1>3, <2>1, <2>2, SessionStep DEF ParentPays
<1>4. CASE CheckoutDuplicate(e)
  <2> DEFINE row == [session[e] EXCEPT !.state = "acked"]
  <2>1. row \in SessionRow /\ row.inv \in Invoice
    BY <1>2, <1>4 DEF SessionRow, CheckoutDuplicate, SessionSound
  <2>2. session' = [session EXCEPT ![e] = row]
    BY <1>1, <1>4 DEF CheckoutDuplicate, Acknowledge
  <2> QED
    BY <1>4, <2>1, <2>2, SessionStep DEF CheckoutDuplicate
<1>5. ASSUME NEW i \in Invoice, CheckoutOpen(e, i) PROVE IndInv'
  <2> DEFINE row == [state |-> "open", inv |-> i, amt |-> inv[i].balance]
  <2>1. inv[i].balance \in 0..MaxAmount
    BY <1>5, AmountAssumption DEF CheckoutOpen, Amount
  <2>2. row \in SessionRow /\ row.inv \in Invoice
    BY <2>1 DEF SessionRow
  <2> QED
    BY <1>5, <2>2, SessionStep DEF CheckoutOpen
<1> QED
  BY <1>3, <1>4, <1>5

\* Invoices are written; those whose balance, total or write-off changes become loose.
LEMMA InvoicesStep ==
  ASSUME IndInv, inv' \in [Invoice -> InvoiceRow], note' \in [CreditNote -> NoteRow],
         job' \subseteq Invoice, loose \subseteq loose', loose' \subseteq Invoice,
         api' \in [Slot -> Process], \A t \in Slot : api'[t] = api[t] \/ api'[t] = Idle,
         \A i \in Invoice : i \notin loose' => /\ inv'[i].total = inv[i].total
                                               /\ inv'[i].balance = inv[i].balance
                                               /\ inv'[i].written = inv[i].written,
         UNCHANGED <<pay, alloc, refund, session, faults>>
  PROVE  IndInv'
<1>1. TypeOK'
  BY DEF IndInv, TypeOK
<1>2. \A e \in Session : SessionSound(e)'
  BY DEF IndInv, SessionSound
<1> QED
  BY <1>1, <1>2, RefundsSame, QuietStep

LEMMA InvoiceWriteStep ==
  ASSUME IndInv, NEW s \in Slot, NEW pc, NEW row \in InvoiceRow, api[s].inv \in Invoice,
         InvoiceWrite(s, pc, row), note' \in [CreditNote -> NoteRow],
         \/ /\ UNCHANGED loose /\ row.total = Here(s).total
            /\ row.balance = Here(s).balance /\ row.written = Here(s).written
         \/ Loosen(s),
         UNCHANGED <<pay, alloc, refund, session, job, faults>>
  PROVE  IndInv'
<1>1. inv \in [Invoice -> InvoiceRow] /\ job \subseteq Invoice /\ loose \subseteq Invoice
  BY DEF IndInv, TypeOK
<1>2. inv' = [inv EXCEPT ![api[s].inv] = row] /\ Goto(s, Idle)
  BY DEF InvoiceWrite
<1>3. inv' \in [Invoice -> InvoiceRow] /\ loose \subseteq loose' /\ loose' \subseteq Invoice
  BY <1>1, <1>2 DEF Loosen
<1>4. \A i \in Invoice : i \notin loose' => /\ inv'[i].total = inv[i].total
                                            /\ inv'[i].balance = inv[i].balance
                                            /\ inv'[i].written = inv[i].written
  BY <1>1, <1>2 DEF Loosen, Here
<1>5. api' \in [Slot -> Process] /\ \A t \in Slot : api'[t] = api[t] \/ api'[t] = Idle
  BY <1>2, FinishType
<1> QED
  BY <1>1, <1>3, <1>4, <1>5, InvoicesStep

LEMMA HereType ==
  ASSUME IndInv, NEW s \in Slot,
         api[s].pc \in {"issued", "cancelled", "void", "write_off", "late_fee", "credit"}
  PROVE  /\ api[s].inv \in Invoice /\ Here(s) \in InvoiceRow /\ note \in [CreditNote -> NoteRow]
         /\ api[s].balance \in Int /\ api[s].total \in Nat /\ api[s].left \in Int /\ api[s].amt \in Nat
<1>1. api[s].inv \in Invoice
  BY DEF IndInv, Sound, InvoiceSound
<1>2. inv \in [Invoice -> InvoiceRow] /\ api[s] \in Process /\ note \in [CreditNote -> NoteRow]
  BY DEF IndInv, TypeOK
<1>3. Here(s) \in InvoiceRow
  BY <1>1, <1>2 DEF Here
<1> QED
  BY <1>1, <1>2, <1>3, ProcessFields, AmountAssumption

LEMMA StatusWriteStep ==
  ASSUME IndInv, NEW s \in Slot, NEW to \in {"issued", "cancelled", "void"}, StatusWrite(s, to)
  PROVE  IndInv'
<1> DEFINE row == [Here(s) EXCEPT !.status = to]
<1>1. InvoiceWrite(s, to, row) /\ UNCHANGED <<pay, alloc, refund, note, session, job, loose, faults>>
  BY DEF StatusWrite
<1>2. api[s].inv \in Invoice /\ Here(s) \in InvoiceRow /\ note \in [CreditNote -> NoteRow]
  BY <1>1, HereType DEF InvoiceWrite
<1>3. row \in InvoiceRow /\ row.total = Here(s).total /\ row.balance = Here(s).balance
      /\ row.written = Here(s).written
  BY <1>2 DEF InvoiceRow, InvoiceStatus
<1> QED
  BY <1>1, <1>2, <1>3, InvoiceWriteStep

LEMMA WriteOffWriteStep ==
  ASSUME IndInv, NEW s \in Slot, WriteOffWrite(s)
  PROVE  IndInv'
<1> DEFINE row == [Here(s) EXCEPT !.status = "written_off", !.written = api[s].balance, !.balance = 0]
<1>1. /\ InvoiceWrite(s, "write_off", row) /\ Loosen(s)
      /\ UNCHANGED <<pay, alloc, refund, note, session, job, faults>>
  BY DEF WriteOffWrite
<1>2. /\ api[s].inv \in Invoice /\ Here(s) \in InvoiceRow /\ note \in [CreditNote -> NoteRow]
      /\ api[s].balance \in Int
  BY <1>1, HereType DEF InvoiceWrite
<1>3. [Here(s) EXCEPT !.status = "written_off"] \in InvoiceRow
  BY <1>2 DEF InvoiceRow, InvoiceStatus
<1>4. ASSUME NEW one \in InvoiceRow
      PROVE  [one EXCEPT !.written = api[s].balance] \in InvoiceRow /\ [one EXCEPT !.balance = 0] \in InvoiceRow
  BY <1>2 DEF InvoiceRow
<1>5. row \in InvoiceRow
  BY <1>3, <1>4
<1> QED
  BY <1>1, <1>2, <1>5, InvoiceWriteStep

LEMMA LateFeeWriteStep ==
  ASSUME IndInv, NEW s \in Slot, LateFeeWrite(s)
  PROVE  IndInv'
<1> DEFINE row == [Here(s) EXCEPT !.total = api[s].total + Fee, !.balance = api[s].balance + Fee,
                                  !.fees = @ + 1]
<1>1. /\ InvoiceWrite(s, "late_fee", row) /\ Loosen(s)
      /\ UNCHANGED <<pay, alloc, refund, note, session, job, faults>>
  BY DEF LateFeeWrite
<1>2. /\ api[s].inv \in Invoice /\ Here(s) \in InvoiceRow /\ note \in [CreditNote -> NoteRow]
      /\ api[s].balance \in Int /\ api[s].total \in Nat
  BY <1>1, HereType DEF InvoiceWrite
<1>3. api[s].total + Fee \in Nat /\ api[s].balance + Fee \in Int
  BY <1>2, PriceAssumption
<1>4. ASSUME NEW one \in InvoiceRow
      PROVE  /\ [one EXCEPT !.total = api[s].total + Fee] \in InvoiceRow
             /\ [one EXCEPT !.balance = api[s].balance + Fee] \in InvoiceRow
             /\ [one EXCEPT !.fees = @ + 1] \in InvoiceRow
  BY <1>3 DEF InvoiceRow
<1>5. row \in InvoiceRow
  <2> DEFINE one == [Here(s) EXCEPT !.total = api[s].total + Fee]
             two == [one EXCEPT !.balance = api[s].balance + Fee]
  <2>1. one \in InvoiceRow
    BY <1>2, <1>4
  <2> HIDE DEF one
  <2>2. two \in InvoiceRow
    BY <1>4, <2>1
  <2> HIDE DEF two
  <2>3. [two EXCEPT !.fees = @ + 1] \in InvoiceRow
    BY <1>4, <2>2
  <2> QED
    BY <2>3 DEF one, two
<1> QED
  BY <1>1, <1>2, <1>5, InvoiceWriteStep

LEMMA CreditWriteStep ==
  ASSUME IndInv, NEW s \in Slot, CreditWrite(s)
  PROVE  IndInv'
<1> DEFINE b == api[s].balance - api[s].amt
           c == api[s].note
           row == [Here(s) EXCEPT !.balance = b, !.status = IF b = 0 THEN "paid" ELSE "partially_paid"]
           credit == [left |-> api[s].left - api[s].amt, applied |-> note[c].applied + api[s].amt]
<1>1. /\ InvoiceWrite(s, "credit", row) /\ Loosen(s)
      /\ UNCHANGED <<pay, alloc, refund, session, job, faults>>
  BY DEF CreditWrite
<1>2. /\ api[s].inv \in Invoice /\ Here(s) \in InvoiceRow /\ note \in [CreditNote -> NoteRow]
      /\ api[s].balance \in Int /\ api[s].left \in Int /\ api[s].amt \in Nat /\ api[s].pc = "credit"
  BY <1>1, HereType DEF InvoiceWrite
<1>3. c \in CreditNote
  BY <1>2 DEF IndInv, Sound, InvoiceSound
<1>4. row \in InvoiceRow
  <2>1. b \in Int /\ (IF b = 0 THEN "paid" ELSE "partially_paid") \in InvoiceStatus
    BY <1>2 DEF InvoiceStatus
  <2> HIDE DEF b
  <2> QED
    BY <1>2, <2>1 DEF InvoiceRow
<1>5. note[c] \in NoteRow
  BY <1>2, <1>3
<1>6. credit \in NoteRow
  BY <1>2, <1>5 DEF NoteRow
<1>7. note' = [note EXCEPT ![c] = credit]
  BY <1>2, <1>3 DEF CreditWrite
<1>8. note' \in [CreditNote -> NoteRow]
  BY <1>2, <1>6, <1>7
<1> QED
  BY <1>1, <1>2, <1>4, <1>8, InvoiceWriteStep

LEMMA CalendarStep ==
  ASSUME IndInv, OverdueScan \/ OverdueWrite \/ \E i \in Invoice : DueDatePasses(i)
  PROVE  IndInv'
<1>1. /\ inv \in [Invoice -> InvoiceRow] /\ note \in [CreditNote -> NoteRow]
      /\ job \subseteq Invoice /\ loose \subseteq Invoice /\ api \in [Slot -> Process]
  BY DEF IndInv, TypeOK
<1>2. CASE OverdueScan
  <2>1. Unmarked \subseteq Invoice
    BY DEF Unmarked
  <2> QED
    BY <1>1, <1>2, <2>1, InvoicesStep DEF OverdueScan
<1>3. CASE OverdueWrite
  <2>1. inv' = [i \in Invoice |-> IF i \in job THEN [inv[i] EXCEPT !.status = "overdue", !.marked = TRUE]
                                  ELSE inv[i]]
    BY <1>3 DEF OverdueWrite
  <2>2. ASSUME NEW i \in Invoice
        PROVE  inv'[i] \in InvoiceRow /\ inv'[i].total = inv[i].total /\ inv'[i].balance = inv[i].balance
               /\ inv'[i].written = inv[i].written
    <3>1. inv[i] \in InvoiceRow /\ inv'[i] = IF i \in job THEN [inv[i] EXCEPT !.status = "overdue", !.marked = TRUE]
                                             ELSE inv[i]
      BY <1>1, <2>1
    <3> QED
      BY <3>1 DEF InvoiceRow, InvoiceStatus
  <2>3. inv' \in [Invoice -> InvoiceRow]
    BY <2>1, <2>2
  <2>4. job' \subseteq Invoice /\ UNCHANGED <<pay, alloc, refund, note, session, api, loose, faults>>
    BY <1>3 DEF OverdueWrite
  <2> QED
    BY <1>1, <2>2, <2>3, <2>4, InvoicesStep
<1>4. ASSUME NEW i \in Invoice, DueDatePasses(i) PROVE IndInv'
  <2> DEFINE row == [inv[i] EXCEPT !.past = TRUE]
  <2>1. row \in InvoiceRow /\ row.total = inv[i].total /\ row.balance = inv[i].balance
        /\ row.written = inv[i].written
    BY <1>1 DEF InvoiceRow
  <2>2. inv' = [inv EXCEPT ![i] = row]
    BY <1>1, <1>4 DEF DueDatePasses
  <2> HIDE DEF row
  <2>3. inv' \in [Invoice -> InvoiceRow]
        /\ \A o \in Invoice : /\ inv'[o].total = inv[o].total /\ inv'[o].balance = inv[o].balance
                              /\ inv'[o].written = inv[o].written
    BY <1>1, <2>1, <2>2
  <2> QED
    BY <1>1, <1>4, <2>3, InvoicesStep DEF DueDatePasses
<1> QED
  BY <1>2, <1>3, <1>4

-----------------------------------------------------------------------------
(* Steps that write payments and allocations                                     *)

LEMMA RowsWritten ==
  ASSUME TypeOK, NEW p \in Payment, NEW plan \in Plan, WriteRows(p, plan)
  PROVE  /\ alloc' \in [Payment -> [Index -> Row]] /\ alloc' = Applied(alloc, p, plan)
         /\ alloc'[p] = Overlay(alloc[p], plan)
         /\ \A k \in Index : alloc'[p][k] = IF k \in Written(plan) THEN plan[k] ELSE alloc[p][k]
         /\ \A q \in Payment \ {p} : alloc'[q] = alloc[q]
<1>1. alloc \in [Payment -> [Index -> Row]]
  BY DEF TypeOK
<1>2. /\ Overlay(alloc[p], plan) \in [Index -> Row]
      /\ \A k \in Index : Overlay(alloc[p], plan)[k] = IF k \in Written(plan) THEN plan[k] ELSE alloc[p][k]
  BY <1>1, OverlayType
<1>3. alloc' = [alloc EXCEPT ![p] = Overlay(alloc[p], plan)] /\ alloc' = Applied(alloc, p, plan)
  BY DEF WriteRows, Applied
<1>4. alloc'[p] = Overlay(alloc[p], plan) /\ \A q \in Payment \ {p} : alloc'[q] = alloc[q]
  BY <1>1, <1>3
<1> QED
  BY <1>1, <1>2, <1>3, <1>4

LEMMA InvoicesWritten ==
  ASSUME TypeOK, NEW fresh \in Result, WriteInvoices(fresh)
  PROVE  /\ inv' \in [Invoice -> InvoiceRow]
         /\ \A i \in Invoice : inv'[i].total = inv[i].total /\ inv'[i].written = inv[i].written
         /\ \A i \in Invoice \ Written(fresh) : inv'[i] = inv[i]
         /\ \A i \in Written(fresh) : inv'[i].balance = fresh[i].balance
         /\ Written(fresh) \subseteq Invoice
<1>1. /\ \A i \in Written(fresh) : i \in Invoice /\ fresh[i] \in RecalculatedRow
      /\ inv \in [Invoice -> InvoiceRow]
  BY DEF Written, Result, TypeOK
<1>2. inv' = [i \in Invoice |-> IF i \in Written(fresh)
                            THEN [inv[i] EXCEPT !.balance = fresh[i].balance, !.status = fresh[i].status]
                            ELSE inv[i]]
  BY DEF WriteInvoices
<1>3. ASSUME NEW i \in Written(fresh)
      PROVE  /\ inv'[i] \in InvoiceRow /\ inv'[i].total = inv[i].total /\ inv'[i].written = inv[i].written
             /\ inv'[i].balance = fresh[i].balance
  <2>1. inv[i] \in InvoiceRow /\ fresh[i].balance \in Int /\ fresh[i].status \in InvoiceStatus
    BY <1>1 DEF RecalculatedRow
  <2>2. inv'[i] = [inv[i] EXCEPT !.balance = fresh[i].balance, !.status = fresh[i].status]
    BY <1>1, <1>2
  <2> QED
    BY <2>1, <2>2 DEF InvoiceRow
<1>4. ASSUME NEW i \in Invoice \ Written(fresh) PROVE inv'[i] = inv[i]
  BY <1>2
<1>5. ASSUME NEW i \in Invoice PROVE inv'[i] \in InvoiceRow
  BY <1>1, <1>3, <1>4
<1>6. inv' \in [Invoice -> InvoiceRow]
  BY <1>2, <1>5
<1> QED
  BY <1>1, <1>3, <1>4, <1>6

\* Writing rows that name other invoices leaves what reaches i as it was, also
\* for a handler that is about to write rows of another payment.
LEMMA OthersSame ==
  ASSUME TypeOK, NEW p \in Payment, NEW plan \in Plan, WriteRows(p, plan), NEW i \in Invoice,
         \A k \in Written(plan) : plan[k].inv # i /\ alloc[p][k].inv # i
  PROVE  /\ On(alloc', i) = On(alloc, i)
         /\ \A q \in Payment \ {p}, other \in Plan :
              On(Applied(alloc', q, other), i) = On(Applied(alloc, q, other), i)
<1>1. /\ \A k \in Index : alloc'[p][k] = IF k \in Written(plan) THEN plan[k] ELSE alloc[p][k]
      /\ \A q \in Payment \ {p} : alloc'[q] = alloc[q]
      /\ alloc' \in [Payment -> [Index -> Row]]
  BY RowsWritten
<1>2. On(alloc', i) = On(alloc, i)
  <2>1. \A q \in Payment, k \in Index :
          alloc'[q][k].inv = i \/ alloc[q][k].inv = i => alloc'[q][k] = alloc[q][k]
    BY <1>1
  <2> QED
    BY <2>1, OnSame
<1>3. ASSUME NEW q \in Payment \ {p}, NEW other \in Plan
      PROVE  On(Applied(alloc', q, other), i) = On(Applied(alloc, q, other), i)
  <2> DEFINE bl == Applied(alloc', q, other)
             al == Applied(alloc, q, other)
  <2>1. alloc \in [Payment -> [Index -> Row]]
    BY DEF TypeOK
  <2>2. /\ \A o \in Payment \ {q} : bl[o] = alloc'[o] /\ al[o] = alloc[o]
        /\ bl[q] = Overlay(alloc'[q], other) /\ al[q] = Overlay(alloc[q], other)
    BY <1>1, <2>1 DEF Applied
  <2>3. bl[q] = al[q]
    BY <1>1, <2>2
  <2> HIDE DEF al, bl
  <2>4. \A o \in Payment, k \in Index : bl[o][k].inv = i \/ al[o][k].inv = i => bl[o][k] = al[o][k]
    BY <1>1, <2>2, <2>3
  <2>5. On(bl, i) = On(al, i)
    BY <2>4, OnSame
  <2> QED
    BY <2>5 DEF al, bl
<1> QED
  BY <1>2, <1>3

LEMMA SmallerCount ==
  ASSUME NEW S \in SUBSET (Index \X Amount), NEW T \in SUBSET S, NEW n \in Int, Cardinality(S) <= n
  PROVE  Cardinality(T) <= n
<1>1. Cardinality(T) <= Cardinality(S) /\ Cardinality(S) \in Nat
  BY UnitsCount
<1>2. Cardinality(T) \in Nat
  <2>1. T \in SUBSET (Index \X Amount)
    OBVIOUS
  <2> QED
    BY <2>1, UnitsCount
<1> QED
  BY <1>1, <1>2

\* The payment an executing refund works at exists.
LEMMA ExecutingPayment ==
  ASSUME IndInv, NEW t \in Slot, api[t].pc \in Executing
  PROVE  /\ api[t].ref \in Refund /\ api[t].pay \in Payment /\ pay[api[t].pay].status # "absent"
         /\ refund[api[t].ref].status = "approved" /\ refund[api[t].ref].pay = api[t].pay
         /\ api[t].plan \in Plan /\ Written(api[t].plan) \subseteq Index
<1>1. /\ api[t].ref \in Refund /\ refund[api[t].ref].status = "approved"
      /\ refund[api[t].ref].pay = api[t].pay
  BY DEF IndInv, Sound, ExecuteSound
<1>2. api[t].pay \in Payment /\ pay[api[t].pay].status # "absent"
  BY <1>1 DEF IndInv, RefundRowSound
<1>3. api[t].plan \in Plan /\ Written(api[t].plan) \subseteq Index
  BY ProcessFields DEF IndInv, TypeOK, Written, Plan
<1> QED
  BY <1>1, <1>2, <1>3

\* Payments of which neither the rows nor the executing refunds change.
LEMMA CeilingKept ==
  ASSUME NEW q \in Payment, alloc'[q] = alloc[q],
         \A t \in Slot : t \in ExecutingOn(q)' => t \in ExecutingOn(q) /\ api'[t] = api[t]
  PROVE  Ceiling(q)' \subseteq Ceiling(q)
<1>1. ASSUME NEW t \in ExecutingOn(q)'
      PROVE  Units(Overlay(alloc'[q], api'[t].plan)) \subseteq Ceiling(q)
  <2>1. t \in ExecutingOn(q) /\ api'[t] = api[t]
    BY <1>1 DEF ExecutingOn
  <2> QED
    BY <2>1 DEF Ceiling
<1> QED
  BY <1>1 DEF Ceiling

LEMMA PaymentKept ==
  ASSUME IndInv, NEW q \in Payment, Ceiling(q)' \subseteq Ceiling(q),
         pay'[q].amount = pay[q].amount,
         pay'[q].status = "absent" => /\ pay[q].status = "absent" /\ pay'[q].session = pay[q].session
                                      /\ alloc'[q] = alloc[q]
  PROVE  PaymentSound(q)'
<1>1. PaymentSound(q) /\ pay[q].amount \in Int
  BY AmountAssumption DEF IndInv, TypeOK, PaymentRow
<1>2. Cardinality(Ceiling(q)') <= pay[q].amount
  <2>1. Ceiling(q) \in SUBSET (Index \X Amount) /\ Ceiling(q)' \in SUBSET Ceiling(q)
    BY CeilingCount
  <2>2. Cardinality(Ceiling(q)) <= pay[q].amount
    BY <1>1 DEF PaymentSound
  <2> HIDE DEF Ceiling
  <2> QED
    BY <1>1, <2>1, <2>2, SmallerCount
<1> QED
  BY <1>1, <1>2 DEF PaymentSound, Used

LEMMA CreatePaymentStep ==
  ASSUME IndInv, NEW p \in Payment, NEW n \in Amount, CreatePayment(p, n)
  PROVE  IndInv'
<1>1. /\ p \in Desk /\ pay[p].status = "absent" /\ pay \in [Payment -> PaymentRow] /\ TypeOK
      /\ UNCHANGED <<inv, alloc, refund, note, session, api, job, loose, faults>>
  BY DEF CreatePayment, IndInv, TypeOK
<1>2. n \in 0..MaxAmount /\ n \in Nat
  BY AmountAssumption DEF Amount
<1>3. /\ pay' \in [Payment -> PaymentRow]
      /\ \A q \in Payment \ {p} : pay'[q] = pay[q]
      /\ pay'[p].status = "posted" /\ pay'[p].amount = n /\ pay'[p].session = pay[p].session
  <2> DEFINE row == [pay[p] EXCEPT !.status = "posted", !.amount = n]
  <2>1. pay[p] \in PaymentRow
    BY <1>1
  <2>2. row \in PaymentRow /\ row.status = "posted" /\ row.amount = n /\ row.session = pay[p].session
    BY <1>2, <2>1 DEF PaymentRow, PaymentStatuses
  <2>3. pay' = [pay EXCEPT ![p] = row]
    BY <1>1 DEF CreatePayment
  <2> HIDE DEF row
  <2> QED
    BY <1>1, <2>2, <2>3
<1>4. TypeOK'
  BY <1>1, <1>3 DEF TypeOK
<1>5. \A q \in Payment : pay'[q].session = pay[q].session
  BY <1>3
<1>6. ASSUME NEW t \in Slot PROVE Sound(api[t])'
  <2>1. api'[t] = api[t] /\ Sound(api[t])
    BY <1>1 DEF IndInv
  <2>2. ConfirmSound(api[t])'
    <3>1. IsConfirming(api[t]) => api[t].pay \in Payment \ {p}
      BY <1>1, <2>1 DEF Sound, ConfirmSound, IsConfirming
    <3> QED
      BY <1>1, <1>3, <2>1, <3>1, ConfirmKept DEF Sound
  <2>3. FreshSound(api[t])'
    BY <1>1, <2>1, FreshKept DEF Sound
  <2>4. RefundSound(api[t])' /\ ExecuteSound(api[t])' /\ StripeSound(api[t])'
    <3>1. api[t].pc = "refund" => pay'[api[t].pay].status # "absent"
      BY <1>3, <2>1 DEF Sound, RefundSound
    <3>2. api[t].pc \in Executing => api[t].pay \in Payment \ {p}
      BY <1>1, ExecutingPayment
    <3>3. api[t].pc \in Executing => pay'[api[t].pay] = pay[api[t].pay]
      BY <1>3, <3>2
    <3> QED
      BY <1>1, <2>1, <3>1, <3>3, RefundKept, NullAssumption DEF Sound, ExecuteSound
  <2>5. CommitSound(api[t])'
    BY <1>1, <2>1, CommitKept DEF Sound
  <2>6. CheckoutSound(api[t])'
    <3>1. api[t].pc = "checkout_commit" => api[t].pay \in Payment \ {p}
      BY <1>1, <2>1 DEF Sound, CheckoutSound
    <3>2. api[t].pc = "checkout_commit" => \A q \in Payment : pay'[q].session # api[t].event
      BY <1>5, <2>1 DEF Sound, CheckoutSound, Recorded
    <3> QED
      BY <1>1, <1>3, <2>1, <3>1, <3>2, CheckoutKept DEF Sound
  <2>7. InvoiceSound(api[t])'
    BY <2>1, InvoiceKept DEF Sound
  <2> QED
    BY <2>2, <2>3, <2>4, <2>5, <2>6, <2>7 DEF Sound
<1>7. ASSUME NEW t \in Slot, NEW u \in Slot, t # u PROVE Apart(api[t], api[u])'
  <2>1. Apart(api[t], api[u]) /\ api'[t] = api[t] /\ api'[u] = api[u]
    BY <1>1, <1>7 DEF IndInv
  <2> QED
    BY <2>1, ApartKept
<1>8. ASSUME NEW q \in Payment PROVE PaymentSound(q)'
  <2>1. CASE q # p
    <3>1. Ceiling(q)' \subseteq Ceiling(q)
      BY <1>1, CeilingKept DEF ExecutingOn
    <3> QED
      BY <1>1, <1>3, <2>1, <3>1, PaymentKept
  <2>2. CASE q = p
    <3>1. ExecutingOn(p)' = {}
      BY <1>1, ExecutingPayment DEF ExecutingOn
    <3>2. Used(alloc[p]) = {} /\ alloc[p] \in [Index -> Row]
      BY <1>1 DEF IndInv, PaymentSound, TypeOK
    <3>3. Units(alloc'[p]) = {}
      BY <1>1, <3>2, EmptyUnits
    <3>4. Ceiling(p)' = {}
      BY <3>1, <3>3 DEF Ceiling
    <3>5. Cardinality(Ceiling(p)') = 0
      BY <3>4, FS_EmptySet
    <3> QED
      BY <1>2, <1>3, <2>2, <3>5 DEF PaymentSound
  <2> QED
    BY <2>1, <2>2
<1>9. ASSUME NEW f \in Refund PROVE RefundRowSound(f)'
  BY <1>1, <1>3 DEF IndInv, RefundRowSound, Signed
<1>10. (\A i \in Invoice : InvoiceRowSound(i)') /\ \A e \in Session : SessionSound(e)'
  BY <1>1 DEF IndInv, InvoiceRowSound, SessionSound
<1>11. OnePaymentPerSession'
  BY <1>5 DEF IndInv, OnePaymentPerSession
<1> QED
  BY <1>4, <1>6, <1>7, <1>8, <1>9, <1>10, <1>11 DEF IndInv

LEMMA ConfirmCommitStep ==
  ASSUME IndInv, NEW s \in Slot, ConfirmCommit(s)
  PROVE  IndInv'
<1> DEFINE g == api[s]
           p == g.pay
           plan == g.plan
           fresh == g.fresh
<1>1. /\ g.pc = "confirm_commit" /\ TypeOK /\ api \in [Slot -> Process]
      /\ UNCHANGED <<pay, refund, note, session, job, loose, faults>>
  BY DEF ConfirmCommit, IndInv, TypeOK
<1>2. /\ p \in Payment /\ pay[p].status = "posted" /\ Written(plan) \cap Used(alloc[p]) = {}
      /\ \A k \in Written(plan) : plan[k].inv \in Invoice
      /\ Cardinality(Units(Overlay(alloc[p], plan))) <= pay[p].amount
  BY <1>1 DEF IndInv, Sound, ConfirmSound
<1>3. plan \in Plan /\ fresh \in Result /\ Written(plan) \subseteq Index
  BY <1>1, ProcessFields DEF Written, Plan
<1>4. /\ Written(fresh) = Touched(plan)
      /\ \A i \in Written(fresh) \ loose :
           fresh[i].balance = inv[i].total - Cardinality(On(Applied(alloc, p, plan), i))
  BY <1>1 DEF IndInv, Sound, FreshSound
<1>5. WriteRows(p, plan) /\ WriteInvoices(fresh) /\ Goto(s, Idle)
  BY DEF ConfirmCommit
<1> HIDE DEF fresh, plan, p
<1>6. /\ alloc' \in [Payment -> [Index -> Row]] /\ alloc' = Applied(alloc, p, plan)
      /\ alloc'[p] = Overlay(alloc[p], plan)
      /\ \A k \in Index : alloc'[p][k] = IF k \in Written(plan) THEN plan[k] ELSE alloc[p][k]
      /\ \A q \in Payment \ {p} : alloc'[q] = alloc[q]
  BY <1>1, <1>2, <1>3, <1>5, RowsWritten
<1>7. /\ inv' \in [Invoice -> InvoiceRow]
      /\ \A i \in Invoice : inv'[i].total = inv[i].total /\ inv'[i].written = inv[i].written
      /\ \A i \in Invoice \ Written(fresh) : inv'[i] = inv[i]
      /\ \A i \in Written(fresh) : inv'[i].balance = fresh[i].balance
  BY <1>1, <1>3, <1>5, InvoicesWritten
<1>8. /\ api' \in [Slot -> Process] /\ api'[s] = Idle
      /\ \A t \in Slot \ {s} : api'[t] = api[t] /\ Apart(g, api[t]) /\ Sound(api[t])
  BY <1>1, <1>5, IdleType DEF Goto, IndInv
<1>9. TypeOK'
  BY <1>1, <1>6, <1>7, <1>8 DEF TypeOK
<1>10. ASSUME NEW i \in Invoice \ Touched(plan)
       PROVE  \A k \in Written(plan) : plan[k].inv # i /\ alloc[p][k].inv # i
  <2>1. \A k \in Written(plan) : alloc[p][k] = NoRow
    BY <1>2, <1>3 DEF Used
  <2>2. i # None
    BY NullAssumption
  <2> QED
    BY <2>1, <2>2 DEF Touched, NoRow
<1>11. ASSUME NEW t \in Slot PROVE Sound(api[t])'
  <2>1. CASE t = s
    BY <1>8, <2>1, IdleSound
  <2>2. CASE t # s
    <3>1. api'[t] = api[t] /\ Sound(api[t]) /\ Apart(g, api[t]) /\ api[t] \in Process
      BY <1>1, <1>8, <2>2
    <3>2. IsConfirming(api[t]) => /\ api[t].pay \in Payment \ {p}
                                  /\ Touched(plan) \cap Touched(api[t].plan) = {}
      BY <1>1, <3>1 DEF Sound, ConfirmSound, Apart, IsConfirming, p, plan
    <3>3. ConfirmSound(api[t])'
      BY <1>1, <1>6, <3>1, <3>2, ConfirmKept DEF Sound
    <3>4. FreshSound(api[t])'
      <4>1. ASSUME api[t].pc = "confirm_commit", NEW i \in Touched(api[t].plan) \ loose'
            PROVE  /\ inv'[i].total = inv[i].total
                   /\ On(Applied(alloc', api[t].pay, api[t].plan), i)
                      = On(Applied(alloc, api[t].pay, api[t].plan), i)
        <5>1. i \in Invoice /\ i \notin Touched(plan) /\ api[t].pay \in Payment \ {p}
          BY <3>1, <3>2, <4>1 DEF Sound, ConfirmSound, Touched, IsConfirming
        <5>2. api[t].plan \in Plan
          BY <3>1, ProcessFields
        <5>3. \A k \in Written(plan) : plan[k].inv # i /\ alloc[p][k].inv # i
          BY <1>10, <5>1
        <5> QED
          BY <1>1, <1>2, <1>3, <1>5, <1>7, <5>1, <5>2, <5>3, OthersSame
      <4> QED
        BY <1>1, <3>1, <4>1, FreshKept DEF Sound
    <3>5. api[t].pc \in Executing =>
            \A k \in Written(api[t].plan) :
              pay[api[t].pay].status = "posted" \/ k \in Used(alloc[api[t].pay]) =>
                alloc'[api[t].pay][k] = alloc[api[t].pay][k]
      <4>1. ASSUME api[t].pc \in Executing, NEW k \in Written(api[t].plan),
                   pay[api[t].pay].status = "posted" \/ k \in Used(alloc[api[t].pay])
            PROVE  alloc'[api[t].pay][k] = alloc[api[t].pay][k]
        <5>1. api[t].pay \in Payment /\ k \in Index
          BY <4>1, ExecutingPayment
        <5>2. k \in Used(alloc[api[t].pay])
          BY <3>1, <4>1 DEF Sound, ExecuteSound
        <5> QED
          BY <1>2, <1>6, <5>1, <5>2
      <4> QED
        BY <4>1
    <3>6. api[t].pc \in Executing =>
            \A k \in Written(api[t].plan) : pay[api[t].pay].status = "posted" => k \in Used(alloc[api[t].pay])
      BY <3>1 DEF Sound, ExecuteSound
    <3>7. RefundSound(api[t])' /\ ExecuteSound(api[t])' /\ StripeSound(api[t])'
      <4>1. ASSUME api[t].pc \in Executing, NEW k \in Written(api[t].plan)
            PROVE  /\ k \in Used(alloc'[api[t].pay]) =>
                        api[t].plan[k] = NoRow \/ api[t].plan[k].inv = alloc'[api[t].pay][k].inv
                   /\ pay'[api[t].pay].status = "posted" =>
                        k \in Used(alloc'[api[t].pay]) /\ api[t].plan[k].amt <= alloc'[api[t].pay][k].amt
        <5>1. pay' = pay /\ k \in Index /\ api[t].pay \in Payment
          BY <1>1, <4>1, ExecutingPayment
        <5>2. CASE pay[api[t].pay].status = "posted"
          BY <3>1, <3>5, <3>6, <4>1, <5>1, <5>2 DEF Sound, ExecuteSound, Used
        <5>3. CASE pay[api[t].pay].status # "posted"
          <6>1. alloc'[api[t].pay] = alloc[api[t].pay]
            BY <1>2, <1>6, <5>1, <5>3
          <6> QED
            BY <3>1, <4>1, <5>1, <5>3, <6>1 DEF Sound, ExecuteSound
        <5> QED
          BY <5>2, <5>3
      <4> QED
        BY <1>1, <3>1, <4>1, RefundKept, NullAssumption DEF Sound, RefundSound
    <3>8. CommitSound(api[t])'
      <4>1. api[t].pc = "execute_commit" => \A k \in Written(api[t].plan) : k \in Used(alloc[api[t].pay])
        BY <3>1 DEF Sound, CommitSound
      <4> QED
        BY <3>1, <3>5, <4>1, CommitKept DEF Sound, Executing
    <3>9. CheckoutSound(api[t])'
      <4>1. api[t].pc = "checkout_commit" => api[t].pay \in Payment \ {p}
        BY <1>2, <3>1 DEF Sound, CheckoutSound
      <4> QED
        BY <1>1, <1>6, <3>1, <4>1, CheckoutKept DEF Sound, CheckoutSound, Recorded
    <3>10. InvoiceSound(api[t])'
      BY <3>1, InvoiceKept DEF Sound
    <3> QED
      BY <3>3, <3>4, <3>7, <3>8, <3>9, <3>10 DEF Sound
  <2> QED
    BY <2>1, <2>2
<1>12. ASSUME NEW t \in Slot, NEW u \in Slot, t # u PROVE Apart(api[t], api[u])'
  <2>1. CASE t # s /\ u # s
    <3>1. Apart(api[t], api[u]) /\ api'[t] = api[t] /\ api'[u] = api[u]
      BY <1>8, <1>12, <2>1 DEF IndInv
    <3> QED
      BY <3>1, ApartKept
  <2>2. CASE t = s
    BY <1>8, <1>11, <2>2, IdleApart, NullAssumption
  <2>3. CASE u = s
    BY <1>8, <1>11, <2>3, IdleApart, NullAssumption
  <2> QED
    BY <2>1, <2>2, <2>3
<1>13. ASSUME NEW q \in Payment PROVE PaymentSound(q)'
  <2>1. ASSUME NEW t \in Slot, t \in ExecutingOn(q)'
        PROVE  t # s /\ t \in ExecutingOn(q) /\ api'[t] = api[t]
    <3>1. t # s
      BY <1>8, <2>1, IdleType DEF ExecutingOn, Executing
    <3> QED
      BY <1>8, <2>1, <3>1 DEF ExecutingOn
  <2>2. CASE q # p
    <3>1. Ceiling(q)' \subseteq Ceiling(q)
      BY <1>6, <2>1, <2>2, CeilingKept
    <3> QED
      BY <1>1, <1>6, <2>2, <3>1, PaymentKept
  <2>3. CASE q = p
    <3>1. ASSUME NEW t \in ExecutingOn(q)'
          PROVE  Units(Overlay(alloc'[q], api'[t].plan)) \subseteq Units(alloc'[q])
      <4>1. t \in Slot /\ api'[t] = api[t] /\ api'[t].pc \in Executing /\ api'[t].pay = q
        BY <2>1, <3>1 DEF ExecutingOn
      <4>2. ExecuteSound(api[t])' /\ api'[t] \in Process
        BY <1>8, <1>11, <4>1 DEF Sound
      <4>3. \A k \in Written(api'[t].plan) : api'[t].plan[k].amt <= alloc'[q][k].amt
        BY <1>1, <1>2, <2>3, <4>1, <4>2 DEF ExecuteSound
      <4>4. api'[t].plan \in Plan /\ alloc'[q] \in [Index -> Row]
        BY <1>6, <4>2, ProcessFields
      <4> QED
        BY <4>3, <4>4, OverlaySmaller
    <3>2. Ceiling(q)' = Units(alloc'[q])
      BY <3>1 DEF Ceiling
    <3>3. Cardinality(Ceiling(q)') <= pay'[q].amount /\ pay'[q].status = "posted"
      BY <1>1, <1>2, <1>6, <2>3, <3>2
    <3> QED
      BY <3>3 DEF PaymentSound
  <2> QED
    BY <2>2, <2>3
<1>14. ASSUME NEW i \in Invoice PROVE InvoiceRowSound(i)'
  <2>1. InvoiceRowSound(i) /\ loose' = loose
    BY <1>1 DEF IndInv
  <2>2. CASE i \in Touched(plan)
    BY <1>4, <1>6, <1>7, <2>1, <2>2 DEF InvoiceRowSound
  <2>3. CASE i \notin Touched(plan)
    <3>1. On(alloc', i) = On(alloc, i)
      BY <1>1, <1>2, <1>3, <1>5, <1>10, <2>3, OthersSame
    <3>2. inv'[i] = inv[i]
      BY <1>4, <1>7, <2>3
    <3> QED
      BY <2>1, <3>1, <3>2 DEF InvoiceRowSound
  <2> QED
    BY <2>2, <2>3
<1>15. (\A f \in Refund : RefundRowSound(f)') /\ \A e \in Session : SessionSound(e)'
  BY <1>1, RefundsSame DEF IndInv, SessionSound
<1>16. OnePaymentPerSession'
  BY <1>1 DEF IndInv, OnePaymentPerSession
<1> QED
  BY <1>9, <1>11, <1>12, <1>13, <1>14, <1>15, <1>16 DEF IndInv

LEMMA ExecuteCommitStep ==
  ASSUME IndInv, NEW s \in Slot, ExecuteCommit(s)
  PROVE  IndInv'
<1>0. PICK p \in Payment, f \in Refund : p = api[s].pay /\ f = api[s].ref
  BY ExecutingPayment DEF ExecuteCommit, Executing
<1> DEFINE g == api[s]
           plan == g.plan
           fresh == g.fresh
           to == g.to
           h == IF pay[p].session = None THEN Idle ELSE [Running("stripe", p, None) EXCEPT !.ref = f]
<1>1. /\ g.pc = "execute_commit" /\ g.pay = p /\ g.ref = f /\ TypeOK /\ api \in [Slot -> Process]
      /\ UNCHANGED <<note, session, job, faults>> /\ loose' = loose \cup Written(fresh)
      /\ \A i \in Written(fresh) : ~InvoiceLocked(i)
      /\ ~PaymentLocked(p)
  BY <1>0 DEF ExecuteCommit, IndInv, TypeOK
<1>2. /\ plan \in Plan /\ fresh \in Result /\ Written(plan) \subseteq Index /\ to \in PaymentStatuses
  BY <1>1, ProcessFields DEF Written, Plan
<1>3. /\ pay[p].status # "absent" /\ refund[f].status = "approved" /\ refund[f].pay = p
  BY <1>1, ExecutingPayment DEF Executing
<1>4. /\ to # "posted"
      /\ \A k \in Written(plan) : k \in Used(alloc[p]) /\ alloc[p][k].inv \in Written(fresh) \cup {None}
      /\ \A k \in Written(plan) : plan[k] = NoRow \/ plan[k].inv = alloc[p][k].inv
  BY <1>1 DEF IndInv, Sound, CommitSound, ExecuteSound, Executing
<1>5. /\ WriteRows(p, plan) /\ WriteInvoices(fresh) /\ Goto(s, h)
      /\ refund' = [refund EXCEPT ![f].status = "executed"]
      /\ pay' = [pay EXCEPT ![p].status = to]
  BY <1>0 DEF ExecuteCommit
<1> HIDE DEF fresh, plan, to
<1>6. /\ alloc' \in [Payment -> [Index -> Row]]
      /\ alloc'[p] = Overlay(alloc[p], plan)
      /\ \A k \in Index : alloc'[p][k] = IF k \in Written(plan) THEN plan[k] ELSE alloc[p][k]
      /\ \A q \in Payment \ {p} : alloc'[q] = alloc[q]
  BY <1>1, <1>2, <1>5, RowsWritten
<1>7. /\ inv' \in [Invoice -> InvoiceRow] /\ Written(fresh) \subseteq Invoice
      /\ \A i \in Invoice : inv'[i].total = inv[i].total /\ inv'[i].written = inv[i].written
      /\ \A i \in Invoice \ Written(fresh) : inv'[i] = inv[i]
  BY <1>1, <1>2, <1>5, InvoicesWritten
<1>8. /\ pay' \in [Payment -> PaymentRow]
      /\ \A q \in Payment \ {p} : pay'[q] = pay[q]
      /\ pay'[p].status = to /\ to # "absent"
      /\ \A q \in Payment : pay'[q].amount = pay[q].amount /\ pay'[q].session = pay[q].session
  <2>1. pay \in [Payment -> PaymentRow]
    BY <1>1 DEF TypeOK
  <2>2. pay[p] \in PaymentRow
    BY <2>1
  <2> DEFINE row == [pay[p] EXCEPT !.status = to]
  <2>3. row \in PaymentRow /\ row.status = to /\ row.amount = pay[p].amount /\ row.session = pay[p].session
    BY <1>2, <2>2 DEF PaymentRow
  <2>4. pay' = [pay EXCEPT ![p] = row]
    BY <1>5, <2>1
  <2>5. to # "absent"
    BY <1>2 DEF PaymentStatuses
  <2> HIDE DEF row
  <2> QED
    BY <2>1, <2>3, <2>4, <2>5
<1>9. /\ refund' \in [Refund -> RefundRow]
      /\ \A o \in Refund \ {f} : refund'[o] = refund[o]
      /\ refund'[f].status = "executed" /\ refund'[f].pay = p /\ refund'[f].returned = refund[f].returned
      /\ refund'[f].approver = refund[f].approver /\ refund'[f].requester = refund[f].requester
  <2>1. refund \in [Refund -> RefundRow]
    BY <1>1 DEF TypeOK
  <2>2. refund[f] \in RefundRow
    BY <2>1
  <2> DEFINE row == [refund[f] EXCEPT !.status = "executed"]
  <2>3. /\ row \in RefundRow /\ row.status = "executed" /\ row.pay = p /\ row.returned = refund[f].returned
        /\ row.approver = refund[f].approver /\ row.requester = refund[f].requester
    BY <1>3, <2>2 DEF RefundRow, Live
  <2>4. refund' = [refund EXCEPT ![f] = row]
    BY <1>5, <2>1
  <2> HIDE DEF row
  <2> QED
    BY <2>1, <2>3, <2>4
<1>10. /\ h \in Process /\ h.plan = NoPlan
       /\ (h.pc = "idle" /\ h.ref = None /\ h.pay = None)
          \/ (h.pc = "stripe" /\ h.ref = f /\ h.pay = p)
  <2>1. Running("stripe", p, None) \in Process
    BY RunningType DEF Pcs
  <2>2. [Running("stripe", p, None) EXCEPT !.ref = f] \in Process
    BY <2>1, ProcessWritten
  <2> QED
    BY <2>2, IdleType DEF Idle, Running
<1> HIDE DEF h
<1>11. /\ api' \in [Slot -> Process] /\ api'[s] = h
       /\ \A t \in Slot \ {s} : /\ api'[t] = api[t] /\ Sound(api[t]) /\ api[t] \in Process
                                /\ Apart(g, api[t]) /\ Apart(api[t], g)
  BY <1>1, <1>5, <1>10 DEF Goto, IndInv
<1>12. TypeOK'
  <2>1. loose' \subseteq Invoice
    BY <1>1, <1>7 DEF TypeOK
  <2> QED
    BY <1>1, <1>6, <1>7, <1>8, <1>9, <1>11, <2>1 DEF TypeOK
<1>13. refund[f].returned = 0 /\ Signed(f) /\ f # None
  <2>1. RefundRowSound(f) /\ refund[f] \in RefundRow
    BY <1>1 DEF IndInv, TypeOK
  <2> QED
    BY <1>3, <2>1, NullAssumption DEF RefundRowSound, RefundRow
<1>14. ASSUME NEW i \in Invoice, i \notin loose'
       PROVE  \A k \in Written(plan) : plan[k].inv # i /\ alloc[p][k].inv # i
  <2>1. i \notin Written(fresh) \cup {None}
    BY <1>1, <1>14, NullAssumption
  <2>2. NoRow.inv = None
    BY DEF NoRow
  <2> QED
    BY <1>4, <2>1, <2>2
<1>15. ASSUME NEW t \in Slot PROVE Sound(api[t])'
  <2>1. CASE t = s
    <3>1. StripeSound(api[s])'
      BY <1>9, <1>10, <1>11, <1>13 DEF StripeSound
    <3>2. RefundSound(api[s])'
      BY <1>10, <1>11 DEF RefundSound
    <3> QED
      BY <1>10, <1>11, <2>1, <3>1, <3>2 DEF Sound, ConfirmSound, FreshSound, ExecuteSound, CommitSound,
         CheckoutSound, InvoiceSound, Executing
  <2>2. CASE t # s
    <3>1. api'[t] = api[t] /\ Sound(api[t]) /\ Apart(g, api[t]) /\ Apart(api[t], g) /\ api[t] \in Process
      BY <1>11, <2>2
    <3>2. IsConfirming(api[t]) => api[t].pay \in Payment \ {p}
      BY <1>1, <3>1 DEF Sound, ConfirmSound, IsConfirming, PaymentLocked, Confirming
    <3>3. ConfirmSound(api[t])'
      BY <1>6, <1>8, <3>1, <3>2, ConfirmKept DEF Sound
    <3>4. FreshSound(api[t])'
      <4>1. ASSUME api[t].pc = "confirm_commit", NEW i \in Touched(api[t].plan) \ loose'
            PROVE  /\ inv'[i].total = inv[i].total
                   /\ On(Applied(alloc', api[t].pay, api[t].plan), i)
                      = On(Applied(alloc, api[t].pay, api[t].plan), i)
        <5>1. i \in Invoice /\ api[t].pay \in Payment \ {p} /\ api[t].plan \in Plan
          BY <3>1, <3>2, <4>1, ProcessFields DEF Sound, ConfirmSound, Touched, IsConfirming
        <5>2. \A k \in Written(plan) : plan[k].inv # i /\ alloc[p][k].inv # i
          BY <1>14, <4>1, <5>1
        <5> QED
          BY <1>1, <1>2, <1>5, <1>7, <5>1, <5>2, OthersSame
      <4>2. loose \subseteq loose'
        BY <1>1
      <4> QED
        BY <3>1, <4>1, <4>2, FreshKept DEF Sound
    <3>5. api[t].ref # None => refund'[api[t].ref] = refund[api[t].ref]
      BY <1>1, <1>9, <1>13, <3>1, ProcessFields DEF Apart
    <3>6. api[t].pc = "refund" => pay'[api[t].pay].status # "absent"
      BY <1>8, <3>1 DEF Sound, RefundSound
    <3>7. ASSUME api[t].pc \in Executing, NEW k \in Written(api[t].plan)
          PROVE  /\ k \in Used(alloc'[api[t].pay]) =>
                      api[t].plan[k] = NoRow \/ api[t].plan[k].inv = alloc'[api[t].pay][k].inv
                 /\ pay'[api[t].pay].status = "posted" =>
                      k \in Used(alloc'[api[t].pay]) /\ api[t].plan[k].amt <= alloc'[api[t].pay][k].amt
      <4>1. k \in Index /\ api[t].pay \in Payment
        BY <3>7, ExecutingPayment
      <4>2. CASE api[t].pay # p
        BY <1>6, <1>8, <3>1, <3>7, <4>1, <4>2 DEF Sound, ExecuteSound
      <4>3. CASE api[t].pay = p
        <5>1. pay'[p].status # "posted"
          BY <1>4, <1>8
        <5>2. CASE k \notin Written(plan)
          <6>1. alloc'[p][k] = alloc[p][k]
            BY <1>6, <4>1, <5>2
          <6> QED
            BY <3>1, <3>7, <4>3, <5>1, <6>1 DEF Sound, ExecuteSound, Used
        <5>3. CASE k \in Written(plan)
          <6>1. api[t].plan[k] = NoRow \/ api[t].plan[k].inv = alloc[p][k].inv
            BY <1>4, <3>1, <3>7, <4>3, <5>3 DEF Sound, ExecuteSound
          <6>2. alloc'[p][k] = plan[k] /\ (plan[k] = NoRow \/ plan[k].inv = alloc[p][k].inv)
            BY <1>4, <1>6, <4>1, <5>3
          <6> QED
            BY <4>3, <5>1, <6>1, <6>2 DEF Used
        <5> QED
          BY <5>2, <5>3
      <4> QED
        BY <4>2, <4>3
    <3>8. RefundSound(api[t])' /\ ExecuteSound(api[t])' /\ StripeSound(api[t])'
      BY <3>1, <3>5, <3>6, <3>7, RefundKept, NullAssumption DEF Sound
    <3>9. CommitSound(api[t])'
      <4>1. ASSUME api[t].pc = "execute_commit", NEW k \in Written(api[t].plan)
            PROVE  alloc'[api[t].pay][k] = alloc[api[t].pay][k]
        <5>1. k \in Index /\ api[t].pay \in Payment
          BY <4>1, ExecutingPayment DEF Executing
        <5>2. api[t].pay = p => k \notin Written(plan)
          BY <1>1, <3>1, <4>1 DEF Apart, plan
        <5> QED
          BY <1>6, <5>1, <5>2
      <4> QED
        BY <3>1, <4>1, CommitKept DEF Sound
    <3>10. CheckoutSound(api[t])'
      <4>1. api[t].pc = "checkout_commit" => api[t].pay \in Payment \ {p}
        BY <1>3, <3>1 DEF Sound, CheckoutSound
      <4>2. api[t].pc = "checkout_commit" => \A q \in Payment : pay'[q].session # api[t].event
        BY <1>8, <3>1 DEF Sound, CheckoutSound, Recorded
      <4> QED
        BY <1>6, <1>8, <3>1, <4>1, <4>2, CheckoutKept DEF Sound
    <3>11. InvoiceSound(api[t])'
      BY <3>1, InvoiceKept DEF Sound
    <3> QED
      BY <3>3, <3>4, <3>8, <3>9, <3>10, <3>11 DEF Sound
  <2> QED
    BY <2>1, <2>2
<1>16. ASSUME NEW t \in Slot \ {s} PROVE Apart(api[t], api[s])' /\ Apart(api[s], api[t])'
  <2>1. api'[t] = api[t] /\ Sound(api[t]) /\ Apart(g, api[t])
    BY <1>11
  <2>2. api[t].ref # f
    BY <1>1, <1>13, <2>1 DEF Apart
  <2>3. api[t].pc = "checkout_commit" => api[t].pay \in Payment \ {p, None}
    BY <1>3, <2>1, NullAssumption DEF Sound, CheckoutSound
  <2> QED
    BY <1>10, <1>11, <2>1, <2>2, <2>3 DEF Apart, IsConfirming
<1>17. ASSUME NEW t \in Slot, NEW u \in Slot, t # u PROVE Apart(api[t], api[u])'
  <2>1. CASE t # s /\ u # s
    <3>1. Apart(api[t], api[u]) /\ api'[t] = api[t] /\ api'[u] = api[u]
      BY <1>11, <1>17, <2>1 DEF IndInv
    <3> QED
      BY <3>1, ApartKept
  <2>2. CASE t = s
    BY <1>16, <1>17, <2>2
  <2>3. CASE u = s
    BY <1>16, <1>17, <2>3
  <2> QED
    BY <2>1, <2>2, <2>3
<1>18. ASSUME NEW q \in Payment PROVE PaymentSound(q)'
  <2>1. ASSUME NEW t \in Slot, t \in ExecutingOn(q)'
        PROVE  t # s /\ t \in ExecutingOn(q) /\ api'[t] = api[t]
    <3>1. t # s
      BY <1>10, <1>11, <2>1 DEF ExecutingOn, Executing
    <3> QED
      BY <1>11, <2>1, <3>1 DEF ExecutingOn
  <2>2. Ceiling(q)' \subseteq Ceiling(q)
    <3>1. CASE q # p
      BY <1>6, <2>1, <3>1, CeilingKept
    <3>2. CASE q = p
      <4>1. s \in ExecutingOn(q)
        BY <1>1, <3>2 DEF ExecutingOn, Executing
      <4>2. Units(alloc'[q]) \subseteq Ceiling(q)
        BY <1>6, <3>2, <4>1 DEF Ceiling, plan
      <4>3. ASSUME NEW t \in ExecutingOn(q)'
            PROVE  Units(Overlay(alloc'[q], api'[t].plan)) \subseteq Ceiling(q)
        <5>1. t \in ExecutingOn(q) /\ api'[t] = api[t] /\ t \in Slot
          BY <2>1, <4>3 DEF ExecutingOn
        <5>2. Units(Overlay(alloc[q], api[t].plan)) \subseteq Ceiling(q)
          BY <5>1 DEF Ceiling
        <5>3. Units(Overlay(alloc'[q], api[t].plan))
                \subseteq Units(alloc'[q]) \cup Units(Overlay(alloc[q], api[t].plan))
          BY DEF Units, Overlay
        <5> QED
          BY <4>2, <5>1, <5>2, <5>3
      <4> QED
        BY <4>2, <4>3 DEF Ceiling
    <3> QED
      BY <3>1, <3>2
  <2>3. pay'[q].status = "absent" => /\ pay[q].status = "absent" /\ pay'[q].session = pay[q].session
                                     /\ alloc'[q] = alloc[q]
    BY <1>6, <1>8
  <2> QED
    BY <1>8, <2>2, <2>3, PaymentKept
<1>19. ASSUME NEW i \in Invoice PROVE InvoiceRowSound(i)'
  <2> SUFFICES ASSUME i \notin loose' PROVE InvoiceRowSound(i)'
    BY DEF InvoiceRowSound
  <2>1. On(alloc', i) = On(alloc, i)
    BY <1>1, <1>2, <1>5, <1>14, OthersSame
  <2>2. inv'[i] = inv[i] /\ i \notin loose
    BY <1>1, <1>7
  <2> QED
    BY <2>1, <2>2 DEF IndInv, InvoiceRowSound
<1>20. ASSUME NEW o \in Refund PROVE RefundRowSound(o)'
  <2>1. CASE o = f
    BY <1>8, <1>9, <1>13, <2>1 DEF RefundRowSound, Signed
  <2>2. CASE o # f
    <3>1. refund'[o] = refund[o] /\ RefundRowSound(o)
      BY <1>9, <2>2 DEF IndInv
    <3> QED
      BY <1>8, <3>1 DEF RefundRowSound, Signed
  <2> QED
    BY <2>1, <2>2
<1>21. OnePaymentPerSession' /\ \A e \in Session : SessionSound(e)'
  BY <1>1, <1>8 DEF IndInv, OnePaymentPerSession, SessionSound
<1> QED
  BY <1>12, <1>15, <1>17, <1>18, <1>19, <1>20, <1>21 DEF IndInv

LEMMA CheckoutCommitStep ==
  ASSUME IndInv, NEW s \in Slot, CheckoutCommit(s)
  PROVE  IndInv'
<1>0. PICK p \in Payment, e \in Session : p = api[s].pay /\ e = api[s].event
  BY DEF CheckoutCommit, IndInv, Sound, CheckoutSound
<1> DEFINE g == api[s]
           plan == g.plan
           fresh == g.fresh
           row == [status |-> "posted", amount |-> g.amt, session |-> e]
<1>1. /\ g.pc = "checkout_commit" /\ g.pay = p /\ g.event = e /\ TypeOK /\ api \in [Slot -> Process]
      /\ UNCHANGED <<refund, note, job>> /\ loose' = loose \cup Written(fresh)
      /\ (UNCHANGED session \/ session' = [session EXCEPT ![e].state = "acked"])
      /\ (UNCHANGED faults \/ Fault)
  BY <1>0 DEF CheckoutCommit, Acknowledge, IndInv, TypeOK
<1>2. /\ plan \in Plan /\ fresh \in Result /\ Written(plan) \subseteq Index /\ g.amt \in 0..MaxAmount
  BY <1>1, ProcessFields DEF Written, Plan
<1>3. /\ pay[p].status = "absent" /\ \A q \in Payment : pay[q].session # e
      /\ Written(fresh) = Touched(plan)
      /\ Cardinality(Units(Overlay(alloc[p], plan))) <= g.amt
  BY <1>1 DEF IndInv, Sound, CheckoutSound, Recorded
<1>4. Used(alloc[p]) = {} /\ e # None
  BY <1>3, NullAssumption DEF IndInv, PaymentSound
<1>5. /\ WriteRows(p, plan) /\ WriteInvoices(fresh) /\ Goto(s, Idle)
      /\ pay' = [pay EXCEPT ![p] = row]
  BY <1>0 DEF CheckoutCommit
<1> HIDE DEF fresh, plan
<1>6. /\ alloc' \in [Payment -> [Index -> Row]]
      /\ alloc'[p] = Overlay(alloc[p], plan)
      /\ \A k \in Index : alloc'[p][k] = IF k \in Written(plan) THEN plan[k] ELSE alloc[p][k]
      /\ \A q \in Payment \ {p} : alloc'[q] = alloc[q]
  BY <1>1, <1>2, <1>5, RowsWritten
<1>7. /\ inv' \in [Invoice -> InvoiceRow] /\ Written(fresh) \subseteq Invoice
      /\ \A i \in Invoice : inv'[i].total = inv[i].total /\ inv'[i].written = inv[i].written
      /\ \A i \in Invoice \ Written(fresh) : inv'[i] = inv[i]
  BY <1>1, <1>2, <1>5, InvoicesWritten
<1>8. /\ pay' \in [Payment -> PaymentRow]
      /\ \A q \in Payment \ {p} : pay'[q] = pay[q]
      /\ pay'[p].status = "posted" /\ pay'[p].amount = g.amt /\ pay'[p].session = e
  <2>1. pay \in [Payment -> PaymentRow]
    BY <1>1 DEF TypeOK
  <2>2. row \in PaymentRow /\ row.status = "posted" /\ row.amount = g.amt /\ row.session = e
    BY <1>2 DEF PaymentRow, PaymentStatuses
  <2> HIDE DEF row
  <2> QED
    BY <1>5, <2>1, <2>2
<1>9. /\ api' \in [Slot -> Process] /\ api'[s] = Idle
      /\ \A t \in Slot \ {s} : /\ api'[t] = api[t] /\ Sound(api[t]) /\ api[t] \in Process
                               /\ Apart(g, api[t]) /\ Apart(api[t], g)
  BY <1>1, <1>5, IdleType DEF Goto, IndInv
<1>10. session' \in [Session -> SessionRow] /\ \A o \in Session : SessionSound(o)'
  <2>1. session \in [Session -> SessionRow] /\ \A o \in Session : SessionSound(o)
    BY <1>1 DEF TypeOK, IndInv
  <2>2. CASE UNCHANGED session
    BY <2>1, <2>2 DEF SessionSound
  <2>3. CASE session' = [session EXCEPT ![e].state = "acked"]
    <3> DEFINE acked == [session[e] EXCEPT !.state = "acked"]
    <3>1. acked \in SessionRow /\ acked.state = "acked"
      BY <2>1 DEF SessionRow
    <3>2. session' = [session EXCEPT ![e] = acked]
      BY <2>1, <2>3
    <3> HIDE DEF acked
    <3> QED
      BY <2>1, <3>1, <3>2 DEF SessionSound
  <2> QED
    BY <1>1, <2>2, <2>3
<1>11. TypeOK'
  <2>1. loose' \subseteq Invoice /\ faults' \in 0..MaxFaults
    BY <1>1, <1>7, FaultType DEF TypeOK
  <2> QED
    BY <1>1, <1>6, <1>7, <1>8, <1>9, <1>10, <2>1 DEF TypeOK
<1>12. ASSUME NEW i \in Invoice, i \notin loose'
       PROVE  \A k \in Written(plan) : plan[k].inv # i /\ alloc[p][k].inv # i
  <2>1. i \notin Touched(plan) /\ i # None
    BY <1>1, <1>3, <1>12, NullAssumption
  <2>2. \A k \in Written(plan) : alloc[p][k] = NoRow
    BY <1>2, <1>4 DEF Used
  <2> QED
    BY <2>1, <2>2 DEF Touched, NoRow
<1>13. ASSUME NEW t \in Slot PROVE Sound(api[t])'
  <2>1. CASE t = s
    BY <1>9, <2>1, IdleSound
  <2>2. CASE t # s
    <3>1. api'[t] = api[t] /\ Sound(api[t]) /\ Apart(g, api[t]) /\ Apart(api[t], g) /\ api[t] \in Process
      BY <1>9, <2>2
    <3>2. IsConfirming(api[t]) => api[t].pay \in Payment \ {p}
      BY <1>3, <3>1 DEF Sound, ConfirmSound, IsConfirming
    <3>3. ConfirmSound(api[t])'
      BY <1>6, <1>8, <3>1, <3>2, ConfirmKept DEF Sound
    <3>4. FreshSound(api[t])'
      <4>1. ASSUME api[t].pc = "confirm_commit", NEW i \in Touched(api[t].plan) \ loose'
            PROVE  /\ inv'[i].total = inv[i].total
                   /\ On(Applied(alloc', api[t].pay, api[t].plan), i)
                      = On(Applied(alloc, api[t].pay, api[t].plan), i)
        <5>1. i \in Invoice /\ api[t].pay \in Payment \ {p} /\ api[t].plan \in Plan
          BY <3>1, <3>2, <4>1, ProcessFields DEF Sound, ConfirmSound, Touched, IsConfirming
        <5>2. \A k \in Written(plan) : plan[k].inv # i /\ alloc[p][k].inv # i
          BY <1>12, <4>1, <5>1
        <5> QED
          BY <1>1, <1>2, <1>5, <1>7, <5>1, <5>2, OthersSame
      <4>2. loose \subseteq loose'
        BY <1>1
      <4> QED
        BY <3>1, <4>1, <4>2, FreshKept DEF Sound
    <3>5. api[t].pc \in Executing => api[t].pay \in Payment \ {p}
      BY <1>3, ExecutingPayment
    <3>6. api[t].pc = "refund" => pay'[api[t].pay].status # "absent"
      BY <1>8, <3>1 DEF Sound, RefundSound
    <3>7. api[t].pc \in Executing => /\ alloc'[api[t].pay] = alloc[api[t].pay]
                                     /\ pay'[api[t].pay] = pay[api[t].pay]
      BY <1>6, <1>8, <3>5
    <3>8. RefundSound(api[t])' /\ ExecuteSound(api[t])' /\ StripeSound(api[t])'
      BY <1>1, <3>1, <3>6, <3>7, RefundKept, NullAssumption DEF Sound, ExecuteSound
    <3>9. CommitSound(api[t])'
      BY <3>1, <3>7, CommitKept DEF Sound, Executing
    <3>10. CheckoutSound(api[t])'
      <4>1. api[t].pc = "checkout_commit" => api[t].pay \in Payment \ {p} /\ api[t].event # e
        BY <1>1, <3>1 DEF Sound, CheckoutSound, Apart
      <4>2. api[t].pc = "checkout_commit" => \A q \in Payment : pay'[q].session # api[t].event
        BY <1>8, <3>1, <4>1 DEF Sound, CheckoutSound, Recorded
      <4> QED
        BY <1>6, <1>8, <3>1, <4>1, <4>2, CheckoutKept DEF Sound
    <3>11. InvoiceSound(api[t])'
      BY <3>1, InvoiceKept DEF Sound
    <3> QED
      BY <3>3, <3>4, <3>8, <3>9, <3>10, <3>11 DEF Sound
  <2> QED
    BY <2>1, <2>2
<1>14. ASSUME NEW t \in Slot, NEW u \in Slot, t # u PROVE Apart(api[t], api[u])'
  <2>1. CASE t # s /\ u # s
    <3>1. Apart(api[t], api[u]) /\ api'[t] = api[t] /\ api'[u] = api[u]
      BY <1>9, <1>14, <2>1 DEF IndInv
    <3> QED
      BY <3>1, ApartKept
  <2>2. CASE t = s
    BY <1>9, <1>13, <2>2, IdleApart, NullAssumption
  <2>3. CASE u = s
    BY <1>9, <1>13, <2>3, IdleApart, NullAssumption
  <2> QED
    BY <2>1, <2>2, <2>3
<1>15. ASSUME NEW q \in Payment PROVE PaymentSound(q)'
  <2>1. ASSUME NEW t \in Slot, t \in ExecutingOn(q)'
        PROVE  t # s /\ t \in ExecutingOn(q) /\ api'[t] = api[t]
    <3>1. t # s
      BY <1>9, <2>1, IdleType DEF ExecutingOn, Executing
    <3> QED
      BY <1>9, <2>1, <3>1 DEF ExecutingOn
  <2>2. CASE q # p
    <3>1. Ceiling(q)' \subseteq Ceiling(q)
      BY <1>6, <2>1, <2>2, CeilingKept
    <3> QED
      BY <1>6, <1>8, <2>2, <3>1, PaymentKept
  <2>3. CASE q = p
    <3>1. ExecutingOn(q)' = {}
      <4>1. ASSUME NEW t \in Slot, t \in ExecutingOn(q)' PROVE FALSE
        <5>1. t \in ExecutingOn(q)
          BY <2>1, <4>1
        <5> QED
          BY <1>3, <2>3, <5>1, ExecutingPayment DEF ExecutingOn
      <4> QED
        BY <4>1 DEF ExecutingOn
    <3>2. Ceiling(q)' = Units(alloc'[q])
      BY <3>1 DEF Ceiling
    <3>3. Cardinality(Ceiling(q)') <= pay'[q].amount /\ pay'[q].status = "posted"
      BY <1>3, <1>6, <1>8, <2>3, <3>2
    <3> QED
      BY <3>3 DEF PaymentSound
  <2> QED
    BY <2>2, <2>3
<1>16. ASSUME NEW i \in Invoice PROVE InvoiceRowSound(i)'
  <2> SUFFICES ASSUME i \notin loose' PROVE InvoiceRowSound(i)'
    BY DEF InvoiceRowSound
  <2>1. On(alloc', i) = On(alloc, i)
    BY <1>1, <1>2, <1>5, <1>12, OthersSame
  <2>2. inv'[i] = inv[i] /\ i \notin loose
    BY <1>1, <1>7
  <2> QED
    BY <2>1, <2>2 DEF IndInv, InvoiceRowSound
<1>17. ASSUME NEW o \in Refund PROVE RefundRowSound(o)'
  BY <1>1, <1>8 DEF IndInv, RefundRowSound, Signed
<1>18. OnePaymentPerSession'
  BY <1>3, <1>8 DEF IndInv, OnePaymentPerSession
<1> QED
  BY <1>10, <1>11, <1>13, <1>14, <1>15, <1>16, <1>17, <1>18 DEF IndInv

-----------------------------------------------------------------------------
(* The invariant and the theorems                                                *)

LEMMA HandlerStep ==
  ASSUME IndInv, NEW s \in Slot, Handler(s)
  PROVE  IndInv'
<1>1. ASSUME NEW p \in Payment, NEW plan \in Requests(p), ConfirmLock(s, p, plan) PROVE IndInv'
  BY <1>1, ConfirmLockStep
<1>2. ASSUME NEW p \in Payment, NEW f \in Refund, NEW n \in Amount, RefundRead(s, f, p, n) PROVE IndInv'
  BY <1>2, RefundReadStep
<1>3. ASSUME NEW p \in Payment, CheckoutInsert(s, p) PROVE IndInv'
  BY <1>3, CheckoutInsertStep
<1>4. CASE ConfirmRecalculate(s) \/ ConfirmCommit(s)
  BY <1>4, ConfirmRecalculateStep, ConfirmCommitStep
<1>5. ASSUME NEW u \in User, RefundInsert(s, u) PROVE IndInv'
  BY <1>5, RefundInsertStep
<1>6. ASSUME NEW f \in Refund, ExecuteClaim(s, f) PROVE IndInv'
  BY <1>6, ExecuteClaimStep
<1>7. CASE ExecuteRecalculate(s) \/ ExecuteCommit(s)
  BY <1>7, ExecuteRecalculateStep, ExecuteCommitStep
<1>8. CASE StripeReturns(s) \/ StripeRefuses(s)
  BY <1>8, StripeAnswerStep
<1>9. ASSUME NEW e \in Session, CheckoutRead(s, e) PROVE IndInv'
  BY <1>9, CheckoutReadStep
<1>10. CASE CheckoutCommit(s)
  BY <1>10, CheckoutCommitStep
<1>11. CASE ExecuteConflict(s) \/ CheckoutRejected(s) \/ RollBack(s)
  BY <1>11, FinishStep DEF ExecuteConflict, CheckoutRejected, RollBack
<1>12. ASSUME NEW i \in Invoice, NEW to \in {"issued", "cancelled", "void"}, StatusRead(s, i, to)
       PROVE  IndInv'
  BY <1>12, InvoiceReadStep DEF StatusRead
<1>13. ASSUME NEW i \in Invoice, WriteOffRead(s, i) \/ LateFeeRead(s, i) PROVE IndInv'
  <2>1. inv[i].total \in Nat /\ inv[i].balance \in Int
    BY DEF IndInv, TypeOK, InvoiceRow
  <2> QED
    BY <1>13, <2>1, InvoiceReadStep DEF WriteOffRead, LateFeeRead
<1>14. ASSUME NEW i \in Invoice, NEW c \in CreditNote, NEW n \in Amount, CreditRead(s, c, i, n)
       PROVE  IndInv'
  BY <1>14, CreditReadStep
<1>15. ASSUME NEW to \in {"issued", "cancelled", "void"}, StatusWrite(s, to) PROVE IndInv'
  BY <1>15, StatusWriteStep
<1>16. CASE WriteOffWrite(s) \/ LateFeeWrite(s) \/ CreditWrite(s)
  BY <1>16, WriteOffWriteStep, LateFeeWriteStep, CreditWriteStep
<1> QED
  BY <1>1, <1>2, <1>3, <1>4, <1>5, <1>6, <1>7, <1>8, <1>9, <1>10, <1>11, <1>12, <1>13, <1>14,
     <1>15, <1>16 DEF Handler

LEMMA EnvironmentStep ==
  ASSUME IndInv, Environment
  PROVE  IndInv'
<1>1. ASSUME NEW p \in Payment, NEW n \in Amount, CreatePayment(p, n) PROVE IndInv'
  BY <1>1, CreatePaymentStep
<1>2. ASSUME NEW f \in Refund, NEW u \in User, Approve(f, u) \/ Reject(f, u) PROVE IndInv'
  BY <1>2, DecideStep DEF Approve, Reject, MayApprove
<1>3. ASSUME NEW e \in Session,
             ParentPays(e) \/ CheckoutDuplicate(e) \/ \E i \in Invoice : CheckoutOpen(e, i)
      PROVE  IndInv'
  BY <1>3, SessionSteps
<1>4. CASE OverdueScan \/ OverdueWrite \/ \E i \in Invoice : DueDatePasses(i)
  BY <1>4, CalendarStep
<1> QED
  BY <1>1, <1>2, <1>3, <1>4 DEF Environment

LEMMA StutterInv ==
  ASSUME IndInv, UNCHANGED vars
  PROVE  IndInv'
<1>1. TypeOK'
  BY DEF IndInv, TypeOK, vars
<1>2. (\A e \in Session : SessionSound(e)') /\ \A f \in Refund : RefundRowSound(f)'
  BY RefundsSame DEF IndInv, SessionSound, vars
<1> QED
  BY <1>1, <1>2, QuietStep DEF vars

LEMMA StepInv == IndInv /\ [Next]_vars => IndInv'
BY HandlerStep, EnvironmentStep, StutterInv DEF Next

\* The inductive invariant holds: a running handler's copy of rows and locks is
\* what its last step may rely on.
THEOREM InvariantThm == Spec => []IndInv
BY InitInv, StepInv, PTL DEF Spec

\* Every row and every handler's copy keeps its type.
THEOREM TypesThm == Spec => []TypeOK
<1>1. IndInv => TypeOK
  BY DEF IndInv
<1> QED
  BY <1>1, InvariantThm, PTL

\* confirmAllocations, the webhook and executing refunds never allocate more of a
\* payment than its amount.
THEOREM AllocationCapThm == Spec => []AllocationCap
<1>1. IndInv => AllocationCap
  <2> SUFFICES ASSUME IndInv, NEW p \in Payment PROVE Allocated(p) <= pay[p].amount
    BY DEF AllocationCap
  <2>1. Cardinality(Ceiling(p)) <= pay[p].amount /\ pay[p].amount \in Int
    BY AmountAssumption DEF IndInv, PaymentSound, TypeOK, PaymentRow
  <2>2. Ceiling(p) \in SUBSET (Index \X Amount) /\ Units(alloc[p]) \in SUBSET Ceiling(p)
    BY CeilingCount
  <2> QED
    BY <2>1, <2>2, SmallerCount DEF Allocated
<1> QED
  BY <1>1, InvariantThm, PTL

\* The row locks of confirmAllocations keep the balance of every invoice that only
\* it has written equal to what is still unallocated.
THEOREM ConfirmedBalanceThm == Spec => []ConfirmedBalance
<1>1. IndInv => ConfirmedBalance
  BY DEF IndInv, InvoiceRowSound, ConfirmedBalance
<1> QED
  BY <1>1, InvariantThm, PTL

\* Refunds that were executed or returned carry two people's signatures, and Stripe
\* is asked for each of them once.
THEOREM RefundsHonouredThm == Spec => []RefundsHonoured
<1>1. IndInv => RefundsHonoured
  BY DEF IndInv, RefundRowSound, Signed, RefundsHonoured
<1> QED
  BY <1>1, InvariantThm, PTL

\* One checkout session records one payment however often its event is delivered.
THEOREM OnePaymentThm == Spec => []OnePaymentPerSession
<1>1. IndInv => OnePaymentPerSession
  BY DEF IndInv
<1> QED
  BY <1>1, InvariantThm, PTL

-----------------------------------------------------------------------------
(* What a step may never do to the allocations                                   *)

LEMMA AllocationWriters ==
  ASSUME [Next]_vars
  PROVE  \/ UNCHANGED alloc
         \/ \E s \in Slot : ConfirmCommit(s) \/ ExecuteCommit(s) \/ CheckoutCommit(s)
<1>1. ASSUME Environment PROVE UNCHANGED alloc
  BY <1>1 DEF Environment, CreatePayment, Approve, Reject, Decide, ParentPays, CheckoutDuplicate,
     CheckoutOpen, DueDatePasses, OverdueScan, OverdueWrite
<1>2. ASSUME NEW s \in Slot, Handler(s)
      PROVE  UNCHANGED alloc \/ ConfirmCommit(s) \/ ExecuteCommit(s) \/ CheckoutCommit(s)
  BY <1>2 DEF Handler, ConfirmLock, RefundRead, CheckoutInsert, ConfirmRecalculate, RefundInsert,
     ExecuteClaim, ExecuteRecalculate, ExecuteConflict, StripeReturns, StripeRefuses, CheckoutRead,
     CheckoutRejected, StatusRead, WriteOffRead, LateFeeRead, InvoiceRead, CreditRead, StatusWrite,
     WriteOffWrite, LateFeeWrite, CreditWrite, RollBack
<1> QED
  BY <1>1, <1>2 DEF Next, vars

\* New rows on unused positions, and none of a payment that has been refunded.
LEMMA RowsAdded ==
  ASSUME IndInv, NEW s \in Slot, ConfirmCommit(s) \/ CheckoutCommit(s), NEW q \in Payment
  PROVE  /\ Units(alloc[q]) \subseteq Units(alloc'[q])
         /\ pay[q].status \in {"refunded_partial", "refunded_full"} => alloc'[q] = alloc[q]
<1> DEFINE p == api[s].pay
           plan == api[s].plan
<1>1. /\ p \in Payment /\ pay[p].status \in {"posted", "absent"}
      /\ Written(plan) \cap Used(alloc[p]) = {}
  BY DEF IndInv, Sound, ConfirmSound, CheckoutSound, PaymentSound, ConfirmCommit, CheckoutCommit
<1>2. TypeOK /\ plan \in Plan /\ WriteRows(p, plan)
  BY ProcessFields DEF IndInv, TypeOK, ConfirmCommit, CheckoutCommit
<1> HIDE DEF p, plan
<1>3. /\ \A k \in Index : alloc'[p][k] = IF k \in Written(plan) THEN plan[k] ELSE alloc[p][k]
      /\ \A o \in Payment \ {p} : alloc'[o] = alloc[o]
      /\ alloc' \in [Payment -> [Index -> Row]]
  BY <1>1, <1>2, RowsWritten
<1>4. alloc \in [Payment -> [Index -> Row]]
  BY <1>2 DEF TypeOK
<1>5. \A k \in Index : alloc[q][k].amt <= alloc'[q][k].amt
  <2>1. ASSUME NEW k \in Index PROVE alloc[q][k].amt <= alloc'[q][k].amt
    <3>1. alloc[q][k].amt \in 0..MaxAmount /\ alloc'[q][k].amt \in 0..MaxAmount
      BY <1>3, <1>4 DEF Row
    <3>2. alloc'[q][k] = alloc[q][k] \/ alloc[q][k] = NoRow
      BY <1>1, <1>3 DEF Used
    <3> QED
      BY <3>1, <3>2, AmountAssumption DEF NoRow
  <2> QED
    BY <2>1
<1>6. Units(alloc[q]) \subseteq Units(alloc'[q])
  BY <1>3, <1>4, <1>5, UnitsWithin
<1>7. pay[q].status \in {"refunded_partial", "refunded_full"} => q # p
  BY <1>1
<1> QED
  BY <1>3, <1>6, <1>7

\* Rows are only changed on the payment of the refund being executed, and only
\* where there is one.
LEMMA RowsReversed ==
  ASSUME IndInv, NEW s \in Slot, ExecuteCommit(s)
  PROVE  \E p \in Payment, f \in Refund :
           /\ refund[f].pay = p /\ refund[f].status = "approved" /\ refund'[f].status = "executed"
           /\ \A q \in Payment \ {p} : alloc'[q] = alloc[q]
           /\ Used(alloc'[p]) \subseteq Used(alloc[p])
<1>0. PICK p \in Payment, f \in Refund : p = api[s].pay /\ f = api[s].ref
  BY ExecutingPayment DEF ExecuteCommit, Executing
<1> DEFINE plan == api[s].plan
<1>1. refund[f].pay = p /\ refund[f].status = "approved"
  BY <1>0, ExecutingPayment DEF ExecuteCommit, Executing
<1>2. refund'[f].status = "executed"
  <2>1. refund \in [Refund -> RefundRow]
    BY DEF IndInv, TypeOK
  <2>2. refund[f] \in RefundRow
    BY <2>1
  <2>3. refund' = [refund EXCEPT ![f] = [refund[f] EXCEPT !.status = "executed"]]
    BY <1>0, <2>1 DEF ExecuteCommit
  <2>4. [refund[f] EXCEPT !.status = "executed"].status = "executed"
    BY <2>2 DEF RefundRow
  <2> QED
    BY <2>1, <2>3, <2>4
<1>3. /\ TypeOK /\ plan \in Plan /\ WriteRows(p, plan)
      /\ \A k \in Written(plan) : k \in Used(alloc[p])
  BY <1>0, ProcessFields DEF IndInv, TypeOK, Sound, CommitSound, ExecuteCommit
<1> HIDE DEF plan
<1>4. /\ \A k \in Index : alloc'[p][k] = IF k \in Written(plan) THEN plan[k] ELSE alloc[p][k]
      /\ \A o \in Payment \ {p} : alloc'[o] = alloc[o]
  BY <1>3, RowsWritten
<1>5. Used(alloc'[p]) \subseteq Used(alloc[p])
  BY <1>3, <1>4 DEF Used
<1> QED
  BY <1>1, <1>2, <1>4, <1>5

\* A payment's allocations shrink only when an approved refund of it is executed.
THEOREM ReversedByRefundThm == Spec => ReversedByRefund
<1>1. ASSUME IndInv, [Next]_vars, NEW q \in Payment, Allocated(q)' < Allocated(q)
      PROVE  \E f \in Refund : refund[f].pay = q /\ refund[f].status = "approved"
                               /\ refund'[f].status = "executed"
  <2>1. Units(alloc[q]) \in SUBSET (Index \X Amount) /\ Units(alloc'[q]) \in SUBSET (Index \X Amount)
    BY UnitsOfRows
  <2>2. Cardinality(Units(alloc'[q])) \in Nat /\ Cardinality(Units(alloc[q])) \in Nat
    BY UnitsOfRows
  <2>3. ~(Units(alloc[q]) \subseteq Units(alloc'[q]))
    <3>1. Cardinality(Units(alloc'[q])) < Cardinality(Units(alloc[q]))
      BY <1>1 DEF Allocated
    <3>2. Units(alloc[q]) \subseteq Units(alloc'[q])
            => Cardinality(Units(alloc[q])) <= Cardinality(Units(alloc'[q]))
      BY <2>1, UnitsCount
    <3> QED
      BY <2>2, <3>1, <3>2
  <2>4. alloc'[q] # alloc[q]
    BY <2>3
  <2>5. PICK s \in Slot : ConfirmCommit(s) \/ ExecuteCommit(s) \/ CheckoutCommit(s)
    BY <1>1, <2>4, AllocationWriters
  <2>6. ExecuteCommit(s)
    BY <1>1, <2>3, <2>5, RowsAdded
  <2> QED
    BY <1>1, <2>4, <2>6, RowsReversed
<1>2. IndInv /\ [Next]_vars =>
        [\A p \in Payment : Allocated(p)' < Allocated(p) =>
           \E f \in Refund : refund[f].pay = p /\ refund[f].status = "approved"
                             /\ refund'[f].status = "executed"]_vars
  BY <1>1
<1> QED
  BY <1>2, InvariantThm, PTL DEF Spec, ReversedByRefund

\* Once a refund of a payment has been executed no further row is allocated from it.
THEOREM RefundedClosedThm == Spec => RefundedClosed
<1>1. ASSUME IndInv, [Next]_vars, NEW q \in Payment,
             pay[q].status \in {"refunded_partial", "refunded_full"}
      PROVE  Used(alloc'[q]) \subseteq Used(alloc[q])
  <2>1. CASE UNCHANGED alloc
    BY <2>1
  <2>2. ASSUME NEW s \in Slot, ConfirmCommit(s) \/ CheckoutCommit(s)
        PROVE  Used(alloc'[q]) \subseteq Used(alloc[q])
    <3>1. alloc'[q] = alloc[q]
      BY <1>1, <2>2, RowsAdded
    <3> QED
      BY <3>1
  <2>3. ASSUME NEW s \in Slot, ExecuteCommit(s) PROVE Used(alloc'[q]) \subseteq Used(alloc[q])
    <3>1. PICK p \in Payment : /\ \A o \in Payment \ {p} : alloc'[o] = alloc[o]
                               /\ Used(alloc'[p]) \subseteq Used(alloc[p])
      BY <1>1, <2>3, RowsReversed
    <3>2. CASE q = p
      BY <3>1, <3>2
    <3>3. CASE q # p
      <4>1. alloc'[q] = alloc[q]
        BY <3>1, <3>3
      <4> QED
        BY <4>1
    <3> QED
      BY <3>2, <3>3
  <2> QED
    BY <1>1, <2>1, <2>2, <2>3, AllocationWriters
<1>2. IndInv /\ [Next]_vars =>
        [\A p \in Payment : pay[p].status \in {"refunded_partial", "refunded_full"} =>
           Used(alloc'[p]) \subseteq Used(alloc[p])]_vars
  BY <1>1
<1> QED
  BY <1>2, InvariantThm, PTL DEF Spec, RefundedClosed
-----------------------------------------------------------------------------
(* The ledger as one book of payments and refunds                                *)

BookPayment(p) == [status |-> BookStatus(p), amount |-> pay[p].amount, source |-> pay[p].session]
BookRefund(row) == [status |-> row.status, pay |-> row.pay,
                    requester |-> row.requester, approver |-> row.approver]
BookPayments == [p \in Payment |-> BookPayment(p)]
BookRows == [p \in Payment |-> Used(alloc[p])]
BookAllocated == [p \in Payment |-> Allocated(p)]
BookRefunds == [f \in Refund |-> BookRefund(refund[f])]
BookReturned == [f \in Refund |-> refund[f].returned]
Returning(f, n) == [g \in Refund |-> IF g = f THEN n ELSE refund[g].returned]

\* The steps the book shows.
LEMMA BookWriters ==
  ASSUME [Next]_vars
  PROVE  \/ UNCHANGED <<pay, alloc, refund>>
         \/ \E p \in Payment, n \in Amount : CreatePayment(p, n)
         \/ \E f \in Refund, u \in User : Approve(f, u) \/ Reject(f, u)
         \/ \E s \in Slot, u \in User : RefundInsert(s, u)
         \/ \E s \in Slot : \/ ConfirmCommit(s) \/ ExecuteCommit(s) \/ CheckoutCommit(s)
                             \/ StripeReturns(s) \/ StripeRefuses(s)
<1>1. ASSUME Environment
      PROVE  \/ UNCHANGED <<pay, alloc, refund>>
             \/ \E p \in Payment, n \in Amount : CreatePayment(p, n)
             \/ \E f \in Refund, u \in User : Approve(f, u) \/ Reject(f, u)
  BY <1>1 DEF Environment, ParentPays, CheckoutDuplicate, CheckoutOpen, DueDatePasses, OverdueScan,
     OverdueWrite
<1>2. ASSUME NEW s \in Slot, Handler(s)
      PROVE  \/ UNCHANGED <<pay, alloc, refund>>
             \/ \E u \in User : RefundInsert(s, u)
             \/ ConfirmCommit(s) \/ ExecuteCommit(s) \/ CheckoutCommit(s)
             \/ StripeReturns(s) \/ StripeRefuses(s)
  <2>1. ASSUME \/ \E i \in Invoice : \/ \E to \in {"issued", "cancelled", "void"} : StatusRead(s, i, to)
                                    \/ WriteOffRead(s, i) \/ LateFeeRead(s, i)
                                    \/ \E c \in CreditNote, n \in Amount : CreditRead(s, c, i, n)
               \/ \E to \in {"issued", "cancelled", "void"} : StatusWrite(s, to)
               \/ WriteOffWrite(s) \/ LateFeeWrite(s) \/ CreditWrite(s) \/ RollBack(s)
        PROVE  UNCHANGED <<pay, alloc, refund>>
    BY <2>1 DEF StatusRead, WriteOffRead, LateFeeRead, InvoiceRead, CreditRead, StatusWrite,
       WriteOffWrite, LateFeeWrite, CreditWrite, RollBack
  <2>2. ASSUME \/ \E p \in Payment : \/ \E plan \in Requests(p) : ConfirmLock(s, p, plan)
                                    \/ \E f \in Refund, n \in Amount : RefundRead(s, f, p, n)
                                    \/ CheckoutInsert(s, p)
               \/ ConfirmRecalculate(s) \/ ExecuteRecalculate(s) \/ ExecuteConflict(s)
               \/ \E f \in Refund : ExecuteClaim(s, f)
               \/ \E e \in Session : CheckoutRead(s, e)
               \/ CheckoutRejected(s)
        PROVE  UNCHANGED <<pay, alloc, refund>>
    BY <2>2 DEF ConfirmLock, RefundRead, CheckoutInsert, ConfirmRecalculate, ExecuteRecalculate,
       ExecuteConflict, ExecuteClaim, CheckoutRead, CheckoutRejected
  <2> QED
    BY <1>2, <2>1, <2>2 DEF Handler
<1> QED
  BY <1>1, <1>2 DEF Next, vars

\* A refund's row decides what the book shows of it.
BookRefundRow == [status : Live \cup {"absent", "rejected", "failed"}, pay : Payment \cup {None},
                  requester : User \cup {None}, approver : User \cup {None}]

LEMMA RefundsShown ==
  ASSUME TypeOK, NEW f \in Refund
  PROVE  /\ BookRefunds[f] \in BookRefundRow
         /\ BookRefunds[f].status = refund[f].status /\ BookRefunds[f].pay = refund[f].pay
         /\ BookRefunds[f].requester = refund[f].requester /\ BookRefunds[f].approver = refund[f].approver
<1>1. refund[f] \in RefundRow
  BY DEF TypeOK
<1> QED
  BY <1>1 DEF RefundRow, BookRefunds, BookRefund, BookRefundRow

LEMMA RefundShown ==
  ASSUME TypeOK, NEW f \in Refund, NEW row \in RefundRow, refund' = [refund EXCEPT ![f] = row],
         NEW b \in BookRefundRow, b.status = row.status, b.pay = row.pay,
         b.requester = row.requester, b.approver = row.approver
  PROVE  /\ BookRefunds' = [BookRefunds EXCEPT ![f] = b]
         /\ BookReturned' = Returning(f, row.returned)
<1>1. refund'[f] = row /\ \A g \in Refund \ {f} : refund'[g] = refund[g]
  BY DEF TypeOK
<1>2. BookRefund(row) = b
  BY DEF BookRefund, BookRefundRow
<1>3. BookRefunds' = [BookRefunds EXCEPT ![f] = BookRefund(row)]
  BY <1>1 DEF BookRefunds, BookRefund
<1>4. BookReturned' = Returning(f, row.returned)
  BY <1>1 DEF BookReturned, Returning
<1> QED
  BY <1>2, <1>3, <1>4

LEMMA PaymentShown ==
  ASSUME NEW p \in Payment, pay'[p] = pay[p]
  PROVE  BookPayment(p)' = BookPayment(p)
BY DEF BookPayment, BookStatus

\* Rows that stay within their payment are what the book allows to be written.
LEMMA RowsShown ==
  ASSUME IndInv', NEW p \in Payment, \A q \in Payment \ {p} : alloc'[q] = alloc[q]
  PROVE  /\ BookAllocated'[p] <= BookPayments'[p].amount
         /\ \A q \in Payment \ {p} : BookRows'[q] = BookRows[q] /\ BookAllocated'[q] = BookAllocated[q]
<1>1. Allocated(p)' <= pay'[p].amount
  <2>1. Cardinality(Ceiling(p))' <= pay'[p].amount /\ pay'[p].amount \in Int
    BY AmountAssumption DEF IndInv, PaymentSound, TypeOK, PaymentRow
  <2>2. Ceiling(p)' \in SUBSET (Index \X Amount) /\ Units(alloc'[p]) \in SUBSET Ceiling(p)'
    BY DEF Ceiling, Units
  <2> QED
    BY <2>1, <2>2, SmallerCount DEF Allocated
<1>2. \A q \in Payment \ {p} : Used(alloc[q])' = Used(alloc[q]) /\ Allocated(q)' = Allocated(q)
  BY DEF Allocated
<1> QED
  BY <1>1, <1>2 DEF BookAllocated, BookPayments, BookPayment, BookRows

LEMMA CreateRefines ==
  ASSUME IndInv, IndInv', NEW p \in Payment, NEW n \in Amount, CreatePayment(p, n)
  PROVE  Book!Next
<1>1. /\ pay \in [Payment -> PaymentRow] /\ pay[p].status = "absent" /\ pay[p].session = None
      /\ pay' = [pay EXCEPT ![p].status = "posted", ![p].amount = n]
      /\ UNCHANGED <<alloc, refund>>
  BY DEF IndInv, TypeOK, PaymentSound, CreatePayment
<1>2. /\ pay'[p].status = "posted" /\ pay'[p].amount = n /\ pay'[p].session = None
      /\ \A q \in Payment \ {p} : pay'[q] = pay[q]
  BY <1>1 DEF PaymentRow
<1>3. BookPayments' = [BookPayments EXCEPT ![p] = [status |-> "open", amount |-> n, source |-> None]]
  BY <1>2, PaymentShown DEF BookPayments, BookPayment, BookStatus
<1>4. BookPayments[p].status = "absent"
  BY <1>1 DEF BookPayments, BookPayment, BookStatus
<1>5. Book!Writes(p)
  BY <1>1, RowsShown DEF Book!Writes, BookPayments, BookPayment, BookRows, BookAllocated
<1>6. BookRefunds' = BookRefunds /\ BookReturned' = BookReturned
  BY <1>1 DEF BookRefunds, BookReturned
<1>7. Book!Record(p, None, n)
  BY <1>3, <1>4, <1>5, <1>6 DEF Book!Record, BookPayments, BookPayment, BookRefunds, BookRefund, BookReturned
<1>8. n \in 0..MaxAmount
  BY AmountAssumption DEF Amount
<1> QED
  BY <1>7, <1>8 DEF Book!Next

LEMMA DecideRefines ==
  ASSUME IndInv, NEW f \in Refund, NEW u \in User, Approve(f, u) \/ Reject(f, u)
  PROVE  Book!Next
<1>1. PICK to \in {"approved", "rejected"} : Decide(f, u, to) /\ (to = "approved" => u # refund[f].requester)
  BY DEF Approve, Reject, MayApprove
<1> DEFINE row == [refund[f] EXCEPT !.status = to, !.approver = u]
<1>2. TypeOK /\ refund \in [Refund -> RefundRow] /\ refund[f] \in RefundRow
  BY DEF IndInv, TypeOK
<1>3. refund' = [refund EXCEPT ![f] = row] /\ refund[f].status = "pending_approval" /\ UNCHANGED <<pay, alloc>>
  BY <1>1, <1>2 DEF Decide
<1>4. /\ row.status = to /\ row.approver = u /\ row.returned = refund[f].returned
      /\ row.pay = refund[f].pay /\ row.requester = refund[f].requester
  BY <1>2 DEF RefundRow
<1>5. row \in RefundRow
  BY <1>2 DEF RefundRow, Live
<1> HIDE DEF row
<1>6. /\ BookRefunds' = [BookRefunds EXCEPT ![f].status = to, ![f].approver = u]
      /\ BookReturned' = BookReturned
  <2> DEFINE shown == [BookRefunds[f] EXCEPT !.status = to, !.approver = u]
  <2>1. /\ shown \in BookRefundRow /\ shown.status = row.status /\ shown.pay = row.pay
        /\ shown.requester = row.requester /\ shown.approver = row.approver
    BY <1>2, <1>4, RefundsShown DEF BookRefundRow, Live
  <2>2. [BookRefunds EXCEPT ![f].status = to, ![f].approver = u] = [BookRefunds EXCEPT ![f] = shown]
    BY DEF BookRefunds, BookRefund
  <2>3. BookReturned = Returning(f, row.returned)
    BY <1>4 DEF BookReturned, Returning
  <2> HIDE DEF shown
  <2>4. /\ BookRefunds' = [BookRefunds EXCEPT ![f] = shown]
        /\ BookReturned' = Returning(f, row.returned)
    BY <1>2, <1>3, <1>5, <2>1, RefundShown
  <2> QED
    BY <2>2, <2>3, <2>4
<1>7. BookPayments' = BookPayments /\ BookRows' = BookRows /\ BookAllocated' = BookAllocated
  BY <1>3, PaymentShown DEF BookPayments, BookRows, BookAllocated, Allocated
<1>8. BookRefunds[f].status = "pending_approval" /\ BookRefunds[f].requester = refund[f].requester
  BY <1>3 DEF BookRefunds, BookRefund
<1>9. Book!Decide(f, u)
  BY <1>1, <1>6, <1>7, <1>8
     DEF Book!Decide, BookPayments, BookPayment, BookRows, BookAllocated, BookRefunds, BookRefund, BookReturned
<1> QED
  BY <1>9 DEF Book!Next

LEMMA AskRefines ==
  ASSUME IndInv, NEW s \in Slot, NEW u \in User, RefundInsert(s, u)
  PROVE  Book!Next
<1>0. PICK f \in Refund, p \in Payment : /\ f = api[s].ref /\ p = api[s].pay
                                          /\ refund[f].status = "absent" /\ pay[p].status # "absent"
  BY DEF IndInv, Sound, RefundSound, RefundInsert
<1> DEFINE row == [refund[f] EXCEPT !.status = "pending_approval", !.pay = p, !.amt = api[s].amt,
                                    !.requester = u]
<1>2. TypeOK /\ refund \in [Refund -> RefundRow] /\ refund[f] \in RefundRow
  BY DEF IndInv, TypeOK
<1>3. refund' = [refund EXCEPT ![f] = row] /\ UNCHANGED <<pay, alloc>>
  BY <1>0, <1>2 DEF RefundInsert
<1>4. /\ row.status = "pending_approval" /\ row.pay = p /\ row.requester = u
      /\ row.returned = refund[f].returned /\ row.approver = refund[f].approver
  BY <1>2 DEF RefundRow
<1>5. row \in RefundRow
  <2>1. api[s].amt \in 0..MaxAmount
    BY <1>2, ProcessFields DEF TypeOK
  <2> QED
    BY <1>2, <2>1 DEF RefundRow, Live
<1> HIDE DEF row
<1>6. /\ BookRefunds' = [BookRefunds EXCEPT ![f].status = "pending_approval", ![f].pay = p, ![f].requester = u]
      /\ BookReturned' = BookReturned
  <2> DEFINE shown == [BookRefunds[f] EXCEPT !.status = "pending_approval", !.pay = p, !.requester = u]
  <2>1. /\ shown \in BookRefundRow /\ shown.status = row.status /\ shown.pay = row.pay
        /\ shown.requester = row.requester /\ shown.approver = row.approver
    BY <1>2, <1>4, RefundsShown DEF BookRefundRow, Live
  <2>2. [BookRefunds EXCEPT ![f].status = "pending_approval", ![f].pay = p, ![f].requester = u]
          = [BookRefunds EXCEPT ![f] = shown]
    BY DEF BookRefunds, BookRefund
  <2>3. BookReturned = Returning(f, row.returned)
    BY <1>4 DEF BookReturned, Returning
  <2> HIDE DEF shown
  <2>4. /\ BookRefunds' = [BookRefunds EXCEPT ![f] = shown]
        /\ BookReturned' = Returning(f, row.returned)
    BY <1>2, <1>3, <1>5, <2>1, RefundShown
  <2> QED
    BY <2>2, <2>3, <2>4
<1>7. BookPayments' = BookPayments /\ BookRows' = BookRows /\ BookAllocated' = BookAllocated
  BY <1>3, PaymentShown DEF BookPayments, BookRows, BookAllocated, Allocated
<1>8. BookRefunds[f].status = "absent" /\ BookPayments[p].status # "absent"
  BY <1>0 DEF BookRefunds, BookRefund, BookPayments, BookPayment, BookStatus
<1>9. Book!Ask(f, p, u)
  BY <1>6, <1>7, <1>8
     DEF Book!Ask, BookPayments, BookPayment, BookRows, BookAllocated, BookRefunds, BookRefund, BookReturned
<1> QED
  BY <1>9 DEF Book!Next

LEMMA AllocateRefines ==
  ASSUME IndInv, IndInv', NEW s \in Slot, ConfirmCommit(s)
  PROVE  Book!Next
<1>0. PICK p \in Payment : p = api[s].pay /\ pay[p].status = "posted"
  BY DEF IndInv, Sound, ConfirmSound, ConfirmCommit
<1>1. UNCHANGED <<pay, refund>>
  BY DEF ConfirmCommit
<1>2. /\ \A k \in Index : alloc'[p][k] = IF k \in Written(api[s].plan) THEN api[s].plan[k] ELSE alloc[p][k]
      /\ \A q \in Payment \ {p} : alloc'[q] = alloc[q]
  <2>1. TypeOK /\ api[s].plan \in Plan /\ WriteRows(p, api[s].plan)
    BY <1>0, ProcessFields DEF IndInv, TypeOK, ConfirmCommit
  <2> QED
    BY <2>1, RowsWritten
<1>3. Used(alloc[p]) \subseteq Used(alloc'[p])
  <2>1. Written(api[s].plan) \cap Used(alloc[p]) = {}
    BY <1>0 DEF IndInv, Sound, ConfirmSound, ConfirmCommit
  <2> QED
    BY <1>2, <2>1 DEF Used
<1>4. Allocated(p) <= Allocated(p)'
  <2>1. Units(alloc[p]) \in SUBSET Units(alloc'[p])
    BY RowsAdded
  <2>2. Units(alloc'[p]) \in SUBSET (Index \X Amount)
    BY UnitsOfRows
  <2> QED
    BY <2>1, <2>2, UnitsCount DEF Allocated
<1>5. Book!Writes(p)
  BY <1>2, RowsShown DEF Book!Writes, BookPayments, BookPayment, BookRows, BookAllocated
<1>6. BookPayments' = BookPayments /\ BookRefunds' = BookRefunds /\ BookReturned' = BookReturned
  BY <1>1, PaymentShown DEF BookPayments, BookRefunds, BookReturned
<1>7. BookPayments[p].status = "open"
  BY <1>0 DEF BookPayments, BookPayment, BookStatus
<1>8. Book!Allocate(p)
  BY <1>3, <1>4, <1>5, <1>6, <1>7
     DEF Book!Allocate, BookPayments, BookPayment, BookRows, BookAllocated, BookRefunds, BookRefund, BookReturned
<1> QED
  BY <1>8 DEF Book!Next

LEMMA CheckoutRefines ==
  ASSUME IndInv, IndInv', NEW s \in Slot, CheckoutCommit(s)
  PROVE  Book!Next
<1>0. PICK p \in Payment, e \in Session, n \in 0..MaxAmount :
        /\ p = api[s].pay /\ e = api[s].event /\ n = api[s].amt
        /\ pay[p].status = "absent" /\ ~Recorded(e)
  BY ProcessFields DEF CheckoutCommit, IndInv, TypeOK, Sound, CheckoutSound
<1> DEFINE row == [status |-> "posted", amount |-> n, session |-> e]
<1>1. /\ pay \in [Payment -> PaymentRow] /\ pay' = [pay EXCEPT ![p] = row] /\ UNCHANGED refund
  BY <1>0 DEF CheckoutCommit, IndInv, TypeOK
<1>2. \A q \in Payment \ {p} : alloc'[q] = alloc[q]
  <2>1. TypeOK /\ api[s].plan \in Plan /\ WriteRows(p, api[s].plan)
    BY <1>0, ProcessFields DEF IndInv, TypeOK, CheckoutCommit
  <2> QED
    BY <2>1, RowsWritten
<1>3. /\ pay'[p] = row /\ row.status = "posted" /\ row.amount = n /\ row.session = e
      /\ \A q \in Payment \ {p} : pay'[q] = pay[q]
  BY <1>1
<1> HIDE DEF row
<1>4. BookPayments' = [BookPayments EXCEPT ![p] = [status |-> "open", amount |-> n, source |-> e]]
  BY <1>3, PaymentShown DEF BookPayments, BookPayment, BookStatus
<1>5. BookPayments[p].status = "absent" /\ \A q \in Payment : BookPayments[q].source # e
  BY <1>0 DEF BookPayments, BookPayment, BookStatus, Recorded
<1>6. Book!Writes(p)
  BY <1>2, RowsShown DEF Book!Writes, BookPayments, BookPayment, BookRows, BookAllocated
<1>7. BookRefunds' = BookRefunds /\ BookReturned' = BookReturned
  BY <1>1 DEF BookRefunds, BookReturned
<1>8. Book!Record(p, e, n)
  BY <1>4, <1>5, <1>6, <1>7 DEF Book!Record, BookPayments, BookPayment, BookRefunds, BookRefund, BookReturned
<1> QED
  BY <1>8 DEF Book!Next

LEMMA ExecuteRefines ==
  ASSUME IndInv, IndInv', NEW s \in Slot, ExecuteCommit(s)
  PROVE  Book!Next
<1>0. PICK p \in Payment, f \in Refund :
        /\ p = api[s].pay /\ f = api[s].ref /\ pay[p].status # "absent"
        /\ refund[f].status = "approved" /\ refund[f].pay = p
  BY ExecutingPayment DEF ExecuteCommit, Executing
<1>t. /\ TypeOK /\ pay \in [Payment -> PaymentRow] /\ refund \in [Refund -> RefundRow]
      /\ pay[p] \in PaymentRow /\ refund[f] \in RefundRow
      /\ api[s].to \in PaymentStatuses \ {"posted"}
  BY ProcessFields DEF IndInv, TypeOK, Sound, CommitSound, ExecuteCommit
<1> DEFINE row == [refund[f] EXCEPT !.status = "executed"]
           paid == [pay[p] EXCEPT !.status = api[s].to]
<1>1. refund' = [refund EXCEPT ![f] = row] /\ pay' = [pay EXCEPT ![p] = paid]
  BY <1>0, <1>t DEF ExecuteCommit
<1>2. /\ row \in RefundRow /\ row.status = "executed" /\ row.pay = refund[f].pay
      /\ row.requester = refund[f].requester /\ row.approver = refund[f].approver
      /\ row.returned = refund[f].returned
      /\ paid.status = api[s].to /\ paid.amount = pay[p].amount /\ paid.session = pay[p].session
  BY <1>t DEF RefundRow, PaymentRow, Live
<1> HIDE DEF row, paid
<1>3. /\ BookRefunds' = [BookRefunds EXCEPT ![f].status = "executed"]
      /\ BookReturned' = BookReturned
  <2> DEFINE shown == [BookRefunds[f] EXCEPT !.status = "executed"]
  <2>1. /\ shown \in BookRefundRow /\ shown.status = row.status /\ shown.pay = row.pay
        /\ shown.requester = row.requester /\ shown.approver = row.approver
    BY <1>t, <1>2, RefundsShown DEF BookRefundRow, Live
  <2>2. [BookRefunds EXCEPT ![f].status = "executed"] = [BookRefunds EXCEPT ![f] = shown]
    BY DEF BookRefunds, BookRefund
  <2>3. BookReturned = Returning(f, row.returned)
    BY <1>2 DEF BookReturned, Returning
  <2> HIDE DEF shown
  <2>4. /\ BookRefunds' = [BookRefunds EXCEPT ![f] = shown]
        /\ BookReturned' = Returning(f, row.returned)
    BY <1>t, <1>1, <1>2, <2>1, RefundShown
  <2> QED
    BY <2>2, <2>3, <2>4
<1>4. BookPayments' = [BookPayments EXCEPT ![p].status = "closed"]
  <2> DEFINE shown == [BookPayments[p] EXCEPT !.status = "closed"]
  <2>1. pay'[p] = paid /\ \A q \in Payment \ {p} : pay'[q] = pay[q]
    BY <1>t, <1>1
  <2>2. BookPayments' = [BookPayments EXCEPT ![p] = BookPayment(p)']
    BY <2>1, PaymentShown DEF BookPayments
  <2>3. BookPayment(p)' = [status |-> "closed", amount |-> pay[p].amount, source |-> pay[p].session]
    BY <1>t, <1>2, <2>1 DEF BookPayment, BookStatus, PaymentStatuses
  <2>4. shown = BookPayment(p)'
    <3>1. /\ BookPayments[p] \in [status : {"absent", "open", "closed"}, amount : 0..MaxAmount,
                                  source : Session \cup {None}]
          /\ BookPayments[p].amount = pay[p].amount /\ BookPayments[p].source = pay[p].session
      BY <1>t DEF BookPayments, BookPayment, BookStatus, PaymentRow
    <3>2. /\ shown \in [status : {"absent", "open", "closed"}, amount : 0..MaxAmount,
                        source : Session \cup {None}]
          /\ shown.status = "closed" /\ shown.amount = pay[p].amount /\ shown.source = pay[p].session
      BY <3>1
    <3> HIDE DEF shown
    <3> QED
      BY <2>3, <3>2
  <2>5. [BookPayments EXCEPT ![p].status = "closed"] = [BookPayments EXCEPT ![p] = shown]
    BY DEF BookPayments, BookPayment
  <2> QED
    BY <2>2, <2>4, <2>5
<1>5. /\ \A q \in Payment \ {p} : alloc'[q] = alloc[q]
      /\ Used(alloc'[p]) \subseteq Used(alloc[p])
  <2>1. /\ TypeOK /\ api[s].plan \in Plan /\ WriteRows(p, api[s].plan)
        /\ \A k \in Written(api[s].plan) : k \in Used(alloc[p])
    BY <1>0, ProcessFields DEF IndInv, TypeOK, Sound, CommitSound, ExecuteCommit
  <2>2. /\ \A k \in Index :
              alloc'[p][k] = IF k \in Written(api[s].plan) THEN api[s].plan[k] ELSE alloc[p][k]
        /\ \A q \in Payment \ {p} : alloc'[q] = alloc[q]
    BY <2>1, RowsWritten
  <2> QED
    BY <2>1, <2>2 DEF Used
<1>6. Book!Writes(p)
  BY <1>5, RowsShown DEF Book!Writes, BookPayments, BookPayment, BookRows, BookAllocated
<1>7. BookRefunds[f].status = "approved" /\ BookRefunds[f].pay = p
  BY <1>0 DEF BookRefunds, BookRefund
<1>8. BookRows'[p] \subseteq BookRows[p]
  BY <1>5 DEF BookRows
<1>9. Book!Execute(f)
  BY <1>3, <1>4, <1>6, <1>7, <1>8
     DEF Book!Execute, Book!Writes, BookPayments, BookPayment, BookRows, BookAllocated, BookRefunds, BookRefund, BookReturned
<1> QED
  BY <1>9 DEF Book!Next

LEMMA AnswerRefines ==
  ASSUME IndInv, NEW s \in Slot, StripeReturns(s) \/ StripeRefuses(s)
  PROVE  Book!Next
<1>0. PICK f \in Refund : /\ f = api[s].ref /\ refund[f].returned = 0 /\ refund[f].status = "executed"
  BY DEF StripeReturns, StripeRefuses, IndInv, Sound, StripeSound
<1>t. TypeOK /\ refund \in [Refund -> RefundRow] /\ refund[f] \in RefundRow
  BY DEF IndInv, TypeOK
<1>1. PICK row \in RefundRow, st \in {"executed", "failed"}, n \in {0, 1} :
        /\ refund' = [refund EXCEPT ![f] = row] /\ UNCHANGED <<pay, alloc>>
        /\ row.status = st /\ row.returned = n /\ row.pay = refund[f].pay
        /\ row.requester = refund[f].requester /\ row.approver = refund[f].approver
  <2> DEFINE back == [refund[f] EXCEPT !.returned = @ + 1]
             both == [refund[f] EXCEPT !.returned = @ + 1, !.status = "failed"]
             lost == [refund[f] EXCEPT !.status = "failed"]
  <2>1. /\ back \in RefundRow /\ back.status = "executed" /\ back.returned = 1
        /\ back.pay = refund[f].pay /\ back.requester = refund[f].requester
        /\ back.approver = refund[f].approver
    BY <1>0, <1>t DEF RefundRow
  <2>2. /\ both \in RefundRow /\ both.status = "failed" /\ both.returned = 1
        /\ both.pay = refund[f].pay /\ both.requester = refund[f].requester
        /\ both.approver = refund[f].approver
    <3>1. both = [back EXCEPT !.status = "failed"]
      OBVIOUS
    <3> HIDE DEF back, both
    <3> QED
      BY <2>1, <3>1 DEF RefundRow
  <2>3. /\ lost \in RefundRow /\ lost.status = "failed" /\ lost.returned = 0
        /\ lost.pay = refund[f].pay /\ lost.requester = refund[f].requester
        /\ lost.approver = refund[f].approver
    BY <1>0, <1>t DEF RefundRow
  <2>4. /\ UNCHANGED <<pay, alloc>>
        /\ \/ refund' = [refund EXCEPT ![f] = back]
           \/ refund' = [refund EXCEPT ![f] = both]
           \/ refund' = [refund EXCEPT ![f] = lost]
    BY <1>0, <1>t DEF StripeReturns, StripeRefuses
  <2> HIDE DEF back, both, lost
  <2> QED
    BY <2>1, <2>2, <2>3, <2>4
<1> DEFINE shown == [BookRefunds[f] EXCEPT !.status = st]
<1>2. /\ BookRefunds' = [BookRefunds EXCEPT ![f] = shown]
      /\ BookReturned' = Returning(f, n)
  <2>1. /\ shown \in BookRefundRow /\ shown.status = row.status /\ shown.pay = row.pay
        /\ shown.requester = row.requester /\ shown.approver = row.approver
    BY <1>t, <1>1, RefundsShown DEF BookRefundRow, Live
  <2> HIDE DEF shown
  <2>2. /\ BookRefunds' = [BookRefunds EXCEPT ![f] = shown]
        /\ BookReturned' = Returning(f, row.returned)
    BY <1>t, <1>1, <2>1, RefundShown
  <2> QED
    BY <1>1, <2>2
<1>3. BookRefunds[f].status = "executed" /\ BookReturned[f] = 0
  BY <1>0 DEF BookRefunds, BookRefund, BookReturned
<1>4. BookRefunds' \in {BookRefunds, [BookRefunds EXCEPT ![f].status = "failed"]}
  <2>1. CASE st = "executed"
    <3>1. shown \in BookRefundRow /\ BookRefunds[f] \in BookRefundRow /\ shown = BookRefunds[f]
      BY <1>t, <1>3, <2>1, RefundsShown DEF BookRefundRow
    <3> HIDE DEF shown
    <3> QED
      BY <1>2, <3>1 DEF BookRefunds
  <2>2. CASE st = "failed"
    <3>1. [BookRefunds EXCEPT ![f].status = "failed"] = [BookRefunds EXCEPT ![f] = shown]
      BY <2>2 DEF BookRefunds, BookRefund
    <3> QED
      BY <1>2, <3>1
  <2> QED
    BY <2>1, <2>2
<1>5. BookReturned' \in {BookReturned, [BookReturned EXCEPT ![f] = 1]}
  BY <1>2, <1>3 DEF BookReturned, Returning
<1>6. BookPayments' = BookPayments /\ BookRows' = BookRows /\ BookAllocated' = BookAllocated
  BY <1>1, PaymentShown DEF BookPayments, BookRows, BookAllocated, Allocated
<1>7. Book!Answer(f)
  BY <1>3, <1>4, <1>5, <1>6
     DEF Book!Answer, BookPayments, BookPayment, BookRows, BookAllocated, BookRefunds, BookRefund, BookReturned
<1> QED
  BY <1>7 DEF Book!Next

LEMMA BookStarts == Init => Book!Init
<1> SUFFICES ASSUME Init PROVE Book!Init
  OBVIOUS
<1>1. BookPayments = [p \in Payment |-> [status |-> "absent", amount |-> 0, source |-> None]]
  BY DEF Init, BookPayments, BookPayment, BookStatus
<1>2. \A p \in Payment : Used(alloc[p]) = {} /\ Allocated(p) = 0
  <2>1. ASSUME NEW p \in Payment PROVE Used(alloc[p]) = {} /\ Units(alloc[p]) = {}
    <3>1. alloc[p] \in [Index -> Row] /\ Used(alloc[p]) = {}
      BY NoPlanType DEF Init, Used
    <3> QED
      BY <3>1, EmptyUnits
  <2> QED
    BY <2>1, FS_EmptySet DEF Allocated
<1>3. BookRefunds = [f \in Refund |-> [status |-> "absent", pay |-> None,
                                       requester |-> None, approver |-> None]]
  BY DEF Init, BookRefunds, BookRefund
<1>4. BookReturned = [f \in Refund |-> 0]
  BY DEF Init, BookReturned
<1> QED
  BY <1>1, <1>2, <1>3, <1>4 DEF Book!Init, BookPayments, BookPayment, BookRefunds, BookRefund, BookReturned

\* Payments, allocations and refunds change as if every confirmation, every delivery
\* of a checkout event and every execution of a refund were one step of its own.
THEOREM LedgerImplementsBook == Spec => ImplementsPaymentBook
<1>1. ASSUME IndInv, IndInv', [Next]_vars PROVE [Book!Next]_(Book!vars)
  <2>1. CASE UNCHANGED <<pay, alloc, refund>>
    <3>1. BookPayments' = BookPayments /\ BookRows' = BookRows /\ BookAllocated' = BookAllocated
      BY <2>1, PaymentShown DEF BookPayments, BookRows, BookAllocated, Allocated
    <3>2. BookRefunds' = BookRefunds /\ BookReturned' = BookReturned
      BY <2>1 DEF BookRefunds, BookReturned
    <3> QED
      BY <3>1, <3>2 DEF Book!vars, BookPayments, BookPayment, BookRows, BookAllocated, BookRefunds,
         BookRefund, BookReturned
  <2> QED
    BY <1>1, <2>1, BookWriters, CreateRefines, DecideRefines, AskRefines, AllocateRefines,
       CheckoutRefines, ExecuteRefines, AnswerRefines
<1> QED
  BY <1>1, BookStarts, InvariantThm, PTL DEF Spec, ImplementsPaymentBook, Book!Spec
=============================================================================
