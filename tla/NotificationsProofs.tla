------------------------- MODULE NotificationsProofs -------------------------
(* Theorems about Notifications for any number of messages, tenants, rows and    *)
(* jobs, any number of faults, and (where it matters) a single worker.           *)
EXTENDS Notifications, TLAPS

-----------------------------------------------------------------------------
(* What the steps write                                                          *)

LEMMA RowType ==
  ASSUME NEW m \in Msg, NEW c \in Channel, NEW f \in Note \cup {None}
  PROVE  /\ Row(m, c, f) \in NoteRow
         /\ Row(m, c, f).msg = m /\ Row(m, c, f).channel = c /\ Row(m, c, f).from = f
         /\ Row(m, c, f).status = "queued" /\ Row(m, c, f).attempt = 0
         /\ Row(m, c, f).retry = "no"
BY DEF Row, NoteRow, Status

LEMMA NoRowType ==
  /\ NoRow \in NoteRow /\ NoRow.status = "absent" /\ NoRow.from = None /\ NoRow.msg = None
  /\ NoRow.retry = "no" /\ NoRow.pid = FALSE
BY DEF NoRow, Row, NoteRow, Status

LEMMA JobType ==
  /\ \A t \in Tenant, m \in Msg \cup {None}, N \in SUBSET Note : Job(t, m, N) \in JobRow
  /\ NoJob \in JobRow
BY BoundAssumption DEF Job, NoJob, JobRow

LEMMA AddJobType ==
  ASSUME TypeOK, NEW s \in Slot, NEW j \in JobRow, AddJob(s, j)
  PROVE  jobs' \in [Slot -> JobRow]
BY DEF TypeOK, AddJob

LEMMA IdleType == Idle \in Handler /\ Idle.pc = "idle" /\ Idle.todo = {}
BY DEF Idle, Handler

LEMMA WorkingType ==
  ASSUME TypeOK, NEW pc \in {"next", "requeue"}, NEW s \in Slot \cup {None}, NEW N \in SUBSET Note
  PROVE  /\ Working(pc, s, N) \in Handler
         /\ Working(pc, s, N).pc = pc /\ Working(pc, s, N).job = s
         /\ Working(pc, s, N).todo = N
         /\ \A n \in Note : Working(pc, s, N).copy[n] = note[n].attempt
<1>1. [n \in Note |-> note[n].attempt] \in [Note -> Nat]
  BY DEF TypeOK, NoteRow
<1> QED
  BY <1>1 DEF Working, Handler

\* A worker's next step.
LEMMA Went ==
  ASSUME TypeOK, NEW w \in Worker, NEW h \in Handler, Goto(w, h)
  PROVE  /\ wk' \in [Worker -> Handler]
         /\ wk'[w] = h /\ \A v \in Worker \ {w} : wk'[v] = wk[v]
BY DEF TypeOK, Goto

\* A worker turns to row n of its list, or goes on with the job.
LEMMA Turned ==
  ASSUME TypeOK, NEW w \in Worker, NEW n \in Note,
         NEW pc \in {"next", "accepted", "skipped", "fallback"}, Turn(w, n, pc)
  PROVE  /\ wk' \in [Worker -> Handler]
         /\ wk'[w].pc = pc /\ wk'[w].cur = n /\ wk'[w].todo = wk[w].todo \ {n}
         /\ wk'[w].job = wk[w].job /\ wk'[w].copy = wk[w].copy
         /\ \A v \in Worker \ {w} : wk'[v] = wk[v]
<1> DEFINE h == [wk[w] EXCEPT !.pc = pc, !.cur = n, !.todo = wk[w].todo \ {n}]
<1>1. wk[w] \in Handler
  BY DEF TypeOK
<1>2. /\ h \in Handler /\ h.pc = pc /\ h.cur = n /\ h.todo = wk[w].todo \ {n}
      /\ h.job = wk[w].job /\ h.copy = wk[w].copy
  BY <1>1 DEF Handler
<1>3. Goto(w, h)
  BY DEF Turn
<1> HIDE DEF h
<1> QED
  BY <1>2, <1>3, Went

LEMMA WentOn ==
  ASSUME TypeOK, NEW w \in Worker, Goto(w, [wk[w] EXCEPT !.pc = "next"])
  PROVE  /\ wk' \in [Worker -> Handler]
         /\ wk'[w].pc = "next" /\ wk'[w].cur = wk[w].cur /\ wk'[w].todo = wk[w].todo
         /\ wk'[w].job = wk[w].job /\ wk'[w].copy = wk[w].copy
         /\ \A v \in Worker \ {w} : wk'[v] = wk[v]
<1> DEFINE h == [wk[w] EXCEPT !.pc = "next"]
<1>1. wk[w] \in Handler
  BY DEF TypeOK
<1>2. /\ h \in Handler /\ h.pc = "next" /\ h.cur = wk[w].cur /\ h.todo = wk[w].todo
      /\ h.job = wk[w].job /\ h.copy = wk[w].copy
  BY <1>1 DEF Handler
<1> HIDE DEF h
<1> QED
  BY <1>2, Went DEF h

\* A row is marked failed.
LEMMA MarkedFailed ==
  ASSUME TypeOK, NEW w \in Worker, NEW n \in Note, NEW retry \in {"no", "later"},
         SetFailed(w, n, retry)
  PROVE  /\ note' \in [Note -> NoteRow]
         /\ \A q \in Note \ {n} : note'[q] = note[q]
         /\ note'[n].status = "failed" /\ note'[n].retry = retry
         /\ note'[n].attempt = wk[w].copy[n] + 1 /\ note'[n].attempt > 0
         /\ note'[n].msg = note[n].msg /\ note'[n].channel = note[n].channel
         /\ note'[n].from = note[n].from
<1> DEFINE k == wk[w].copy[n] + 1
           r == [note[n] EXCEPT !.status = "failed", !.retry = retry, !.attempt = k]
<1>1. note \in [Note -> NoteRow] /\ note[n] \in NoteRow
  BY DEF TypeOK
<1>0. k \in Nat /\ k > 0
  <2>1. wk[w].copy \in [Note -> Nat]
    BY DEF TypeOK, Handler
  <2> QED
    BY <2>1
<1>2. note' = [note EXCEPT ![n] = r]
  BY <1>1 DEF SetFailed, Counted
<1> HIDE DEF k
<1>3. /\ r \in NoteRow /\ r.status = "failed" /\ r.retry = retry
      /\ r.attempt = k /\ r.msg = note[n].msg
      /\ r.channel = note[n].channel /\ r.from = note[n].from
  BY <1>0, <1>1 DEF NoteRow, Status
<1>4. /\ note' \in [Note -> NoteRow] /\ note'[n] = r
      /\ \A q \in Note \ {n} : note'[q] = note[q]
  BY <1>1, <1>2, <1>3
<1> HIDE DEF r
<1> QED
  BY <1>0, <1>3, <1>4 DEF k

-----------------------------------------------------------------------------
(* The rows                                                                      *)

\* What every step does to a row that is there: its message, its channel and its
\* origin stay, it stays tried, and it is not ready to be sent while in backoff.
RowKept(n) ==
  /\ note'[n].msg = note[n].msg /\ note'[n].channel = note[n].channel
  /\ note'[n].from = note[n].from /\ ~Absent(n)'
  /\ Tried(n) => Tried(n)'
  /\ note[n].attempt > 0 => note'[n].attempt > 0
  /\ note'[n].status = "queued" => note'[n].retry = "no"

\* A row that appears is queued, and replaces one that has been tried, if any.
RowAdded(n) ==
  \E m \in Msg, c \in Channel, p \in Note \cup {None} :
    /\ note'[n] = Row(m, c, p)
    /\ p # None => /\ ~Absent(p) /\ p # n /\ note[p].msg = m /\ Tried(p)'
                   /\ \/ note[p].channel = "whatsapp" /\ c \in {"sms", "email"}
                      \/ note[p].channel = "sms" /\ c = "email"

RowsStep ==
  /\ note' \in [Note -> NoteRow]
  /\ \A n \in Note : IF Absent(n) THEN note'[n] = note[n] \/ RowAdded(n) ELSE RowKept(n)

RowsInv == TypeOK /\ RowsWellFormed /\ QueuedIsReady

\* Nothing happens to the rows, or only what traces them grows.
LEMMA RowsUntouched ==
  ASSUME RowsInv, note' = note,
         \A n \in Note : trace'[n].bounced = trace[n].bounced
  PROVE  RowsStep
BY DEF RowsInv, RowsStep, RowKept, RowsWellFormed, QueuedIsReady, TypeOK, Absent, Tried

\* One row is rewritten.
LEMMA RowRewritten ==
  ASSUME RowsInv, NEW n \in Note, note' \in [Note -> NoteRow],
         \A q \in Note \ {n} : note'[q] = note[q],
         ~Absent(n), RowKept(n), \A q \in Note \ {n} : trace'[q].bounced = trace[q].bounced
  PROVE  RowsStep
BY DEF RowsInv, RowsStep, RowKept, RowsWellFormed, QueuedIsReady, TypeOK, Absent, Tried

\* A row appears, and perhaps the one it replaces is rewritten.
LEMMA RowAppears ==
  ASSUME RowsInv, NEW q \in Note, NEW m \in Msg, NEW c \in Channel,
         Fresh(q), note' = [note EXCEPT ![q] = Row(m, c, None)],
         \A n \in Note : trace'[n].bounced = trace[n].bounced
  PROVE  RowsStep
<1>1. note' \in [Note -> NoteRow] /\ note'[q] = Row(m, c, None)
  BY RowType DEF RowsInv, TypeOK
<1>2. RowAdded(q) /\ Absent(q)
  BY <1>1 DEF RowAdded, Fresh, Absent
<1>3. \A n \in Note \ {q} : note'[n] = note[n]
  BY DEF RowsInv, TypeOK
<1> QED
  BY <1>1, <1>2, <1>3 DEF RowsInv, RowsStep, RowKept, RowsWellFormed, QueuedIsReady, Absent, Tried

LEMMA ReplacementAppears ==
  ASSUME RowsInv, NEW n \in Note, NEW q \in Note, NEW c \in Channel, Fresh(q), ~Absent(n),
         note' \in [Note -> NoteRow],
         note'[q] = Row(note[n].msg, c, n), RowKept(n), Tried(n)',
         \A p \in Note \ {n, q} : note'[p] = note[p],
         \A p \in Note \ {n} : trace'[p].bounced = trace[p].bounced,
         \/ note[n].channel = "whatsapp" /\ c \in {"sms", "email"}
         \/ note[n].channel = "sms" /\ c = "email"
  PROVE  RowsStep
<1>1. Absent(q) /\ n # q /\ note[n].msg \in Msg
  BY DEF Fresh, Absent, RowsInv, RowsWellFormed, TypeOK, NoteRow
<1>2. RowAdded(q)
  BY <1>1, NoneAssumption DEF RowAdded
<1> QED
  BY <1>1, <1>2 DEF RowsInv, RowsStep, RowKept, RowsWellFormed, QueuedIsReady, Absent, Tried

LEMMA RowsWellFormedStep ==
  ASSUME RowsInv, RowsStep, \A n \in Note : Absent(n) => trace'[n].accepted = 0
  PROVE  RowsWellFormed' /\ QueuedIsReady'
<1>1. ASSUME NEW n \in Note, Absent(n), RowAdded(n)
      PROVE  /\ ~Absent(n)' /\ note'[n].msg # None /\ note'[n].channel # None
             /\ note'[n].retry = "no"
             /\ note'[n].from # None => note'[n].from \in Note /\ ~Absent(note'[n].from)
  BY <1>1, RowType, NoneAssumption DEF RowAdded, Absent
<1>2. \A n \in Note : Absent(n) /\ note'[n] = note[n] =>
        note'[n] = NoRow /\ Absent(n)' /\ note'[n].from = None
  BY NoRowType DEF RowsInv, RowsWellFormed, Absent
<1>3. \A n \in Note : ~Absent(n) => ~Absent(n)'
  BY DEF RowsStep, RowKept
<1>4. RowsWellFormed'
  <2>1. \A n \in Note : Absent(n)' => note'[n] = NoRow /\ trace'[n].accepted = 0
    BY <1>1, <1>2, <1>3 DEF RowsStep
  <2>2. \A n \in Note : ~Absent(n)' => note'[n].msg # None /\ note'[n].channel # None
    BY <1>1, <1>2 DEF RowsStep, RowKept, RowsInv, RowsWellFormed
  <2>3. \A n \in Note : note'[n].from # None => note'[n].from \in Note /\ ~Absent(note'[n].from)
    BY <1>1, <1>2 DEF RowsStep, RowKept, RowsInv, RowsWellFormed, TypeOK, NoteRow
  <2> QED
    BY <1>3, <2>1, <2>2, <2>3 DEF RowsWellFormed, Absent
<1>5. QueuedIsReady'
  BY <1>1, <1>2, NoRowType DEF RowsStep, RowKept, QueuedIsReady
<1> QED
  BY <1>4, <1>5

LEMMA ChainStep ==
  ASSUME RowsInv, RowsStep, ChainInOrder,
         \A m \in inbox' : \/ m \in inbox
                           \/ \E n \in Note : /\ note[n].msg = m /\ note[n].channel = "email"
                                            /\ ~Absent(n) /\ Tried(n)
  PROVE  ChainInOrder'
<1> DEFINE Order(p, c, m) ==
             /\ note'[p].attempt > 0 \/ trace'[p].bounced > 0
             /\ note'[p].msg = m
             /\ \/ note'[p].channel = "whatsapp" /\ c \in {"sms", "email"}
                \/ note'[p].channel = "sms" /\ c = "email"
<1>1. ASSUME NEW n \in Note, note'[n].from # None
      PROVE  Order(note'[n].from, note'[n].channel, note'[n].msg)
  <2>1. CASE Absent(n) /\ note'[n] = note[n]
    BY <1>1, <2>1, NoRowType DEF RowsInv, RowsWellFormed
  <2>2. CASE Absent(n) /\ RowAdded(n)
    <3>1. PICK m \in Msg, c \in Channel, p \in Note \cup {None} :
            /\ note'[n] = Row(m, c, p)
            /\ p # None => /\ ~Absent(p) /\ p # n /\ note[p].msg = m /\ Tried(p)'
                           /\ \/ note[p].channel = "whatsapp" /\ c \in {"sms", "email"}
                              \/ note[p].channel = "sms" /\ c = "email"
      BY <2>2 DEF RowAdded
    <3>2. p \in Note /\ RowKept(p) /\ note'[n].from = p /\ note'[n].msg = m /\ note'[n].channel = c
      BY <1>1, <3>1, RowType DEF RowsStep
    <3> QED
      BY <1>1, <3>1, <3>2 DEF RowKept, Tried
  <2>3. CASE ~Absent(n)
    <3>1. RowKept(n) /\ note[n].from # None
      BY <1>1, <2>3 DEF RowsStep, RowKept
    <3>2. note[n].from \in Note /\ ~Absent(note[n].from)
      BY <3>1 DEF RowsInv, RowsWellFormed, TypeOK, NoteRow
    <3>3. RowKept(note[n].from)
      BY <3>2 DEF RowsStep
    <3> QED
      BY <3>1, <3>2, <3>3 DEF RowKept, ChainInOrder, Tried
  <2> QED
    BY <2>1, <2>2, <2>3 DEF RowsStep
<1>2. ASSUME NEW m \in inbox'
      PROVE  \E n \in Note : note'[n].msg = m /\ note'[n].channel = "email" /\ Tried(n)'
  <2>0. \A n \in Note : Absent(n) => note[n].msg = None
    BY NoRowType DEF RowsInv, RowsWellFormed
  <2>1. PICK n \in Note : /\ note[n].msg = m /\ note[n].channel = "email" /\ Tried(n)
                          /\ ~Absent(n) \/ m \in inbox
    BY <1>2 DEF ChainInOrder
  <2>2. ~Absent(n)
    BY <2>0, <2>1, NoneAssumption DEF RowsInv, TypeOK
  <2>3. RowKept(n)
    BY <2>2 DEF RowsStep
  <2> QED
    BY <2>1, <2>3 DEF RowKept
<1> QED
  BY <1>1, <1>2 DEF ChainInOrder, Tried

-----------------------------------------------------------------------------
(* The steps                                                                     *)

\* What is shown of every step, from which the rest of Structure follows.
StepFine ==
  /\ TypeOK' /\ RowsStep /\ WorkersWellFormed'
  /\ \A n \in Note : Absent(n) => trace'[n].accepted = 0
  /\ \A m \in inbox' : \/ m \in inbox
                       \/ \E n \in Note : /\ note[n].msg = m /\ note[n].channel = "email"
                                        /\ ~Absent(n) /\ Tried(n)

LEMMA StepKeepsStructure == ASSUME Structure, StepFine PROVE Structure'
BY RowsWellFormedStep, ChainStep DEF StepFine, Structure, RowsInv

\* A worker that does nothing stays in order.
LEMMA WorkerWaits ==
  ASSUME Structure, RowsStep, NEW v \in Worker, wk'[v] = wk[v]
  PROVE  WorkerFine(v)'
<1>1. wk[v] \in Handler /\ WorkerFine(v)
  BY DEF Structure, TypeOK, WorkersWellFormed
<1>2. \A n \in Note : ~Absent(n) => RowKept(n)
  BY DEF RowsStep
<1>3. \A n \in wk[v].todo : ~Absent(n)'
  BY <1>1, <1>2 DEF WorkerFine, RowKept, Handler
<1>4. wk[v].pc \in OnJob \ {"next"} =>
        /\ wk[v].cur # None /\ wk[v].cur \notin wk[v].todo /\ RowKept(wk[v].cur)
  BY <1>1, <1>2 DEF WorkerFine, Handler
<1>5. wk[v].pc \in OnJob \ {"next"} => ~Absent(wk[v].cur)'
  BY <1>4 DEF RowKept, Absent
<1>6. wk[v].pc \in {"skipped", "fallback"} => note'[wk[v].cur].attempt > 0
  BY <1>1, <1>4 DEF WorkerFine, RowKept, OnJob
<1> QED
  BY <1>1, <1>3, <1>4, <1>5, <1>6 DEF WorkerFine, Absent

LEMMA EventType == ASSUME TypeOK, Event PROVE events' \in 0..MaxEvents
BY BoundAssumption DEF TypeOK, Event

\* A row's status or backoff is written, and perhaps it has bounced.
LEMMA StatusWritten ==
  ASSUME Structure, NEW n \in Note, NEW r \in NoteRow, ~Absent(n),
         note' = [note EXCEPT ![n] = r],
         r.status \notin {"absent", "queued"}, r.msg = note[n].msg,
         r.channel = note[n].channel, r.from = note[n].from, r.attempt = note[n].attempt,
         trace' \in [Note -> TraceRow], \A q \in Note \ {n} : trace'[q] = trace[q],
         trace'[n].bounced >= trace[n].bounced
  PROVE  /\ note' \in [Note -> NoteRow] /\ RowsStep
         /\ \A q \in Note : Absent(q) => trace'[q].accepted = 0
<1>1. /\ note' \in [Note -> NoteRow] /\ note'[n] = r
      /\ \A q \in Note \ {n} : note'[q] = note[q]
  BY DEF Structure, TypeOK
<1>2. trace[n].bounced \in Nat /\ trace'[n].bounced \in Nat
  BY DEF Structure, TypeOK, TraceRow
<1>3. Tried(n) => note'[n].attempt > 0 \/ trace'[n].bounced > 0
  BY <1>1, <1>2 DEF Tried
<1>4. RowKept(n)
  BY <1>1, <1>3 DEF RowKept, Absent, Tried
<1> QED
  BY <1>1, <1>4, RowRewritten DEF Structure, RowsInv, RowsWellFormed

\* A step that writes neither rows nor workers needs only its types.
LEMMA ApiFine ==
  ASSUME Structure, RowsStep, wk' = wk, inbox' = inbox, TypeOK',
         \A n \in Note : Absent(n) => trace'[n].accepted = 0
  PROVE  StepFine
BY WorkerWaits DEF StepFine, WorkersWellFormed

\* The trace of a row that bounces.
LEMMA BounceTraced ==
  ASSUME TypeOK, NEW n \in Note, trace' = [trace EXCEPT ![n].bounced = trace[n].bounced + 1]
  PROVE  /\ trace' \in [Note -> TraceRow] /\ \A q \in Note \ {n} : trace'[q] = trace[q]
         /\ trace'[n].bounced = trace[n].bounced + 1 /\ trace'[n].bounced > 0
         /\ trace'[n].accepted = trace[n].accepted /\ trace'[n].lost = trace[n].lost
<1> DEFINE t == [trace[n] EXCEPT !.bounced = trace[n].bounced + 1]
<1>1. trace \in [Note -> TraceRow] /\ trace[n] \in TraceRow
  BY DEF TypeOK
<1>2. /\ t \in TraceRow /\ t.bounced = trace[n].bounced + 1 /\ t.bounced > 0
      /\ t.accepted = trace[n].accepted /\ t.lost = trace[n].lost
  BY <1>1 DEF TraceRow
<1>3. trace' = [trace EXCEPT ![n] = t]
  OBVIOUS
<1> HIDE DEF t
<1> QED
  BY <1>1, <1>2, <1>3

\* The steps of the API and of time.
LEMMA ApiStep ==
  ASSUME Structure, Api \/ (\E n \in Note : BackoffEnds(n))
  PROVE  StepFine
<1>i. TypeOK /\ RowsInv /\ note \in [Note -> NoteRow] /\ trace \in [Note -> TraceRow]
  BY DEF Structure, RowsInv, TypeOK
<1>t. \A n \in Note : trace[n].bounced >= trace[n].bounced /\ (Absent(n) => trace[n].accepted = 0)
  BY DEF Structure, TypeOK, TraceRow, RowsWellFormed
<1>1. ASSUME NEW m \in Msg, NEW n \in Note, Publish(m, n) PROVE StepFine
  <2>1. First[m] \in Channel
    BY MessageAssumption
  <2>2. RowsStep
    BY <1>1, <1>i, <2>1, RowAppears DEF Publish
  <2>3. TypeOK'
    BY <1>1, <1>i, <2>2, BoundAssumption DEF Publish, TypeOK, RowsStep
  <2> QED
    BY <1>1, <1>t, <2>2, <2>3, ApiFine DEF Publish
<1>2. ASSUME NEW m \in Msg, NEW s \in Slot, Enqueue(m, s) PROVE StepFine
  <2>1. Job(Home[m], m, {}) \in JobRow
    BY JobType, MessageAssumption
  <2>2. jobs' \in [Slot -> JobRow]
    BY <1>2, <1>i, <2>1, AddJobType DEF Enqueue
  <2>3. left' \in [Msg -> 0..Batches]
    BY <1>2, <1>i, BoundAssumption DEF Enqueue, TypeOK
  <2>4. RowsStep
    BY <1>2, <1>i, RowsUntouched DEF Enqueue, rows
  <2>5. TypeOK'
    BY <1>2, <1>i, <2>2, <2>3 DEF Enqueue, TypeOK, rows
  <2> QED
    BY <1>2, <1>t, <2>4, <2>5, ApiFine DEF Enqueue, rows
<1>3. ASSUME NEW n \in Note, MarkRead(n) PROVE StepFine
  <2> DEFINE r == [note[n] EXCEPT !.status = "read"]
  <2>1. /\ r \in NoteRow /\ r.status = "read" /\ r.msg = note[n].msg /\ ~Absent(n)
        /\ r.channel = note[n].channel /\ r.from = note[n].from /\ r.attempt = note[n].attempt
    BY <1>3, <1>i DEF MarkRead, NoteRow, Status, Absent
  <2>2. note' = [note EXCEPT ![n] = r] /\ trace' = trace
    BY <1>3 DEF MarkRead
  <2> HIDE DEF r
  <2>3. /\ note' \in [Note -> NoteRow] /\ RowsStep
        /\ \A q \in Note : Absent(q) => trace'[q].accepted = 0
    BY <1>i, <1>t, <2>1, <2>2, StatusWritten
  <2>4. TypeOK'
    BY <1>3, <1>i, <2>3, EventType DEF MarkRead, TypeOK
  <2> QED
    BY <1>3, <2>3, <2>4, ApiFine DEF MarkRead
<1>4. ASSUME NEW m \in Msg, MarkAllRead(m) PROVE StepFine
  <2>1. \A n \in Unread(m) : /\ [note[n] EXCEPT !.status = "read"] \in NoteRow
                             /\ n \in Note /\ ~Absent(n)
    BY <1>i DEF NoteRow, Status, Unread, Absent
  <2>2. note' \in [Note -> NoteRow]
    BY <1>4, <1>i, <2>1 DEF MarkAllRead
  <2>3. \A n \in Note : IF n \in Unread(m) THEN note'[n] = [note[n] EXCEPT !.status = "read"]
                                          ELSE note'[n] = note[n]
    BY <1>4 DEF MarkAllRead
  <2>4. ASSUME NEW n \in Note, n \in Unread(m) PROVE RowKept(n) /\ ~Absent(n)
    BY <1>4, <1>i, <2>1, <2>3, <2>4 DEF RowKept, Absent, Tried, NoteRow, MarkAllRead
  <2>5. ASSUME NEW n \in Note, ~Absent(n), note'[n] = note[n] PROVE RowKept(n)
    BY <1>4, <1>i, <2>5 DEF RowKept, Absent, Tried, MarkAllRead, RowsInv, QueuedIsReady
  <2>6. RowsStep
    BY <2>2, <2>3, <2>4, <2>5 DEF RowsStep
  <2>7. TypeOK'
    BY <1>4, <1>i, <2>2, EventType DEF MarkAllRead, TypeOK
  <2> QED
    BY <1>4, <1>t, <2>6, <2>7, ApiFine DEF MarkAllRead
<1>5. ASSUME NEW n \in Note, NEW st \in {"sent", "delivered"}, Confirmed(n, st) PROVE StepFine
  <2> DEFINE r == [note[n] EXCEPT !.status = st]
  <2>0. ~Absent(n)
    BY <1>5, <1>i, NoRowType DEF Confirmed, RowsInv, RowsWellFormed
  <2>1. /\ r \in NoteRow /\ r.status = st /\ r.msg = note[n].msg
        /\ r.channel = note[n].channel /\ r.from = note[n].from /\ r.attempt = note[n].attempt
    BY <1>i DEF NoteRow, Status
  <2>2. note' = [note EXCEPT ![n] = r] /\ trace' = trace
    BY <1>5 DEF Confirmed
  <2> HIDE DEF r
  <2>3. /\ note' \in [Note -> NoteRow] /\ RowsStep
        /\ \A q \in Note : Absent(q) => trace'[q].accepted = 0
    BY <1>i, <1>t, <2>0, <2>1, <2>2, StatusWritten
  <2>4. TypeOK'
    BY <1>5, <1>i, <2>3, EventType DEF Confirmed, TypeOK
  <2> QED
    BY <1>5, <2>3, <2>4, ApiFine DEF Confirmed
<1>6. ASSUME NEW n \in Note, Bounced(n) PROVE StepFine
  <2> DEFINE r == [note[n] EXCEPT !.status = "failed"]
  <2>0. ~Absent(n)
    BY <1>6, <1>i, NoRowType DEF Bounced, RowsInv, RowsWellFormed
  <2>1. /\ r \in NoteRow /\ r.status = "failed" /\ r.msg = note[n].msg
        /\ r.channel = note[n].channel /\ r.from = note[n].from /\ r.attempt = note[n].attempt
    BY <1>i DEF NoteRow, Status
  <2>2. note' = [note EXCEPT ![n] = r]
    BY <1>6 DEF Bounced
  <2>t. /\ trace' \in [Note -> TraceRow] /\ \A q \in Note \ {n} : trace'[q] = trace[q]
        /\ trace'[n].bounced >= trace[n].bounced
    <3>1. trace[n].bounced \in Nat
      BY <1>i DEF TraceRow
    <3>2. /\ trace' \in [Note -> TraceRow] /\ \A q \in Note \ {n} : trace'[q] = trace[q]
          /\ trace'[n].bounced = trace[n].bounced + 1
      BY <1>6, <1>i, BounceTraced DEF Bounced
    <3> QED
      BY <3>1, <3>2
  <2> HIDE DEF r
  <2>3. /\ note' \in [Note -> NoteRow] /\ RowsStep
        /\ \A q \in Note : Absent(q) => trace'[q].accepted = 0
    BY <2>0, <2>1, <2>2, <2>t, StatusWritten
  <2>4. TypeOK'
    BY <1>6, <1>i, <2>3, <2>t, EventType DEF Bounced, TypeOK
  <2> QED
    BY <1>6, <2>3, <2>4, ApiFine DEF Bounced
<1>7. ASSUME NEW n \in Note, NEW q \in Note, BouncedLegacy(n, q) PROVE StepFine
  <2> DEFINE r == [note[n] EXCEPT !.status = "failed"]
             x == Row(note[n].msg, "email", n)
  <2>0. ~Absent(n) /\ Absent(q) /\ q # n
    BY <1>7, <1>i, NoRowType DEF BouncedLegacy, RowsInv, RowsWellFormed, Fresh, Absent
  <2>1. /\ r \in NoteRow /\ r.status = "failed" /\ r.msg = note[n].msg
        /\ r.channel = note[n].channel /\ r.from = note[n].from /\ r.attempt = note[n].attempt
    BY <1>i DEF NoteRow, Status
  <2>2. note[n].msg \in Msg /\ note[n].channel \in {"whatsapp", "sms"} /\ "email" \in Channel
    BY <1>7, <1>i, <2>0 DEF BouncedLegacy, TwilioSent, RowsInv, RowsWellFormed, NoteRow, Channel
  <2>3. x \in NoteRow
    BY <2>2, RowType
  <2>4. note' = [note EXCEPT ![n] = r, ![q] = x]
    BY <1>7 DEF BouncedLegacy
  <2>t. /\ trace' \in [Note -> TraceRow] /\ \A p \in Note \ {n} : trace'[p] = trace[p]
        /\ trace'[n].bounced > 0
    BY <1>7, <1>i, BounceTraced DEF BouncedLegacy
  <2>5. /\ note' \in [Note -> NoteRow] /\ note'[n] = r /\ note'[q] = x
        /\ \A p \in Note \ {n, q} : note'[p] = note[p]
    <3> HIDE DEF r, x
    <3> QED
      BY <1>i, <2>0, <2>1, <2>3, <2>4
  <2>6. RowKept(n) /\ Tried(n)'
    <3> HIDE DEF r
    <3> QED
      BY <2>1, <2>5, <2>t DEF RowKept, Absent, Tried
  <2>7. RowsStep
    BY <1>7, <1>i, <2>0, <2>2, <2>5, <2>6, <2>t, ReplacementAppears DEF BouncedLegacy
  <2>8. TypeOK'
    BY <1>7, <1>i, <2>5, <2>t, EventType DEF BouncedLegacy, TypeOK
  <2> QED
    BY <1>7, <1>t, <2>0, <2>7, <2>8, <2>t, ApiFine DEF BouncedLegacy
<1>8. ASSUME NEW t \in Tenant, Switch(t) PROVE StepFine
  <2>1. RowsStep
    BY <1>8, <1>i, RowsUntouched DEF Switch, rows
  <2>2. TypeOK'
    BY <1>8, <1>i, EventType DEF Switch, rows, TypeOK
  <2> QED
    BY <1>8, <1>t, <2>1, <2>2, ApiFine DEF Switch, rows
<1>9. ASSUME NEW n \in Note, BackoffEnds(n) PROVE StepFine
  <2> DEFINE r == [note[n] EXCEPT !.retry = "due"]
  <2>0. ~Absent(n) /\ note[n].status # "queued"
    BY <1>9, <1>i, NoRowType DEF BackoffEnds, RowsInv, RowsWellFormed, QueuedIsReady
  <2>1. /\ r \in NoteRow /\ r.status = note[n].status /\ r.msg = note[n].msg
        /\ r.channel = note[n].channel /\ r.from = note[n].from /\ r.attempt = note[n].attempt
    BY <1>i DEF NoteRow
  <2>2. note' = [note EXCEPT ![n] = r] /\ trace' = trace
    BY <1>9 DEF BackoffEnds
  <2> HIDE DEF r
  <2>3. /\ note' \in [Note -> NoteRow] /\ RowsStep
        /\ \A q \in Note : Absent(q) => trace'[q].accepted = 0
    BY <1>i, <1>t, <2>0, <2>1, <2>2, StatusWritten DEF Absent
  <2>4. TypeOK'
    BY <1>9, <1>i, <2>3 DEF BackoffEnds, TypeOK
  <2> QED
    BY <1>9, <2>3, <2>4, ApiFine DEF BackoffEnds
<1> QED
  BY <1>1, <1>2, <1>3, <1>4, <1>5, <1>6, <1>7, <1>8, <1>9 DEF Api

\* A worker that has become idle, or has turned to rows that are there, is in order.
LEMMA WorkerRests ==
  ASSUME NEW w \in Worker, wk'[w] = Idle
  PROVE  WorkerFine(w)'
BY IdleType DEF WorkerFine, OnJob

\* A step of worker w that leaves its job list and the inbox alone.
LEMMA WorkerFineStep ==
  ASSUME Structure, RowsStep, NEW w \in Worker, TypeOK', WorkerFine(w)',
         \A v \in Worker \ {w} : wk'[v] = wk[v],
         inbox' = inbox \/ \E n \in Note : /\ inbox' = inbox \cup {note[n].msg}
                                        /\ note[n].channel = "email" /\ ~Absent(n) /\ Tried(n),
         \A n \in Note : Absent(n) => trace'[n].accepted = 0
  PROVE  StepFine
BY WorkerWaits DEF StepFine, WorkersWellFormed

\* The two ghost counts a worker writes.
LEMMA AcceptTraced ==
  ASSUME TypeOK, NEW n \in Note, trace' = [trace EXCEPT ![n].accepted = trace[n].accepted + 1]
  PROVE  /\ trace' \in [Note -> TraceRow] /\ \A q \in Note \ {n} : trace'[q] = trace[q]
         /\ trace'[n].accepted = trace[n].accepted + 1
         /\ trace'[n].bounced = trace[n].bounced /\ trace'[n].lost = trace[n].lost
<1> DEFINE t == [trace[n] EXCEPT !.accepted = trace[n].accepted + 1]
<1>1. trace \in [Note -> TraceRow] /\ trace[n] \in TraceRow
  BY DEF TypeOK
<1>2. /\ t \in TraceRow /\ t.accepted = trace[n].accepted + 1
      /\ t.bounced = trace[n].bounced /\ t.lost = trace[n].lost
  BY <1>1 DEF TraceRow
<1>3. trace' = [trace EXCEPT ![n] = t]
  OBVIOUS
<1> HIDE DEF t
<1> QED
  BY <1>1, <1>2, <1>3

LEMMA LoseTraced ==
  ASSUME TypeOK, NEW w \in Worker, wk[w].cur \in Note, Lose(w)
  PROVE  /\ trace' \in [Note -> TraceRow]
         /\ \A n \in Note : /\ trace'[n].accepted = trace[n].accepted
                            /\ trace'[n].bounced = trace[n].bounced
                            /\ trace'[n].lost = IF Lost(w) /\ n = wk[w].cur
                                                 THEN trace[n].lost + 1 ELSE trace[n].lost
<1> DEFINE n == wk[w].cur
           t == [trace[n] EXCEPT !.lost = trace[n].lost + 1]
<1>1. trace \in [Note -> TraceRow] /\ trace[n] \in TraceRow
  BY DEF TypeOK
<1>2. /\ t \in TraceRow /\ t.lost = trace[n].lost + 1
      /\ t.bounced = trace[n].bounced /\ t.accepted = trace[n].accepted
  BY <1>1 DEF TraceRow
<1>3. CASE Lost(w)
  <2>1. trace' = [trace EXCEPT ![n] = t]
    BY <1>3 DEF Lose
  <2> HIDE DEF t
  <2> QED
    BY <1>1, <1>2, <1>3, <2>1
<1>4. CASE ~Lost(w)
  BY <1>1, <1>4 DEF Lose
<1> QED
  BY <1>3, <1>4

\* A row that is marked failed is kept, and is tried from then on.
LEMMA FailedKept ==
  ASSUME Structure, NEW w \in Worker, NEW n \in Note, NEW retry \in {"no", "later"},
         ~Absent(n), SetFailed(w, n, retry),
         \A q \in Note : trace'[q].bounced = trace[q].bounced
  PROVE  /\ note' \in [Note -> NoteRow] /\ RowsStep
         /\ note'[n].attempt > 0
         /\ note'[n].attempt = wk[w].copy[n] + 1 /\ note'[n].status = "failed"
         /\ \A q \in Note \ {n} : note'[q] = note[q]
<1>1. /\ note' \in [Note -> NoteRow] /\ \A q \in Note \ {n} : note'[q] = note[q]
      /\ note'[n].status = "failed" /\ note'[n].attempt = wk[w].copy[n] + 1
      /\ note'[n].attempt > 0 /\ note'[n].msg = note[n].msg
      /\ note'[n].channel = note[n].channel /\ note'[n].from = note[n].from
  BY MarkedFailed DEF Structure
<1>2. RowKept(n)
  BY <1>1 DEF RowKept, Absent, Tried
<1> QED
  BY <1>1, <1>2, RowRewritten DEF Structure, RowsInv

\* handleFailure
LEMMA FailureSteps ==
  ASSUME Structure, NEW w \in Worker, NEW n \in Note, ~Absent(n), Failure(w, n),
         WorkerFine(w), wk[w].pc \in OnJob,
         \A q \in Note : trace'[q].bounced = trace[q].bounced
  PROVE  /\ note' \in [Note -> NoteRow] /\ wk' \in [Worker -> Handler] /\ RowsStep
         /\ WorkerFine(w)' /\ \A v \in Worker \ {w} : wk'[v] = wk[v]
         /\ wk'[w].pc \in {"next", "fallback"} /\ wk'[w].todo = wk[w].todo \ {n}
         /\ wk'[w].copy = wk[w].copy /\ wk'[w].cur = n
         /\ note'[n].attempt = wk[w].copy[n] + 1 /\ note'[n].status = "failed"
         /\ \A q \in Note \ {n} : note'[q] = note[q]
<1>1. PICK retry \in {"no", "later"}, pc \in {"next", "fallback"} :
        SetFailed(w, n, retry) /\ Turn(w, n, pc)
  BY DEF Failure
<1>2. /\ note' \in [Note -> NoteRow] /\ RowsStep
      /\ note'[n].attempt > 0
      /\ note'[n].attempt = wk[w].copy[n] + 1 /\ note'[n].status = "failed"
      /\ \A q \in Note \ {n} : note'[q] = note[q]
  BY <1>1, FailedKept
<1>3. /\ wk' \in [Worker -> Handler]
      /\ wk'[w].pc = pc /\ wk'[w].cur = n /\ wk'[w].todo = wk[w].todo \ {n}
      /\ wk'[w].job = wk[w].job /\ wk'[w].copy = wk[w].copy
      /\ \A v \in Worker \ {w} : wk'[v] = wk[v]
  BY <1>1, Turned DEF Structure
<1>4. \A q \in wk[w].todo : ~Absent(q)'
  BY <1>2 DEF RowsStep, RowKept, WorkerFine, Structure, TypeOK, Handler
<1>5. WorkerFine(w)'
  BY <1>2, <1>3, <1>4, NoneAssumption DEF WorkerFine, OnJob, Absent
<1> QED
  BY <1>2, <1>3, <1>5

\* A row a worker has to do with is a row that is there.
LEMMA WorkerRows ==
  ASSUME Structure, NEW w \in Worker
  PROVE  /\ WorkerFine(w) /\ wk[w] \in Handler
         /\ wk[w].todo \subseteq Note /\ \A n \in wk[w].todo : ~Absent(n)
         /\ wk[w].pc \in OnJob => wk[w].job \in Slot
         /\ wk[w].pc \in OnJob \ {"next"} => wk[w].cur \in Note /\ ~Absent(wk[w].cur)
BY DEF Structure, TypeOK, WorkersWellFormed, WorkerFine, Handler

LEMMA TraceStays ==
  ASSUME Structure, trace' = trace
  PROVE  /\ \A n \in Note : trace'[n].bounced = trace[n].bounced
         /\ \A n \in Note : Absent(n) => trace'[n].accepted = 0
BY DEF Structure, RowsWellFormed

\* The worker sends the rows it has loaded.
LEMMA SendStep ==
  ASSUME Structure, NEW w \in Worker, Send(w)
  PROVE  StepFine
<1>i. TypeOK /\ RowsInv
  BY DEF Structure, RowsInv
<1>w. /\ WorkerFine(w) /\ wk[w] \in Handler
      /\ wk[w].todo \subseteq Note /\ \A n \in wk[w].todo : ~Absent(n)
      /\ wk[w].pc \in OnJob => wk[w].job \in Slot
  BY WorkerRows
<1>1. ASSUME NEW n \in Note, Accepted(w, n) PROVE StepFine
  <2>1. /\ trace' \in [Note -> TraceRow] /\ \A q \in Note \ {n} : trace'[q] = trace[q]
        /\ trace'[n].bounced = trace[n].bounced
    BY <1>1, <1>i, AcceptTraced DEF Accepted
  <2>2. /\ wk' \in [Worker -> Handler]
        /\ wk'[w].pc = "accepted" /\ wk'[w].cur = n /\ wk'[w].todo = wk[w].todo \ {n}
        /\ wk'[w].job = wk[w].job /\ \A v \in Worker \ {w} : wk'[v] = wk[v]
    BY <1>1, <1>i, Turned DEF Accepted
  <2>3. RowsStep
    BY <1>1, <1>i, <2>1, RowsUntouched DEF Accepted
  <2>4. TypeOK'
    BY <1>1, <1>i, <2>1, <2>2 DEF Accepted, TypeOK
  <2>5. WorkerFine(w)'
    BY <1>1, <1>w, <2>2, NoneAssumption DEF Accepted, WorkerFine, OnJob, Absent
  <2>6. \A q \in Note : Absent(q) => trace'[q].accepted = 0
    BY <1>1, <1>w, <2>1 DEF Accepted, Structure, RowsWellFormed
  <2> QED
    BY <1>1, <2>2, <2>3, <2>4, <2>5, <2>6, WorkerFineStep DEF Accepted
<1>2. ASSUME NEW n \in Note, Refused(w, n) PROVE StepFine
  <2>0. ~Absent(n) /\ wk[w].pc \in OnJob
    BY <1>2, <1>w DEF Refused, OnJob
  <2>1. /\ \A q \in Note : trace'[q].bounced = trace[q].bounced
        /\ \A q \in Note : Absent(q) => trace'[q].accepted = 0
    BY <1>2, TraceStays DEF Refused
  <2>2. /\ note' \in [Note -> NoteRow] /\ wk' \in [Worker -> Handler] /\ RowsStep
        /\ WorkerFine(w)' /\ \A v \in Worker \ {w} : wk'[v] = wk[v]
    BY <1>2, <1>w, <2>0, <2>1, FailureSteps DEF Refused
  <2>3. TypeOK'
    BY <1>2, <1>i, <2>2 DEF Refused, TypeOK
  <2> QED
    BY <1>2, <2>1, <2>2, <2>3, WorkerFineStep DEF Refused
<1>3. ASSUME NEW n \in Note, Unsendable(w, n) PROVE StepFine
  <2>0. ~Absent(n) /\ wk[w].pc \in OnJob
    BY <1>3, <1>w DEF Unsendable, OnJob
  <2>1. /\ \A q \in Note : trace'[q].bounced = trace[q].bounced
        /\ \A q \in Note : Absent(q) => trace'[q].accepted = 0
    BY <1>3, TraceStays DEF Unsendable
  <2>2. /\ note' \in [Note -> NoteRow] /\ RowsStep
        /\ note'[n].attempt > 0 /\ note'[n].status = "failed"
        /\ \A q \in Note \ {n} : note'[q] = note[q]
    BY <1>3, <2>0, <2>1, FailedKept DEF Unsendable
  <2>3. /\ wk' \in [Worker -> Handler]
        /\ wk'[w].pc = "skipped" /\ wk'[w].cur = n /\ wk'[w].todo = wk[w].todo \ {n}
        /\ wk'[w].job = wk[w].job /\ \A v \in Worker \ {w} : wk'[v] = wk[v]
    BY <1>3, <1>i, Turned DEF Unsendable
  <2>4. WorkerFine(w)'
    BY <1>w, <2>0, <2>2, <2>3, NoneAssumption DEF WorkerFine, OnJob, Absent
  <2>5. TypeOK'
    BY <1>3, <1>i, <2>2, <2>3 DEF Unsendable, TypeOK
  <2> QED
    BY <1>3, <2>1, <2>2, <2>3, <2>4, <2>5, WorkerFineStep DEF Unsendable
<1> QED
  BY <1>1, <1>2, <1>3 DEF Send

\* The worker finishes with a row or with its job.
LEMMA CompleteStep ==
  ASSUME Structure, NEW w \in Worker, Complete(w)
  PROVE  StepFine
<1>i. TypeOK /\ RowsInv /\ wk[w].job \in Slot
  BY WorkerRows DEF Structure, RowsInv, Complete, OnJob
<1>1. wk' \in [Worker -> Handler] /\ wk'[w] = Idle /\ \A v \in Worker \ {w} : wk'[v] = wk[v]
  BY <1>i, IdleType, Went DEF Complete
<1>2. jobs' \in [Slot -> JobRow]
  BY <1>i, JobType DEF Complete, TypeOK
<1>3. RowsStep
  BY <1>i, RowsUntouched DEF Complete, rows
<1>4. TypeOK'
  BY <1>i, <1>1, <1>2 DEF Complete, rows, TypeOK
<1> QED
  BY <1>1, <1>3, <1>4, TraceStays, WorkerRests, WorkerFineStep DEF Complete, rows

\* The row of a message that has been sent, once it is written.
LEMMA SavedRow ==
  ASSUME Structure, NEW w \in Worker, Saved(w)
  PROVE  LET n == wk[w].cur IN
         /\ n \in Note /\ ~Absent(n) /\ note' \in [Note -> NoteRow]
         /\ \A q \in Note \ {n} : note'[q] = note[q]
         /\ note'[n].status = "sent" /\ note'[n].attempt = wk[w].copy[n] + 1
         /\ note'[n].attempt > 0 /\ note'[n].msg = note[n].msg
         /\ note'[n].channel = note[n].channel /\ note'[n].from = note[n].from
<1> DEFINE n == wk[w].cur
           k == wk[w].copy[n] + 1
           r == [note[n] EXCEPT !.status = "sent", !.pid = TRUE, !.attempt = k]
<1>1. n \in Note /\ ~Absent(n)
  BY WorkerRows DEF Saved, OnJob
<1>2. note \in [Note -> NoteRow] /\ note[n] \in NoteRow
  BY <1>1 DEF Structure, TypeOK
<1>3. k \in Nat /\ k > 0
  <2>1. wk[w].copy \in [Note -> Nat]
    BY DEF Structure, TypeOK, Handler
  <2> QED
    BY <1>1, <2>1
<1>4. note' = [note EXCEPT ![n] = r]
  BY <1>1, <1>2 DEF Saved, Counted
<1> HIDE DEF k
<1>5. /\ r \in NoteRow /\ r.status = "sent" /\ r.attempt = k /\ r.msg = note[n].msg
      /\ r.channel = note[n].channel /\ r.from = note[n].from
  BY <1>2, <1>3 DEF NoteRow, Status
<1>6. /\ note' \in [Note -> NoteRow] /\ note'[n] = r
      /\ \A q \in Note \ {n} : note'[q] = note[q]
  <2> HIDE DEF r, n
  <2> QED
    BY <1>1, <1>2, <1>4, <1>5
<1> HIDE DEF r
<1> QED
  BY <1>1, <1>3, <1>5, <1>6 DEF k

LEMMA SavedStep ==
  ASSUME Structure, NEW w \in Worker, Saved(w)
  PROVE  StepFine
<1>0. PICK n \in Note : n = wk[w].cur
  BY SavedRow
<1>1. /\ n \in Note /\ ~Absent(n) /\ note' \in [Note -> NoteRow]
      /\ \A q \in Note \ {n} : note'[q] = note[q]
      /\ note'[n].status = "sent" /\ note'[n].attempt > 0 /\ note'[n].msg = note[n].msg
      /\ note'[n].channel = note[n].channel /\ note'[n].from = note[n].from
  BY <1>0, SavedRow
<1>2. /\ \A q \in Note : trace'[q].bounced = trace[q].bounced
      /\ \A q \in Note : Absent(q) => trace'[q].accepted = 0
  BY TraceStays DEF Saved
<1>3. RowKept(n)
  BY <1>1 DEF RowKept, Absent, Tried
<1>4. RowsStep
  BY <1>1, <1>2, <1>3, RowRewritten DEF Structure, RowsInv
<1>5. /\ wk' \in [Worker -> Handler]
      /\ wk'[w].pc = "next" /\ wk'[w].todo = wk[w].todo /\ wk'[w].job = wk[w].job
      /\ \A v \in Worker \ {w} : wk'[v] = wk[v]
  BY WentOn DEF Saved, Structure
<1>6. \A q \in wk[w].todo : ~Absent(q)'
  BY <1>4, WorkerRows DEF RowsStep, RowKept
<1>7. WorkerFine(w)'
  BY <1>5, <1>6, WorkerRows, NoneAssumption DEF WorkerFine, OnJob, Saved, Absent
<1>8. TypeOK'
  BY <1>1, <1>5 DEF Saved, TypeOK, Structure
<1> QED
  BY <1>2, <1>4, <1>5, <1>7, <1>8, WorkerFineStep DEF Saved

LEMMA FallBackStep ==
  ASSUME Structure, NEW w \in Worker, NEW q \in Note, FallBack(w, q)
  PROVE  StepFine
<1>i. TypeOK /\ RowsInv
  BY DEF Structure, RowsInv
<1>n. PICK n \in Note : n = wk[w].cur
  BY WorkerRows DEF FallBack, OnJob
<1>1. /\ n \in Note /\ ~Absent(n) /\ note[n].attempt > 0
      /\ note[n].msg \in Msg /\ note[n].channel \in Channel /\ Tried(n)
  <2>1. n \in Note /\ ~Absent(n) /\ note[n].attempt > 0
    BY <1>n, WorkerRows DEF FallBack, OnJob, WorkerFine
  <2> QED
    BY <1>i, <2>1 DEF TypeOK, NoteRow, RowsInv, RowsWellFormed, Tried
<1>2. /\ \A p \in Note : trace'[p].bounced = trace[p].bounced
      /\ \A p \in Note : Absent(p) => trace'[p].accepted = 0
  BY TraceStays DEF FallBack
<1>3. /\ wk' \in [Worker -> Handler]
      /\ wk'[w].pc = "next" /\ wk'[w].todo = wk[w].todo /\ wk'[w].job = wk[w].job
      /\ \A v \in Worker \ {w} : wk'[v] = wk[v]
  BY <1>i, WentOn DEF FallBack
<1>4. /\ RowsStep /\ inbox' \subseteq Msg
      /\ inbox' = inbox \/ (inbox' = inbox \cup {note[n].msg} /\ note[n].channel = "email")
  <2>1. CASE note[n].channel = "email"
    BY <1>i, <1>n, <1>1, <1>2, <2>1, RowsUntouched DEF FallBack, TypeOK
  <2>2. CASE note[n].channel # "email" /\ note' = note
    BY <1>i, <1>n, <1>1, <1>2, <2>2, RowsUntouched DEF FallBack, TypeOK
  <2>3. CASE /\ note[n].channel # "email" /\ Fresh(q)
             /\ note' = [note EXCEPT ![q] = Row(note[n].msg, NextChannel(note[n].channel), n)]
    <3> DEFINE c == NextChannel(note[n].channel)
    <3>1. /\ c \in Channel
          /\ \/ note[n].channel = "whatsapp" /\ c \in {"sms", "email"}
             \/ note[n].channel = "sms" /\ c = "email"
      BY <1>1, <2>3 DEF NextChannel, Channel
    <3>2. Row(note[n].msg, c, n) \in NoteRow
      BY <1>1, <3>1, RowType
    <3>3. inbox' = inbox
      BY <1>n, <2>3 DEF FallBack
    <3> HIDE DEF c
    <3>4. note' = [note EXCEPT ![q] = Row(note[n].msg, c, n)]
      BY <2>3 DEF c
    <3>5. Absent(q) /\ q # n
      BY <1>1, <2>3 DEF Fresh, Absent
    <3>6. /\ note' \in [Note -> NoteRow] /\ note'[q] = Row(note[n].msg, c, n)
          /\ \A p \in Note \ {q} : note'[p] = note[p]
      BY <1>i, <3>2, <3>4 DEF TypeOK
    <3>7. RowKept(n) /\ Tried(n)'
      BY <1>i, <1>1, <3>5, <3>6 DEF RowKept, Absent, Tried, RowsInv, QueuedIsReady
    <3>8. RowsStep
      BY <1>i, <1>1, <1>2, <2>3, <3>1, <3>6, <3>7, ReplacementAppears
    <3> QED
      BY <1>i, <3>3, <3>8 DEF TypeOK
  <2> QED
    BY <1>n, <2>1, <2>2, <2>3 DEF FallBack
<1>5. \A p \in wk[w].todo : ~Absent(p)'
  BY <1>4, WorkerRows DEF RowsStep, RowKept
<1>6. WorkerFine(w)'
  BY <1>3, <1>5, WorkerRows, NoneAssumption DEF WorkerFine, OnJob, FallBack, Absent
<1>7. TypeOK'
  BY <1>i, <1>3, <1>4 DEF FallBack, TypeOK, RowsStep
<1> QED
  BY <1>1, <1>2, <1>3, <1>4, <1>6, <1>7, WorkerFineStep

\* The rows retry-failed sets back.
LEMMA RequeuedRows ==
  ASSUME Structure, NEW w \in Worker, Requeue(w)
  PROVE  /\ note' \in [Note -> NoteRow]
         /\ \A n \in Note : IF n \in wk[w].todo
              THEN /\ note'[n].status = "queued" /\ note'[n].retry = "no"
                   /\ note'[n].msg = note[n].msg /\ note'[n].channel = note[n].channel
                   /\ note'[n].from = note[n].from /\ note'[n].attempt = note[n].attempt
              ELSE note'[n] = note[n]
<1>1. ASSUME NEW n \in Note
      PROVE  /\ note[n] \in NoteRow /\ Requeued(n) \in NoteRow
             /\ Requeued(n).status = "queued" /\ Requeued(n).retry = "no"
             /\ Requeued(n).msg = note[n].msg /\ Requeued(n).channel = note[n].channel
             /\ Requeued(n).from = note[n].from /\ Requeued(n).attempt = note[n].attempt
  <2>1. note[n] \in NoteRow
    BY DEF Structure, TypeOK
  <2> QED
    BY <2>1 DEF Requeued, NoteRow, Status
<1>2. note' = [n \in Note |-> IF n \in wk[w].todo THEN Requeued(n) ELSE note[n]]
  BY DEF Requeue
<1> QED
  BY <1>1, <1>2

LEMMA RequeueStep ==
  ASSUME Structure, NEW w \in Worker, Requeue(w)
  PROVE  StepFine
<1>i. TypeOK /\ RowsInv
  BY DEF Structure, RowsInv
<1>w. wk[w].todo \subseteq Note /\ \A n \in wk[w].todo : ~Absent(n)
  BY WorkerRows
<1>1. /\ note' \in [Note -> NoteRow]
      /\ \A n \in Note : IF n \in wk[w].todo
           THEN /\ note'[n].status = "queued" /\ note'[n].retry = "no"
                /\ note'[n].msg = note[n].msg /\ note'[n].channel = note[n].channel
                /\ note'[n].from = note[n].from /\ note'[n].attempt = note[n].attempt
           ELSE note'[n] = note[n]
  BY RequeuedRows
<1>2. trace' = trace /\ inbox' = inbox
  BY DEF Requeue
<1>3. ASSUME NEW n \in Note, ~Absent(n) PROVE RowKept(n)
  BY <1>i, <1>1, <1>2, <1>3 DEF RowKept, Absent, Tried, RowsInv, QueuedIsReady
<1>4. RowsStep
  BY <1>w, <1>1, <1>3 DEF RowsStep
<1>5. jobs' \in [Slot -> JobRow]
  <2>1. ASSUME NEW s \in Slot, NEW n \in wk[w].todo, AddJob(s, Job(HomeOf(n), None, wk[w].todo))
        PROVE  jobs' \in [Slot -> JobRow]
    <3>1. n \in Note /\ ~Absent(n) /\ wk[w].todo \in SUBSET Note
      BY <1>w, <2>1
    <3>2. note[n].msg \in Msg
      BY <1>i, <3>1 DEF TypeOK, NoteRow, RowsInv, RowsWellFormed
    <3>3. HomeOf(n) \in Tenant
      BY <3>2, MessageAssumption DEF HomeOf
    <3>4. Job(HomeOf(n), None, wk[w].todo) \in JobRow
      BY <3>1, <3>3, JobType
    <3> QED
      BY <1>i, <2>1, <3>4, AddJobType
  <2> QED
    BY <1>i, <2>1 DEF Requeue, TypeOK
<1>6. wk' \in [Worker -> Handler] /\ wk'[w] = Idle /\ \A v \in Worker \ {w} : wk'[v] = wk[v]
  BY <1>i, IdleType, Went DEF Requeue
<1>7. TypeOK'
  BY <1>i, <1>1, <1>5, <1>6 DEF Requeue, TypeOK
<1> QED
  BY <1>2, <1>4, <1>6, <1>7, TraceStays, WorkerRests, WorkerFineStep

\* A write fails, or the worker is gone.
LEMMA ThrowsStep ==
  ASSUME Structure, NEW w \in Worker, Throws(w)
  PROVE  StepFine
<1>i. TypeOK /\ RowsInv
  BY DEF Structure, RowsInv
<1>n. PICK n \in Note : n = wk[w].cur /\ ~Absent(n) /\ wk[w].pc \in OnJob /\ WorkerFine(w)
  BY WorkerRows DEF Throws, OnJob
<1>1. /\ trace' \in [Note -> TraceRow]
      /\ \A q \in Note : trace'[q].accepted = trace[q].accepted
                         /\ trace'[q].bounced = trace[q].bounced
  BY <1>i, <1>n, LoseTraced DEF Throws
<1>2. \A q \in Note : Absent(q) => trace'[q].accepted = 0
  BY <1>1 DEF Structure, RowsWellFormed
<1>3. /\ note' \in [Note -> NoteRow] /\ wk' \in [Worker -> Handler] /\ RowsStep
      /\ WorkerFine(w)' /\ \A v \in Worker \ {w} : wk'[v] = wk[v]
  BY <1>n, <1>1, FailureSteps DEF Throws
<1>4. TypeOK'
  BY <1>i, <1>1, <1>3, EventType DEF Throws, TypeOK
<1> QED
  BY <1>2, <1>3, <1>4, WorkerFineStep DEF Throws

LEMMA RunAgainType == ASSUME NEW j \in JobRow PROVE RunAgain(j) \in JobRow
<1>1. CASE j.runs < MaxRuns
  <2>1. j.runs + 1 \in 1..MaxRuns
    BY <1>1, BoundAssumption DEF JobRow
  <2>2. [j EXCEPT !.st = "waiting", !.runs = j.runs + 1] \in JobRow
    BY <2>1 DEF JobRow
  <2> QED
    BY <1>1, <2>2 DEF RunAgain
<1>2. CASE ~(j.runs < MaxRuns)
  BY <1>2, JobType DEF RunAgain
<1> QED
  BY <1>1, <1>2

LEMMA BreakTraced ==
  ASSUME Structure, NEW w \in Worker, Breaks(w)
  PROVE  /\ trace' \in [Note -> TraceRow]
         /\ \A q \in Note : trace'[q].accepted = trace[q].accepted
                            /\ trace'[q].bounced = trace[q].bounced
<1>1. CASE Lost(w)
  <2>1. wk[w].cur \in Note
    BY <1>1, WorkerRows DEF Lost, OnJob
  <2> QED
    BY <2>1, LoseTraced DEF Breaks, Structure
<1>2. CASE ~Lost(w)
  BY <1>2 DEF Breaks, Lose, Structure, TypeOK
<1> QED
  BY <1>1, <1>2

LEMMA BreaksStep ==
  ASSUME Structure, NEW w \in Worker, Breaks(w)
  PROVE  StepFine
<1>i. TypeOK /\ RowsInv /\ wk[w].job \in Slot
  BY WorkerRows DEF Structure, RowsInv, Breaks, OnJob
<1>1. /\ trace' \in [Note -> TraceRow]
      /\ \A q \in Note : trace'[q].accepted = trace[q].accepted
                         /\ trace'[q].bounced = trace[q].bounced
  BY BreakTraced
<1>2. \A q \in Note : Absent(q) => trace'[q].accepted = 0
  BY <1>1 DEF Structure, RowsWellFormed
<1>3. wk' \in [Worker -> Handler] /\ wk'[w] = Idle /\ \A v \in Worker \ {w} : wk'[v] = wk[v]
  BY <1>i, IdleType, Went DEF Breaks
<1>4. RowsStep
  BY <1>i, <1>1, RowsUntouched DEF Breaks
<1>5. jobs' \in [Slot -> JobRow]
  BY <1>i, RunAgainType DEF Breaks, TypeOK
<1>6. TypeOK'
  BY <1>i, <1>1, <1>3, <1>5, EventType DEF Breaks, TypeOK
<1> QED
  BY <1>2, <1>3, <1>4, <1>6, WorkerRests, WorkerFineStep DEF Breaks

\* A job or a scan is taken from the queue: the rows it loads are there.
LEMMA LoadedThere ==
  /\ \A j \in JobRow : Loaded(j) \subseteq Note /\ \A n \in Loaded(j) : ~Absent(n)
  /\ \A t \in Tenant : Due(t) \subseteq Note /\ \A n \in Due(t) : ~Absent(n)
BY DEF Loaded, Loadable, Due, Absent

LEMMA DispatchStep ==
  ASSUME Structure, NEW w \in Worker, NEW s \in Slot, Dispatch(w, s)
  PROVE  StepFine
<1>i. TypeOK /\ RowsInv /\ jobs[s] \in JobRow
  BY DEF Structure, RowsInv, TypeOK
<1>1. RowsStep /\ note' = note
  BY <1>i, RowsUntouched DEF Dispatch, rows
<1>2. CASE wk' = wk
  <2>1. jobs' \in [Slot -> JobRow]
    <3>1. [jobs[s] EXCEPT !.st = "active"] \in JobRow
      BY <1>i DEF JobRow
    <3> QED
      BY <1>i, <3>1, JobType DEF Dispatch, TypeOK
  <2>2. TypeOK'
    BY <1>i, <1>2, <2>1 DEF Dispatch, rows, TypeOK
  <2> QED
    BY <1>1, <1>2, <2>2, TraceStays, ApiFine DEF Dispatch, rows
<1>3. CASE /\ jobs' = [jobs EXCEPT ![s].st = "active"]
           /\ Goto(w, Working("next", s, Loaded(jobs[s])))
  <2> DEFINE h == Working("next", s, Loaded(jobs[s]))
  <2>0. Loaded(jobs[s]) \in SUBSET Note /\ \A n \in Loaded(jobs[s]) : ~Absent(n)
    BY <1>i, LoadedThere
  <2>1. h \in Handler /\ h.pc = "next" /\ h.job = s /\ h.todo = Loaded(jobs[s])
    BY <1>i, <2>0, WorkingType
  <2> HIDE DEF h
  <2>2. wk' \in [Worker -> Handler] /\ wk'[w] = h /\ \A v \in Worker \ {w} : wk'[v] = wk[v]
    BY <1>i, <1>3, <2>1, Went DEF h
  <2>3. WorkerFine(w)'
    BY <1>1, <2>0, <2>1, <2>2, NoneAssumption DEF WorkerFine, OnJob, Absent
  <2>4. jobs' \in [Slot -> JobRow]
    <3>1. [jobs[s] EXCEPT !.st = "active"] \in JobRow
      BY <1>i DEF JobRow
    <3> QED
      BY <1>i, <1>3, <3>1 DEF TypeOK
  <2>5. TypeOK'
    BY <1>i, <2>2, <2>4 DEF Dispatch, rows, TypeOK
  <2> QED
    BY <1>1, <2>2, <2>3, <2>5, TraceStays, WorkerFineStep DEF Dispatch, rows
<1> QED
  BY <1>2, <1>3 DEF Dispatch

LEMMA ScanStep ==
  ASSUME Structure, NEW w \in Worker, NEW t \in Tenant,
         RetryScan(w, t) \/ \E s \in Slot : DispatchQueued(w, t, s)
  PROVE  StepFine
<1>i. TypeOK /\ RowsInv
  BY DEF Structure, RowsInv
<1>1. CASE RetryScan(w, t)
  <2> DEFINE h == Working("requeue", None, Due(t))
  <2>0. Due(t) \in SUBSET Note /\ \A n \in Due(t) : ~Absent(n)
    BY LoadedThere
  <2>1. h \in Handler /\ h.pc = "requeue" /\ h.todo = Due(t)
    BY <1>i, <2>0, WorkingType
  <2> HIDE DEF h
  <2>2. wk' \in [Worker -> Handler] /\ wk'[w] = h /\ \A v \in Worker \ {w} : wk'[v] = wk[v]
    BY <1>i, <1>1, <2>1, Went DEF h, RetryScan
  <2>3. RowsStep /\ note' = note
    BY <1>i, <1>1, RowsUntouched DEF RetryScan, rows
  <2>4. WorkerFine(w)'
    BY <2>0, <2>1, <2>2, <2>3 DEF WorkerFine, OnJob, Absent
  <2>5. TypeOK'
    BY <1>i, <1>1, <2>2 DEF RetryScan, rows, TypeOK
  <2> QED
    BY <1>1, <2>2, <2>3, <2>4, <2>5, TraceStays, WorkerFineStep DEF RetryScan, rows
<1>2. ASSUME NEW s \in Slot, DispatchQueued(w, t, s) PROVE StepFine
  <2> DEFINE mine == {n \in Batch : HomeOf(n) = t}
  <2>1. mine \in SUBSET Note
    BY DEF Batch, Queued
  <2>2. AddJob(s, Job(t, None, mine))
    BY <1>2 DEF DispatchQueued
  <2> HIDE DEF mine
  <2>3. jobs' \in [Slot -> JobRow]
    BY <1>i, <2>1, <2>2, JobType, AddJobType
  <2>4. RowsStep
    BY <1>i, <1>2, RowsUntouched DEF DispatchQueued, rows
  <2>5. TypeOK'
    BY <1>i, <1>2, <2>3 DEF DispatchQueued, rows, TypeOK
  <2> QED
    BY <1>2, <2>4, <2>5, TraceStays, ApiFine DEF DispatchQueued, rows
<1> QED
  BY <1>1, <1>2

\* Every step.
LEMMA StructureStep == ASSUME Structure, [Next]_vars PROVE Structure'
<1>1. CASE Api \/ \E n \in Note : BackoffEnds(n)
  BY <1>1, ApiStep, StepKeepsStructure
<1>2. ASSUME NEW w \in Worker, Work(w) PROVE Structure'
  BY <1>2, SendStep, CompleteStep, SavedStep, FallBackStep, RequeueStep, StepKeepsStructure
    DEF Work
<1>3. ASSUME NEW w \in Worker, Throws(w) \/ Breaks(w) PROVE Structure'
  BY <1>3, ThrowsStep, BreaksStep, StepKeepsStructure
<1>4. ASSUME NEW w \in Worker, NEW s \in Slot, Dispatch(w, s) PROVE Structure'
  BY <1>4, DispatchStep, StepKeepsStructure
<1>5. ASSUME NEW w \in Worker, NEW t \in Tenant,
             RetryScan(w, t) \/ \E s \in Slot : DispatchQueued(w, t, s)
      PROVE  Structure'
  BY <1>5, ScanStep, StepKeepsStructure
<1>6. CASE UNCHANGED vars
  <2>1. TypeOK'
    BY <1>6 DEF Structure, vars, TypeOK
  <2>2. RowsStep
    BY <1>6, RowsUntouched DEF Structure, RowsInv, vars
  <2>3. StepFine
    BY <1>6, <2>1, <2>2, TraceStays, ApiFine DEF vars
  <2> QED
    BY <2>3, StepKeepsStructure
<1> QED
  BY <1>1, <1>2, <1>3, <1>4, <1>5, <1>6 DEF Next

LEMMA InitStructure == Init => Structure
<1> SUFFICES ASSUME Init PROVE Structure
  OBVIOUS
<1>1. note \in [Note -> NoteRow] /\ \A n \in Note : note[n] = NoRow /\ Absent(n)
  BY NoRowType DEF Init, Absent
<1>2. wk \in [Worker -> Handler] /\ \A w \in Worker : wk[w] = Idle
  BY IdleType DEF Init
<1>3. TypeOK
  BY <1>1, <1>2, JobType, BoundAssumption DEF Init, TypeOK, TraceRow
<1>4. RowsWellFormed /\ QueuedIsReady /\ ChainInOrder
  BY <1>1, NoRowType DEF Init, RowsWellFormed, QueuedIsReady, ChainInOrder
<1>5. WorkersWellFormed
  BY <1>2, IdleType DEF WorkersWellFormed, WorkerFine, OnJob
<1> QED
  BY <1>3, <1>4, <1>5 DEF Structure

THEOREM StructureHolds == Spec => []Structure
<1>1. Init => Structure
  BY InitStructure
<1>2. Structure /\ [Next]_vars => Structure'
  BY StructureStep
<1> QED
  BY <1>1, <1>2, PTL DEF Spec

\* However many workers there are and whatever the bounds, rows, jobs and workers keep
\* to their fields: no step writes a channel, a status or a run count it must not.
THEOREM TypeCorrect == Spec => []TypeOK
BY StructureHolds, PTL DEF Structure

\* However many workers there are, createFallbackNotification and the legacy Twilio
\* webhook only ever move a message forward along the chain, from a row that was tried.
THEOREM ChainHolds == Spec => []ChainInOrder
BY StructureHolds, PTL DEF Structure

-----------------------------------------------------------------------------
(* The accounts of one worker                                                    *)

\* Steps that are not a worker's: attempts and acceptances stay, and a row becomes
\* ready to be sent only when it appears or has bounced.
LEMMA AccountsKept ==
  ASSUME Structure, TypeOK', Accounting, wk' = wk,
         \A n \in Note :
           /\ ~Absent(n) => note'[n].attempt = note[n].attempt
           /\ trace'[n].accepted = trace[n].accepted /\ trace'[n].lost = trace[n].lost
           /\ trace'[n].bounced >= trace[n].bounced
           /\ note'[n].status \in {"queued", "failed"} =>
                Absent(n) \/ note[n].status \in {"queued", "failed"}
                \/ trace'[n].bounced > trace[n].bounced
  PROVE  Accounting'
<1>1. \A n \in Note : /\ trace[n] \in TraceRow /\ trace'[n] \in TraceRow
                      /\ note[n].attempt \in Nat /\ note'[n].attempt \in Nat
                      /\ Absent(n) => trace[n].accepted = 0
  BY DEF Structure, TypeOK, NoteRow, RowsWellFormed
<1>2. CopiesFresh'
  <2> SUFFICES ASSUME NEW w \in Worker
               PROVE  /\ wk[w].pc \in OnJob =>
                           \A n \in wk[w].todo : wk[w].copy[n] = note'[n].attempt
                      /\ wk[w].pc = "accepted" => wk[w].copy[wk[w].cur] = note'[wk[w].cur].attempt
                      /\ wk[w].pc = "skipped" => wk[w].copy[wk[w].cur] + 1 = note'[wk[w].cur].attempt
    BY DEF CopiesFresh
  <2>1. \A n \in wk[w].todo : note'[n].attempt = note[n].attempt
    BY WorkerRows
  <2>2. wk[w].pc \in {"accepted", "skipped"} => note'[wk[w].cur].attempt = note[wk[w].cur].attempt
    BY WorkerRows DEF OnJob
  <2> QED
    BY <2>1, <2>2 DEF Accounting, CopiesFresh
<1>3. \A n \in Note : Handed(n)' <=> Handed(n)
  BY DEF Handed
<1>4. SendsCovered'
  <2> SUFFICES ASSUME NEW n \in Note
               PROVE  trace'[n].accepted + OneIf(MaySend(n)') <= 1 + trace'[n].lost + trace'[n].bounced
    BY DEF SendsCovered
  <2>1. MaySend(n)' => Absent(n) \/ MaySend(n) \/ trace'[n].bounced > trace[n].bounced
    BY <1>3 DEF MaySend
  <2>2. trace[n].accepted + OneIf(MaySend(n)) <= 1 + trace[n].lost + trace[n].bounced
    BY DEF Accounting, SendsCovered
  <2> HIDE DEF MaySend
  <2> QED
    BY <1>1, <2>1, <2>2 DEF OneIf, TraceRow
<1>5. AttemptsCounted'
  <2> SUFFICES ASSUME NEW n \in Note
               PROVE  trace'[n].accepted <= note'[n].attempt + trace'[n].lost + OneIf(Handed(n)')
    BY DEF AttemptsCounted
  <2>1. trace[n].accepted <= note[n].attempt + trace[n].lost + OneIf(Handed(n))
    BY DEF Accounting, AttemptsCounted
  <2> QED
    BY <1>1, <1>3, <2>1 DEF OneIf, TraceRow
<1> QED
  BY <1>2, <1>4, <1>5 DEF Accounting

\* The accounts as one worker sees them.
HandedBy(w, n) == wk[w].pc = "accepted" /\ wk[w].cur = n
MaySendBy(w, n) ==
  /\ ~HandedBy(w, n)
  /\ \/ note[n].status \in {"queued", "failed"}
     \/ n \in wk[w].todo
     \/ wk[w].pc = "skipped" /\ wk[w].cur = n
CopiesOf(w) ==
  /\ wk[w].pc \in OnJob =>
       \A n \in wk[w].todo : wk[w].copy[n] = note[n].attempt
  /\ wk[w].pc = "accepted" => wk[w].copy[wk[w].cur] = note[wk[w].cur].attempt
  /\ wk[w].pc = "skipped" => wk[w].copy[wk[w].cur] + 1 = note[wk[w].cur].attempt
RowAccount(w, n) ==
  /\ HandedBy(w, n) => /\ trace[n].accepted <= 1 + trace[n].lost + trace[n].bounced
                       /\ trace[n].accepted <= note[n].attempt + trace[n].lost + 1
  /\ ~HandedBy(w, n) => trace[n].accepted <= note[n].attempt + trace[n].lost
  /\ MaySendBy(w, n) => trace[n].accepted <= trace[n].lost + trace[n].bounced
  /\ trace[n].accepted <= 1 + trace[n].lost + trace[n].bounced

LEMMA AccountsOfOne ==
  ASSUME OneWorker, NEW w \in Worker, TypeOK, Accounting
  PROVE  CopiesOf(w) /\ \A n \in Note : RowAccount(w, n)
<1>1. \A n \in Note : (Handed(n) <=> HandedBy(w, n)) /\ (MaySend(n) <=> MaySendBy(w, n))
  BY DEF OneWorker, Handed, HandedBy, MaySend, MaySendBy
<1>2. ASSUME NEW n \in Note PROVE RowAccount(w, n)
  <2>1. trace[n] \in TraceRow /\ note[n].attempt \in Nat
    BY DEF TypeOK, NoteRow
  <2>2. /\ trace[n].accepted + OneIf(MaySendBy(w, n)) <= 1 + trace[n].lost + trace[n].bounced
        /\ trace[n].accepted <= note[n].attempt + trace[n].lost + OneIf(HandedBy(w, n))
    BY <1>1 DEF Accounting, SendsCovered, AttemptsCounted, OneIf
  <2> QED
    BY <2>1, <2>2 DEF RowAccount, OneIf, TraceRow
<1> QED
  BY <1>2 DEF CopiesOf, Accounting, CopiesFresh

LEMMA OneAccounts ==
  ASSUME OneWorker, NEW w \in Worker, TypeOK', CopiesOf(w)', \A n \in Note : RowAccount(w, n)'
  PROVE  Accounting'
<1>1. \A n \in Note : (Handed(n)' <=> HandedBy(w, n)') /\ (MaySend(n)' <=> MaySendBy(w, n)')
  BY DEF OneWorker, Handed, HandedBy, MaySend, MaySendBy
<1>2. ASSUME NEW n \in Note
      PROVE  /\ trace'[n].accepted + OneIf(MaySend(n)') <= 1 + trace'[n].lost + trace'[n].bounced
             /\ trace'[n].accepted <= note'[n].attempt + trace'[n].lost + OneIf(Handed(n)')
  <2>1. trace'[n] \in TraceRow /\ note'[n].attempt \in Nat
    BY DEF TypeOK, NoteRow
  <2>2. RowAccount(w, n)'
    OBVIOUS
  <2> QED
    BY <1>1, <2>1, <2>2 DEF RowAccount, OneIf, TraceRow
<1>3. CopiesFresh'
  BY DEF CopiesOf, CopiesFresh, OneWorker
<1> QED
  BY <1>2, <1>3 DEF Accounting, SendsCovered, AttemptsCounted

\* The steps of the API, and of time.
LEMMA ApiAccounts ==
  ASSUME Structure, TypeOK', Accounting, Api \/ (\E n \in Note : BackoffEnds(n))
  PROVE  Accounting'
<1> DEFINE Kept == \A n \in Note :
             /\ ~Absent(n) => note'[n].attempt = note[n].attempt
             /\ trace'[n].accepted = trace[n].accepted /\ trace'[n].lost = trace[n].lost
             /\ trace'[n].bounced >= trace[n].bounced
             /\ note'[n].status \in {"queued", "failed"} =>
                  Absent(n) \/ note[n].status \in {"queued", "failed"}
                  \/ trace'[n].bounced > trace[n].bounced
<1>i. TypeOK /\ note \in [Note -> NoteRow] /\ trace \in [Note -> TraceRow]
  BY DEF Structure, TypeOK
<1>t. \A n \in Note : trace[n].bounced \in Nat /\ trace[n].bounced >= trace[n].bounced
                      /\ trace[n].bounced + 1 > trace[n].bounced
                      /\ trace[n].bounced + 1 >= trace[n].bounced
  BY <1>i DEF TraceRow
<1>1. ASSUME NEW m \in Msg, NEW n \in Note, Publish(m, n) PROVE Accounting'
  <2>1. Kept
    BY <1>1, <1>i, <1>t DEF Publish, Fresh, Absent
  <2> QED
    BY <1>1, <2>1, AccountsKept DEF Publish
<1>2. ASSUME NEW m \in Msg, NEW s \in Slot, Enqueue(m, s) PROVE Accounting'
  BY <1>2, <1>t, AccountsKept DEF Enqueue, rows
<1>3. ASSUME NEW n \in Note, MarkRead(n) PROVE Accounting'
  <2>1. note'[n].status = "read" /\ note'[n].attempt = note[n].attempt
    BY <1>3, <1>i DEF MarkRead, NoteRow
  <2>2. \A q \in Note \ {n} : note'[q] = note[q]
    BY <1>3, <1>i DEF MarkRead
  <2>3. Kept
    BY <1>3, <1>t, <2>1, <2>2 DEF MarkRead
  <2> QED
    BY <1>3, <2>3, AccountsKept DEF MarkRead
<1>4. ASSUME NEW m \in Msg, MarkAllRead(m) PROVE Accounting'
  <2>1. \A n \in Note : IF n \in Unread(m) THEN note'[n] = [note[n] EXCEPT !.status = "read"]
                                          ELSE note'[n] = note[n]
    BY <1>4 DEF MarkAllRead
  <2>2. \A n \in Note : /\ note'[n].attempt = note[n].attempt
                        /\ note'[n].status = "read" \/ note'[n].status = note[n].status
    BY <1>i, <2>1 DEF NoteRow
  <2>3. Kept
    BY <1>4, <1>t, <2>2 DEF MarkAllRead
  <2> QED
    BY <1>4, <2>3, AccountsKept DEF MarkAllRead
<1>5. ASSUME NEW n \in Note, NEW st \in {"sent", "delivered"}, Confirmed(n, st) PROVE Accounting'
  <2>1. note'[n].status = st /\ note'[n].attempt = note[n].attempt
    BY <1>5, <1>i DEF Confirmed, NoteRow
  <2>2. \A q \in Note \ {n} : note'[q] = note[q]
    BY <1>5, <1>i DEF Confirmed
  <2>3. Kept
    BY <1>5, <1>t, <2>1, <2>2 DEF Confirmed
  <2> QED
    BY <1>5, <2>3, AccountsKept DEF Confirmed
<1>6. ASSUME NEW n \in Note, Bounced(n) PROVE Accounting'
  <2>1. note'[n].attempt = note[n].attempt
    BY <1>6, <1>i DEF Bounced, NoteRow
  <2>2. \A q \in Note \ {n} : note'[q] = note[q]
    BY <1>6, <1>i DEF Bounced
  <2>3. /\ \A q \in Note \ {n} : trace'[q] = trace[q]
        /\ trace'[n].bounced = trace[n].bounced + 1
        /\ trace'[n].accepted = trace[n].accepted /\ trace'[n].lost = trace[n].lost
    BY <1>6, <1>i, BounceTraced DEF Bounced
  <2>4. Kept
    BY <1>t, <2>1, <2>2, <2>3
  <2> QED
    BY <1>6, <2>4, AccountsKept DEF Bounced
<1>7. ASSUME NEW n \in Note, NEW q \in Note, BouncedLegacy(n, q) PROVE Accounting'
  <2>0. Absent(q) /\ n # q
    BY <1>7, <1>i, NoRowType DEF BouncedLegacy, Structure, RowsWellFormed, Fresh, Absent
  <2>1. note'[n].attempt = note[n].attempt
    BY <1>7, <1>i, <2>0 DEF BouncedLegacy, NoteRow
  <2>2. \A p \in Note \ {n, q} : note'[p] = note[p]
    BY <1>7, <1>i DEF BouncedLegacy
  <2>3. /\ \A p \in Note \ {n} : trace'[p] = trace[p]
        /\ trace'[n].bounced = trace[n].bounced + 1
        /\ trace'[n].accepted = trace[n].accepted /\ trace'[n].lost = trace[n].lost
    BY <1>7, <1>i, BounceTraced DEF BouncedLegacy
  <2>4. Kept
    BY <1>t, <2>0, <2>1, <2>2, <2>3
  <2> QED
    BY <1>7, <2>4, AccountsKept DEF BouncedLegacy
<1>8. ASSUME NEW t \in Tenant, Switch(t) PROVE Accounting'
  BY <1>8, <1>t, AccountsKept DEF Switch, rows
<1>9. ASSUME NEW n \in Note, BackoffEnds(n) PROVE Accounting'
  <2>1. note'[n].status = note[n].status /\ note'[n].attempt = note[n].attempt
    BY <1>9, <1>i DEF BackoffEnds, NoteRow
  <2>2. \A q \in Note \ {n} : note'[q] = note[q]
    BY <1>9, <1>i DEF BackoffEnds
  <2>3. Kept
    BY <1>9, <1>t, <2>1, <2>2 DEF BackoffEnds
  <2> QED
    BY <1>9, <2>3, AccountsKept DEF BackoffEnds
<1> QED
  BY <1>1, <1>2, <1>3, <1>4, <1>5, <1>6, <1>7, <1>8, <1>9 DEF Api

LEMMA Numbers ==
  ASSUME TypeOK
  PROVE  \A n \in Note : /\ trace[n].accepted \in Nat /\ trace[n].lost \in Nat
                         /\ trace[n].bounced \in Nat /\ note[n].attempt \in Nat
BY DEF TypeOK, TraceRow, NoteRow

\* The worker's own steps.
LEMMA SendAccounts ==
  ASSUME Structure, TypeOK', OneWorker, Accounting, NEW w \in Worker, Send(w)
  PROVE  Accounting'
<1>a. CopiesOf(w) /\ \A n \in Note : RowAccount(w, n)
  BY AccountsOfOne DEF Structure
<1>i. /\ TypeOK /\ wk[w].todo \subseteq Note
      /\ \A n \in Note : /\ trace[n].accepted \in Nat /\ trace[n].lost \in Nat
                         /\ trace[n].bounced \in Nat /\ note[n].attempt \in Nat
  BY Numbers, WorkerRows DEF Structure
<1>1. ASSUME NEW n \in Note, Accepted(w, n) PROVE Accounting'
  <2>1. /\ \A q \in Note \ {n} : trace'[q] = trace[q]
        /\ trace'[n].accepted = trace[n].accepted + 1
        /\ trace'[n].bounced = trace[n].bounced /\ trace'[n].lost = trace[n].lost
    BY <1>1, <1>i, AcceptTraced DEF Accepted
  <2>2. /\ wk'[w].pc = "accepted" /\ wk'[w].cur = n /\ wk'[w].todo = wk[w].todo \ {n}
        /\ wk'[w].copy = wk[w].copy
    BY <1>1, <1>i, Turned DEF Accepted
  <2>3. wk[w].pc = "next" /\ n \in wk[w].todo /\ note' = note
    BY <1>1 DEF Accepted
  <2>4. CopiesOf(w)'
    BY <1>a, <2>2, <2>3 DEF CopiesOf, OnJob
  <2>5. ASSUME NEW q \in Note PROVE RowAccount(w, q)'
    <3>1. CASE q = n
      BY <1>a, <1>i, <2>1, <2>2, <2>3, <3>1 DEF RowAccount, HandedBy, MaySendBy
    <3>2. CASE q # n
      BY <1>a, <1>i, <2>1, <2>2, <2>3, <3>2 DEF RowAccount, HandedBy, MaySendBy
    <3> QED
      BY <3>1, <3>2
  <2> QED
    BY <2>4, <2>5, OneAccounts
<1>2. ASSUME NEW n \in Note, NEW pc \in {"next", "skipped", "fallback"},
             wk[w].pc = "next", n \in wk[w].todo, trace' = trace,
             note'[n].attempt = wk[w].copy[n] + 1, note'[n].status = "failed",
             \A q \in Note \ {n} : note'[q] = note[q],
             wk'[w].pc = pc, wk'[w].cur = n, wk'[w].todo = wk[w].todo \ {n},
             wk'[w].copy = wk[w].copy
      PROVE  Accounting'
  <2>0. wk[w].copy[n] = note[n].attempt
    BY <1>2, <1>a DEF CopiesOf, OnJob
  <2>1. CopiesOf(w)'
    BY <1>2, <1>a, <1>i DEF CopiesOf, OnJob
  <2>2. ASSUME NEW q \in Note PROVE RowAccount(w, q)'
    <3>1. CASE q = n
      BY <1>2, <1>a, <1>i, <2>0, <3>1 DEF RowAccount, HandedBy, MaySendBy
    <3>2. CASE q # n
      BY <1>2, <1>a, <1>i, <3>2 DEF RowAccount, HandedBy, MaySendBy
    <3> QED
      BY <3>1, <3>2
  <2> QED
    BY <2>1, <2>2, OneAccounts
<1>3. ASSUME NEW n \in Note, Refused(w, n) PROVE Accounting'
  <2>0. /\ wk[w].pc = "next" /\ n \in wk[w].todo /\ trace' = trace
        /\ ~Absent(n) /\ WorkerFine(w) /\ wk[w].pc \in OnJob
    BY <1>3, WorkerRows DEF Refused, OnJob
  <2>1. /\ wk'[w].pc \in {"next", "fallback"} /\ wk'[w].todo = wk[w].todo \ {n}
        /\ wk'[w].copy = wk[w].copy /\ wk'[w].cur = n
        /\ note'[n].attempt = wk[w].copy[n] + 1 /\ note'[n].status = "failed"
        /\ \A q \in Note \ {n} : note'[q] = note[q]
    BY <1>3, <2>0, FailureSteps DEF Refused
  <2> QED
    BY <1>2, <2>0, <2>1
<1>4. ASSUME NEW n \in Note, Unsendable(w, n) PROVE Accounting'
  <2>0. wk[w].pc = "next" /\ n \in wk[w].todo /\ trace' = trace /\ ~Absent(n)
    BY <1>4, WorkerRows DEF Unsendable
  <2>1. /\ note'[n].attempt = wk[w].copy[n] + 1 /\ note'[n].status = "failed"
        /\ \A q \in Note \ {n} : note'[q] = note[q]
    BY <1>4, <2>0, FailedKept DEF Unsendable
  <2>2. /\ wk'[w].pc = "skipped" /\ wk'[w].cur = n /\ wk'[w].todo = wk[w].todo \ {n}
        /\ wk'[w].copy = wk[w].copy
    BY <1>4, <1>i, Turned DEF Unsendable
  <2> QED
    BY <1>2, <2>0, <2>1, <2>2
<1> QED
  BY <1>1, <1>3, <1>4 DEF Send

LEMMA SavedAccounts ==
  ASSUME Structure, TypeOK', OneWorker, Accounting, NEW w \in Worker, Saved(w)
  PROVE  Accounting'
<1>a. CopiesOf(w) /\ \A n \in Note : RowAccount(w, n)
  BY AccountsOfOne DEF Structure
<1>i. /\ TypeOK /\ wk[w].todo \subseteq Note
      /\ \A n \in Note : /\ trace[n].accepted \in Nat /\ trace[n].lost \in Nat
                         /\ trace[n].bounced \in Nat /\ note[n].attempt \in Nat
  BY Numbers, WorkerRows DEF Structure
<1>n. PICK n \in Note : n = wk[w].cur /\ n \notin wk[w].todo
  BY SavedRow, WorkerRows DEF Saved, WorkerFine, OnJob
<1>1. /\ \A q \in Note \ {n} : note'[q] = note[q]
      /\ note'[n].status = "sent" /\ note'[n].attempt = wk[w].copy[n] + 1
  BY <1>n, SavedRow
<1>2. /\ wk'[w].pc = "next" /\ wk'[w].cur = n /\ wk'[w].todo = wk[w].todo
      /\ wk'[w].copy = wk[w].copy
  BY <1>i, <1>n, WentOn DEF Saved
<1>3. wk[w].pc = "accepted" /\ trace' = trace
  BY DEF Saved
<1>4. wk[w].copy[n] = note[n].attempt
  BY <1>a, <1>n, <1>3 DEF CopiesOf
<1>5. CopiesOf(w)'
  BY <1>a, <1>i, <1>n, <1>1, <1>2, <1>3 DEF CopiesOf, OnJob
<1>6. ASSUME NEW q \in Note PROVE RowAccount(w, q)'
  <2>1. CASE q = n
    BY <1>a, <1>i, <1>n, <1>1, <1>2, <1>3, <1>4, <2>1 DEF RowAccount, HandedBy, MaySendBy
  <2>2. CASE q # n
    BY <1>a, <1>i, <1>n, <1>1, <1>2, <1>3, <2>2 DEF RowAccount, HandedBy, MaySendBy
  <2> QED
    BY <2>1, <2>2
<1> QED
  BY <1>5, <1>6, OneAccounts

LEMMA FallBackAccounts ==
  ASSUME Structure, TypeOK', OneWorker, Accounting, NEW w \in Worker, NEW q \in Note,
         FallBack(w, q)
  PROVE  Accounting'
<1>a. CopiesOf(w) /\ \A n \in Note : RowAccount(w, n)
  BY AccountsOfOne DEF Structure
<1>i. /\ TypeOK /\ wk[w].todo \subseteq Note /\ \A n \in wk[w].todo : ~Absent(n)
      /\ \A n \in Note : /\ trace[n].accepted \in Nat /\ trace[n].lost \in Nat
                         /\ trace[n].bounced \in Nat /\ note'[n].attempt \in Nat
                         /\ Absent(n) => trace[n].accepted = 0
  BY Numbers, WorkerRows DEF Structure, RowsWellFormed, TypeOK, NoteRow
<1>1. \A n \in Note : Absent(n) \/ note'[n] = note[n]
  BY DEF FallBack, Fresh, Absent, Structure, TypeOK
<1>2. /\ wk'[w].pc = "next" /\ wk'[w].todo = wk[w].todo /\ wk'[w].copy = wk[w].copy
  BY <1>i, WentOn DEF FallBack
<1>3. wk[w].pc \in {"skipped", "fallback"} /\ trace' = trace
  BY DEF FallBack
<1>4. CopiesOf(w)'
  BY <1>a, <1>i, <1>1, <1>2, <1>3 DEF CopiesOf, OnJob
<1>5. ASSUME NEW n \in Note PROVE RowAccount(w, n)'
  <2>1. CASE Absent(n)
    BY <1>i, <1>3, <2>1 DEF RowAccount
  <2>2. CASE ~Absent(n)
    BY <1>a, <1>i, <1>1, <1>2, <1>3, <2>2 DEF RowAccount, HandedBy, MaySendBy
  <2> QED
    BY <2>1, <2>2
<1> QED
  BY <1>4, <1>5, OneAccounts

\* The worker has no row of its own afterwards.
LEMMA RestAccounts ==
  ASSUME Structure, TypeOK', OneWorker, Accounting, NEW w \in Worker,
         wk'[w].pc \in {"idle", "requeue"}, trace' = trace, ~Lost(w),
         \A n \in Note :
           /\ note'[n].attempt = note[n].attempt
           /\ note'[n].status = note[n].status \/ n \in wk[w].todo,
         \A n \in wk'[w].todo : n \in Note /\ note[n].status \in {"queued", "failed"}
  PROVE  Accounting'
<1>a. CopiesOf(w) /\ \A n \in Note : RowAccount(w, n)
  BY AccountsOfOne DEF Structure
<1>i. \A n \in Note : /\ trace[n].accepted \in Nat /\ trace[n].lost \in Nat
                      /\ trace[n].bounced \in Nat /\ note[n].attempt \in Nat
  BY Numbers DEF Structure
<1>1. CopiesOf(w)'
  BY DEF CopiesOf, OnJob
<1>2. ASSUME NEW n \in Note PROVE RowAccount(w, n)'
  BY <1>a, <1>i DEF RowAccount, HandedBy, MaySendBy, Lost
<1> QED
  BY <1>1, <1>2, OneAccounts

LEMMA RequeueAccounts ==
  ASSUME Structure, TypeOK', OneWorker, Accounting, NEW w \in Worker, Requeue(w)
  PROVE  Accounting'
<1>1. wk'[w] = Idle /\ wk'[w].pc = "idle" /\ wk'[w].todo = {}
  BY IdleType, Went DEF Requeue, Structure
<1>2. \A n \in Note : /\ note'[n].attempt = note[n].attempt
                      /\ note'[n].status = note[n].status \/ n \in wk[w].todo
  BY RequeuedRows
<1> QED
  BY <1>1, <1>2, RestAccounts DEF Requeue, Lost

LEMMA CompleteAccounts ==
  ASSUME Structure, TypeOK', OneWorker, Accounting, NEW w \in Worker, Complete(w)
  PROVE  Accounting'
<1>1. wk'[w] = Idle /\ wk'[w].pc = "idle" /\ wk'[w].todo = {}
  BY IdleType, Went DEF Complete, Structure
<1> QED
  BY <1>1, RestAccounts DEF Complete, Lost, rows

LEMMA RetryScanAccounts ==
  ASSUME Structure, TypeOK', OneWorker, Accounting, NEW w \in Worker, NEW t \in Tenant,
         RetryScan(w, t)
  PROVE  Accounting'
<1> DEFINE h == Working("requeue", None, Due(t))
<1>1. h \in Handler /\ h.pc = "requeue" /\ h.todo = Due(t)
  BY LoadedThere, WorkingType DEF Structure
<1> HIDE DEF h
<1>2. wk'[w] = h
  BY <1>1, Went DEF h, RetryScan, Structure
<1>3. \A n \in Due(t) : n \in Note /\ note[n].status \in {"queued", "failed"}
  BY DEF Due
<1> QED
  BY <1>1, <1>2, <1>3, RestAccounts DEF RetryScan, Lost, rows

LEMMA ThrowsAccounts ==
  ASSUME Structure, TypeOK', OneWorker, Accounting, NEW w \in Worker, Throws(w)
  PROVE  Accounting'
<1>a. CopiesOf(w) /\ \A n \in Note : RowAccount(w, n)
  BY AccountsOfOne DEF Structure
<1>i. /\ TypeOK /\ wk[w].todo \subseteq Note
      /\ \A n \in Note : /\ trace[n].accepted \in Nat /\ trace[n].lost \in Nat
                         /\ trace[n].bounced \in Nat /\ note[n].attempt \in Nat
  BY Numbers, WorkerRows DEF Structure
<1>n. PICK n \in Note : /\ n = wk[w].cur /\ ~Absent(n) /\ wk[w].pc \in {"accepted", "skipped"}
                        /\ wk[w].pc \in OnJob /\ WorkerFine(w) /\ n \notin wk[w].todo
  BY WorkerRows DEF Throws, OnJob, WorkerFine
<1>1. \A q \in Note : /\ trace'[q].accepted = trace[q].accepted
                      /\ trace'[q].bounced = trace[q].bounced
                      /\ trace'[q].lost = IF Lost(w) /\ q = wk[w].cur
                                           THEN trace[q].lost + 1 ELSE trace[q].lost
  BY <1>i, <1>n, LoseTraced DEF Throws
<1>2. /\ wk'[w].pc \in {"next", "fallback"} /\ wk'[w].todo = wk[w].todo \ {n}
      /\ wk'[w].copy = wk[w].copy /\ wk'[w].cur = n
      /\ note'[n].attempt = wk[w].copy[n] + 1 /\ note'[n].status = "failed"
      /\ \A q \in Note \ {n} : note'[q] = note[q]
  BY <1>n, <1>1, FailureSteps DEF Throws
<1>3. CopiesOf(w)'
  BY <1>a, <1>i, <1>n, <1>2 DEF CopiesOf, OnJob
<1>4. ASSUME NEW q \in Note PROVE RowAccount(w, q)'
  <2>1. CASE q # n
    BY <1>a, <1>i, <1>n, <1>1, <1>2, <2>1 DEF RowAccount, HandedBy, MaySendBy
  <2>2. CASE q = n /\ wk[w].pc = "accepted"
    <3>1. note'[n].attempt = note[n].attempt + 1 /\ trace'[n].lost = trace[n].lost + 1
      BY <1>a, <1>n, <1>1, <1>2, <2>2 DEF CopiesOf, Lost
    <3> QED
      BY <1>a, <1>i, <1>n, <1>1, <1>2, <2>2, <3>1 DEF RowAccount, HandedBy, MaySendBy
  <2>3. CASE q = n /\ wk[w].pc = "skipped"
    <3>1. note'[n].attempt = note[n].attempt /\ trace'[n].lost = trace[n].lost
      BY <1>a, <1>n, <1>1, <1>2, <2>3 DEF CopiesOf, Lost
    <3> QED
      BY <1>a, <1>i, <1>n, <1>1, <1>2, <2>3, <3>1 DEF RowAccount, HandedBy, MaySendBy
  <2> QED
    BY <1>n, <2>1, <2>2, <2>3
<1> QED
  BY <1>3, <1>4, OneAccounts

LEMMA BreaksAccounts ==
  ASSUME Structure, TypeOK', OneWorker, Accounting, NEW w \in Worker, Breaks(w)
  PROVE  Accounting'
<1>0. wk'[w] = Idle /\ wk'[w].pc = "idle" /\ wk'[w].todo = {} /\ note' = note
  BY IdleType, Went DEF Breaks, Structure
<1>1. CASE ~Lost(w)
  BY <1>0, <1>1, RestAccounts DEF Breaks, Lose
<1>2. CASE Lost(w)
  <2>a. CopiesOf(w) /\ \A n \in Note : RowAccount(w, n)
    BY AccountsOfOne DEF Structure
  <2>i. /\ TypeOK
        /\ \A n \in Note : /\ trace[n].accepted \in Nat /\ trace[n].lost \in Nat
                           /\ trace[n].bounced \in Nat /\ note[n].attempt \in Nat
    BY Numbers DEF Structure
  <2>n. PICK n \in Note : n = wk[w].cur
    BY <1>2, WorkerRows DEF Lost, OnJob
  <2>1. \A q \in Note : /\ trace'[q].accepted = trace[q].accepted
                        /\ trace'[q].bounced = trace[q].bounced
                        /\ trace'[q].lost = IF Lost(w) /\ q = wk[w].cur
                                             THEN trace[q].lost + 1 ELSE trace[q].lost
    BY <2>i, <2>n, LoseTraced DEF Breaks
  <2>2. CopiesOf(w)'
    BY <1>0 DEF CopiesOf, OnJob
  <2>3. ASSUME NEW q \in Note PROVE RowAccount(w, q)'
    <3>1. CASE q = n
      BY <1>0, <1>2, <2>a, <2>i, <2>n, <2>1, <3>1 DEF RowAccount, HandedBy, MaySendBy, Lost
    <3>2. CASE q # n
      BY <1>0, <1>2, <2>a, <2>i, <2>n, <2>1, <3>2 DEF RowAccount, HandedBy, MaySendBy, Lost
    <3> QED
      BY <3>1, <3>2
  <2> QED
    BY <2>2, <2>3, OneAccounts
<1> QED
  BY <1>1, <1>2

\* What leaves rows, workers and traces alone leaves the accounts alone.
LEMMA StillAccounts ==
  ASSUME Structure, TypeOK', Accounting, UNCHANGED rows, wk' = wk
  PROVE  Accounting'
<1>1. \A n \in Note : trace[n].bounced >= trace[n].bounced
  BY Numbers DEF Structure
<1> QED
  BY <1>1, AccountsKept DEF rows

LEMMA DispatchAccounts ==
  ASSUME Structure, TypeOK', OneWorker, Accounting, NEW w \in Worker, NEW s \in Slot,
         Dispatch(w, s)
  PROVE  Accounting'
<1>1. CASE wk' = wk
  BY <1>1, StillAccounts DEF Dispatch
<1>2. CASE Goto(w, Working("next", s, Loaded(jobs[s])))
  <2> DEFINE h == Working("next", s, Loaded(jobs[s]))
  <2>a. \A n \in Note : RowAccount(w, n)
    BY AccountsOfOne DEF Structure
  <2>0. Loaded(jobs[s]) \in SUBSET Note /\ TypeOK
    BY LoadedThere DEF Structure, TypeOK
  <2>1. /\ h \in Handler /\ h.pc = "next" /\ h.todo = Loaded(jobs[s])
        /\ \A n \in Note : h.copy[n] = note[n].attempt
    BY <2>0, WorkingType
  <2> HIDE DEF h
  <2>2. wk'[w] = h /\ note' = note /\ trace' = trace /\ wk[w].pc = "idle"
    BY <1>2, <2>0, <2>1, Went DEF h, Dispatch, rows
  <2>3. CopiesOf(w)'
    BY <2>0, <2>1, <2>2 DEF CopiesOf, OnJob
  <2>4. \A n \in Loaded(jobs[s]) : note[n].status \in {"queued", "failed"}
    BY DEF Loaded, Loadable
  <2>5. ASSUME NEW n \in Note PROVE RowAccount(w, n)'
    BY <2>a, <2>1, <2>2, <2>4 DEF RowAccount, HandedBy, MaySendBy
  <2> QED
    BY <2>3, <2>5, OneAccounts
<1> QED
  BY <1>1, <1>2 DEF Dispatch

LEMMA AccountingStep ==
  ASSUME Structure, OneWorker, Accounting, [Next]_vars
  PROVE  Accounting'
<1>t. TypeOK'
  BY StructureStep DEF Structure
<1>1. CASE Api \/ \E n \in Note : BackoffEnds(n)
  BY <1>t, <1>1, ApiAccounts
<1>2. ASSUME NEW w \in Worker, Work(w) PROVE Accounting'
  BY <1>t, <1>2, SendAccounts, CompleteAccounts, SavedAccounts, FallBackAccounts,
     RequeueAccounts DEF Work
<1>3. ASSUME NEW w \in Worker, Throws(w) \/ Breaks(w) PROVE Accounting'
  BY <1>t, <1>3, ThrowsAccounts, BreaksAccounts
<1>4. ASSUME NEW w \in Worker, NEW s \in Slot, Dispatch(w, s) PROVE Accounting'
  BY <1>t, <1>4, DispatchAccounts
<1>5. ASSUME NEW w \in Worker, NEW t \in Tenant, RetryScan(w, t) PROVE Accounting'
  BY <1>t, <1>5, RetryScanAccounts
<1>6. ASSUME NEW w \in Worker, NEW t \in Tenant, NEW s \in Slot, DispatchQueued(w, t, s)
      PROVE  Accounting'
  BY <1>t, <1>6, StillAccounts DEF DispatchQueued
<1>7. CASE UNCHANGED vars
  BY <1>t, <1>7, StillAccounts DEF vars, rows
<1> QED
  BY <1>1, <1>2, <1>3, <1>4, <1>5, <1>6, <1>7 DEF Next

LEMMA InitAccounting == Init => Accounting
<1> SUFFICES ASSUME Init PROVE Accounting
  OBVIOUS
<1>1. \A w \in Worker : wk[w] = Idle /\ wk[w].pc = "idle" /\ wk[w].todo = {}
  BY IdleType DEF Init
<1>2. \A n \in Note : /\ trace[n].accepted = 0 /\ trace[n].lost = 0 /\ trace[n].bounced = 0
                      /\ note[n] = NoRow
  BY DEF Init
<1>3. CopiesFresh
  BY <1>1 DEF CopiesFresh, OnJob
<1>4. SendsCovered /\ AttemptsCounted
  BY <1>2 DEF SendsCovered, AttemptsCounted, OneIf, NoRow, Row
<1> QED
  BY <1>3, <1>4 DEF Accounting

\* Structure holds with any number of workers, the accounts with one.
THEOREM InvariantHolds == Spec => []IndInv
<1>1. Init => IndInv
  BY InitStructure, InitAccounting DEF IndInv
<1>2. IndInv /\ [Next]_vars => IndInv'
  BY StructureStep, AccountingStep DEF IndInv, OneWorker
<1> QED
  BY <1>1, <1>2, PTL DEF Spec

\* Nothing claims a row before it is sent, and yet in Production, with its one worker,
\* a message that reached the provider is sent again only after its write was lost or
\* it was reported failed, whatever jobs the scans and the announcements have added.
THEOREM SentOnce == ASSUME OneWorker PROVE Spec => []NoNeedlessResend
<1>1. ASSUME Accounting, TypeOK PROVE NoNeedlessResend
  <2> SUFFICES ASSUME NEW n \in Note
               PROVE  trace[n].accepted <= 1 + trace[n].lost + trace[n].bounced
    BY DEF NoNeedlessResend
  <2>1. trace[n].accepted + OneIf(MaySend(n)) <= 1 + trace[n].lost + trace[n].bounced
    BY <1>1 DEF Accounting, SendsCovered
  <2> QED
    BY <1>1, <2>1, Numbers DEF OneIf
<1>2. IndInv => NoNeedlessResend
  BY <1>1 DEF IndInv, Structure
<1> QED
  BY <1>2, InvariantHolds, PTL

\* The copy of attempt_count that the dispatch job writes back is never stale with one
\* worker: every message the provider took is counted, unless its write was lost.
THEOREM AttemptsHold == ASSUME OneWorker PROVE Spec => []AttemptsCounted
<1>1. IndInv => AttemptsCounted
  BY DEF IndInv, Accounting
<1> QED
  BY <1>1, InvariantHolds, PTL
=============================================================================
