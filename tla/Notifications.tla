---------------------------- MODULE Notifications ----------------------------
(***************************************************************************)
(* The way of a message to one recipient: the API inserts a row of            *)
(* notifications and perhaps a dispatch job, the worker hands queued and       *)
(* failed rows to the provider, two cron scans bring back what waits, a row     *)
(* that cannot be sent is replaced by one on the next channel, and the          *)
(* provider's webhooks and the reader write the status as they come.            *)
(*                                                                          *)
(* The dispatch job reads its rows in a short transaction and sends and writes  *)
(* them one by one afterwards, by id, with the attempt_count it has read.  The   *)
(* jobs and both scans share one queue, which Production's only worker process   *)
(* works off one job at a time.                                                *)
(***************************************************************************)
EXTENDS Integers, FiniteSets

CONSTANTS
  Tenant, Msg, Worker,
  None,          \* SQL NULL
  Home,          \* the tenant a message belongs to
  First,         \* the channel a message is first sent by
  Batches,       \* bound: dispatch jobs an announcement adds, one per hundred recipients
  BatchSize,     \* BATCH_SIZE of the dispatch-queued scan
  MaxAttempts,   \* max_attempts of a row
  MaxRuns,       \* how often a job is run that throws (attempts) or stalls
  MaxNotes,      \* bound: rows
  MaxJobs,       \* bound: dispatch jobs in the queue
  MaxEvents      \* bound: webhooks, reads, crashes, failed writes and switches of
                 \* the module, all together

Channel == {"whatsapp", "sms", "email"}
Note == 1..MaxNotes
Slot == 1..MaxJobs

ASSUME NoneAssumption == None \notin Tenant \cup Msg /\ None \notin Channel /\ None \notin Note \cup Slot
ASSUME MessageAssumption == Home \in [Msg -> Tenant] /\ First \in [Msg -> Channel]
ASSUME BoundAssumption ==
  /\ {Batches, BatchSize, MaxNotes, MaxJobs, MaxEvents} \subseteq Nat
  /\ {MaxAttempts, MaxRuns} \subseteq Nat \ {0}

VARIABLES
  note,      \* rows of notifications on an external channel
  inbox,     \* messages with an in_app row, which is delivered when it is inserted
  left,      \* dispatch jobs the API has still to add for a message
  jobs,      \* communications:dispatch-notifications jobs
  wk,        \* what each worker process is doing
  outbound,  \* tenants with communications_outbound enabled
  trace,     \* ghost: what has become of the row at the provider
  events     \* how much of the bound has been used

vars == <<note, inbox, left, jobs, wk, outbound, trace, events>>
rows == <<note, inbox, trace>>

-----------------------------------------------------------------------------
Status == {"absent", "queued", "sent", "delivered", "failed", "read"}

\* retry: next_retry_at is NULL, ahead, or over.  pid: provider_message_id is set.
\* from: the row this one replaces.
Row(m, c, f) == [msg |-> m, channel |-> c, from |-> f, status |-> "queued",
                 attempt |-> 0, retry |-> "no", pid |-> FALSE]
NoRow == [Row(None, None, None) EXCEPT !.status = "absent"]

\* msg: the announcement whose rows the job looks up; ids: the rows it names.
Job(t, m, N) == [st |-> "waiting", home |-> t, msg |-> m, ids |-> N, runs |-> 1]
NoJob == [Job(None, None, {}) EXCEPT !.st = "none"]

Working(pc, s, N) == [pc |-> pc, job |-> s, todo |-> N, cur |-> None,
                      copy |-> [n \in Note |-> note[n].attempt]]
Idle == [pc |-> "idle", job |-> None, todo |-> {}, cur |-> None,
         copy |-> [n \in Note |-> 0]]

Init ==
  /\ note = [n \in Note |-> NoRow]
  /\ inbox = {}
  /\ left = [m \in Msg |-> 0]
  /\ jobs = [s \in Slot |-> NoJob]
  /\ wk = [w \in Worker |-> Idle]
  /\ outbound = Tenant
  /\ trace = [n \in Note |-> [accepted |-> 0, lost |-> 0, bounced |-> 0]]
  /\ events = 0

Created(m) == \E n \in Note : note[n].msg = m
HomeOf(n) == Home[note[n].msg]
Event == events < MaxEvents /\ events' = events + 1
Goto(w, step) == wk' = [wk EXCEPT ![w] = step]
\* The next id; the scans serve rows in the order of their ids (created_at).
Fresh(n) == note[n].status = "absent" /\ \A q \in 1..(n - 1) : note[q].status # "absent"
AddJob(s, j) ==
  /\ jobs[s].st = "none" /\ \A q \in 1..(s - 1) : jobs[q].st # "none"
  /\ jobs' = [jobs EXCEPT ![s] = j]

-----------------------------------------------------------------------------
(* The API                                                                     *)

\* createBatch inserts the row; the publish adds its jobs afterwards, as many as
\* it gets to, and many callers leave the row to the cron.
Publish(m, n) ==
  /\ ~Created(m) /\ Fresh(n)
  /\ note' = [note EXCEPT ![n] = Row(m, First[m], None)]
  /\ \E k \in 0..Batches : left' = [left EXCEPT ![m] = k]
  /\ UNCHANGED <<inbox, jobs, wk, outbound, trace, events>>

\* executePublish: queue.add for a batch; every such job is for all the rows of
\* the announcement.
Enqueue(m, s) ==
  /\ left[m] > 0
  /\ left' = [left EXCEPT ![m] = left[m] - 1]
  /\ AddJob(s, Job(Home[m], m, {}))
  /\ UNCHANGED <<rows, wk, outbound, events>>

\* markAsRead takes any row of the user that is not read.
MarkRead(n) ==
  /\ note[n].status \notin {"absent", "read"} /\ Event
  /\ note' = [note EXCEPT ![n].status = "read"]
  /\ UNCHANGED <<inbox, left, jobs, wk, outbound, trace>>

Unread(m) == {n \in Note : note[n].msg = m /\ note[n].status \in {"queued", "sent", "delivered"}}
MarkAllRead(m) ==
  /\ Unread(m) # {} /\ Event
  /\ note' = [n \in Note |-> IF n \in Unread(m) THEN [note[n] EXCEPT !.status = "read"]
                                                ELSE note[n]]
  /\ UNCHANGED <<inbox, left, jobs, wk, outbound, trace>>

\* A webhook finds the row by the id of its last accepted message and writes the
\* status whatever it was; webhooks are repeated and overtake each other.
Confirmed(n, st) ==
  /\ note[n].pid /\ HomeOf(n) \in outbound /\ Event
  /\ note' = [note EXCEPT ![n].status = st]
  /\ UNCHANGED <<inbox, left, jobs, wk, outbound, trace>>

Bounced(n) ==
  /\ note[n].pid /\ HomeOf(n) \in outbound /\ Event
  /\ note' = [note EXCEPT ![n].status = "failed"]
  /\ trace' = [trace EXCEPT ![n].bounced = trace[n].bounced + 1]
  /\ UNCHANGED <<inbox, left, jobs, wk, outbound>>

TwilioSent(n) == note[n].channel # "email"
\* handleTwilioEvent, behind the older URL, adds an email as well (a crash in between
\* leaves it at Bounced).
BouncedLegacy(n, q) ==
  /\ note[n].pid /\ HomeOf(n) \in outbound /\ Event
  /\ TwilioSent(n) /\ Fresh(q)
  /\ note' = [note EXCEPT ![n].status = "failed", ![q] = Row(note[n].msg, "email", n)]
  /\ trace' = [trace EXCEPT ![n].bounced = trace[n].bounced + 1]
  /\ UNCHANGED <<inbox, left, jobs, wk, outbound>>

Switch(t) ==
  /\ Event
  /\ outbound' = IF t \in outbound THEN outbound \ {t} ELSE outbound \cup {t}
  /\ UNCHANGED <<rows, left, jobs, wk>>

-----------------------------------------------------------------------------
(* The dispatch job                                                            *)

\* mutant: a row that has been sent is loaded again.
Loadable_Sent == {"queued", "failed", "sent"}
\* The statuses loadNotifications asks for.
Loadable == {"queued", "failed"}

Loaded(j) == {n \in Note : /\ note[n].status \in Loadable
                           /\ n \in j.ids \/ (j.msg # None /\ note[n].msg = j.msg)}

\* A job of a tenant whose module is off is done without a row being touched.
Dispatch(w, s) ==
  /\ wk[w].pc = "idle" /\ jobs[s].st = "waiting"
  /\ IF jobs[s].home \in outbound /\ Loaded(jobs[s]) # {}
       THEN /\ jobs' = [jobs EXCEPT ![s].st = "active"]
            /\ Goto(w, Working("next", s, Loaded(jobs[s])))
       ELSE /\ jobs' = [jobs EXCEPT ![s] = NoJob]
            /\ UNCHANGED wk
  /\ UNCHANGED <<rows, left, outbound, events>>

Complete(w) ==
  /\ wk[w].pc = "next" /\ wk[w].todo = {}
  /\ jobs' = [jobs EXCEPT ![wk[w].job] = NoJob]
  /\ Goto(w, Idle)
  /\ UNCHANGED <<rows, left, outbound, events>>

Turn(w, n, pc) == Goto(w, [wk[w] EXCEPT !.pc = pc, !.cur = n, !.todo = wk[w].todo \ {n}])

\* The provider takes the message; the row does not show it yet.
Accepted(w, n) ==
  /\ wk[w].pc = "next" /\ n \in wk[w].todo
  /\ trace' = [trace EXCEPT ![n].accepted = trace[n].accepted + 1]
  /\ Turn(w, n, "accepted")
  /\ UNCHANGED <<note, inbox, left, jobs, outbound, events>>

\* mutant: the attempt is not counted.
Counted_Not(w, n) == wk[w].copy[n]
\* attempt_count is written from the copy that was loaded.
Counted(w, n) == wk[w].copy[n] + 1

Saved(w) ==
  /\ wk[w].pc = "accepted"
  /\ note' = [note EXCEPT ![wk[w].cur].status = "sent", ![wk[w].cur].pid = TRUE,
                          ![wk[w].cur].attempt = Counted(w, wk[w].cur)]
  /\ Goto(w, [wk[w] EXCEPT !.pc = "next"])
  /\ UNCHANGED <<inbox, left, jobs, outbound, trace, events>>

SetFailed(w, n, retry) ==
  note' = [note EXCEPT ![n].status = "failed", ![n].retry = retry,
                       ![n].attempt = Counted(w, n)]

\* handleFailure
Failure(w, n) ==
  IF Counted(w, n) >= MaxAttempts
    THEN SetFailed(w, n, "no") /\ Turn(w, n, "fallback")
    ELSE SetFailed(w, n, "later") /\ Turn(w, n, "next")

\* The provider refuses the message.
Refused(w, n) ==
  /\ wk[w].pc = "next" /\ n \in wk[w].todo
  /\ Failure(w, n)
  /\ UNCHANGED <<inbox, left, jobs, outbound, trace, events>>

\* The provider has the message and the row does not show it.
Lost(w) == wk[w].pc = "accepted"
Lose(w) ==
  trace' = IF Lost(w) THEN [trace EXCEPT ![wk[w].cur].lost = trace[wk[w].cur].lost + 1]
                      ELSE trace

\* A write throws after the send, or after markFailed, which counts as a failure to
\* send.
Throws(w) ==
  /\ wk[w].pc \in {"accepted", "skipped"} /\ Event
  /\ Failure(w, wk[w].cur)
  /\ Lose(w)
  /\ UNCHANGED <<inbox, left, jobs, outbound>>

\* There is no template, no address or no provider for the channel.
Unsendable(w, n) ==
  /\ wk[w].pc = "next" /\ n \in wk[w].todo
  /\ SetFailed(w, n, "no") /\ Turn(w, n, "skipped")
  /\ UNCHANGED <<inbox, left, jobs, outbound, trace, events>>

\* mutant: a text message falls back to the channel before it.
NextChannel_Back(c) == IF c = "whatsapp" THEN "sms" ELSE "whatsapp"
\* FALLBACK_CHAIN, whose end is in_app.
NextChannel(c) == IF c = "whatsapp" THEN "sms" ELSE "email"

NoRoom == \A q \in Note : note[q].status # "absent"
CarriedOn(n) == \E q \in Note : /\ note[q].msg = note[n].msg
                                 /\ note[q].channel = NextChannel(note[n].channel)

\* createFallbackNotification; with MaxNotes rows a second one on a channel is left out.
FallBack(w, q) ==
  /\ wk[w].pc \in {"skipped", "fallback"}
  /\ LET n == wk[w].cur IN
       IF note[n].channel = "email"
         THEN inbox' = inbox \cup {note[n].msg} /\ UNCHANGED note
         ELSE /\ UNCHANGED inbox
              /\ \/ /\ Fresh(q)
                    /\ note' = [note EXCEPT ![q] = Row(note[n].msg, NextChannel(note[n].channel), n)]
                 \/ NoRoom /\ CarriedOn(n) /\ UNCHANGED note
  /\ Goto(w, [wk[w] EXCEPT !.pc = "next"])
  /\ UNCHANGED <<left, jobs, outbound, trace, events>>

\* mutant: the job is not run again.
RunAgain_Never(j) == NoJob
\* BullMQ runs a job again that has thrown or whose worker has gone.
RunAgain(j) == IF j.runs < MaxRuns THEN [j EXCEPT !.st = "waiting", !.runs = j.runs + 1]
                                   ELSE NoJob
Breaks(w) ==
  /\ wk[w].pc \in {"next", "accepted", "skipped", "fallback"} /\ Event
  /\ jobs' = [jobs EXCEPT ![wk[w].job] = RunAgain(jobs[wk[w].job])]
  /\ Lose(w)
  /\ Goto(w, Idle)
  /\ UNCHANGED <<note, inbox, left, outbound>>

-----------------------------------------------------------------------------
(* The scans                                                                   *)

BackoffEnds(n) ==
  /\ note[n].retry = "later"
  /\ note' = [note EXCEPT ![n].retry = "due"]
  /\ UNCHANGED <<inbox, left, jobs, wk, outbound, trace, events>>

Queued == {n \in Note : note[n].status = "queued" /\ note[n].retry # "later"}
\* The rows the scan takes, oldest first, of all tenants together.
Batch == {n \in Queued : Cardinality({q \in Queued : q < n}) < BatchSize}

\* dispatch-queued: the rows of a tenant in the batch get a job and stay queued.
DispatchQueued(w, t, s) ==
  /\ wk[w].pc = "idle"
  /\ LET mine == {n \in Batch : HomeOf(n) = t} IN
       mine # {} /\ AddJob(s, Job(t, None, mine))
  /\ UNCHANGED <<rows, left, wk, outbound, events>>

Due(t) == {n \in Note : /\ note[n].status = "failed" /\ note[n].retry = "due"
                        /\ note[n].attempt < MaxAttempts /\ HomeOf(n) = t}

\* retry-failed reads the rows whose backoff is over, ...
RetryScan(w, t) ==
  /\ wk[w].pc = "idle" /\ Due(t) # {} /\ t \in outbound
  /\ Goto(w, Working("requeue", None, Due(t)))
  /\ UNCHANGED <<rows, left, jobs, outbound, events>>

\* mutant: the end of the backoff is left in the row.
Requeued_Waiting(n) == [note[n] EXCEPT !.status = "queued"]
Requeued(n) == [note[n] EXCEPT !.status = "queued", !.retry = "no"]

\* ... sets them back to queued, whatever they are by now, and adds a job; after a
\* crash in between, or with the queue at its bound, they are left to dispatch-queued.
Requeue(w) ==
  /\ wk[w].pc = "requeue"
  /\ note' = [n \in Note |-> IF n \in wk[w].todo THEN Requeued(n) ELSE note[n]]
  /\ \/ UNCHANGED jobs
     \/ \E s \in Slot, n \in wk[w].todo : AddJob(s, Job(HomeOf(n), None, wk[w].todo))
  /\ Goto(w, Idle)
  /\ UNCHANGED <<inbox, left, outbound, trace, events>>

-----------------------------------------------------------------------------
Api ==
  \/ \E m \in Msg, n \in Note : Publish(m, n)
  \/ \E m \in Msg, s \in Slot : Enqueue(m, s)
  \/ \E n \in Note : MarkRead(n)
  \/ \E m \in Msg : MarkAllRead(m)
  \/ \E n \in Note, st \in {"sent", "delivered"} : Confirmed(n, st)
  \/ \E n \in Note : Bounced(n)
  \/ \E n, q \in Note : BouncedLegacy(n, q)
  \/ \E t \in Tenant : Switch(t)

Send(w) == \E n \in Note : Accepted(w, n) \/ Refused(w, n) \/ Unsendable(w, n)
Work(w) == Send(w) \/ Complete(w) \/ Saved(w) \/ (\E q \in Note : FallBack(w, q)) \/ Requeue(w)

Next ==
  \/ Api
  \/ \E n \in Note : BackoffEnds(n)
  \/ \E w \in Worker :
       \/ Work(w) \/ Throws(w) \/ Breaks(w)
       \/ \E s \in Slot : Dispatch(w, s)
       \/ \E t \in Tenant : RetryScan(w, t) \/ \E s \in Slot : DispatchQueued(w, t, s)

Spec == Init /\ [][Next]_vars

\* A job runs to its end, backoffs end, and the queue serves jobs and scans in turn.
FairSpec ==
  /\ Spec
  /\ \A n \in Note : WF_vars(BackoffEnds(n))
  /\ \A w \in Worker :
       /\ WF_vars(Work(w))
       /\ \A s \in Slot : SF_vars(Dispatch(w, s))
       /\ \A t \in Tenant : /\ SF_vars(RetryScan(w, t))
                            /\ SF_vars(\E s \in Slot : DispatchQueued(w, t, s))
-----------------------------------------------------------------------------
(* Properties                                                                  *)

NoteRow == [msg : Msg \cup {None}, channel : Channel \cup {None}, from : Note \cup {None},
            status : Status, attempt : Nat, retry : {"no", "later", "due"}, pid : BOOLEAN]
JobRow == [st : {"none", "waiting", "active"}, home : Tenant \cup {None},
           msg : Msg \cup {None}, ids : SUBSET Note, runs : 1..MaxRuns]
TraceRow == [accepted : Nat, lost : Nat, bounced : Nat]
Handler == [pc : {"idle", "next", "accepted", "skipped", "fallback", "requeue"},
            job : Slot \cup {None}, todo : SUBSET Note, cur : Note \cup {None},
            copy : [Note -> Nat]]

\* Every row, job and worker keeps to its fields; an attempt count is a number and a
\* job never runs more often than BullMQ lets it.
TypeOK ==
  /\ note \in [Note -> NoteRow]
  /\ inbox \subseteq Msg
  /\ left \in [Msg -> 0..Batches]
  /\ jobs \in [Slot -> JobRow]
  /\ wk \in [Worker -> Handler]
  /\ outbound \subseteq Tenant
  /\ trace \in [Note -> TraceRow]
  /\ events \in 0..MaxEvents

\* Rows are picked by their status alone and both scans add jobs for rows that have
\* one already, yet with one worker a recipient gets a message again only if the
\* write that recorded it was lost or the provider reported it failed.
NoNeedlessResend ==
  \A n \in Note : trace[n].accepted <= 1 + trace[n].lost + trace[n].bounced

Handed(n) == \E w \in Worker : wk[w].pc = "accepted" /\ wk[w].cur = n
OneIf(b) == IF b THEN 1 ELSE 0
\* attempt_count is written from a copy, yet with one worker no message that reached
\* the provider escapes it, unless its write was lost.
AttemptsCounted ==
  \A n \in Note : trace[n].accepted <= note[n].attempt + trace[n].lost + OneIf(Handed(n))

Tried(n) == note[n].attempt > 0 \/ trace[n].bounced > 0
\* A message moves to another channel, and into the inbox, only after the row it
\* leaves has been tried, and never back to a channel it has left.
ChainInOrder ==
  /\ \A n \in Note : LET p == note[n].from IN
       p # None => /\ Tried(p) /\ note[p].msg = note[n].msg
                   /\ \/ note[p].channel = "whatsapp" /\ note[n].channel \in {"sms", "email"}
                      \/ note[p].channel = "sms" /\ note[n].channel = "email"
  /\ \A m \in inbox : \E n \in Note :
       note[n].msg = m /\ note[n].channel = "email" /\ Tried(n)

Reached(m) ==
  \/ m \in inbox
  \/ \E n \in Note : note[n].msg = m /\ (trace[n].accepted > 0 \/ note[n].status = "read")
\* Whatever is refused, lost or crashes within the bounds, and whether or not the API
\* ever adds a job, a message of a tenant whose module stays on is taken by a provider
\* or put into the recipient's inbox (or has been marked as read).
MessageArrives == \A m \in Msg : Created(m) ~> (Reached(m) \/ Home[m] \notin outbound)

-----------------------------------------------------------------------------
(* The invariant the proofs rest on                                            *)

Absent(n) == note[n].status = "absent"
OnJob == {"next", "accepted", "skipped", "fallback"}

\* Rows that are not there hold nothing; rows that are have a message and a channel,
\* and the row they replace is there too.
RowsWellFormed ==
  /\ \A n \in Note : Absent(n) => /\ note[n] = NoRow
                                   /\ trace[n].accepted = 0
  /\ \A n \in Note : ~Absent(n) => note[n].msg # None /\ note[n].channel # None
  /\ \A n \in Note : note[n].from # None => ~Absent(note[n].from)

\* A worker on a job holds its slot, and every row it has to do with is there; the
\* row whose replacement it is about to insert has been tried.
WorkerFine(w) ==
  /\ wk[w].pc \in OnJob => wk[w].job # None
  /\ \A n \in wk[w].todo : ~Absent(n)
  /\ wk[w].pc \in OnJob \ {"next"} => /\ wk[w].cur # None /\ wk[w].cur \notin wk[w].todo
                                      /\ ~Absent(wk[w].cur)
  /\ wk[w].pc \in {"skipped", "fallback"} => note[wk[w].cur].attempt > 0
WorkersWellFormed == \A w \in Worker : WorkerFine(w)

\* A queued row is never in backoff, so dispatch-queued neither passes one over nor
\* has anything to reset in the rows it takes.
QueuedIsReady == \A n \in Note : note[n].status = "queued" => note[n].retry = "no"

\* The copies of attempt_count a worker still has to use are the rows' own.
CopiesFresh ==
  \A w \in Worker :
    /\ wk[w].pc \in OnJob =>
         \A n \in wk[w].todo : wk[w].copy[n] = note[n].attempt
    /\ wk[w].pc = "accepted" => wk[w].copy[wk[w].cur] = note[wk[w].cur].attempt
    /\ wk[w].pc = "skipped" => wk[w].copy[wk[w].cur] + 1 = note[wk[w].cur].attempt

\* A row that may be sent again has its acceptances accounted for already.
MaySend(n) ==
  /\ ~Handed(n)
  /\ \/ note[n].status \in {"queued", "failed"}
     \/ \E w \in Worker : n \in wk[w].todo \/ (wk[w].pc = "skipped" /\ wk[w].cur = n)
SendsCovered ==
  \A n \in Note :
    trace[n].accepted + OneIf(MaySend(n)) <= 1 + trace[n].lost + trace[n].bounced

\* Production's single worker process.
OneWorker == \A v, w \in Worker : v = w

Structure == TypeOK /\ RowsWellFormed /\ WorkersWellFormed /\ QueuedIsReady /\ ChainInOrder
Accounting == CopiesFresh /\ SendsCovered /\ AttemptsCounted
\* The inductive invariant: what holds with any number of workers, and the accounts
\* that only balance with one.
IndInv == Structure /\ (OneWorker => Accounting)

-----------------------------------------------------------------------------
(* What documents promise and the code does not keep                           *)

\* state-machines.md:394, read is the only terminal state.
ReadStays == [][\A n \in Note : note[n].status = "read" => note'[n].status = "read"]_vars

\* max_attempts is a row's ceiling (retry-failed.processor.ts:48).
CeilingKept == \A n \in Note : note[n].attempt <= MaxAttempts

\* state-machines.md:378, a failed row waits for its backoff before it is tried again.
BackoffKept == \A w \in Worker, n \in Note :
                 wk[w].pc = "next" /\ n \in wk[w].todo => note[n].retry # "later"

\* A row is replaced once (dispatch-notifications.processor.ts:798).
ReplacedOnce == \A p, q \in Note : note[p].from = note[q].from /\ note[p].from # None => p = q

\* state-machines.md:375, a message reported failed below max_attempts is retried.
BounceRetried ==
  \A n \in Note : (trace[n].bounced > 0 /\ note[n].status = "failed"
                    /\ note[n].attempt < MaxAttempts) ~>
                   (note[n].status # "failed" \/ HomeOf(n) \notin outbound)
=============================================================================
