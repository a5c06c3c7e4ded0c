-------------------------- MODULE IngestionService --------------------------
(***************************************************************************)
(* The whole path of a document: the API's requests (api/routes/           *)
(* documents.py), the job queue (services/queue.py on SQS, with its dead-  *)
(* letter queue, infra/terraform/queue.tf), the workers (worker.py, batch  *)
(* size 1) and the API's background tasks, around the runs and the tables  *)
(* of Ingestion. Every step of it is a step of Ingestion or leaves the     *)
(* runs and the tables alone.                                              *)
(***************************************************************************)
EXTENDS Ingestion, Naturals

CONSTANTS
  Requests,     \* API requests; each is made once
  Messages,     \* SQS messages; each is sent once
  Workers,
  File,         \* per document id: the user and the bytes it would be a row for
  MaxReceives,  \* redrive_policy.maxReceiveCount
  Queued        \* INGESTION_MODE = sqs

ASSUME ServiceAssumption ==
  /\ MaxReceives \in Nat \ {0}
  /\ Queued \in BOOLEAN
  /\ Docs # {}

VARIABLES
  req,       \* per request: its next step, and its document if it has one
  msg,       \* per message: its state in the queue, document, receive count, and
             \* whether it was received while another worker was on it (history)
  handling,  \* per worker: the messages it holds, at most one
  executor,  \* per run: the workers (at most one) that execute it, {} when inline
  lost       \* history: the documents that lost a job, each with the cause

serviceVars == <<req, msg, handling, executor, lost>>
allVars == <<vars, serviceVars>>

RequestSteps ==
  {"new", "insert", "requeue", "resend", "schedule", "background", "done"}
MessageStates == {"unsent", "visible", "inflight", "deleted", "dead"}

\* A step of a request on a document: `doc` is meaningless in "new", "insert"
\* and "done". "resend" is a requeue whose row it loaded as pending already.
Request == [step : RequestSteps, doc : Docs]
Message ==
  [state : MessageStates, doc : Docs, receives : 0..MaxReceives, shared : BOOLEAN]

\* How a job can go although its document is not settled: with the process that had
\* it in memory; because an inline run could not even record its failure; because
\* one of two workers that were on its message deleted it.
Causes == {"died", "unrecorded", "shared"}

ServiceTypeOK ==
  /\ req \in [Requests -> Request]
  /\ msg \in [Messages -> Message]
  /\ handling \in [Workers -> SUBSET Messages]
  /\ executor \in [Runs -> SUBSET Workers]
  /\ lost \subseteq Docs \X Causes

AnyDoc == CHOOSE d \in Docs : TRUE

ServiceInit ==
  /\ Init
  /\ req = [q \in Requests |-> [step |-> "new", doc |-> AnyDoc]]
  /\ msg = [m \in Messages |->
              [state |-> "unsent", doc |-> AnyDoc, receives |-> 0, shared |-> FALSE]]
  /\ handling = [w \in Workers |-> {}]
  /\ executor = [r \in Runs |-> {}]
  /\ lost = {}

Unsettled(d) == row[d] \in {"pending"} \cup InProgress
Loses(d, cause) == lost' = lost \cup {<<d, cause>>}
Lost(d) == \E cause \in Causes : <<d, cause>> \in lost

\* A request that is done is on no document any more.
RequestGoes(q, step, d) ==
  req' = [req EXCEPT ![q] = [step |-> step, doc |-> IF step = "done" THEN AnyDoc ELSE d]]

-----------------------------------------------------------------------------
(* upload_document, reingest, remove_document. *)

\* The SELECT by user and sha256: a failed document is requeued, any other one
\* is returned as it is, and without one a row is inserted.
UploadLookup(q) ==
  /\ req[q].step = "new"
  /\ \/ \E d \in Docs :
          /\ Exists(d)
          /\ RequestGoes(q, IF row[d] = "failed" THEN "requeue" ELSE "done", d)
     \/ \E d \in Docs :
          /\ \A e \in Docs : Exists(e) => File[e] # File[d]
          /\ RequestGoes(q, "insert", d)
  /\ UNCHANGED <<vars, msg, handling, executor, lost>>

\* INSERT and COMMIT; the unique index refuses a second row of the same file, once
\* it is clear that a delete of the first one does not commit.
UploadInsert(q) ==
  /\ req[q].step = "insert"
  /\ \A e \in Docs : Exists(e) /\ File[e] = File[req[q].doc] => holder[e] \cap Deletes = {}
  /\ IF \E e \in Docs : Exists(e) /\ File[e] = File[req[q].doc]
     THEN RequestGoes(q, "done", req[q].doc) /\ UNCHANGED vars
     ELSE \E d \in Docs :
            /\ File[d] = File[req[q].doc]
            /\ Create(d)
            /\ RequestGoes(q, "schedule", d)
  /\ UNCHANGED <<msg, handling, executor, lost>>

ReingestLookup(q) ==
  /\ req[q].step = "new"
  /\ \E d \in Docs :
       /\ Exists(d)
       /\ RequestGoes(q, IF row[d] = "pending" THEN "resend" ELSE "requeue", d)
  /\ UNCHANGED <<vars, msg, handling, executor, lost>>

\* Mutant: the row is written whether or not it is still there.
CommitRequeueUpserting(q) ==
  /\ req[q].step \in {"requeue", "resend"}
  /\ row' = [row EXCEPT ![req[q].doc] = "pending"]
  /\ RequestGoes(q, "schedule", req[q].doc)
  /\ UNCHANGED <<chunks, counted, runVars, msg, handling, executor, lost>>

\* status := pending, COMMIT. The unit of work writes only what differs from the
\* row it loaded, and raises when the row to update is gone.
CommitRequeue(q) ==
  LET d == req[q].doc IN
  /\ \/ /\ req[q].step = "resend"
        /\ RequestGoes(q, "schedule", d)
        /\ UNCHANGED vars
     \/ /\ req[q].step = "requeue"
        /\ IF Exists(d) THEN Requeue(d) /\ RequestGoes(q, "schedule", d)
                        ELSE RequestGoes(q, "done", d) /\ UNCHANGED vars
  /\ UNCHANGED <<msg, handling, executor, lost>>

\* _schedule_ingestion: publish, or (inline mode, or publishing failed) a
\* background task. A send that raised may have reached the queue all the same.
Schedule(q) ==
  LET d == req[q].doc
      Send == \E m \in Messages :
                /\ msg[m].state = "unsent"
                /\ msg' = [msg EXCEPT ![m] =
                     [state |-> "visible", doc |-> d, receives |-> 0, shared |-> FALSE]]
  IN
  /\ req[q].step = "schedule"
  /\ \/ Queued /\ Send /\ RequestGoes(q, "done", d)
     \/ /\ Queued => Faulty
        /\ (Queued /\ Send) \/ UNCHANGED msg
        /\ RequestGoes(q, "background", d)
  /\ UNCHANGED <<vars, handling, executor, lost>>

\* The background task calls ingest_document in the API process.
RunInline(q, r) ==
  /\ req[q].step = "background"
  /\ target[r] = req[q].doc
  /\ Start(r)
  /\ RequestGoes(q, "done", req[q].doc)
  /\ UNCHANGED <<msg, handling, executor, lost>>

\* remove_document is delete_document and what the client is told.
RemoveRequest(x) == RemoveStep(x) /\ UNCHANGED serviceVars

\* The API process dies before the job is in other hands.
RequestDies(q) ==
  /\ Faulty
  /\ req[q].step \notin {"new", "done"}
  /\ RequestGoes(q, "done", req[q].doc)
  /\ IF req[q].step \in {"schedule", "background"} THEN Loses(req[q].doc, "died")
                                                  ELSE UNCHANGED lost
  /\ UNCHANGED <<vars, msg, handling, executor>>

-----------------------------------------------------------------------------
(* SQS and the workers. *)

\* Mutant: the redrive comes one receive too late, after which none is left.
RedriveLate(m) ==
  /\ msg[m].state = "visible"
  /\ msg[m].receives > MaxReceives
  /\ msg' = [msg EXCEPT ![m].state = "dead"]
  /\ UNCHANGED <<vars, req, handling, executor, lost>>

\* The receive count beyond its maximum sends the message to the DLQ.
Redrive(m) ==
  /\ msg[m].state = "visible"
  /\ msg[m].receives = MaxReceives
  /\ msg' = [msg EXCEPT ![m].state = "dead"]
  /\ UNCHANGED <<vars, req, handling, executor, lost>>

Receive(w, m) ==
  /\ handling[w] = {}
  /\ msg[m].state = "visible"
  /\ msg[m].receives < MaxReceives
  /\ msg' = [msg EXCEPT ![m].state = "inflight", ![m].receives = @ + 1,
                        ![m].shared = @ \/ \E v \in Workers : m \in handling[v]]
  /\ handling' = [handling EXCEPT ![w] = {m}]
  /\ UNCHANGED <<vars, req, executor, lost>>

\* Runs that worker w executes and has not put aside.
Busy(w) == \E r \in Runs : w \in executor[r]

Handle(w, r) ==
  /\ ~Busy(w)
  /\ \E m \in handling[w] : target[r] = msg[m].doc
  /\ Start(r)
  /\ executor' = [executor EXCEPT ![r] = {w}]
  /\ UNCHANGED <<req, msg, handling, lost>>

\* The message of a worker is deleted, unless it is in the DLQ by now. If it was
\* shared, the other worker may still be on it, or may have left its document as it
\* was when it died.
DeleteMessage(w, d) ==
  /\ msg' = [m \in Messages |->
              IF m \in handling[w] /\ msg[m].state # "dead"
              THEN [msg[m] EXCEPT !.state = "deleted"] ELSE msg[m]]
  /\ IF \E m \in handling[w] :
          /\ msg[m].shared
          /\ Unsettled(d) \/ \E v \in Workers \ {w} : m \in handling[v]
     THEN Loses(d, "shared") ELSE UNCHANGED lost

\* ingest_document returned, ready or failed alike: the message is deleted. A
\* failing delete_message leaves it to be delivered again.
Settle(w, r) ==
  /\ w \in executor[r]
  /\ pc[r] \in {"ready", "failed"}
  /\ \/ DeleteMessage(w, target[r])
     \/ Faulty /\ UNCHANGED <<msg, lost>>
  /\ handling' = [handling EXCEPT ![w] = {}]
  /\ executor' = [executor EXCEPT ![r] = {}]
  /\ UNCHANGED <<vars, req>>

\* Mutant: the message of a run that raised is deleted like any other.
AbandonDeleting(w, r) ==
  /\ w \in executor[r]
  /\ pc[r] = "raised"
  /\ DeleteMessage(w, target[r])
  /\ handling' = [handling EXCEPT ![w] = {}]
  /\ executor' = [executor EXCEPT ![r] = {}]
  /\ UNCHANGED <<vars, req>>

\* ingest_document raised: the message is left for redelivery.
Abandon(w, r) ==
  /\ w \in executor[r]
  /\ pc[r] = "raised"
  /\ handling' = [handling EXCEPT ![w] = {}]
  /\ executor' = [executor EXCEPT ![r] = {}]
  /\ UNCHANGED <<vars, req, msg, lost>>

\* The worker dies between receiving and starting, or is told to stop.
DropUnstarted(w) ==
  /\ Faulty
  /\ handling[w] # {}
  /\ ~Busy(w)
  /\ handling' = [handling EXCEPT ![w] = {}]
  /\ UNCHANGED <<vars, req, msg, executor, lost>>

\* A process dies with a run in it: a worker (its message stays in flight until
\* it expires) or an API process (the job is gone).
RunDies(r) ==
  /\ Crash(r)
  /\ handling' = [w \in Workers |-> IF w \in executor[r] THEN {} ELSE handling[w]]
  /\ executor' = [executor EXCEPT ![r] = {}]
  /\ IF executor[r] = {} THEN Loses(target[r], "died") ELSE UNCHANGED lost
  /\ UNCHANGED <<req, msg>>

HandledBySome(m) == \E w \in Workers : m \in handling[w]

\* The visibility timeout. The heartbeat extends it as long as a worker has the
\* message, unless it failed once or the event loop was blocked.
Expire(m) ==
  /\ msg[m].state = "inflight"
  /\ Faulty \/ ~HandledBySome(m)
  /\ msg' = [msg EXCEPT ![m].state = "visible"]
  /\ UNCHANGED <<vars, req, handling, executor, lost>>

\* The steps of a run after it was started.
RunGoesOn(r) == RunProgress(r) /\ UNCHANGED serviceVars
RunMeetsFault(r) == Fault(r) /\ UNCHANGED serviceVars

\* ingest_document raises because its failure cannot be recorded. Nobody hears of
\* it when it is a background task; a worker leaves its message (Abandon).
RunRaises(r) ==
  /\ FailsToRecord(r)
  /\ IF executor[r] = {} THEN Loses(target[r], "unrecorded") ELSE UNCHANGED lost
  /\ UNCHANGED <<req, msg, handling, executor>>

RequestStep(q) ==
  \/ UploadLookup(q) \/ UploadInsert(q) \/ ReingestLookup(q) \/ CommitRequeue(q)
  \/ Schedule(q) \/ RequestDies(q)
  \/ \E r \in Runs : RunInline(q, r)

WorkerStep(w) ==
  \/ DropUnstarted(w)
  \/ \E m \in Messages : Receive(w, m)
  \/ \E r \in Runs : Handle(w, r) \/ Settle(w, r) \/ Abandon(w, r)

ServiceNext ==
  \/ \E q \in Requests : RequestStep(q)
  \/ \E w \in Workers : WorkerStep(w)
  \/ \E m \in Messages : Redrive(m) \/ Expire(m)
  \/ \E x \in Deletes : RemoveRequest(x)
  \/ \E r \in Runs : RunGoesOn(r) \/ RunMeetsFault(r) \/ RunRaises(r) \/ RunDies(r)

ServiceSpec == ServiceInit /\ [][ServiceNext]_allVars

\* A worker that is up polls, runs its job and settles it; SQS redrives, and expires
\* what nobody handles; a request that was accepted is served. Users owe nothing.
FairServiceSpec ==
  /\ ServiceSpec
  /\ \A q \in Requests : WF_allVars(RequestStep(q) /\ req[q].step # "new")
  /\ \A w \in Workers : WF_allVars(WorkerStep(w))
  /\ \A m \in Messages : WF_allVars(Redrive(m))
                         /\ WF_allVars(Expire(m) /\ ~HandledBySome(m))
  /\ \A r \in Runs : WF_allVars(RunGoesOn(r))
  /\ \A x \in Deletes : WF_allVars(RemoveRequest(x) /\ RemoveProgress(x))

-----------------------------------------------------------------------------
(* Correctness. *)

\* The service as a whole runs Ingestion: its invariants carry over.
ImplementsIngestion == Spec

\* Someone still has the job of document d: a request about to hand it over, the
\* queue or its DLQ, or a run.
Backed(d) ==
  \/ \E q \in Requests : req[q].doc = d /\ req[q].step \in {"schedule", "background"}
  \/ \E m \in Messages : msg[m].doc = d /\ msg[m].state \in {"visible", "inflight", "dead"}
  \/ \E r \in Runs : target[r] = d /\ pc[r] \in Working

\* "A queue outage costs throughput, not documents" (README): through failed and
\* half-failed enqueues, worker crashes and redeliveries, also during a run, a
\* document that is not settled has a job, unless it lost one in one of the three
\* ways of Causes (documents.py:35-41, ingestion.py:104-107, worker.py:114-161).
NoLostDocument == \A d \in Docs : Unsettled(d) => Backed(d) \/ Lost(d)

\* Every document is settled in the end, or raises the DLQ's alarm, or has lost a
\* job in one of the three ways of Causes.
DeadLettered(d) == \E m \in Messages : msg[m].doc = d /\ msg[m].state = "dead"
SettlesOrAlarms ==
  \A d \in Docs : Unsettled(d) ~> (~Unsettled(d) \/ DeadLettered(d) \/ Lost(d))

\* The alarm's comment (monitoring.tf:131-132, README): "anything in the DLQ is a
\* document a user uploaded and will never get an answer from".
DeadLetterIsADocument ==
  \A m \in Messages : msg[m].state = "dead" => Exists(msg[m].doc)
=============================================================================
