----------------------------- MODULE OtaRecords -----------------------------
(***************************************************************************)
(* The backend's records of OTA jobs (backend/app/api/ota.py): one item of *)
(* the OTA table per job and robot, written when the job is created and    *)
(* brought up to date from AWS IoT Jobs by whoever lists the jobs.         *)
(*                                                                         *)
(* The endpoints are synchronous functions that FastAPI runs in a pool of  *)
(* threads, in several processes: requests interleave at each call of an   *)
(* AWS service.  An item is reduced to its status; progress and            *)
(* completed_at are written together with it and follow from it.           *)
(***************************************************************************)
EXTENDS Integers, FiniteSets

CONSTANTS
    Jobs,      \* job ids
    Robots,    \* the targets of a job
    Requests,  \* requests that can be served at the same time
    None

IotTerminal == {"SUCCEEDED", "FAILED", "CANCELED", "REJECTED", "TIMED_OUT"}
IotStatus == {"QUEUED", "IN_PROGRESS", "REMOVED"} \cup IotTerminal
Terminal == {"SUCCEEDED", "FAILED", "CANCELED"}
RecordStatus == {"QUEUED", "IN_PROGRESS"} \cup Terminal

ASSUME NoneAssumption == None \notin IotStatus

VARIABLES
    manifest,   \* S3: the jobs whose manifest is uploaded
    execution,  \* IoT Jobs: the status of a job on a robot, None before create_job
    record,     \* DynamoDB: the recorded status, None if there is no item
    request,    \* what each request is doing
    created     \* history: the jobs whose creation was answered with 201

vars == <<manifest, execution, record, request, created>>

Keys == Jobs \X Robots
KeysOf(j) == {j} \X Robots

\* Mutant: the status of IoT Jobs as it is.
MappedAsIs(st, current) == st

\* status_map of _sync_status; a status that is not in it leaves the item's own.
Mapped(st, current) ==
    CASE st \in {"REJECTED", "TIMED_OUT"} -> "FAILED"
      [] st = "REMOVED"                   -> current
      [] OTHER                            -> st

\* A request: creating job, or listing; todo are the items it has yet to go through,
\* item is what a listing's scan returned and answer what IoT Jobs said of key.
NoRequest == [at |-> "idle", job |-> None, todo |-> {}, item |-> <<>>,
              key |-> None, answer |-> None]

Init ==
    /\ manifest = {}
    /\ execution = [k \in Keys |-> None]
    /\ record = [k \in Keys |-> None]
    /\ request = [r \in Requests |-> NoRequest]
    /\ created = {}

Becomes(r, st) == request' = [request EXCEPT ![r] = st]

----------------------------------------------------------------------------
(* create_ota_job: manifest, IoT job, one record per robot.                *)

UploadManifest(r, j) ==
    /\ request[r] = NoRequest
    /\ j \notin manifest          \* the id is new: it is drawn at random
    /\ manifest' = manifest \cup {j}
    /\ Becomes(r, [NoRequest EXCEPT !.at = "create", !.job = j])
    /\ UNCHANGED <<execution, record, created>>

CreateIotJob(r) ==
    /\ request[r].at = "create"
    /\ execution' = [k \in Keys |-> IF k \in KeysOf(request[r].job) THEN "QUEUED"
                                                                     ELSE execution[k]]
    /\ Becomes(r, [request[r] EXCEPT !.at = "record", !.todo = KeysOf(request[r].job)])
    /\ UNCHANGED <<manifest, record, created>>

PutRecord(r, k) ==
    /\ request[r].at = "record"
    /\ k \in request[r].todo
    /\ record' = [record EXCEPT ![k] = "QUEUED"]
    /\ Becomes(r, [request[r] EXCEPT !.todo = @ \ {k}])
    /\ UNCHANGED <<manifest, execution, created>>

\* Mutant: the answer does not wait for the records.
AnswerCreatedEarly(r) ==
    /\ request[r].at = "record"
    /\ created' = created \cup {request[r].job}
    /\ Becomes(r, NoRequest)
    /\ UNCHANGED <<manifest, execution, record>>

AnswerCreated(r) ==
    /\ request[r].at = "record"
    /\ request[r].todo = {}
    /\ created' = created \cup {request[r].job}
    /\ Becomes(r, NoRequest)
    /\ UNCHANGED <<manifest, execution, record>>

----------------------------------------------------------------------------
(* list_ota_jobs, and get_ota_job, which keeps one job of the scan:        *)
(* _sync_status of every item found.                                       *)

Recorded(K) == {k \in K : record[k] # None}

Scan(r, K) ==
    /\ request[r] = NoRequest
    /\ Recorded(K) # {}
    /\ Becomes(r, [NoRequest EXCEPT !.at = "sync", !.todo = Recorded(K), !.item = record])
    /\ UNCHANGED <<manifest, execution, record, created>>

\* An item in a terminal state is returned as it is.
SkipTerminal(r, k) ==
    /\ request[r].at = "sync"
    /\ k \in request[r].todo
    /\ request[r].item[k] \in Terminal
    /\ Becomes(r, [request[r] EXCEPT !.todo = @ \ {k}])
    /\ UNCHANGED <<manifest, execution, record, created>>

\* Mutant: an execution in progress is not asked for again.
AskStatusQueued(r, k) ==
    /\ request[r].at = "sync"
    /\ k \in request[r].todo
    /\ request[r].item[k] = "QUEUED"
    /\ Becomes(r, IF execution[k] = request[r].item[k]
                    THEN [request[r] EXCEPT !.todo = @ \ {k}]
                    ELSE [request[r] EXCEPT !.at = "put", !.todo = @ \ {k},
                                            !.key = k, !.answer = execution[k]])
    /\ UNCHANGED <<manifest, execution, record, created>>

\* get_job_execution_status answers; nothing is written if nothing has changed.
AskStatus(r, k) ==
    /\ request[r].at = "sync"
    /\ k \in request[r].todo
    /\ request[r].item[k] \notin Terminal
    /\ Becomes(r, IF execution[k] = request[r].item[k]
                    THEN [request[r] EXCEPT !.todo = @ \ {k}]
                    ELSE [request[r] EXCEPT !.at = "put", !.todo = @ \ {k},
                                            !.key = k, !.answer = execution[k]])
    /\ UNCHANGED <<manifest, execution, record, created>>

\* Mutant: a failed call is taken for a failed job.
AskFailsForGood(r, k) ==
    /\ request[r].at = "sync"
    /\ k \in request[r].todo
    /\ request[r].item[k] \notin Terminal
    /\ Becomes(r, [request[r] EXCEPT !.at = "put", !.todo = @ \ {k},
                                     !.key = k, !.answer = "FAILED"])
    /\ UNCHANGED <<manifest, execution, record, created>>

\* ... or fails, which reads as None: the item is left as it is.
AskFails(r, k) ==
    /\ request[r].at = "sync"
    /\ k \in request[r].todo
    /\ request[r].item[k] \notin Terminal
    /\ Becomes(r, [request[r] EXCEPT !.todo = @ \ {k}])
    /\ UNCHANGED <<manifest, execution, record, created>>

\* put_item replaces the item by the scanned one with its new status, whatever was written
\* since the scan.
PutStatus(r) ==
    /\ request[r].at = "put"
    /\ LET k == request[r].key
       IN  record' = [record EXCEPT ![k] = Mapped(request[r].answer, request[r].item[k])]
    /\ Becomes(r, [request[r] EXCEPT !.at = "sync", !.key = None, !.answer = None])
    /\ UNCHANGED <<manifest, execution, created>>

AnswerList(r) ==
    /\ request[r].at = "sync"
    /\ request[r].todo = {}
    /\ Becomes(r, NoRequest)
    /\ UNCHANGED <<manifest, execution, record, created>>

----------------------------------------------------------------------------
(* An exception of a service, or the end of the server, ends a request     *)
(* between two calls.                                                      *)

Abort(r) ==
    /\ request[r] # NoRequest
    /\ Becomes(r, NoRequest)
    /\ UNCHANGED <<manifest, execution, record, created>>

\* IoT Jobs: executions advance, end, are canceled, or are removed with their target.
Successors ==
    [QUEUED |-> {"IN_PROGRESS", "CANCELED", "REJECTED", "TIMED_OUT", "REMOVED"},
     IN_PROGRESS |-> {"SUCCEEDED", "FAILED", "CANCELED", "TIMED_OUT", "REMOVED"}]

Advance(k) ==
    /\ execution[k] \in DOMAIN Successors
    /\ \E st \in Successors[execution[k]] :
          execution' = [execution EXCEPT ![k] = st]
    /\ UNCHANGED <<manifest, record, request, created>>

Create(r) ==
    \/ \E j \in Jobs : UploadManifest(r, j)
    \/ CreateIotJob(r)
    \/ \E k \in Keys : PutRecord(r, k)
    \/ AnswerCreated(r)

ListAll(r) == Scan(r, Keys)
GetJob(r) == \E j \in Jobs : Scan(r, KeysOf(j))

SyncStep(r) ==
    \/ \E k \in Keys : SkipTerminal(r, k)
    \/ \E k \in Keys : AskStatus(r, k)
    \/ \E k \in Keys : AskFails(r, k)
    \/ PutStatus(r)
    \/ AnswerList(r)

Next ==
    \/ \E r \in Requests : Create(r) \/ ListAll(r) \/ GetJob(r) \/ SyncStep(r) \/ Abort(r)
    \/ \E k \in Keys : Advance(k)

Spec == Init /\ [][Next]_vars

\* The dashboard lists the jobs every three seconds, a request that goes on ends, and
\* IoT Jobs answers now and then.  Nothing makes an execution advance.
FairSpec ==
    /\ Spec
    /\ \A r \in Requests :
          /\ SF_vars(ListAll(r))
          /\ WF_vars(SyncStep(r))
          /\ SF_vars(PutStatus(r))
          /\ \A k \in Keys : SF_vars(AskStatus(r, k))

----------------------------------------------------------------------------
(* Properties.                                                             *)

Items == [Keys -> RecordStatus \cup {None}]
RequestStates ==
    [at : {"idle", "create", "record", "sync", "put"}, job : Jobs \cup {None},
     todo : SUBSET Keys, item : Items \cup {<<>>},
     key : Keys \cup {None}, answer : IotStatus \cup {None}]

\* A request has what its next call is made with.
Equipped(q) ==
    /\ q.at \in {"create", "record"} => q.job \in Jobs
    /\ q.at \in {"sync", "put"} => q.item \in Items
    /\ q.at = "put" => q.key \in Keys

TypeOK ==
    /\ manifest \subseteq Jobs
    /\ execution \in [Keys -> IotStatus \cup {None}]
    /\ record \in [Keys -> RecordStatus \cup {None}]
    /\ created \subseteq Jobs
    /\ request \in [Requests -> RequestStates]
    /\ \A r \in Requests : Equipped(request[r])

\* A recorded outcome is the outcome: whatever interleaving of scans, answers and
\* writes led to it, no listing shows a job ended that did not end that way.
RecordedOutcomeIsTrue ==
    \A k \in Keys :
        record[k] \in Terminal =>
            execution[k] \in IotTerminal /\ record[k] = Mapped(execution[k], record[k])

\* Nothing is recorded of a job that IoT Jobs does not have, and no robot is told of a
\* job whose manifest is not in S3, also when create_ota_job stops half-way.
RecordedExists ==
    \A k \in Keys :
        /\ record[k] # None => execution[k] # None
        /\ execution[k] # None => k[1] \in manifest

ConfirmedIsRecorded ==
    \A j \in created : \A k \in KeysOf(j) : record[k] # None

\* The three stores agree: records are of jobs that exist, a job has its manifest, and a
\* job whose creation was confirmed has its record for each of its robots.
StoresAgree == RecordedExists /\ ConfirmedIsRecorded

\* As long as somebody lists the jobs, the record of an ended execution ends up with
\* its outcome and keeps it, stale writes of slower requests notwithstanding.
RecordsConverge ==
    \A k \in Keys :
        record[k] # None /\ execution[k] \in IotTerminal
            ~> [](record[k] = Mapped(execution[k], record[k]))
=============================================================================
