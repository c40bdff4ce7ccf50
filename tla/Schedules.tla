------------------------------ MODULE Schedules ------------------------------
(***************************************************************************)
(* Cleaning schedules: backend/app/api/schedules.py over EventBridge       *)
(* Scheduler (scheduler_service.py) and the schedules table, and the       *)
(* Lambda function the scheduler invokes (scheduler_trigger.py).           *)
(*                                                                         *)
(* A schedule lives in two stores that no transaction joins.  Requests run *)
(* concurrently, interleave at each call of a service and can end between  *)
(* any two.  What a schedule says (robot, room, cron expression) never     *)
(* changes and is left out.                                                *)
(***************************************************************************)
EXTENDS Integers

CONSTANTS
    Ids,          \* schedule ids, drawn at random
    Requests,     \* requests that can be served at the same time
    None,
    MaxInFlight   \* bound: invocations of one schedule that are under way

ASSUME SchedulesNone == None \notin Ids
ASSUME InFlightAssumption == MaxInFlight \in Nat

VARIABLES
    drawn,      \* the ids given out
    rules,      \* EventBridge: the schedules registered, all of them enabled
    records,    \* the schedules table
    request,    \* what each request is doing
    inFlight,   \* invocations of the trigger that have not published yet
    confirmed,  \* history: creations answered with 201
    begun,      \* history: schedules that a request set out to delete
    deleted     \* history: deletions answered with 204

stores == <<drawn, rules, records>>
history == <<confirmed, begun, deleted>>
vars == <<stores, request, inFlight, history>>

NoRequest == [at |-> "idle", id |-> None]

Init ==
    /\ drawn = {} /\ rules = {} /\ records = {}
    /\ request = [r \in Requests |-> NoRequest]
    /\ inFlight = [i \in Ids |-> 0]
    /\ confirmed = {} /\ begun = {} /\ deleted = {}

\* Request r goes from one call to the next, on the same schedule.
Pass(r, from, to) ==
    /\ request[r].at = from
    /\ request' = [request EXCEPT ![r].at = to]

Finish(r, from) ==
    /\ request[r].at = from
    /\ request' = [request EXCEPT ![r] = NoRequest]

Id(r) == request[r].id

----------------------------------------------------------------------------
(* create_schedule: the rule first, then the record.                       *)

Draw(r, i) ==
    /\ request[r] = NoRequest
    /\ i \notin drawn
    /\ drawn' = drawn \cup {i}
    /\ request' = [request EXCEPT ![r] = [at |-> "register", id |-> i]]
    /\ UNCHANGED <<rules, records, inFlight, history>>

Register(r) ==
    /\ Pass(r, "register", "record")
    /\ rules' = rules \cup {Id(r)}
    /\ UNCHANGED <<drawn, records, inFlight, history>>

PutRecord(r) ==
    /\ Pass(r, "record", "created")
    /\ records' = records \cup {Id(r)}
    /\ UNCHANGED <<drawn, rules, inFlight, history>>

AnswerCreated(r) ==
    /\ Finish(r, "created")
    /\ confirmed' = confirmed \cup {Id(r)}
    /\ UNCHANGED <<stores, inFlight, begun, deleted>>

----------------------------------------------------------------------------
(* delete_schedule: found in the table, then the rule, then the record.    *)

\* Mutant: no 404, the item that was not found is deleted.
FindUnchecked(r, i) ==
    /\ request[r] = NoRequest
    /\ begun' = begun \cup {i}
    /\ request' = [request EXCEPT ![r] =
                       [at |-> "unregister", id |-> IF i \in records THEN i ELSE None]]
    /\ UNCHANGED <<stores, inFlight, confirmed, deleted>>

Find(r, i) ==
    /\ request[r] = NoRequest
    /\ i \in records              \* 404 otherwise
    /\ begun' = begun \cup {i}
    /\ request' = [request EXCEPT ![r] = [at |-> "unregister", id |-> i]]
    /\ UNCHANGED <<stores, inFlight, confirmed, deleted>>

\* Mutant: the record goes first.
EraseThenUnregister(r) ==
    /\ Pass(r, "unregister", "erase")
    /\ records' = records \ {Id(r)}
    /\ UNCHANGED <<drawn, rules, inFlight, history>>

\* Mutant: every error of the scheduler is passed over.
UnregisterIfItCan(r) ==
    /\ Pass(r, "unregister", "erase")
    /\ rules' \in {rules, rules \ {Id(r)}}
    /\ UNCHANGED <<drawn, records, inFlight, history>>

\* Mutant: a missing rule is an error.
UnregisterOnce(r) ==
    /\ Id(r) \in rules
    /\ Pass(r, "unregister", "erase")
    /\ rules' = rules \ {Id(r)}
    /\ UNCHANGED <<drawn, records, inFlight, history>>

\* A rule that is missing (ResourceNotFoundException) is as good as deleted.
Unregister(r) ==
    /\ Pass(r, "unregister", "erase")
    /\ rules' = rules \ {Id(r)}
    /\ UNCHANGED <<drawn, records, inFlight, history>>

Erase(r) ==
    /\ Pass(r, "erase", "erased")
    /\ records' = records \ {Id(r)}
    /\ UNCHANGED <<drawn, rules, inFlight, history>>

AnswerDeleted(r) ==
    /\ Finish(r, "erased")
    /\ deleted' = deleted \cup {Id(r)}
    /\ UNCHANGED <<stores, inFlight, confirmed, begun>>

----------------------------------------------------------------------------
\* An exception of a service, or the end of the server, ends a request.
Abort(r) ==
    /\ request[r] # NoRequest
    /\ request' = [request EXCEPT ![r] = NoRequest]
    /\ UNCHANGED <<stores, inFlight, history>>

\* The time of a rule comes, and EventBridge invokes the trigger.
Fire(i) ==
    /\ i \in rules /\ inFlight[i] < MaxInFlight
    /\ inFlight' = [inFlight EXCEPT ![i] = @ + 1]
    /\ UNCHANGED <<stores, request, history>>

\* The trigger publishes START_CLEANING, or is given up after its retries.
Trigger(i) ==
    /\ inFlight[i] > 0
    /\ inFlight' = [inFlight EXCEPT ![i] = @ - 1]
    /\ UNCHANGED <<stores, request, history>>

Create(r) ==
    (\E i \in Ids : Draw(r, i)) \/ Register(r) \/ PutRecord(r) \/ AnswerCreated(r)

Delete(r) ==
    (\E i \in Ids : Find(r, i)) \/ Unregister(r) \/ Erase(r) \/ AnswerDeleted(r)

Next ==
    \/ \E r \in Requests : Create(r) \/ Delete(r) \/ Abort(r)
    \/ \E i \in Ids : Fire(i) \/ Trigger(i)

Spec == Init /\ [][Next]_vars

\* The operator deletes what is still listed once more, and the calls a request makes
\* do not fail for ever.  This is an assumption about operators, not about the code.
RetrySpec ==
    /\ Spec
    /\ \A i \in Ids : SF_vars(\E r \in Requests : i \in begun /\ Find(r, i))
    /\ \A r \in Requests :
          /\ WF_vars(Register(r) \/ PutRecord(r) \/ AnswerCreated(r) \/ AnswerDeleted(r))
          /\ SF_vars(Unregister(r)) /\ SF_vars(Erase(r))

----------------------------------------------------------------------------
(* Properties.                                                             *)

RequestStates ==
    [at : {"idle", "register", "record", "created", "unregister", "erase", "erased"},
     id : Ids \cup {None}]

TypeOK ==
    /\ drawn \subseteq Ids /\ rules \subseteq Ids /\ records \subseteq Ids
    /\ request \in [Requests -> RequestStates]
    /\ \A r \in Requests : request[r].at # "idle" => request[r].id \in Ids
    /\ inFlight \in [Ids -> 0..MaxInFlight]
    /\ confirmed \subseteq Ids /\ begun \subseteq Ids /\ deleted \subseteq Ids

\* A schedule the operator was told of, and has not set out to delete, is listed and
\* fires, whatever other requests did or failed to do meanwhile.
ConfirmedFires == confirmed \ begun \subseteq records \cap rules

\* What fires is listed, and so can be deleted: a rule without a record is one whose
\* creation was never confirmed.
FiringIsListed == confirmed \cap rules \subseteq records

\* docs/technical-overview.md:541: with the deletion of a schedule its rule goes too,
\* and neither a slow creation nor a second deletion brings anything back.
DeletedIsGone == deleted \cap (rules \cup records) = {}

\* What an answer has told the operator holds in both stores from then on.
StoresAgree == ConfirmedFires /\ FiringIsListed /\ DeletedIsGone

\* Once a deletion is answered no invocation begins; those under way may still publish.
DeletedStaysQuiet ==
    [][\A i \in deleted : inFlight'[i] <= inFlight[i]]_vars

\* A deletion that was cut off anywhere can be completed by deleting again.
DeletionCompletes ==
    \A i \in Ids : i \in begun ~> i \notin rules \cup records
=============================================================================
