-------------------------- MODULE OtaRecordsProofs --------------------------
(***************************************************************************)
(* Theorems about OtaRecords, for any number of jobs, robots and requests  *)
(* that create, list and abort at the same time.                           *)
(***************************************************************************)
EXTENDS OtaRecords, TLAPS

\* What a request carries along from one call to the next is still true when it is
\* used: the job it creates is not in IoT Jobs before it puts it there, the items it
\* has yet to go through have a record and an execution, the item it writes had not ended
\* when it was scanned, and a terminal answer is final.
Truthful(q) ==
    /\ q.at \in {"create", "record"} => q.job \in manifest
    /\ q.at = "create" => \A k \in KeysOf(q.job) : execution[k] = None
    /\ q.at \in {"record", "sync", "put"} => \A k \in q.todo : execution[k] # None
    /\ q.at = "record" => \A k \in KeysOf(q.job) \ q.todo : record[k] # None
    /\ q.at \in {"sync", "put"} => \A k \in q.todo : q.item[k] # None
    /\ q.at = "put" =>
          /\ q.answer \in IotStatus
          /\ q.item[q.key] # None /\ q.item[q.key] \notin Terminal
          /\ execution[q.key] # None
          /\ q.answer \in IotTerminal => execution[q.key] = q.answer

CarriesTruth == \A r \in Requests : Truthful(request[r])

\* Two requests never create the same job: ids are drawn at random.
OwnJob ==
    \A r, s \in Requests :
        r # s /\ request[r].at = "create" /\ request[s].at = "create" =>
            request[r].job # request[s].job

\* The inductive invariant, given TypeOK.
IInv ==
    /\ CarriesTruth
    /\ OwnJob
    /\ RecordedOutcomeIsTrue
    /\ RecordedExists
    /\ ConfirmedIsRecorded

\* status_map neither makes nor loses an end, and leaves a removed job what it was.
LEMMA MappedFacts ==
    ASSUME NEW st \in IotStatus, NEW current \in RecordStatus \ Terminal
    PROVE  /\ Mapped(st, current) \in RecordStatus
           /\ Mapped(st, current) \in Terminal => st \in IotTerminal
BY DEF Mapped, IotStatus, IotTerminal, RecordStatus, Terminal

\* An end is mapped whatever the item's own status was.
LEMMA MappedEnd ==
    ASSUME NEW st \in IotTerminal, NEW a, NEW b
    PROVE  Mapped(st, a) = Mapped(st, b)
BY DEF Mapped, IotTerminal

\* A request's state is replaced, those of the others stay.
LEMMA BecomesFacts ==
    ASSUME TypeOK, NEW r \in Requests, NEW st, Becomes(r, st)
    PROVE  /\ request'[r] = st
           /\ \A s \in Requests : s # r => request'[s] = request[s]
BY DEF Becomes, TypeOK

\* Whatever a request becomes, if it is a request's state the table keeps its type.
LEMMA BecomesTyped ==
    ASSUME TypeOK, NEW r \in Requests, NEW st \in RequestStates, Becomes(r, st)
    PROVE  request' \in [Requests -> RequestStates]
BY DEF Becomes, TypeOK

\* A request that starts, ends or goes through its items is a request's state.
LEMMA RequestStateFacts ==
    /\ NoRequest \in RequestStates
    /\ \A j \in Jobs : [NoRequest EXCEPT !.at = "create", !.job = j] \in RequestStates
    /\ \A K \in SUBSET Keys, item \in Items :
          [NoRequest EXCEPT !.at = "sync", !.todo = K, !.item = item] \in RequestStates
    /\ \A q \in RequestStates :
          /\ q.todo \subseteq Keys
          /\ q.key \in Keys \cup {None} /\ q.answer \in IotStatus \cup {None}
          /\ q.item \in Items \cup {<<>>}
          /\ \A K \in SUBSET Keys :
                /\ [q EXCEPT !.todo = K] \in RequestStates
                /\ [q EXCEPT !.at = "record", !.todo = K] \in RequestStates
                /\ \A k \in Keys, st \in IotStatus :
                      [q EXCEPT !.at = "put", !.todo = K, !.key = k, !.answer = st]
                          \in RequestStates
          /\ [q EXCEPT !.at = "sync", !.key = None, !.answer = None] \in RequestStates
<1>1. NoRequest \in RequestStates
  BY DEF RequestStates, NoRequest
<1>2. \A j \in Jobs : [NoRequest EXCEPT !.at = "create", !.job = j] \in RequestStates
  BY DEF RequestStates, NoRequest
<1>3. \A K \in SUBSET Keys, item \in Items :
          [NoRequest EXCEPT !.at = "sync", !.todo = K, !.item = item] \in RequestStates
  BY DEF RequestStates, NoRequest
<1>4. ASSUME NEW q \in RequestStates
      PROVE  /\ q.todo \subseteq Keys
             /\ q.key \in Keys \cup {None} /\ q.answer \in IotStatus \cup {None}
             /\ q.item \in Items \cup {<<>>}
  BY <1>4 DEF RequestStates
<1>5. ASSUME NEW q \in RequestStates, NEW K \in SUBSET Keys
      PROVE  /\ [q EXCEPT !.todo = K] \in RequestStates
             /\ [q EXCEPT !.at = "record", !.todo = K] \in RequestStates
  BY <1>5 DEF RequestStates
<1>6. ASSUME NEW q \in RequestStates, NEW K \in SUBSET Keys, NEW k \in Keys, NEW st \in IotStatus
      PROVE  [q EXCEPT !.at = "put", !.todo = K, !.key = k, !.answer = st] \in RequestStates
  BY <1>6 DEF RequestStates
<1>7. ASSUME NEW q \in RequestStates
      PROVE  [q EXCEPT !.at = "sync", !.key = None, !.answer = None] \in RequestStates
  BY <1>7 DEF RequestStates
<1>8. QED
  BY <1>1, <1>2, <1>3, <1>4, <1>5, <1>6, <1>7

\* A request that has written its item is back in its loop, with the same items.
LEMMA WrittenFacts ==
    ASSUME NEW q \in RequestStates
    PROVE  LET w == [q EXCEPT !.at = "sync", !.key = None, !.answer = None]
           IN  w \in RequestStates /\ w.at = "sync" /\ w.item = q.item
<1> DEFINE w == [q EXCEPT !.at = "sync", !.key = None, !.answer = None]
<1>1. w \in RequestStates
  BY RequestStateFacts
<1>2. w.at = "sync" /\ w.item = q.item
  BY DEF RequestStates
<1>3. QED
  BY <1>1, <1>2

-----------------------------------------------------------------------------
\* Every variable keeps its type; a recorded status is one the API knows.
THEOREM TypeCorrect == Spec => []TypeOK
<1> USE NoneAssumption
<1>1. Init => TypeOK
  <2>1. NoRequest \in RequestStates /\ Equipped(NoRequest)
    BY RequestStateFacts DEF NoRequest, Equipped
  <2>2. QED
    BY <2>1 DEF Init, TypeOK, Equipped
<1>2. TypeOK /\ [Next]_vars => TypeOK'
  <2> SUFFICES ASSUME TypeOK, [Next]_vars
               PROVE  TypeOK'
    OBVIOUS
  <2> DEFINE Typed(q) == q \in RequestStates /\ Equipped(q)
  <2>0. \A r \in Requests : Typed(request[r])
    BY DEF TypeOK
  <2>1. ASSUME NEW r \in Requests, NEW q, Typed(q), Becomes(r, q)
        PROVE  /\ request' \in [Requests -> RequestStates]
               /\ (\A s \in Requests : Equipped(request[s]))'
    <3>1. \A s \in Requests : Equipped(request'[s])
      BY <2>0, <2>1, BecomesFacts
    <3>2. QED
      BY <2>1, <3>1, BecomesTyped DEF Equipped
  <2>2. ASSUME NEW r \in Requests, NEW q, Typed(q), Becomes(r, q),
               UNCHANGED <<manifest, execution, record, created>>
        PROVE  TypeOK'
    BY <2>1, <2>2 DEF TypeOK
  <2>3. Typed(NoRequest)
    BY RequestStateFacts DEF NoRequest, Equipped
  <2>4. ASSUME NEW r \in Requests, NEW K \in SUBSET Keys
        PROVE  Typed([request[r] EXCEPT !.todo = K])
    <3>1. PICK p \in RequestStates : p = request[r] /\ Equipped(p)
      BY <2>0
    <3>2. PICK q \in RequestStates : q = [p EXCEPT !.todo = K]
      BY <3>1, RequestStateFacts
    <3>3. q.at = p.at /\ q.job = p.job /\ q.item = p.item /\ q.key = p.key
      BY <3>1, <3>2 DEF RequestStates
    <3>4. Equipped(q)
      BY <3>1, <3>3 DEF Equipped
    <3>5. QED
      BY <3>1, <3>2, <3>4
  <2>5. ASSUME NEW r \in Requests, NEW j \in Jobs, UploadManifest(r, j)
        PROVE  TypeOK'
    <3>1. Typed([NoRequest EXCEPT !.at = "create", !.job = j])
      BY RequestStateFacts DEF NoRequest, Equipped
    <3>2. QED
      BY <2>1, <2>5, <3>1 DEF UploadManifest, TypeOK
  <2>6. ASSUME NEW r \in Requests, CreateIotJob(r)
        PROVE  TypeOK'
    <3> DEFINE K == KeysOf(request[r].job)
               q == [request[r] EXCEPT !.at = "record", !.todo = K]
    <3>1. request[r] \in RequestStates /\ request[r].job \in Jobs
      BY <2>0, <2>6 DEF CreateIotJob, Equipped
    <3>2. K \in SUBSET Keys
      BY <3>1 DEF KeysOf, Keys
    <3>3. q \in RequestStates
      BY <3>1, <3>2, RequestStateFacts
    <3>4. Equipped(q)
      BY <3>1 DEF RequestStates, Equipped
    <3>5. Becomes(r, q)
      BY <2>6 DEF CreateIotJob
    <3>6. execution' \in [Keys -> IotStatus \cup {None}]
      BY <2>6 DEF CreateIotJob, TypeOK, IotStatus
    <3> HIDE DEF K, q
    <3>7. QED
      BY <2>1, <2>6, <3>1, <3>3, <3>4, <3>5, <3>6 DEF CreateIotJob, TypeOK
  <2>7. ASSUME NEW r \in Requests, NEW k \in Keys, PutRecord(r, k)
        PROVE  TypeOK'
    <3> DEFINE q == [request[r] EXCEPT !.todo = request[r].todo \ {k}]
    <3>1. request[r].todo \subseteq Keys
      BY <2>0, RequestStateFacts
    <3>2. Typed(q)
      BY <2>4, <3>1
    <3>3. Becomes(r, q)
      BY <2>7 DEF PutRecord
    <3>4. record' \in [Keys -> RecordStatus \cup {None}]
      BY <2>7 DEF PutRecord, TypeOK, RecordStatus
    <3> HIDE DEF q, Typed
    <3>5. QED
      BY <2>1, <2>7, <3>2, <3>3, <3>4 DEF PutRecord, TypeOK
  <2>8. ASSUME NEW r \in Requests, AnswerCreated(r)
        PROVE  TypeOK'
    <3>1. request[r].job \in Jobs
      BY <2>0, <2>8 DEF AnswerCreated, Equipped
    <3> HIDE DEF Typed
    <3>2. QED
      BY <2>1, <2>3, <2>8, <3>1 DEF AnswerCreated, TypeOK
  <2>9. ASSUME NEW r \in Requests, NEW K \in SUBSET Keys, Scan(r, K)
        PROVE  TypeOK'
    <3> DEFINE q == [NoRequest EXCEPT !.at = "sync", !.todo = Recorded(K), !.item = record]
    <3>1. Recorded(K) \in SUBSET Keys /\ record \in Items
      BY DEF Recorded, TypeOK, Items
    <3>2. Typed(q)
      BY <3>1, RequestStateFacts DEF NoRequest, Equipped
    <3>3. Becomes(r, q)
      BY <2>9 DEF Scan
    <3> HIDE DEF q, Typed
    <3>4. QED
      BY <2>2, <2>9, <3>2, <3>3 DEF Scan
  <2>10. ASSUME NEW r \in Requests, NEW k \in Keys,
                SkipTerminal(r, k) \/ AskFails(r, k)
        PROVE  TypeOK'
    <3> DEFINE q == [request[r] EXCEPT !.todo = request[r].todo \ {k}]
    <3>1. request[r].todo \subseteq Keys
      BY <2>0, RequestStateFacts
    <3>2. Typed(q)
      BY <2>4, <3>1
    <3>3. Becomes(r, q)
      BY <2>10 DEF SkipTerminal, AskFails
    <3> HIDE DEF q, Typed
    <3>4. QED
      BY <2>2, <2>10, <3>2, <3>3 DEF SkipTerminal, AskFails
  <2>11. ASSUME NEW r \in Requests, NEW k \in Keys, AskStatus(r, k)
        PROVE  TypeOK'
    <3> DEFINE K == request[r].todo \ {k}
               q == [request[r] EXCEPT !.todo = K]
               a == [request[r] EXCEPT !.at = "put", !.todo = K,
                                       !.key = k, !.answer = execution[k]]
    <3>1. request[r] \in RequestStates /\ K \in SUBSET Keys
      BY <2>0, RequestStateFacts
    <3>2. Typed(q)
      BY <2>4, <3>1
    <3>3. request[r].item \in Items
      BY <2>0, <2>11 DEF AskStatus, Equipped
    <3>4. execution[k] \in IotStatus \cup {None}
      BY DEF TypeOK
    <3>5. a \in RequestStates
      BY <3>1, <3>4 DEF RequestStates
    <3>6. a.at = "put" /\ a.item = request[r].item /\ a.key = k
      BY <3>1 DEF RequestStates
    <3>7. Becomes(r, q) \/ Becomes(r, a)
      BY <2>11 DEF AskStatus
    <3>8. UNCHANGED <<manifest, execution, record, created>>
      BY <2>11 DEF AskStatus
    <3>9. Typed(a)
      <4> HIDE DEF a
      <4>1. QED
        BY <3>3, <3>5, <3>6 DEF Equipped
    <3> HIDE DEF q, a, K, Typed
    <3>10. QED
      BY <2>2, <3>2, <3>7, <3>8, <3>9
  <2>12. ASSUME NEW r \in Requests, PutStatus(r)
        PROVE  TypeOK'
    <3> DEFINE q == [request[r] EXCEPT !.at = "sync", !.key = None, !.answer = None]
    <3>1. request[r] \in RequestStates
      BY <2>0
    <3>2. q \in RequestStates /\ q.at = "sync" /\ q.item = request[r].item
      BY <3>1, WrittenFacts
    <3>3. request[r].item \in Items /\ request[r].key \in Keys
      BY <2>0, <2>12 DEF PutStatus, Equipped
    <3>4. Typed(q)
      <4> HIDE DEF q
      <4>1. QED
        BY <3>2, <3>3 DEF Equipped
    <3>5. record' \in [Keys -> RecordStatus \cup {None}]
      <4>1. PICK current \in RecordStatus \cup {None} : current = request[r].item[request[r].key]
        BY <3>3 DEF Items
      <4>2. Mapped(request[r].answer, current) \in RecordStatus \cup {None}
        BY <3>1, RequestStateFacts
           DEF Mapped, RecordStatus, IotStatus, IotTerminal, Terminal
      <4>3. QED
        BY <2>12, <4>1, <4>2 DEF PutStatus, TypeOK
    <3>6. Becomes(r, q)
      BY <2>12 DEF PutStatus
    <3> HIDE DEF q, Typed
    <3>7. QED
      BY <2>1, <2>12, <3>4, <3>5, <3>6 DEF PutStatus, TypeOK
  <2>13. ASSUME NEW r \in Requests, AnswerList(r) \/ Abort(r)
        PROVE  TypeOK'
    <3> HIDE DEF Typed
    <3>1. QED
      BY <2>2, <2>3, <2>13 DEF AnswerList, Abort
  <2>14. ASSUME NEW k \in Keys, Advance(k)
        PROVE  TypeOK'
    BY <2>14 DEF Advance, Successors, IotStatus, IotTerminal, TypeOK
  <2>15. CASE UNCHANGED vars
    BY <2>15 DEF vars, TypeOK
  <2>16. \A j \in Jobs : KeysOf(j) \in SUBSET Keys
    BY DEF KeysOf, Keys
  <2>17. QED
    BY <2>5, <2>6, <2>7, <2>8, <2>9, <2>10, <2>11, <2>12, <2>13, <2>14, <2>15, <2>16
       DEF Next, Create, ListAll, GetJob, SyncStep
<1>3. QED
  BY <1>1, <1>2, PTL DEF Spec

-----------------------------------------------------------------------------
\* What no step undoes: a manifest, an execution, its end, a record.
Kept ==
    /\ manifest \subseteq manifest'
    /\ \A k \in Keys : /\ execution[k] # None => execution'[k] # None
                       /\ execution[k] \in IotTerminal => execution'[k] = execution[k]
                       /\ record[k] # None => record'[k] # None

LEMMA TruthKept ==
    ASSUME Kept, NEW q \in RequestStates, Truthful(q),
           Equipped(q),
           q.at = "create" => \A k \in KeysOf(q.job) : execution'[k] = None
    PROVE  Truthful(q)'
<1>1. q.todo \subseteq Keys
  BY DEF RequestStates
<1>2. q.at = "record" => KeysOf(q.job) \subseteq Keys
  BY DEF KeysOf, Keys, Equipped
<1>3. q.at = "put" => q.key \in Keys
  BY DEF Equipped
<1>4. QED
  BY <1>1, <1>2, <1>3 DEF Truthful, Kept

\* No request breaks what the others rely on.
LEMMA InvariantAlways == Spec => []IInv
<1> USE NoneAssumption
<1>1. Init => IInv
  <2>1. NoRequest.at = "idle"
    BY DEF NoRequest
  <2>2. QED
    BY <2>1 DEF Init, IInv, CarriesTruth, Truthful, OwnJob, RecordedOutcomeIsTrue,
       RecordedExists, ConfirmedIsRecorded, Terminal, IotStatus, IotTerminal
<1>2. TypeOK /\ TypeOK' /\ IInv /\ [Next]_vars => IInv'
  <2> SUFFICES ASSUME TypeOK, TypeOK', IInv, [Next]_vars
               PROVE  IInv'
    OBVIOUS
  <2>1. /\ \A r \in Requests : request[r] \in RequestStates /\ Truthful(request[r])
        /\ \A r \in Requests : Equipped(request[r])
        /\ \A r \in Requests : request[r].at \in {"create", "record"} => request[r].job \in Jobs
        /\ \A r \in Requests : request[r].todo \subseteq Keys
    BY RequestStateFacts DEF TypeOK, IInv, CarriesTruth, Equipped
  \* A request goes on, and no job that another is about to create is created.
  <2>2. ASSUME NEW r \in Requests, NEW q, Becomes(r, q), Truthful(q)', Kept,
               \A s \in Requests : s # r /\ request[s].at = "create" =>
                  \A k \in KeysOf(request[s].job) : execution'[k] = None
        PROVE  CarriesTruth'
    <3>1. ASSUME NEW s \in Requests, s = r
          PROVE  Truthful(request[s])'
      BY <2>2, <3>1, BecomesFacts
    <3>2. ASSUME NEW s \in Requests, s # r
          PROVE  Truthful(request[s])'
      <4>1. PICK p \in RequestStates : p = request[s]
        BY <2>1
      <4>2. request'[s] = p
        BY <2>2, <3>2, <4>1, BecomesFacts
      <4>3. /\ Truthful(p) /\ Equipped(p)
            /\ p.at = "create" => \A k \in KeysOf(p.job) : execution'[k] = None
        BY <2>1, <2>2, <3>2, <4>1
      <4>4. Truthful(p)'
        BY <2>2, <4>3, TruthKept
      <4>5. QED
        BY <4>2, <4>4
    <3>3. QED
      BY <3>1, <3>2 DEF CarriesTruth
  <2>3. ASSUME NEW r \in Requests, NEW q, Becomes(r, q), q.at # "create"
        PROVE  OwnJob'
    BY <2>3, BecomesFacts DEF OwnJob, IInv
  \* A request goes on, and nothing else happens.
  <2>4. ASSUME NEW r \in Requests, NEW q, Becomes(r, q), Truthful(q), q.at # "create",
               UNCHANGED <<manifest, execution, record, created>>
        PROVE  IInv'
    <3>1. Kept /\ Truthful(q)'
      BY <2>4 DEF Kept, Truthful
    <3>2. CarriesTruth'
      BY <2>1, <2>2, <2>4, <3>1 DEF Truthful
    <3>3. (RecordedOutcomeIsTrue /\ RecordedExists /\ ConfirmedIsRecorded)'
      BY <2>4 DEF IInv, RecordedOutcomeIsTrue, RecordedExists, ConfirmedIsRecorded
    <3>4. QED
      BY <2>3, <2>4, <3>2, <3>3 DEF IInv
  <2>5. Truthful(NoRequest) /\ NoRequest.at = "idle"
    BY DEF Truthful, NoRequest
  <2>6. ASSUME NEW r \in Requests, NEW j \in Jobs, UploadManifest(r, j)
        PROVE  IInv'
    <3>1. PICK q : q = [NoRequest EXCEPT !.at = "create", !.job = j]
      OBVIOUS
    <3>2. q.at = "create" /\ q.job = j
      BY <3>1 DEF NoRequest
    <3>3. /\ Becomes(r, q) /\ j \notin manifest /\ manifest' = manifest \cup {j}
          /\ UNCHANGED <<execution, record, created>>
      BY <2>6, <3>1 DEF UploadManifest
    <3>4. \A k \in KeysOf(j) : execution[k] = None
      BY <3>3 DEF IInv, RecordedExists, KeysOf, Keys
    <3>5. Kept /\ Truthful(q)'
      BY <3>2, <3>3, <3>4 DEF Kept, Truthful
    <3>6. CarriesTruth'
      BY <2>1, <2>2, <3>3, <3>5 DEF Truthful
    <3>7. OwnJob'
      <4>1. \A s \in Requests : s # r /\ request[s].at = "create" => request[s].job # j
        BY <2>1, <3>3 DEF Truthful
      <4>2. QED
        BY <3>2, <3>3, <4>1, BecomesFacts DEF OwnJob, IInv
    <3>8. (RecordedOutcomeIsTrue /\ RecordedExists /\ ConfirmedIsRecorded)'
      BY <3>3 DEF IInv, RecordedOutcomeIsTrue, RecordedExists, ConfirmedIsRecorded
    <3>9. QED
      BY <3>6, <3>7, <3>8 DEF IInv
  <2>7. ASSUME NEW r \in Requests, CreateIotJob(r)
        PROVE  IInv'
    <3>1. PICK p \in RequestStates : p = request[r]
      BY <2>1
    <3>2. PICK K : K = KeysOf(p.job)
      OBVIOUS
    <3>3. PICK q : q = [p EXCEPT !.at = "record", !.todo = K]
      OBVIOUS
    <3>4. q.at = "record" /\ q.job = p.job /\ q.todo = K
      BY <3>1, <3>3 DEF RequestStates
    <3>5. /\ Becomes(r, q) /\ p.at = "create"
          /\ execution' = [k \in Keys |-> IF k \in K THEN "QUEUED" ELSE execution[k]]
          /\ UNCHANGED <<manifest, record, created>>
      BY <2>7, <3>1, <3>2, <3>3 DEF CreateIotJob
    <3>6. p.job \in manifest /\ p.job \in Jobs /\ \A k \in K : execution[k] = None
      BY <2>1, <3>1, <3>2, <3>5 DEF Truthful
    <3>7. K \subseteq Keys /\ \A k \in K : k[1] = p.job
      BY <3>2, <3>6 DEF KeysOf, Keys
    <3>8. "QUEUED" # None /\ None \notin IotTerminal /\ None \notin Terminal
      BY DEF IotStatus, IotTerminal, Terminal
    <3>9. Kept
      BY <3>5, <3>6, <3>8 DEF Kept
    <3>10. Truthful(q)'
      BY <3>2, <3>4, <3>5, <3>6, <3>7, <3>8 DEF Truthful
    <3>11. ASSUME NEW s \in Requests, s # r, request[s].at = "create",
                  NEW k \in KeysOf(request[s].job)
           PROVE  execution'[k] = None
      <4>1. request[s].job # p.job /\ request[s].job \in Jobs
        BY <2>1, <3>1, <3>5, <3>11 DEF IInv, OwnJob
      <4>2. k \in Keys /\ k[1] = request[s].job
        BY <3>11, <4>1 DEF KeysOf, Keys
      <4>3. execution[k] = None
        BY <2>1, <3>11 DEF Truthful
      <4>4. QED
        BY <3>5, <3>7, <4>1, <4>2, <4>3
    <3>12. CarriesTruth'
      BY <2>2, <3>5, <3>9, <3>10, <3>11
    <3>13. (RecordedOutcomeIsTrue /\ RecordedExists /\ ConfirmedIsRecorded)'
      BY <3>5, <3>6, <3>7, <3>8
         DEF IInv, RecordedOutcomeIsTrue, RecordedExists, ConfirmedIsRecorded
    <3>14. QED
      BY <2>3, <3>4, <3>5, <3>12, <3>13 DEF IInv
  <2>8. ASSUME NEW r \in Requests, NEW k \in Keys, PutRecord(r, k)
        PROVE  IInv'
    <3>1. PICK p \in RequestStates : p = request[r]
      BY <2>1
    <3>2. PICK q : q = [p EXCEPT !.todo = p.todo \ {k}]
      OBVIOUS
    <3>3. q.at = p.at /\ q.job = p.job /\ q.todo = p.todo \ {k}
      BY <3>1, <3>2 DEF RequestStates
    <3>4. /\ Becomes(r, q) /\ p.at = "record" /\ k \in p.todo
          /\ record' = [record EXCEPT ![k] = "QUEUED"]
          /\ UNCHANGED <<manifest, execution, created>>
      BY <2>8, <3>1, <3>2 DEF PutRecord
    <3>5. /\ p.job \in manifest /\ p.job \in Jobs
          /\ \A l \in p.todo : execution[l] # None
          /\ \A l \in KeysOf(p.job) \ p.todo : record[l] # None
      BY <2>1, <3>1, <3>4 DEF Truthful
    <3>6. "QUEUED" # None /\ "QUEUED" \notin Terminal
      BY DEF IotStatus, Terminal
    <3>7. \A l \in Keys : record'[l] = IF l = k THEN "QUEUED" ELSE record[l]
      BY <3>4 DEF TypeOK
    <3>8. Kept
      BY <3>4, <3>6, <3>7 DEF Kept
    <3>9. KeysOf(p.job) \subseteq Keys
      BY <3>5 DEF KeysOf, Keys
    <3>10. Truthful(q)'
      BY <3>3, <3>4, <3>5, <3>6, <3>7, <3>9 DEF Truthful
    <3>11. CarriesTruth'
      BY <2>1, <2>2, <3>4, <3>8, <3>10 DEF Truthful
    <3>12. \A j \in created : KeysOf(j) \subseteq Keys
      BY DEF KeysOf, Keys, TypeOK
    <3>13. (RecordedOutcomeIsTrue /\ RecordedExists /\ ConfirmedIsRecorded)'
      BY <3>4, <3>5, <3>6, <3>7, <3>12
         DEF IInv, RecordedOutcomeIsTrue, RecordedExists, ConfirmedIsRecorded
    <3>14. QED
      BY <2>3, <3>3, <3>4, <3>11, <3>13 DEF IInv
  <2>9. ASSUME NEW r \in Requests, AnswerCreated(r)
        PROVE  IInv'
    <3>1. /\ Becomes(r, NoRequest) /\ created' = created \cup {request[r].job}
          /\ request[r].at = "record" /\ request[r].todo = {}
          /\ UNCHANGED <<manifest, execution, record>>
      BY <2>9 DEF AnswerCreated
    <3>2. \A k \in KeysOf(request[r].job) : record[k] # None
      BY <2>1, <3>1 DEF Truthful
    <3>3. Kept /\ Truthful(NoRequest)'
      BY <3>1 DEF Kept, Truthful, NoRequest
    <3>4. CarriesTruth'
      <4>1. PICK q : q = NoRequest
        OBVIOUS
      <4>2. Truthful(q)' /\ Becomes(r, q)
        BY <2>5, <3>1, <3>3, <4>1
      <4>3. QED
        BY <2>1, <2>2, <3>1, <3>3, <4>2 DEF Truthful
    <3>5. (RecordedOutcomeIsTrue /\ RecordedExists /\ ConfirmedIsRecorded)'
      BY <3>1, <3>2 DEF IInv, RecordedOutcomeIsTrue, RecordedExists, ConfirmedIsRecorded
    <3>6. QED
      BY <2>3, <2>5, <3>1, <3>4, <3>5 DEF IInv
  <2>10. ASSUME NEW r \in Requests, NEW K \in SUBSET Keys, Scan(r, K)
         PROVE  IInv'
    <3>1. PICK q : q = [NoRequest EXCEPT !.at = "sync", !.todo = Recorded(K), !.item = record]
      OBVIOUS
    <3>2. q.at = "sync" /\ q.todo = Recorded(K) /\ q.item = record
      BY <3>1 DEF NoRequest
    <3>3. \A k \in q.todo : execution[k] # None /\ q.item[k] # None
      BY <3>2 DEF Recorded, IInv, RecordedExists
    <3>4. Truthful(q)
      BY <3>2, <3>3 DEF Truthful
    <3>5. QED
      BY <2>4, <2>10, <3>1, <3>2, <3>4 DEF Scan
  <2>11. ASSUME NEW r \in Requests, NEW k \in Keys,
                SkipTerminal(r, k) \/ AskStatus(r, k) \/ AskFails(r, k)
         PROVE  IInv'
    <3>1. PICK p \in RequestStates : p = request[r]
      BY <2>1
    <3>2. PICK q : q = [p EXCEPT !.todo = p.todo \ {k}]
      OBVIOUS
    <3>3. PICK a : a = [p EXCEPT !.at = "put", !.todo = p.todo \ {k},
                                 !.key = k, !.answer = execution[k]]
      OBVIOUS
    <3>4. /\ p.at = "sync" /\ k \in p.todo /\ UNCHANGED <<manifest, execution, record, created>>
          /\ Becomes(r, q) \/ (p.item[k] \notin Terminal /\ Becomes(r, a))
      BY <2>11, <3>1, <3>2, <3>3 DEF SkipTerminal, AskStatus, AskFails
    <3>5. \A l \in p.todo : execution[l] # None /\ p.item[l] # None
      BY <2>1, <3>1, <3>4 DEF Truthful
    <3>6. q.at = "sync" /\ q.todo = p.todo \ {k} /\ q.item = p.item
      BY <3>1, <3>2, <3>4 DEF RequestStates
    <3>7. /\ a.at = "put" /\ a.todo = p.todo \ {k} /\ a.item = p.item
          /\ a.key = k /\ a.answer = execution[k]
      BY <3>1, <3>3 DEF RequestStates
    <3>8. execution[k] \in IotStatus
      BY <3>4, <3>5 DEF TypeOK
    <3>9. Truthful(q) /\ (p.item[k] \notin Terminal => Truthful(a))
      BY <3>4, <3>5, <3>6, <3>7, <3>8 DEF Truthful
    <3>10. QED
      BY <2>4, <3>4, <3>6, <3>7, <3>9
  <2>12. ASSUME NEW r \in Requests, PutStatus(r)
         PROVE  IInv'
    <3>1. PICK p \in RequestStates : p = request[r]
      BY <2>1
    <3>2. PICK q : q = [p EXCEPT !.at = "sync", !.key = None, !.answer = None]
      OBVIOUS
    <3>3. q.at = "sync" /\ q.todo = p.todo /\ q.item = p.item
      BY <3>1, <3>2 DEF RequestStates
    <3> DEFINE current == p.item[p.key]
               new == Mapped(p.answer, current)
    <3>4. /\ Becomes(r, q) /\ p.at = "put"
          /\ record' = [record EXCEPT ![p.key] = new]
          /\ UNCHANGED <<manifest, execution, created>>
      BY <2>12, <3>1, <3>2 DEF PutStatus
    <3>5. /\ p.key \in Keys /\ p.answer \in IotStatus /\ execution[p.key] # None
          /\ p.answer \in IotTerminal => execution[p.key] = p.answer
          /\ \A k \in p.todo : execution[k] # None /\ p.item[k] # None
          /\ current \in RecordStatus \ Terminal
      BY <2>1, <3>1, <3>4 DEF Truthful, Equipped, Items
    <3>6. /\ new # None
          /\ new \in Terminal => p.answer \in IotTerminal /\ new = Mapped(execution[p.key], new)
      BY <3>5, MappedFacts, MappedEnd DEF RecordStatus, Terminal, IotStatus, IotTerminal
    <3> HIDE DEF current, new
    <3>7. \A k \in Keys : record'[k] = IF k = p.key THEN new ELSE record[k]
      BY <3>4 DEF TypeOK
    <3>8. Kept
      BY <3>4, <3>6, <3>7 DEF Kept
    <3>9. Truthful(q)'
      BY <3>3, <3>4, <3>5 DEF Truthful
    <3>10. CarriesTruth'
      BY <2>1, <2>2, <3>4, <3>8, <3>9 DEF Truthful
    <3>11. RecordedOutcomeIsTrue'
      BY <3>4, <3>5, <3>6, <3>7 DEF IInv, RecordedOutcomeIsTrue
    <3>12. \A j \in created : KeysOf(j) \subseteq Keys
      BY DEF KeysOf, Keys, TypeOK
    <3>13. (RecordedExists /\ ConfirmedIsRecorded)'
      BY <3>4, <3>5, <3>6, <3>7, <3>12 DEF IInv, RecordedExists, ConfirmedIsRecorded
    <3>14. QED
      BY <2>3, <3>3, <3>4, <3>10, <3>11, <3>13 DEF IInv
  <2>13. ASSUME NEW r \in Requests, AnswerList(r) \/ Abort(r)
         PROVE  IInv'
    <3>1. PICK q : q = NoRequest
      OBVIOUS
    <3>2. QED
      BY <2>4, <2>5, <2>13, <3>1 DEF AnswerList, Abort
  <2>14. ASSUME NEW k \in Keys, Advance(k)
         PROVE  IInv'
    <3>1. /\ execution[k] \in {"QUEUED", "IN_PROGRESS"}
          /\ \E st \in IotStatus : execution' = [execution EXCEPT ![k] = st]
          /\ UNCHANGED <<manifest, record, request, created>>
      <4>1. /\ DOMAIN Successors = {"QUEUED", "IN_PROGRESS"}
            /\ \A x \in {"QUEUED", "IN_PROGRESS"} : Successors[x] \subseteq IotStatus
        BY DEF Successors, IotStatus, IotTerminal
      <4>2. QED
        BY <2>14, <4>1 DEF Advance
    <3>2. /\ execution[k] # None /\ execution'[k] # None
          /\ execution[k] \notin IotTerminal
          /\ \A l \in Keys : l # k => execution'[l] = execution[l]
      BY <3>1 DEF TypeOK, IotStatus, IotTerminal
    <3>3. Kept
      BY <3>1, <3>2 DEF Kept
    <3>4. ASSUME NEW s \in Requests
          PROVE  Truthful(request[s])'
      <4>1. PICK p \in RequestStates : p = request[s]
        BY <2>1
      <4>2. Truthful(p) /\ Equipped(p)
        BY <2>1, <4>1
      <4>3. p.at = "create" => \A l \in KeysOf(p.job) : execution'[l] = None
        <5>1. p.at = "create" => KeysOf(p.job) \subseteq Keys
          BY <4>2 DEF KeysOf, Keys, Equipped
        <5>2. QED
          BY <3>2, <4>2, <5>1 DEF Truthful
      <4>4. Truthful(p)'
        BY <3>3, <4>2, <4>3, TruthKept
      <4>5. QED
        BY <3>1, <4>1, <4>4
    <3>5. OwnJob'
      BY <3>1 DEF IInv, OwnJob
    <3>6. (RecordedOutcomeIsTrue /\ RecordedExists /\ ConfirmedIsRecorded)'
      BY <3>1, <3>2 DEF IInv, RecordedOutcomeIsTrue, RecordedExists, ConfirmedIsRecorded
    <3>7. QED
      BY <3>4, <3>5, <3>6 DEF IInv, CarriesTruth
  <2>15. CASE UNCHANGED vars
    BY <2>15 DEF vars, IInv, CarriesTruth, Truthful, OwnJob, RecordedOutcomeIsTrue,
       RecordedExists, ConfirmedIsRecorded
  <2>16. \A j \in Jobs : KeysOf(j) \in SUBSET Keys
    BY DEF KeysOf, Keys
  <2>17. QED
    BY <2>6, <2>7, <2>8, <2>9, <2>10, <2>11, <2>12, <2>13, <2>14, <2>15, <2>16
       DEF Next, Create, ListAll, GetJob, SyncStep
<1>3. QED
  BY <1>1, <1>2, TypeCorrect, PTL DEF Spec

\* Whatever creates, lists and aborts at the same time, in whatever order the calls to
\* S3, IoT Jobs and DynamoDB are made: a recorded outcome is the true one, although it is
\* written long after IoT Jobs was asked.
THEOREM RecordsAreTrue == Spec => []RecordedOutcomeIsTrue
<1>1. IInv => RecordedOutcomeIsTrue
  BY DEF IInv
<1>2. QED
  BY <1>1, InvariantAlways, PTL

\* ... and a record has its execution and an execution its manifest, also when the request
\* that made them was given up half-way; a confirmed job has all its records.
THEOREM StoresStayInAgreement == Spec => []StoresAgree
<1>1. IInv => StoresAgree
  BY DEF IInv, StoresAgree
<1>2. QED
  BY <1>1, InvariantAlways, PTL

-----------------------------------------------------------------------------
(* Recorded outcomes stay.                                                 *)

\* What request q is going to write to the item of k is no longer true.
Outdated(q, k) ==
    \/ q.at = "record" /\ k \in q.todo
    \/ q.at = "put" /\ q.key = k /\ q.answer # execution[k]

EndRecorded(k) ==
    /\ execution[k] \in IotTerminal /\ record[k] = Mapped(execution[k], record[k])
    /\ \A r \in Requests : ~Outdated(request[r], k)

\* Once an outcome is recorded and nothing outdated is about to be written, it stays.
OutcomesStay == [][\A k \in Keys : EndRecorded(k) => EndRecorded(k)']_vars

\* The safety core of RecordsConverge: only a request that has asked before the execution
\* ended can take a recorded outcome back; one that only scanned before cannot.
THEOREM RecordedOutcomesStay == Spec => OutcomesStay
<1> USE NoneAssumption
<1>1. TypeOK /\ IInv /\ [Next]_vars => (\A k \in Keys : EndRecorded(k) => EndRecorded(k)')
  <2> SUFFICES ASSUME TypeOK, IInv, [Next]_vars, NEW k \in Keys, EndRecorded(k)
               PROVE  EndRecorded(k)'
    OBVIOUS
  <2>1. /\ execution[k] \in IotTerminal /\ execution[k] # None
        /\ record[k] = Mapped(execution[k], record[k])
        /\ \A r \in Requests : ~Outdated(request[r], k)
        /\ \A r \in Requests : request[r] \in RequestStates /\ Truthful(request[r])
    BY DEF EndRecorded, TypeOK, IInv, CarriesTruth, IotStatus
  <2>2. ASSUME execution'[k] = execution[k], record'[k] = record[k], NEW r \in Requests,
               NEW q, Becomes(r, q), ~Outdated(q, k)
        PROVE  EndRecorded(k)'
    <3>1. \A s \in Requests : ~Outdated(request'[s], k)
      BY <2>1, <2>2, BecomesFacts
    <3>2. \A s \in Requests : ~Outdated(request[s], k)'
      BY <2>2, <3>1 DEF Outdated
    <3>3. QED
      BY <2>1, <2>2, <3>2 DEF EndRecorded
  <2>3. NoRequest.at = "idle" /\ ~Outdated(NoRequest, k)
    BY DEF NoRequest, Outdated
  <2>4. ASSUME NEW r \in Requests, NEW j \in Jobs, UploadManifest(r, j)
        PROVE  EndRecorded(k)'
    <3>1. PICK q : q = [NoRequest EXCEPT !.at = "create", !.job = j]
      OBVIOUS
    <3>2. q.at = "create"
      BY <3>1 DEF NoRequest
    <3>3. QED
      BY <2>2, <2>4, <3>1, <3>2 DEF UploadManifest, Outdated
  <2>5. ASSUME NEW r \in Requests, CreateIotJob(r)
        PROVE  EndRecorded(k)'
    <3>1. PICK q : q = [request[r] EXCEPT !.at = "record", !.todo = KeysOf(request[r].job)]
      OBVIOUS
    <3>2. k \notin KeysOf(request[r].job)
      BY <2>1, <2>5 DEF CreateIotJob, Truthful
    <3>3. q.at = "record" /\ q.todo = KeysOf(request[r].job)
      BY <2>1, <3>1 DEF RequestStates
    <3>4. execution'[k] = execution[k] /\ UNCHANGED record /\ Becomes(r, q)
      BY <2>5, <3>1, <3>2 DEF CreateIotJob
    <3>5. QED
      BY <2>2, <3>2, <3>3, <3>4 DEF Outdated
  <2>6. ASSUME NEW r \in Requests, NEW l \in Keys, PutRecord(r, l)
        PROVE  EndRecorded(k)'
    <3>1. PICK q : q = [request[r] EXCEPT !.todo = @ \ {l}]
      OBVIOUS
    <3>2. request[r].at = "record" /\ l \in request[r].todo /\ k # l
      BY <2>1, <2>6 DEF PutRecord, Outdated
    <3>3. q.at = "record" /\ q.todo = request[r].todo \ {l}
      BY <2>1, <3>1, <3>2 DEF RequestStates
    <3>4. execution' = execution /\ record'[k] = record[k] /\ Becomes(r, q)
      BY <2>6, <3>1, <3>2 DEF PutRecord, TypeOK
    <3>5. ~Outdated(q, k)
      BY <2>1, <3>2, <3>3 DEF Outdated
    <3>6. QED
      BY <2>2, <3>4, <3>5
  <2>7. ASSUME NEW r \in Requests, AnswerCreated(r) \/ AnswerList(r) \/ Abort(r)
        PROVE  EndRecorded(k)'
    BY <2>2, <2>3, <2>7 DEF AnswerCreated, AnswerList, Abort
  <2>8. ASSUME NEW r \in Requests, NEW K \in SUBSET Keys, Scan(r, K)
        PROVE  EndRecorded(k)'
    <3>1. PICK q : q = [NoRequest EXCEPT !.at = "sync", !.todo = Recorded(K), !.item = record]
      OBVIOUS
    <3>2. q.at = "sync"
      BY <3>1 DEF NoRequest
    <3>3. QED
      BY <2>2, <2>8, <3>1, <3>2 DEF Scan, Outdated
  \* A listing goes on to its next item.
  <2>9. ASSUME NEW r \in Requests, NEW l \in Keys, request[r].at = "sync",
               Becomes(r, [request[r] EXCEPT !.todo = @ \ {l}]), UNCHANGED <<execution, record>>
        PROVE  EndRecorded(k)'
    <3>1. PICK q : q = [request[r] EXCEPT !.todo = @ \ {l}]
      OBVIOUS
    <3>2. q.at = "sync"
      BY <2>1, <2>9, <3>1 DEF RequestStates
    <3>3. QED
      BY <2>2, <2>9, <3>1, <3>2 DEF Outdated
  <2>10. ASSUME NEW r \in Requests, NEW l \in Keys, AskStatus(r, l)
         PROVE  EndRecorded(k)'
    <3>1. CASE execution[l] = request[r].item[l]
      BY <2>9, <2>10, <3>1 DEF AskStatus
    <3>2. CASE execution[l] # request[r].item[l]
      <4>1. PICK q : q = [request[r] EXCEPT !.at = "put", !.todo = @ \ {l},
                                            !.key = l, !.answer = execution[l]]
        OBVIOUS
      <4>2. q.at = "put" /\ q.key = l /\ q.answer = execution[l]
        BY <2>1, <4>1 DEF RequestStates
      <4>3. Becomes(r, q) /\ UNCHANGED <<execution, record>>
        BY <2>10, <3>2, <4>1 DEF AskStatus
      <4>4. QED
        BY <2>2, <4>2, <4>3 DEF Outdated
    <3>3. QED
      BY <3>1, <3>2
  <2>11. ASSUME NEW r \in Requests, PutStatus(r)
         PROVE  EndRecorded(k)'
    <3>1. PICK q : q = [request[r] EXCEPT !.at = "sync", !.key = None, !.answer = None]
      OBVIOUS
    <3>2. q.at = "sync"
      BY <2>1, <3>1, WrittenFacts
    <3>3. request[r].key = k => request[r].answer = execution[k]
      BY <2>1, <2>11 DEF PutStatus, Outdated
    <3>4. record'[k] = record[k]
      <4>1. request[r].key = k =>
               Mapped(request[r].answer, request[r].item[k]) = record[k]
        BY <2>1, <3>3, MappedEnd
      <4>2. QED
        BY <2>11, <4>1 DEF PutStatus, TypeOK
    <3>5. QED
      BY <2>2, <2>11, <3>1, <3>2, <3>4 DEF PutStatus, Outdated
  <2>12. ASSUME NEW l \in Keys, Advance(l)
         PROVE  EndRecorded(k)'
    <3>1. execution'[k] = execution[k]
      BY <2>1, <2>12 DEF Advance, Successors, IotTerminal, TypeOK
    <3>2. QED
      BY <2>1, <2>12, <3>1 DEF Advance, EndRecorded, Outdated
  <2>13. CASE UNCHANGED vars
    BY <2>1, <2>13 DEF vars, EndRecorded, Outdated
  <2>14. ASSUME NEW r \in Requests, NEW l \in Keys, SkipTerminal(r, l) \/ AskFails(r, l)
         PROVE  EndRecorded(k)'
    BY <2>9, <2>14 DEF SkipTerminal, AskFails
  <2>15. \A j \in Jobs : KeysOf(j) \in SUBSET Keys
    BY DEF KeysOf, Keys
  <2>16. QED
    BY <2>4, <2>5, <2>6, <2>7, <2>8, <2>10, <2>11, <2>12, <2>13, <2>14, <2>15
       DEF Next, Create, ListAll, GetJob, SyncStep
<1>2. QED
  BY <1>1, TypeCorrect, InvariantAlways, PTL DEF Spec, OutcomesStay
=============================================================================
