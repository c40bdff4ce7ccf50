--------------------------- MODULE SchedulesProofs ---------------------------
(***************************************************************************)
(* Theorems about Schedules, for any number of schedules and of requests   *)
(* that create, delete and abort at the same time.                         *)
(***************************************************************************)
EXTENDS Schedules, TLAPS

\* A request moves on or ends, on its schedule; the others stay as they are.
LEMMA PassFacts ==
    ASSUME TypeOK, NEW r \in Requests, NEW from, NEW to, Pass(r, from, to)
    PROVE  /\ request[r].at = from
           /\ request'[r].at = to /\ request'[r].id = request[r].id
           /\ \A s \in Requests : s # r => request'[s] = request[s]
BY DEF Pass, TypeOK, RequestStates

LEMMA EndFacts ==
    ASSUME TypeOK, NEW r \in Requests, request' = [request EXCEPT ![r] = NoRequest]
    PROVE  /\ request'[r].at = "idle"
           /\ \A s \in Requests : s # r => request'[s] = request[s]
BY DEF NoRequest, TypeOK

LEMMA BeginFacts ==
    ASSUME TypeOK, NEW r \in Requests, NEW at, NEW i \in Ids,
           request' = [request EXCEPT ![r] = [at |-> at, id |-> i]]
    PROVE  /\ request'[r].at = at /\ request'[r].id = i
           /\ \A s \in Requests : s # r => request'[s] = request[s]
BY DEF TypeOK

-----------------------------------------------------------------------------
\* The stores hold ids that were drawn, and no request works on a missing schedule.
THEOREM TypeCorrect == Spec => []TypeOK
<1> USE SchedulesNone, InFlightAssumption
<1>1. Init => TypeOK
  BY DEF Init, TypeOK, RequestStates, NoRequest
<1>2. TypeOK /\ [Next]_vars => TypeOK'
  <2> SUFFICES ASSUME TypeOK, [Next]_vars
               PROVE  TypeOK'
    OBVIOUS
  <2> USE DEF TypeOK, RequestStates, stores, history
  <2>1. ASSUME NEW r \in Requests, NEW i \in Ids, Draw(r, i) \/ Find(r, i)
        PROVE  TypeOK'
    BY <2>1 DEF Draw, Find
  <2>2. ASSUME NEW r \in Requests, Register(r) \/ PutRecord(r) \/ Unregister(r) \/ Erase(r)
        PROVE  TypeOK'
    BY <2>2 DEF Register, PutRecord, Unregister, Erase, Pass, Id
  <2>3. ASSUME NEW r \in Requests, AnswerCreated(r) \/ AnswerDeleted(r)
        PROVE  TypeOK'
    BY <2>3 DEF AnswerCreated, AnswerDeleted, Finish, NoRequest, Id
  <2>4. ASSUME NEW r \in Requests, Abort(r)
        PROVE  TypeOK'
    BY <2>4 DEF Abort, NoRequest
  <2>5. ASSUME NEW i \in Ids, Fire(i) \/ Trigger(i)
        PROVE  TypeOK'
    BY <2>5 DEF Fire, Trigger
  <2>6. CASE UNCHANGED vars
    BY <2>6 DEF vars
  <2>7. QED
    BY <2>1, <2>2, <2>3, <2>4, <2>5, <2>6 DEF Next, Create, Delete
<1>3. QED
  BY <1>1, <1>2, PTL DEF Spec

-----------------------------------------------------------------------------
\* Everything known of a schedule is known of one whose id was drawn.
Known ==
    /\ rules \subseteq drawn /\ records \subseteq drawn
    /\ confirmed \subseteq drawn /\ begun \subseteq drawn /\ deleted \subseteq begun

Creating == {"register", "record"}

\* What holds of the schedule of a request, whatever the others do to it.
OnCourse(q) ==
    /\ q.at # "idle" => q.id \in drawn
    /\ q.at \in Creating => q.id \notin records \cup confirmed \cup begun
    /\ q.at = "record" => q.id \in rules
    /\ q.at = "created" => /\ q.id \in rules => q.id \in records
                           /\ q.id \in (records \cap rules) \cup begun
    /\ q.at \in {"unregister", "erase", "erased"} => q.id \in begun
    /\ q.at \in {"erase", "erased"} => q.id \notin rules
    /\ q.at = "erased" => q.id \notin records

\* Two requests never create the same schedule.
OneCreator ==
    \A r, s \in Requests :
        r # s /\ request[r].at \in Creating /\ request[s].at \in Creating =>
            request[r].id # request[s].id

\* The inductive invariant, given TypeOK.
IInv ==
    /\ Known
    /\ \A r \in Requests : OnCourse(request[r])
    /\ OneCreator
    /\ ConfirmedFires
    /\ FiringIsListed
    /\ DeletedIsGone

\* No request breaks what the others rely on.
LEMMA SchedulesInvariant == Spec => []IInv
<1> USE SchedulesNone DEF Creating
<1>1. Init => IInv
  BY DEF Init, NoRequest, IInv, Known, OnCourse, OneCreator, ConfirmedFires,
         FiringIsListed, DeletedIsGone
<1>2. TypeOK /\ IInv /\ [Next]_vars => IInv'
  <2> SUFFICES ASSUME TypeOK, IInv, [Next]_vars
               PROVE  IInv'
    OBVIOUS
  <2> USE DEF IInv, Known, OnCourse, OneCreator, ConfirmedFires, FiringIsListed,
              DeletedIsGone, stores, history, Id
  <2>1. ASSUME NEW r \in Requests, NEW i \in Ids, Draw(r, i)
        PROVE  IInv'
    <3>1. request'[r].at = "register" /\ request'[r].id = i
          /\ \A s \in Requests : s # r => request'[s] = request[s]
      BY <2>1, BeginFacts DEF Draw
    <3>2. QED
      BY <2>1, <3>1 DEF Draw
  <2>2. ASSUME NEW r \in Requests, Register(r)
        PROVE  IInv'
    <3>1. Pass(r, "register", "record")
      BY <2>2 DEF Register
    <3>2. QED
      BY <2>2, <3>1, PassFacts DEF Register
  <2>3. ASSUME NEW r \in Requests, PutRecord(r)
        PROVE  IInv'
    <3>1. Pass(r, "record", "created")
      BY <2>3 DEF PutRecord
    <3>2. /\ request[r].at = "record"
          /\ request'[r].at = "created" /\ request'[r].id = request[r].id
          /\ \A s \in Requests : s # r => request'[s] = request[s]
      BY <3>1, PassFacts
    <3>3. records' = records \cup {request[r].id} /\ UNCHANGED <<drawn, rules, history>>
      BY <2>3 DEF PutRecord
    <3>4. request[r].id \in rules /\ request[r].id \notin records \cup confirmed \cup begun
      BY <3>2
    <3>5. \A s \in Requests : OnCourse(request[s])'
      BY <3>2, <3>3, <3>4
    <3>6. OneCreator'
      BY <3>2
    <3>7. Known' /\ ConfirmedFires' /\ DeletedIsGone'
      BY <3>2, <3>3, <3>4
    <3>8. FiringIsListed'
      BY <3>3
    <3>9. QED
      BY <3>5, <3>6, <3>7, <3>8
  <2>4. ASSUME NEW r \in Requests, AnswerCreated(r)
        PROVE  IInv'
    <3>1. request[r].at = "created" /\ request' = [request EXCEPT ![r] = NoRequest]
      BY <2>4 DEF AnswerCreated, Finish
    <3>2. /\ request'[r].at = "idle"
          /\ \A s \in Requests : s # r => request'[s] = request[s]
      BY <3>1, EndFacts
    <3>3. confirmed' = confirmed \cup {request[r].id} /\ UNCHANGED <<stores, begun, deleted>>
      BY <2>4 DEF AnswerCreated
    <3>4. /\ request[r].id \in drawn
          /\ request[r].id \in rules => request[r].id \in records
          /\ request[r].id \in (records \cap rules) \cup begun
      BY <3>1
    <3>5. \A s \in Requests : OnCourse(request[s])'
      <4>1. \A s \in Requests :
               s # r /\ request[s].at \in Creating => request[s].id # request[r].id
        BY <3>1
      <4>2. QED
        BY <3>2, <3>3, <4>1
    <3>6. OneCreator'
      BY <3>2
    <3>7. (Known /\ ConfirmedFires /\ FiringIsListed /\ DeletedIsGone)'
      BY <3>3, <3>4
    <3>8. QED
      BY <3>5, <3>6, <3>7
  <2>5. ASSUME NEW r \in Requests, NEW i \in Ids, Find(r, i)
        PROVE  IInv'
    <3>1. request'[r].at = "unregister" /\ request'[r].id = i
          /\ \A s \in Requests : s # r => request'[s] = request[s]
      BY <2>5, BeginFacts DEF Find
    <3>2. QED
      BY <2>5, <3>1 DEF Find
  <2>6. ASSUME NEW r \in Requests, Unregister(r)
        PROVE  IInv'
    <3>1. Pass(r, "unregister", "erase")
      BY <2>6 DEF Unregister
    <3>2. QED
      BY <2>6, <3>1, PassFacts DEF Unregister
  <2>7. ASSUME NEW r \in Requests, Erase(r)
        PROVE  IInv'
    <3>1. Pass(r, "erase", "erased")
      BY <2>7 DEF Erase
    <3>2. QED
      BY <2>7, <3>1, PassFacts DEF Erase
  <2>8. ASSUME NEW r \in Requests, AnswerDeleted(r)
        PROVE  IInv'
    <3>1. request[r].at = "erased" /\ request' = [request EXCEPT ![r] = NoRequest]
      BY <2>8 DEF AnswerDeleted, Finish
    <3>2. /\ request'[r].at = "idle"
          /\ \A s \in Requests : s # r => request'[s] = request[s]
      BY <3>1, EndFacts
    <3>3. deleted' = deleted \cup {request[r].id} /\ UNCHANGED <<stores, confirmed, begun>>
      BY <2>8 DEF AnswerDeleted
    <3>4. request[r].id \in begun \ (rules \cup records)
      BY <3>1
    <3>5. \A s \in Requests : OnCourse(request[s])'
      BY <3>2, <3>3
    <3>6. OneCreator'
      BY <3>2
    <3>7. (Known /\ ConfirmedFires /\ FiringIsListed /\ DeletedIsGone)'
      BY <3>3, <3>4
    <3>8. QED
      BY <3>5, <3>6, <3>7
  <2>9. ASSUME NEW r \in Requests, Abort(r)
        PROVE  IInv'
    <3>1. /\ request'[r].at = "idle"
          /\ \A s \in Requests : s # r => request'[s] = request[s]
      BY <2>9, EndFacts DEF Abort
    <3>2. UNCHANGED <<stores, history>>
      BY <2>9 DEF Abort
    <3>3. \A s \in Requests : OnCourse(request[s])'
      BY <3>1, <3>2
    <3>4. OneCreator'
      BY <3>1
    <3>5. QED
      BY <3>2, <3>3, <3>4
  <2>10. ASSUME NEW i \in Ids, Fire(i) \/ Trigger(i)
         PROVE  IInv'
    BY <2>10 DEF Fire, Trigger
  <2>11. CASE UNCHANGED vars
    BY <2>11 DEF vars
  <2>12. QED
    BY <2>1, <2>2, <2>3, <2>4, <2>5, <2>6, <2>7, <2>8, <2>9, <2>10, <2>11
       DEF Next, Create, Delete
<1>3. QED
  BY <1>1, <1>2, TypeCorrect, PTL DEF Spec

\* Whatever creates, deletes and aborts at the same time: a confirmed schedule is
\* listed and fires until a request sets out to delete it, a confirmed schedule that
\* fires is listed, and a schedule whose deletion was answered is in neither store.
THEOREM SchedulesConsistent == Spec => []StoresAgree
<1>1. IInv => StoresAgree
  BY DEF IInv, StoresAgree
<1>2. QED
  BY <1>1, SchedulesInvariant, PTL

\* Once a deletion is answered, EventBridge does not invoke the trigger for it again.
THEOREM DeletedSchedulesStayQuiet == Spec => DeletedStaysQuiet
<1>1. TypeOK /\ DeletedIsGone /\ [Next]_vars =>
        [\A i \in deleted : inFlight'[i] <= inFlight[i]]_vars
  <2> SUFFICES ASSUME TypeOK, DeletedIsGone, Next, NEW i \in deleted
               PROVE  inFlight'[i] <= inFlight[i]
    OBVIOUS
  <2>1. i \in Ids /\ i \notin rules /\ inFlight[i] \in Int
    BY DEF TypeOK, DeletedIsGone
  <2>2. CASE inFlight' = inFlight
    BY <2>1, <2>2
  <2>3. ASSUME NEW j \in Ids, Fire(j) \/ Trigger(j)
        PROVE  inFlight'[i] <= inFlight[i]
    BY <2>1, <2>3 DEF Fire, Trigger, TypeOK
  <2>4. QED
    BY <2>2, <2>3 DEF Next, Create, Delete, Draw, Register, PutRecord, AnswerCreated,
       Find, Unregister, Erase, AnswerDeleted, Abort
<1>2. QED
  BY <1>1, TypeCorrect, SchedulesConsistent, PTL DEF Spec, StoresAgree, DeletedStaysQuiet

-----------------------------------------------------------------------------
(* Deletions that are cut off.                                             *)

\* A schedule that still fires after somebody has set out to delete it is listed.
CutOffIsListed == begun \cap rules \subseteq records

\* The safety core of DeletionCompletes: wherever a deletion was cut off, its schedule does
\* not fire any more or is found when the deletion is tried again.
THEOREM DeletionCanBeRepeated == Spec => []CutOffIsListed
<1>1. Init => CutOffIsListed
  BY DEF Init, CutOffIsListed
<1>2. TypeOK /\ IInv /\ CutOffIsListed /\ [Next]_vars => CutOffIsListed'
  <2> SUFFICES ASSUME IInv, CutOffIsListed, [Next]_vars
               PROVE  CutOffIsListed'
    OBVIOUS
  <2> USE DEF CutOffIsListed, stores, history, Id
  <2>1. \A r \in Requests : OnCourse(request[r])
    BY DEF IInv
  <2>2. ASSUME NEW r \in Requests, Register(r)
        PROVE  CutOffIsListed'
    BY <2>1, <2>2 DEF Register, Pass, OnCourse, Creating
  <2>3. ASSUME NEW r \in Requests, Erase(r)
        PROVE  CutOffIsListed'
    BY <2>1, <2>3 DEF Erase, Pass, OnCourse
  <2>4. ASSUME NEW r \in Requests, NEW i \in Ids, Draw(r, i) \/ Find(r, i)
        PROVE  CutOffIsListed'
    BY <2>4 DEF Draw, Find
  <2>5. ASSUME NEW r \in Requests,
               PutRecord(r) \/ AnswerCreated(r) \/ Unregister(r) \/ AnswerDeleted(r) \/ Abort(r)
        PROVE  CutOffIsListed'
    BY <2>5 DEF PutRecord, AnswerCreated, Unregister, AnswerDeleted, Abort
  <2>6. ASSUME NEW i \in Ids, Fire(i) \/ Trigger(i)
        PROVE  CutOffIsListed'
    BY <2>6 DEF Fire, Trigger
  <2>7. CASE UNCHANGED vars
    BY <2>7 DEF vars
  <2>8. QED
    BY <2>2, <2>3, <2>4, <2>5, <2>6, <2>7 DEF Next, Create, Delete
<1>3. QED
  BY <1>1, <1>2, TypeCorrect, SchedulesInvariant, PTL DEF Spec

\* What a deletion has taken from a store does not come back to it.
OnlyTakenAway(i) ==
    (i \notin rules => i \notin rules') /\ (i \notin records => i \notin records')
DeletionsTakeAway == [][\A i \in begun : OnlyTakenAway(i)]_vars

\* No creation, however slow, and no other deletion undoes what a deletion has done so far,
\* answered or cut off.
THEOREM NothingComesBack == Spec => DeletionsTakeAway
<1>1. IInv /\ [Next]_vars => [\A i \in begun : OnlyTakenAway(i)]_vars
  <2> SUFFICES ASSUME IInv, Next, NEW i \in begun
               PROVE  OnlyTakenAway(i)
    OBVIOUS
  <2> USE DEF stores, Id, OnlyTakenAway
  <2>1. \A r \in Requests : request[r].at \in {"register", "record"} => request[r].id # i
    BY DEF IInv, OnCourse, Creating
  <2>2. ASSUME NEW r \in Requests, Register(r) \/ PutRecord(r)
        PROVE  OnlyTakenAway(i)
    BY <2>1, <2>2 DEF Register, PutRecord, Pass
  <2>3. ASSUME NEW r \in Requests, ~Register(r) /\ ~PutRecord(r),
               Create(r) \/ Delete(r) \/ Abort(r)
        PROVE  OnlyTakenAway(i)
    BY <2>3 DEF Create, Delete, Draw, AnswerCreated, Find, Unregister, Erase, AnswerDeleted,
                Abort
  <2>4. ASSUME NEW j \in Ids, Fire(j) \/ Trigger(j)
        PROVE  OnlyTakenAway(i)
    BY <2>4 DEF Fire, Trigger
  <2>5. QED
    BY <2>2, <2>3, <2>4 DEF Next
<1>2. QED
  BY <1>1, SchedulesInvariant, PTL DEF Spec, DeletionsTakeAway
=============================================================================
