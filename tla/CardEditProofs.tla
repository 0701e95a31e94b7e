--------------------------- MODULE CardEditProofs ---------------------------
(* Theorems about CardEdit: its types, and that the version number implements *)
(* EditConflict, for any number of requests in flight.                       *)
EXTENDS CardEdit, TLAPS

USE DEF Become, Finish, Goto

\* An edit under way carries a version that the row has had.
VersionKnown ==
    /\ card.state = "none" => card.version = 0
    /\ \A r \in Reqs : Pending(r) => card.state # "none" /\ req[r].version <= card.version

Inv == TypeOK /\ VersionKnown

LEMMA PlanFacts == None \notin Nat /\ None \in Plans /\ Instants \subseteq Nat
  BY CardAssumption DEF Plans, Instants

LEMMA IdleType == Idle \in Request
  BY PlanFacts DEF Idle, Request, Stages

LEMMA JobType ==
  ASSUME NEW s \in {"none", "delayed", "active", "failed"}, NEW a \in Plans
  PROVE  [state |-> s, at |-> a] \in Job
  BY DEF Job

LEMMA EditType ==
  ASSUME NEW c \in Card, NEW p \in Plans
  PROVE  [c EXCEPT !.version = @ + 1, !.remindAt = p] \in Card
<1>1. c.version + 1 \in Nat
  BY DEF Card
<1> QED
  BY <1>1 DEF Card

LEMMA TypeInit == Init => TypeOK
<1> SUFFICES ASSUME Init PROVE TypeOK
  OBVIOUS
<1>1. job = [state |-> "none", at |-> None] /\ job \in Job
  BY PlanFacts, JobType DEF Init, NoJob
<1>2. card \in Card
  BY PlanFacts DEF Init, Card
<1>3. req \in [Reqs -> Request] /\ now \in 0..MaxTime
  BY IdleType, CardAssumption DEF Init
<1>4. undone \in BOOLEAN
  BY DEF Init
<1> QED
  BY <1>1, <1>2, <1>3, <1>4 DEF TypeOK

\* A step of one request that gives it a well-typed record.
LEMMA SlotStep ==
  ASSUME TypeOK, NEW r \in Reqs, NEW rec \in Request, req' = [req EXCEPT ![r] = rec]
  PROVE  req' \in [Reqs -> Request]
  BY DEF TypeOK

LEMMA StageType ==
  ASSUME TypeOK, NEW r \in Reqs, NEW stage \in Stages
  PROVE  [req[r] EXCEPT !.at = stage] \in Request
  BY DEF TypeOK, Request

LEMMA TypeStep == TypeOK /\ [Next]_vars => TypeOK'
<1> SUFFICES ASSUME TypeOK, [Next]_vars PROVE TypeOK'
  OBVIOUS
<1> USE PlanFacts
<1>1. ASSUME NEW r \in Reqs, Create(r) PROVE TypeOK'
  <2>1. PICK p \in Plans :
          /\ card' = [state |-> "live", version |-> 0, remindAt |-> p]
          /\ req' = [req EXCEPT ![r] =
               [op |-> "create", at |-> "getJob", version |-> 0, remindAt |-> p]]
    BY <1>1 DEF Create
  <2>2. card' \in Card
    BY <2>1 DEF Card
  <2>3. [op |-> "create", at |-> "getJob", version |-> 0, remindAt |-> p] \in Request
    BY DEF Request, Stages
  <2>4. req' \in [Reqs -> Request]
    BY <2>1, <2>3, SlotStep
  <2> QED
    BY <1>1, <2>2, <2>4 DEF Create, Written, TypeOK
<1>2. ASSUME NEW r \in Reqs, ArriveUpdate(r) PROVE TypeOK'
  <2>1. PICK v \in 0..card.version, p \in Plans :
          req' = [req EXCEPT ![r] =
            [op |-> "update", at |-> "check", version |-> v, remindAt |-> p]]
    BY <1>2 DEF ArriveUpdate
  <2>2. [op |-> "update", at |-> "check", version |-> v, remindAt |-> p] \in Request
    BY DEF Request, Stages
  <2>3. req' \in [Reqs -> Request]
    BY <2>1, <2>2, SlotStep
  <2> QED
    BY <1>2, <2>3 DEF ArriveUpdate, TypeOK
<1>3. ASSUME NEW r \in Reqs, ArriveRemove(r) PROVE TypeOK'
  <2>1. [op |-> "remove", at |-> "check", version |-> 0, remindAt |-> None] \in Request
    BY DEF Request, Stages
  <2>2. req' \in [Reqs -> Request]
    BY <1>3, <2>1, SlotStep DEF ArriveRemove
  <2> QED
    BY <1>3, <2>2 DEF ArriveRemove, TypeOK
<1>4. ASSUME NEW r \in Reqs, Check(r) PROVE TypeOK'
  <2>1. [req[r] EXCEPT !.at = "write"] \in Request
    BY StageType DEF Stages
  <2>2. req' \in [Reqs -> Request]
    BY <1>4, <2>1, IdleType, SlotStep DEF Check
  <2> QED
    BY <1>4, <2>2 DEF Check, TypeOK
<1>5. ASSUME NEW r \in Reqs, UpdateWrite(r) PROVE TypeOK'
  <2>1. [req[r] EXCEPT !.at = "getJob"] \in Request
    BY StageType DEF Stages
  <2>2. req' \in [Reqs -> Request]
    BY <1>5, <2>1, IdleType, SlotStep DEF UpdateWrite
  <2>3. req[r].remindAt \in Plans
    BY DEF TypeOK, Request
  <2>4. card' \in Card
    <3>1. CASE card' = card
      BY <3>1 DEF TypeOK
    <3>2. CASE card' = [card EXCEPT !.version = @ + 1, !.remindAt = req[r].remindAt]
      BY <2>3, <3>2, EditType DEF TypeOK
    <3> QED
      BY <1>5, <3>1, <3>2 DEF UpdateWrite
  <2> QED
    BY <1>5, <2>2, <2>4 DEF UpdateWrite, Written, TypeOK
<1>6. ASSUME NEW r \in Reqs, RemoveWrite(r) PROVE TypeOK'
  <2>1. [req[r] EXCEPT !.at = "getJob", !.remindAt = None] \in Request
    BY DEF TypeOK, Request, Stages
  <2>2. req' \in [Reqs -> Request]
    BY <1>6, <2>1, IdleType, SlotStep DEF RemoveWrite
  <2>3. card' \in Card
    BY <1>6 DEF RemoveWrite, TypeOK, Card
  <2> QED
    BY <1>6, <2>2, <2>3 DEF RemoveWrite, Written, TypeOK
<1>7. ASSUME NEW r \in Reqs, GetJob(r) PROVE TypeOK'
  <2>1. /\ [req[r] EXCEPT !.at = "removeJob"] \in Request
        /\ [req[r] EXCEPT !.at = "addJob"] \in Request
    BY StageType DEF Stages
  <2>2. req' \in [Reqs -> Request]
    BY <1>7, <2>1, SlotStep DEF GetJob
  <2> QED
    BY <1>7, <2>2 DEF GetJob, TypeOK
<1>8. ASSUME NEW r \in Reqs, RemoveJob(r) PROVE TypeOK'
  <2>1. [req[r] EXCEPT !.at = "addJob"] \in Request
    BY StageType DEF Stages
  <2>2. req' \in [Reqs -> Request]
    BY <1>8, <2>1, IdleType, SlotStep DEF RemoveJob
  <2>3. NoJob \in Job /\ NoJob.state = "none" /\ NoJob.at = None
    BY JobType DEF NoJob
  <2>4. (job' = job \/ job' = NoJob) /\ undone' \in BOOLEAN /\ UNCHANGED <<card, now>>
    BY <1>8 DEF RemoveJob, TypeOK
  <2> QED
    BY <2>2, <2>3, <2>4 DEF TypeOK
<1>9. ASSUME NEW r \in Reqs, AddJob(r) PROVE TypeOK'
  <2> DEFINE p == req[r].remindAt
  <2>1. req' \in [Reqs -> Request]
    BY <1>9, IdleType, SlotStep DEF AddJob
  <2>2. p \in Plans
    BY DEF TypeOK, Request
  <2>3. job' = job \/ (job' = [state |-> "delayed", at |-> p] /\ p # None)
    BY <1>9 DEF AddJob, Wanted
  <2>4. [state |-> "delayed", at |-> p] \in Job
    BY <2>2, JobType
  <2> QED
    BY <1>9, <2>1, <2>3, <2>4 DEF AddJob, TypeOK
<1>10. ASSUME NEW r \in Reqs, Abort(r) PROVE TypeOK'
  <2>1. req' \in [Reqs -> Request]
    BY <1>10, IdleType, SlotStep DEF Abort
  <2> QED
    BY <1>10, <2>1 DEF Abort, TypeOK
<1>11. ASSUME NEW s \in {"delayed", "active", "failed"}, job.state # "none",
              job' = [job EXCEPT !.state = s], UNCHANGED <<card, now, req, undone>>
       PROVE  TypeOK'
  BY <1>11 DEF TypeOK, Job
<1>12. CASE WorkerTake
  BY <1>11, <1>12 DEF WorkerTake
<1>13. CASE WorkerFinish
  <2>1. CASE job' = NoJob
    BY <1>13, <2>1, JobType DEF WorkerFinish, NoJob, TypeOK
  <2>2. CASE \E s \in {"delayed", "failed"} : job' = [job EXCEPT !.state = s]
    BY <1>11, <1>13, <2>2 DEF WorkerFinish
  <2> QED
    BY <1>13, <2>1, <2>2 DEF WorkerFinish
<1>14. CASE Tick
  BY <1>14, CardAssumption DEF Tick, TypeOK
<1>15. CASE UNCHANGED vars
  BY <1>15 DEF vars, TypeOK
<1> QED
  BY <1>1, <1>2, <1>3, <1>4, <1>5, <1>6, <1>7, <1>8, <1>9, <1>10, <1>12, <1>13,
     <1>14, <1>15 DEF Next

----------------------------------------------------------------------------
(* The refinement                                                            *)

\* A step that changes the request in one slot, and not the row, leaves the
\* other edits on the basis they have.
LEMMA SlotBasis ==
  ASSUME TypeOK, NEW r \in Reqs, NEW rec, req' = [req EXCEPT ![r] = rec],
         UNCHANGED card
  PROVE  /\ req'[r] = rec
         /\ \A q \in Reqs \ {r} : req'[q] = req[q] /\ Basis'[q] = Basis[q]
         /\ \A b : Basis'[r] = b => Basis' = [Basis EXCEPT ![r] = b]
<1>1. req'[r] = rec /\ \A q \in Reqs \ {r} : req'[q] = req[q]
  BY DEF TypeOK
<1>2. \A q \in Reqs \ {r} : Basis'[q] = Basis[q]
  BY <1>1 DEF Basis, Pending
<1>3. Basis = [q \in Reqs |-> Basis[q]] /\ Basis' = [q \in Reqs |-> Basis'[q]]
  BY DEF Basis
<1> QED
  BY <1>1, <1>2, <1>3

LEMMA BasisValues ==
  \A r \in Reqs : /\ Basis[r] \in {"none", "latest", "old"}
                  /\ Basis[r] = "none" <=> ~Pending(r)
  BY DEF Basis

\* A request that is answered, or goes on after its write or without one.
LEMMA LeavesBasis ==
  ASSUME Inv, NEW r \in Reqs, NEW rec, req' = [req EXCEPT ![r] = rec],
         UNCHANGED card, ~(rec.op = "update" /\ rec.at \in {"check", "write"})
  PROVE  VersionKnown' /\ [Conflict!Next]_(Conflict!vars)
<1>1. /\ req'[r] = rec
      /\ \A q \in Reqs \ {r} : req'[q] = req[q]
      /\ \A b : Basis'[r] = b => Basis' = [Basis EXCEPT ![r] = b]
  BY SlotBasis DEF Inv
<1>2. ~Pending(r)' /\ Basis'[r] = "none"
  BY <1>1 DEF Pending, Basis
<1>3. VersionKnown'
  BY <1>1, <1>2 DEF Inv, VersionKnown, Pending
<1>4. Basis' = [Basis EXCEPT ![r] = "none"]
  BY <1>1, <1>2
<1>5. CASE Basis[r] = "none"
  BY <1>3, <1>4, <1>5 DEF Basis, Conflict!vars
<1>6. CASE Basis[r] # "none"
  BY <1>3, <1>4, <1>6 DEF Conflict!Next, Conflict!Refuse
<1> QED
  BY <1>3, <1>5, <1>6

LEMMA RefineStep ==
  ASSUME Inv, [Next]_vars
  PROVE  VersionKnown' /\ [Conflict!Next]_(Conflict!vars)
<1>1. ASSUME UNCHANGED <<card, req>>
      PROVE  VersionKnown' /\ [Conflict!Next]_(Conflict!vars)
  BY <1>1 DEF Inv, VersionKnown, Pending, Basis, Conflict!vars
<1>2. ASSUME NEW r \in Reqs, Create(r) PROVE VersionKnown' /\ [Conflict!Next]_(Conflict!vars)
  <2>1. PICK p \in Plans :
          req' = [req EXCEPT ![r] =
               [op |-> "create", at |-> "getJob", version |-> 0, remindAt |-> p]]
    BY <1>2 DEF Create
  <2>2. \A q \in Reqs : ~Pending(q)
    BY <1>2 DEF Create, Inv, VersionKnown
  <2>3. \A q \in Reqs : ~Pending(q)'
    BY <2>1, <2>2 DEF Pending, Inv, TypeOK
  <2>4. Basis' = Basis
    BY <2>2, <2>3 DEF Basis
  <2>5. card'.state = "live" /\ card'.version = 0 /\ card.version = 0
    BY <1>2 DEF Create, Inv, VersionKnown
  <2> QED
    BY <2>3, <2>4, <2>5 DEF VersionKnown, Conflict!vars
<1>3. ASSUME NEW r \in Reqs, ArriveUpdate(r)
      PROVE  VersionKnown' /\ [Conflict!Next]_(Conflict!vars)
  <2>1. PICK v \in 0..card.version, p \in Plans :
          req' = [req EXCEPT ![r] =
            [op |-> "update", at |-> "check", version |-> v, remindAt |-> p]]
    BY <1>3 DEF ArriveUpdate
  <2> DEFINE rec == [op |-> "update", at |-> "check", version |-> v, remindAt |-> p]
  <2>2. rec.op = "update" /\ rec.at = "check" /\ rec.version = v
    OBVIOUS
  <2>0. req' = [req EXCEPT ![r] = rec]
    BY <2>1
  <2>3. /\ UNCHANGED card /\ req[r] = Idle /\ card.state # "none"
        /\ card.version \in Nat
    BY <1>3 DEF ArriveUpdate, Free, Inv, TypeOK, Card
  <2> HIDE DEF rec
  <2>4. /\ req'[r] = rec /\ \A q \in Reqs \ {r} : req'[q] = req[q]
        /\ \A b : Basis'[r] = b => Basis' = [Basis EXCEPT ![r] = b]
    BY <2>0, <2>3, SlotBasis DEF Inv
  <2>5. VersionKnown'
    BY <2>2, <2>3, <2>4 DEF Inv, VersionKnown, Pending
  <2>6. Basis[r] = "none"
    BY <2>3 DEF Basis, Pending, Idle
  <2>7. Basis'[r] \in {"latest", "old"}
    BY <2>2, <2>4 DEF Basis, Pending
  <2>8. Conflict!Submit(r)
    BY <2>3, <2>4, <2>6, <2>7 DEF Conflict!Submit
  <2> QED
    BY <2>5, <2>8 DEF Conflict!Next
<1>4. ASSUME NEW r \in Reqs, ArriveRemove(r)
      PROVE  VersionKnown' /\ [Conflict!Next]_(Conflict!vars)
  <2> DEFINE rec == [op |-> "remove", at |-> "check", version |-> 0, remindAt |-> None]
  <2>1. req' = [req EXCEPT ![r] = rec] /\ UNCHANGED card /\ rec.op = "remove"
    BY <1>4 DEF ArriveRemove
  <2> HIDE DEF rec
  <2> QED
    BY <2>1, LeavesBasis
<1>5. ASSUME NEW r \in Reqs, Finish(r), UNCHANGED card
      PROVE  VersionKnown' /\ [Conflict!Next]_(Conflict!vars)
  BY <1>5, LeavesBasis DEF Idle
<1>6. ASSUME NEW r \in Reqs, NEW stage \in {"getJob", "removeJob", "addJob"},
             Goto(r, stage), UNCHANGED card
      PROVE  VersionKnown' /\ [Conflict!Next]_(Conflict!vars)
  <2>1. [req[r] EXCEPT !.at = stage].at = stage
    BY DEF Inv, TypeOK, Request
  <2> QED
    BY <1>6, <2>1, LeavesBasis
<1>7. ASSUME NEW r \in Reqs, Check(r) PROVE VersionKnown' /\ [Conflict!Next]_(Conflict!vars)
  <2> DEFINE rec == [req[r] EXCEPT !.at = "write"]
  <2>1. rec.op = req[r].op /\ rec.version = req[r].version /\ rec.at = "write"
    BY DEF Inv, TypeOK, Request
  <2>2. req[r].at = "check" /\ UNCHANGED card
    BY <1>7 DEF Check
  <2> HIDE DEF rec
  <2>3. CASE req' = [req EXCEPT ![r] = rec]
    <3>1. /\ req'[r] = rec /\ \A q \in Reqs \ {r} : req'[q] = req[q]
          /\ \A b : Basis'[r] = b => Basis' = [Basis EXCEPT ![r] = b]
      BY <2>2, <2>3, SlotBasis DEF Inv
    <3>2. Basis'[r] = Basis[r] /\ (Pending(r)' <=> Pending(r))
      BY <2>1, <2>2, <3>1 DEF Basis, Pending
    <3>3. Basis' = Basis
      BY <3>1, <3>2 DEF Basis
    <3>4. VersionKnown'
      BY <2>1, <2>2, <3>1, <3>2 DEF Inv, VersionKnown, Pending
    <3> QED
      BY <2>2, <3>3, <3>4 DEF Conflict!vars
  <2>4. CASE Finish(r)
    BY <1>5, <2>2, <2>4
  <2> QED
    BY <1>7, <2>3, <2>4 DEF Check, rec
<1>8. ASSUME NEW r \in Reqs, UpdateWrite(r)
      PROVE  VersionKnown' /\ [Conflict!Next]_(Conflict!vars)
  <2>1. CASE Matches(req[r].version)
    <3> DEFINE rec == [req[r] EXCEPT !.at = "getJob"]
    <3>1. rec.at = "getJob" /\ req' = [req EXCEPT ![r] = rec]
      BY <1>8, <2>1 DEF UpdateWrite, Inv, TypeOK, Request
    <3> HIDE DEF rec
    <3>2. req'[r] = rec /\ \A q \in Reqs \ {r} : req'[q] = req[q]
      BY <3>1 DEF Inv, TypeOK
    <3>3. card' = [card EXCEPT !.version = @ + 1, !.remindAt = req[r].remindAt]
      BY <1>8, <2>1 DEF UpdateWrite
    <3>4. card.version \in Nat /\ card'.version = card.version + 1
          /\ card'.state = card.state /\ card.state = "live"
      BY <2>1, <3>3 DEF Inv, TypeOK, Card, Matches
    <3>5. \A q \in Reqs : req[q].version \in Nat
      BY DEF Inv, TypeOK, Request
    <3>6. /\ Pending(r) /\ ~Pending(r)'
          /\ \A q \in Reqs \ {r} : Pending(q)' <=> Pending(q)
      BY <1>8, <3>1, <3>2 DEF UpdateWrite, At, Pending
    <3>7. VersionKnown'
      BY <3>2, <3>4, <3>5, <3>6 DEF Inv, VersionKnown
    <3>8. Basis[r] = "latest" /\ Basis'[r] = "none"
      BY <2>1, <3>6 DEF Basis, Matches
    <3>9. ASSUME NEW q \in Reqs \ {r}
          PROVE  Basis'[q] = IF Basis[q] = "latest" THEN "old" ELSE Basis[q]
      <4>1. Pending(q) => req[q].version <= card.version
        BY DEF Inv, VersionKnown
      <4>2. Pending(q) => req'[q].version # card'.version
        BY <3>2, <3>4, <3>5, <4>1
      <4> QED
        BY <3>6, <4>2 DEF Basis
    <3>10. Basis' = [d \in Reqs |-> IF d = r THEN "none"
                                   ELSE IF Basis[d] = "latest" THEN "old" ELSE Basis[d]]
      BY <3>8, <3>9 DEF Basis
    <3>11. Conflict!Accept(r)
      BY <3>4, <3>8, <3>10 DEF Conflict!Accept, Conflict!Outdated
    <3> QED
      BY <3>7, <3>11 DEF Conflict!Next
  <2>2. CASE ~Matches(req[r].version)
    <3>1. Finish(r) /\ UNCHANGED card
      BY <1>8, <2>2 DEF UpdateWrite
    <3> QED
      BY <1>5, <3>1
  <2> QED
    BY <2>1, <2>2
<1>9. ASSUME NEW r \in Reqs, RemoveWrite(r)
      PROVE  VersionKnown' /\ [Conflict!Next]_(Conflict!vars)
  <2>1. CASE card.state = "live"
    <3> DEFINE rec == [req[r] EXCEPT !.at = "getJob", !.remindAt = None]
    <3>1. rec.at = "getJob" /\ req' = [req EXCEPT ![r] = rec]
      BY <1>9, <2>1 DEF RemoveWrite, Inv, TypeOK, Request
    <3> HIDE DEF rec
    <3>2. req'[r] = rec /\ \A q \in Reqs \ {r} : req'[q] = req[q]
      BY <3>1 DEF Inv, TypeOK
    <3>3. card'.state = "deleted" /\ card'.version = card.version
      BY <1>9, <2>1 DEF RemoveWrite, Inv, TypeOK, Card
    <3>4. \A q \in Reqs : Pending(q)' <=> Pending(q)
      BY <1>9, <3>1, <3>2 DEF RemoveWrite, At, Pending
    <3>5. VersionKnown'
      BY <1>9, <3>2, <3>3, <3>4 DEF Inv, VersionKnown, RemoveWrite, At, Pending
    <3>6. Basis' = [e \in Reqs |-> IF Basis[e] = "latest" THEN "old" ELSE Basis[e]]
      BY <3>3, <3>4 DEF Basis
    <3>7. Conflict!Delete
      BY <3>3, <3>6 DEF Conflict!Delete, Conflict!Outdated
    <3> QED
      BY <3>5, <3>7 DEF Conflict!Next
  <2>2. CASE card.state # "live"
    <3>1. Finish(r) /\ UNCHANGED card
      BY <1>9, <2>2 DEF RemoveWrite
    <3> QED
      BY <1>5, <3>1
  <2> QED
    BY <2>1, <2>2
<1>10. ASSUME NEW r \in Reqs, GetJob(r) \/ RemoveJob(r)
       PROVE  VersionKnown' /\ [Conflict!Next]_(Conflict!vars)
  <2>1. /\ UNCHANGED card
        /\ Finish(r) \/ \E stage \in {"removeJob", "addJob"} : Goto(r, stage)
    BY <1>10 DEF GetJob, RemoveJob
  <2> QED
    BY <1>5, <1>6, <2>1
<1>11. ASSUME NEW r \in Reqs, AddJob(r) \/ Abort(r)
       PROVE  VersionKnown' /\ [Conflict!Next]_(Conflict!vars)
  <2>1. UNCHANGED card /\ Finish(r)
    BY <1>11 DEF AddJob, Abort
  <2> QED
    BY <1>5, <2>1
<1>12. CASE WorkerTake \/ WorkerFinish \/ Tick \/ UNCHANGED vars
  BY <1>1, <1>12 DEF WorkerTake, WorkerFinish, Tick, vars
<1> QED
  BY <1>2, <1>3, <1>4, <1>7, <1>8, <1>9, <1>10, <1>11, <1>12 DEF Inv, Next

----------------------------------------------------------------------------
(* The reminder                                                              *)

\* Why the queue follows the card: unless `undone`, at most one scheduling is
\* under way, it carries the plan of the row, and it finds the queue empty when
\* it comes to add.  Only a job that is due is ever active.
ReminderInv ==
    /\ job.state = "active" => job.at <= now
    /\ ~undone =>
         /\ \A q, r \in Reqs : Scheduling(q) /\ Scheduling(r) => q = r
         /\ Quiet => \A t \in Instants : t > now => (Queued(t) <=> Asked(t))
         /\ \A r \in Reqs : Scheduling(r) =>
              /\ \A t \in Instants : req[r].remindAt = t <=> Asked(t)
              /\ req[r].at = "addJob" => job = NoJob

\* A write that is followed by a scheduling of the plan it has just stored.
LEMMA WriteSchedules ==
  ASSUME TypeOK, ReminderInv, NEW r \in Reqs, ~Scheduling(r), NEW rec,
         req' = [req EXCEPT ![r] = rec], rec.at = "getJob", Written,
         UNCHANGED <<job, now>>,
         \A t \in Instants : rec.remindAt = t <=> Asked(t)'
  PROVE  ReminderInv'
<1>1. req'[r] = rec /\ \A q \in Reqs \ {r} : req'[q] = req[q]
  BY DEF TypeOK
<1>2. Scheduling(r)' /\ \A q \in Reqs \ {r} : Scheduling(q)' <=> Scheduling(q)
  BY <1>1 DEF Scheduling
<1>3. ~undone' => \A q \in Reqs : ~Scheduling(q)
  BY DEF Written
<1>4. ASSUME ~undone' PROVE \A q \in Reqs : Scheduling(q)' => q = r
  BY <1>2, <1>3, <1>4
<1>5. ~Quiet'
  BY <1>2 DEF Quiet
<1>6. \A t \in Instants : req'[r].remindAt = t <=> Asked(t)'
  BY <1>1
<1>7. req'[r].at = "getJob"
  BY <1>1
<1> QED
  BY <1>4, <1>5, <1>6, <1>7 DEF ReminderInv

\* A step outside the schedulings, which leaves row and queue alone.
LEMMA ElsewhereKeepsReminder ==
  ASSUME TypeOK, ReminderInv, NEW r \in Reqs, NEW rec, req' = [req EXCEPT ![r] = rec],
         ~Scheduling(r), rec.at \notin {"getJob", "removeJob", "addJob"},
         UNCHANGED <<card, job, now, undone>>
  PROVE  ReminderInv'
<1>1. req'[r] = rec /\ \A q \in Reqs \ {r} : req'[q] = req[q]
  BY DEF TypeOK
<1>2. \A q \in Reqs : Scheduling(q)' <=> Scheduling(q)
  BY <1>1 DEF Scheduling
<1>3. \A q \in Reqs : Scheduling(q) => req'[q] = req[q]
  BY <1>1
<1>4. Quiet' <=> Quiet
  BY <1>2 DEF Quiet
<1>5. \A t \in Instants : (Queued(t)' <=> Queued(t)) /\ (Asked(t)' <=> Asked(t))
  BY DEF Queued, Asked
<1> QED
  BY <1>2, <1>3, <1>4, <1>5 DEF ReminderInv

\* A step of the worker that leaves alone the jobs that are still to come.
LEMMA WorkerKeepsReminder ==
  ASSUME TypeOK, ReminderInv, UNCHANGED <<card, now, req, undone>>,
         job.state # "none", job'.state = "active" => job'.at <= now,
         \A t \in Instants : t > now => (Queued(t)' <=> Queued(t))
  PROVE  ReminderInv'
<1>1. Quiet' <=> Quiet
  BY DEF Quiet, Scheduling
<1>2. \A t \in Instants : Asked(t)' <=> Asked(t)
  BY DEF Asked
<1>3. job # NoJob
  BY DEF NoJob
<1> QED
  BY <1>1, <1>2, <1>3 DEF ReminderInv, Scheduling

LEMMA ReminderStep ==
  ASSUME TypeOK, ReminderInv, [Next]_vars
  PROVE  ReminderInv'
<1>1. ASSUME NEW r \in Reqs, Create(r) PROVE ReminderInv'
  <2>1. PICK p \in Plans :
          /\ card' = [state |-> "live", version |-> 0, remindAt |-> p]
          /\ req' = [req EXCEPT ![r] =
               [op |-> "create", at |-> "getJob", version |-> 0, remindAt |-> p]]
    BY <1>1 DEF Create
  <2>2. \A t \in Instants : p = t <=> Asked(t)'
    BY <2>1 DEF Asked
  <2>3. ~Scheduling(r)
    BY <1>1 DEF Create, Free, Scheduling, Idle
  <2>4. Written /\ UNCHANGED <<job, now>>
    BY <1>1 DEF Create
  <2> DEFINE rec == [op |-> "create", at |-> "getJob", version |-> 0, remindAt |-> p]
  <2>5. rec.at = "getJob" /\ rec.remindAt = p /\ req' = [req EXCEPT ![r] = rec]
    BY <2>1
  <2> HIDE DEF rec
  <2> QED
    BY <2>2, <2>3, <2>4, <2>5, WriteSchedules
<1>2. ASSUME NEW r \in Reqs, Finish(r), ~Scheduling(r), UNCHANGED <<card, job, now, undone>>
      PROVE  ReminderInv'
  BY <1>2, ElsewhereKeepsReminder DEF Idle
<1>3. ASSUME NEW r \in Reqs, ArriveUpdate(r) \/ ArriveRemove(r) \/ Check(r)
      PROVE  ReminderInv'
  <2>1. ~Scheduling(r) /\ UNCHANGED <<card, job, now, undone>>
    BY <1>3 DEF ArriveUpdate, ArriveRemove, Check, Free, Scheduling, Idle
  <2>2. \E rec : req' = [req EXCEPT ![r] = rec] /\ rec.at \in {"idle", "check", "write"}
    <3>1. CASE ArriveUpdate(r)
      <4>1. PICK v \in 0..card.version, p \in Plans : req' = [req EXCEPT ![r] =
               [op |-> "update", at |-> "check", version |-> v, remindAt |-> p]]
        BY <3>1 DEF ArriveUpdate
      <4>2. [op |-> "update", at |-> "check", version |-> v, remindAt |-> p].at = "check"
        OBVIOUS
      <4> QED
        BY <4>1, <4>2
    <3>2. CASE ArriveRemove(r)
      <4>1. [op |-> "remove", at |-> "check", version |-> 0, remindAt |-> None].at = "check"
        OBVIOUS
      <4> QED
        BY <3>2, <4>1 DEF ArriveRemove
    <3>3. CASE Check(r)
      <4>1. [req[r] EXCEPT !.at = "write"].at = "write" /\ Idle.at = "idle"
        BY DEF TypeOK, Request, Idle
      <4> QED
        BY <3>3, <4>1 DEF Check
    <3> QED
      BY <1>3, <3>1, <3>2, <3>3
  <2> QED
    BY <2>1, <2>2, ElsewhereKeepsReminder
<1>4. ASSUME NEW r \in Reqs, UpdateWrite(r) PROVE ReminderInv'
  <2>1. ~Scheduling(r)
    BY <1>4 DEF UpdateWrite, At, Scheduling
  <2>2. CASE Matches(req[r].version)
    <3> DEFINE rec == [req[r] EXCEPT !.at = "getJob"]
    <3>1. /\ rec.at = "getJob" /\ rec.remindAt = req[r].remindAt
          /\ req' = [req EXCEPT ![r] = rec]
      BY <1>4, <2>2 DEF UpdateWrite, TypeOK, Request
    <3>2. card'.state = "live" /\ card'.remindAt = req[r].remindAt
      BY <1>4, <2>2 DEF UpdateWrite, Matches, TypeOK, Card
    <3>3. Written /\ UNCHANGED <<job, now>>
      BY <1>4, <2>2 DEF UpdateWrite
    <3> HIDE DEF rec
    <3>4. \A t \in Instants : rec.remindAt = t <=> Asked(t)'
      BY <3>1, <3>2 DEF Asked
    <3> QED
      BY <2>1, <3>1, <3>3, <3>4, WriteSchedules
  <2>3. CASE ~Matches(req[r].version)
    BY <1>2, <1>4, <2>1, <2>3 DEF UpdateWrite
  <2> QED
    BY <2>2, <2>3
<1>5. ASSUME NEW r \in Reqs, RemoveWrite(r) PROVE ReminderInv'
  <2>1. ~Scheduling(r)
    BY <1>5 DEF RemoveWrite, At, Scheduling
  <2>2. CASE card.state = "live"
    <3> DEFINE rec == [req[r] EXCEPT !.at = "getJob", !.remindAt = None]
    <3>1. /\ rec.at = "getJob" /\ rec.remindAt = None
          /\ req' = [req EXCEPT ![r] = rec]
      BY <1>5, <2>2 DEF RemoveWrite, TypeOK, Request
    <3>2. card'.state = "deleted"
      BY <1>5, <2>2 DEF RemoveWrite, TypeOK, Card
    <3>3. Written /\ UNCHANGED <<job, now>>
      BY <1>5, <2>2 DEF RemoveWrite
    <3> HIDE DEF rec
    <3>4. \A t \in Instants : rec.remindAt = t <=> Asked(t)'
      BY <3>1, <3>2, PlanFacts DEF Asked
    <3> QED
      BY <2>1, <3>1, <3>3, <3>4, WriteSchedules
  <2>3. CASE card.state # "live"
    BY <1>2, <1>5, <2>1, <2>3 DEF RemoveWrite
  <2> QED
    BY <2>2, <2>3
<1>6. ASSUME NEW r \in Reqs, GetJob(r) PROVE ReminderInv'
  <2>1. Scheduling(r) /\ UNCHANGED <<card, job, now, undone>>
    BY <1>6 DEF GetJob, Scheduling
  <2> DEFINE stage == IF job # NoJob THEN "removeJob" ELSE "addJob"
             rec == [req[r] EXCEPT !.at = stage]
  <2>2. /\ req' = [req EXCEPT ![r] = rec] /\ rec.at = stage
        /\ rec.remindAt = req[r].remindAt
    BY <1>6 DEF GetJob, TypeOK, Request
  <2> HIDE DEF rec
  <2>3. req'[r] = rec /\ \A q \in Reqs \ {r} : req'[q] = req[q]
    BY <2>2 DEF TypeOK
  <2>4. \A q \in Reqs : Scheduling(q)' <=> Scheduling(q)
    BY <2>1, <2>2, <2>3 DEF Scheduling
  <2>5. ~Quiet'
    BY <2>1, <2>4 DEF Quiet
  <2>6. \A t \in Instants : Asked(t)' <=> Asked(t)
    BY <2>1 DEF Asked
  <2>7. rec.at = "addJob" => job' = NoJob
    BY <2>1, <2>2
  <2>8. \A q \in Reqs : req'[q].remindAt = req[q].remindAt
    BY <2>2, <2>3
  <2>9. \A q \in Reqs \ {r} : req'[q].at = req[q].at
    BY <2>3
  <2> QED
    BY <2>1, <2>3, <2>4, <2>5, <2>6, <2>7, <2>8, <2>9 DEF ReminderInv
<1>7. ASSUME NEW r \in Reqs, RemoveJob(r) PROVE ReminderInv'
  <2>1. CASE job.state = "active"
    BY <1>7, <2>1 DEF RemoveJob, ReminderInv
  <2>2. CASE job.state # "active"
    <3> DEFINE rec == [req[r] EXCEPT !.at = "addJob"]
    <3>1. /\ req' = [req EXCEPT ![r] = rec] /\ rec.at = "addJob"
          /\ rec.remindAt = req[r].remindAt
      BY <1>7, <2>2 DEF RemoveJob, TypeOK, Request
    <3> HIDE DEF rec
    <3>2. req'[r] = rec /\ \A q \in Reqs \ {r} : req'[q] = req[q]
      BY <3>1 DEF TypeOK
    <3>3. Scheduling(r) /\ job' = NoJob /\ UNCHANGED <<card, now, undone>>
      BY <1>7, <2>2 DEF RemoveJob, Scheduling
    <3>4. \A q \in Reqs : Scheduling(q)' <=> Scheduling(q)
      BY <3>1, <3>2, <3>3 DEF Scheduling
    <3>5. ~Quiet'
      BY <3>3, <3>4 DEF Quiet
    <3>6. \A t \in Instants : Asked(t)' <=> Asked(t)
      BY <3>3 DEF Asked
    <3>7. \A q \in Reqs : req'[q].remindAt = req[q].remindAt
      BY <3>1, <3>2
    <3>8. job'.state # "active"
      BY <3>3 DEF NoJob
    <3> QED
      BY <3>3, <3>4, <3>5, <3>6, <3>7, <3>8 DEF ReminderInv
  <2> QED
    BY <2>1, <2>2
<1>8. ASSUME NEW r \in Reqs, AddJob(r) PROVE ReminderInv'
  <2> DEFINE p == req[r].remindAt
  <2>1. /\ Scheduling(r) /\ req' = [req EXCEPT ![r] = Idle]
        /\ UNCHANGED <<card, now, undone>>
    BY <1>8 DEF AddJob, Scheduling
  <2>2. \A q \in Reqs : Scheduling(q)' => Scheduling(q) /\ q # r /\ req'[q] = req[q]
    BY <2>1 DEF TypeOK, Scheduling, Idle
  <2>3. job'.state = "active" => job' = job
    BY <1>8 DEF AddJob
  <2>4. \A t \in Instants : Asked(t)' <=> Asked(t)
    BY <2>1 DEF Asked
  <2>5. ASSUME ~undone PROVE \A q \in Reqs : ~Scheduling(q)'
    BY <2>1, <2>2, <2>5 DEF ReminderInv
  <2>6. ASSUME ~undone, NEW t \in Instants, t > now
        PROVE  Queued(t)' <=> Asked(t)'
    <3>1. job = NoJob /\ (p = t <=> Asked(t))
      BY <1>8, <2>1, <2>6 DEF AddJob, ReminderInv
    <3>2. CASE p = t
      BY <1>8, <2>4, <2>6, <3>1, <3>2, PlanFacts DEF AddJob, Wanted, Queued
    <3>3. CASE p # t
      BY <1>8, <2>4, <3>1, <3>3 DEF AddJob, NoJob, Queued
    <3> QED
      BY <3>2, <3>3
  <2> QED
    BY <2>1, <2>3, <2>5, <2>6 DEF ReminderInv
<1>9. ASSUME NEW r \in Reqs, Abort(r) PROVE ReminderInv'
  <2>1. CASE Scheduling(r)
    BY <1>9, <2>1 DEF Abort, ReminderInv
  <2>2. CASE ~Scheduling(r)
    <3>1. undone' = undone
      BY <1>9, <2>2 DEF Abort, TypeOK
    <3> QED
      BY <1>2, <1>9, <2>2, <3>1 DEF Abort
  <2> QED
    BY <2>1, <2>2
<1>10. CASE WorkerTake
  <2>1. /\ job.state = "delayed" /\ job.at <= now
        /\ job'.state = "active" /\ job'.at = job.at
    BY <1>10 DEF WorkerTake, TypeOK, Job
  <2>2. \A t \in Instants : t > now => ~Queued(t) /\ ~Queued(t)'
    BY <2>1, PlanFacts DEF Queued, TypeOK
  <2> QED
    BY <1>10, <2>1, <2>2, WorkerKeepsReminder DEF WorkerTake
<1>11. CASE WorkerFinish
  <2>1. job.state = "active" /\ job.at <= now
    BY <1>11 DEF WorkerFinish, ReminderInv
  <2>2. job'.state # "active" /\ (job' = NoJob \/ job'.at = job.at)
    BY <1>11 DEF WorkerFinish, NoJob, TypeOK, Job
  <2>3. \A t \in Instants : t > now => ~Queued(t) /\ ~Queued(t)'
    BY <2>1, <2>2, PlanFacts DEF Queued, NoJob, TypeOK
  <2> QED
    BY <1>11, <2>1, <2>2, <2>3, WorkerKeepsReminder DEF WorkerFinish
<1>12. CASE Tick
  <2>1. now' = now + 1 /\ now \in Nat /\ UNCHANGED <<card, job, req, undone>>
    BY <1>12, CardAssumption DEF Tick, TypeOK
  <2>2. \A t \in Instants : t > now' => t > now
    BY <2>1, PlanFacts
  <2>3. job.state = "active" => job.at <= now'
    <3>1. job.state = "active" => job.at \in Nat /\ job.at <= now
      BY PlanFacts DEF TypeOK, Job, Plans, ReminderInv
    <3> QED
      BY <2>1, <3>1
  <2> QED
    BY <2>1, <2>2, <2>3 DEF ReminderInv, Quiet, Scheduling, Queued, Asked
<1>13. CASE UNCHANGED vars
  BY <1>13 DEF vars, ReminderInv, Quiet, Scheduling, Queued, Asked
<1> QED
  BY <1>1, <1>3, <1>4, <1>5, <1>6, <1>7, <1>8, <1>9, <1>10, <1>11, <1>12, <1>13 DEF Next

----------------------------------------------------------------------------
(* The theorems                                                              *)

\* Every variable of CardEdit keeps its type, and a queued job its instant.
THEOREM TypeCorrect == Spec => []TypeOK
<1>1. Init => TypeOK
  BY TypeInit
<1>2. TypeOK /\ [Next]_vars => TypeOK'
  BY TypeStep
<1> QED
  BY <1>1, <1>2, PTL DEF Spec

\* updateWithVersion implements EditConflict: for any number of concurrent
\* updates, none is accepted on content that is not the latest.
THEOREM EditsNeverLost == Spec => NoLostUpdate
<1>1. Init => Inv
  BY TypeInit, IdleType DEF Inv, VersionKnown, Init, Pending, Idle
<1>2. Init => Conflict!Init
  BY DEF Init, Conflict!Init, Basis, Pending, Idle
<1>3. Inv /\ [Next]_vars => Inv' /\ [Conflict!Next]_(Conflict!vars)
  BY TypeStep, RefineStep DEF Inv
<1> QED
  BY <1>1, <1>2, <1>3, PTL DEF Spec, NoLostUpdate, Conflict!Spec

\* Outside the races that `undone` records, the reminder in the queue is the
\* one that the card asks for, for any number of requests and any clock.
THEOREM ReminderSafe == Spec => []ReminderFollowsCard
<1>1. Init => ReminderInv
  <2> SUFFICES ASSUME Init PROVE ReminderInv
    OBVIOUS
  <2>1. \A r \in Reqs : ~Scheduling(r)
    BY DEF Init, Scheduling, Idle
  <2>2. \A t \in Instants : ~Queued(t) /\ ~Asked(t)
    BY DEF Init, Queued, Asked, NoJob
  <2>3. job.state # "active"
    BY DEF Init, NoJob
  <2> QED
    BY <2>1, <2>2, <2>3 DEF ReminderInv
<1>2. TypeOK /\ ReminderInv /\ [Next]_vars => ReminderInv'
  BY ReminderStep
<1>3. ReminderInv => ReminderFollowsCard
  BY DEF ReminderInv, ReminderFollowsCard
<1> QED
  BY <1>1, <1>2, <1>3, TypeCorrect, PTL DEF Spec
=============================================================================
