------------------------------ MODULE CardEdit ------------------------------
(***************************************************************************)
(* One card: CardsService.create, update and remove, the optimistic lock   *)
(* on Card.version, and the due-date reminder that each of them schedules  *)
(* in a BullMQ queue after its write, outside any transaction.             *)
(*                                                                         *)
(* The pair (dueDate, reminderOffsetMinutes) is abstracted to the instant  *)
(* when the reminder is to fire, None when one of the two is null.  The    *)
(* content that edits change besides it is not represented: its version    *)
(* stands for it.  BullMQ and its worker are external: a job id names at   *)
(* most one job, add is a no-op while it exists, remove throws while a     *)
(* worker processes the job.                                               *)
(***************************************************************************)
EXTENDS Naturals, FiniteSets

CONSTANTS
    Reqs,        \* slots for requests in flight
    Failures,    \* whether a statement may fail or the process may die
    None,        \* no reminder
    MaxTime,     \* bound on the clock
    MaxVersion   \* bound on Card.version (number of accepted edits)

ASSUME CardAssumption ==
    /\ Failures \in BOOLEAN
    /\ MaxTime \in Nat /\ MaxVersion \in Nat
    /\ None \notin Nat

VARIABLES
    card,    \* the row: [state, version, remindAt]
    job,     \* the job due-reminder-<card>: [state, at]
    now,     \* the clock
    req,     \* the requests in flight, by slot
    undone   \* history: the last scheduling overlapped another one, threw or died

vars == <<card, job, now, req, undone>>

Instants == 1..MaxTime
Plans == Instants \cup {None}

Card == [state: {"none", "live", "deleted"}, version: Nat, remindAt: Plans]

\* "failed": out of attempts, kept by BullMQ.
Job == [state: {"none", "delayed", "active", "failed"}, at: Plans]
NoJob == [state |-> "none", at |-> None]

Stages == {"idle", "check", "write", "getJob", "removeJob", "addJob"}
Request == [op: {"none", "create", "update", "remove"}, at: Stages,
            version: Nat, remindAt: Plans]
Idle == [op |-> "none", at |-> "idle", version |-> 0, remindAt |-> None]

Free(r) == req[r] = Idle
At(r, ops, stage) == req[r].op \in ops /\ req[r].at = stage
Become(r, rec) == req' = [req EXCEPT ![r] = rec]
Finish(r) == Become(r, Idle)
Goto(r, stage) == Become(r, [req[r] EXCEPT !.at = stage])

\* Between the write of a card and the end of scheduleDueReminder.
Scheduling(r) == req[r].at \in {"getJob", "removeJob", "addJob"}

\* A write that goes on to schedule the reminder.
Written == undone' = \E q \in Reqs : Scheduling(q)

\* An edit that has not been accepted or refused; the bound counts them, so
\* that it refuses none that has arrived.
Pending(r) == req[r].op = "update" /\ req[r].at \in {"check", "write"}
RoomForEdit == card.version + Cardinality({r \in Reqs : Pending(r)}) < MaxVersion

----------------------------------------------------------------------------
(* The writes                                                                *)

\* The only card of this module is made once.
Create(r) ==
    /\ Free(r) /\ card.state = "none"
    /\ \E p \in Plans :
         /\ card' = [state |-> "live", version |-> 0, remindAt |-> p]
         /\ Become(r, [op |-> "create", at |-> "getJob", version |-> 0, remindAt |-> p])
    /\ Written
    /\ UNCHANGED <<job, now>>

\* A client sends the version that came with the content it edited, at most
\* the current one.
ArriveUpdate(r) ==
    /\ Free(r) /\ card.state # "none" /\ RoomForEdit
    /\ \E v \in 0..card.version, p \in Plans :
         Become(r, [op |-> "update", at |-> "check", version |-> v, remindAt |-> p])
    /\ UNCHANGED <<card, job, now, undone>>

ArriveRemove(r) ==
    /\ Free(r) /\ card.state # "none"
    /\ Become(r, [op |-> "remove", at |-> "check", version |-> 0, remindAt |-> None])
    /\ UNCHANGED <<card, job, now, undone>>

\* getCardInBoard, then ensureTemplateContentEditable, which may refuse.
Check(r) ==
    /\ req[r].at = "check"
    /\ \/ card.state = "live" /\ Goto(r, "write")
       \/ Finish(r)
    /\ UNCHANGED <<card, job, now, undone>>

\* Mutant: where names the card only.
Matches_AnyVersion(v) == card.state = "live"
\* The where of updateWithVersion.
Matches(v) == card.state = "live" /\ card.version = v

\* One UPDATE: it finds the row by id and version or fails with P2025.  What
\* is scheduled next is taken from the row it returns.
UpdateWrite(r) ==
    /\ At(r, {"update"}, "write")
    /\ IF Matches(req[r].version)
       THEN /\ card' = [card EXCEPT !.version = @ + 1, !.remindAt = req[r].remindAt]
            /\ Goto(r, "getJob") /\ Written
       ELSE Finish(r) /\ UNCHANGED <<card, undone>>
    /\ UNCHANGED <<job, now>>

\* What is scheduled next is no reminder.
RemoveWrite(r) ==
    /\ At(r, {"remove"}, "write")
    /\ IF card.state = "live"
       THEN /\ card' = [card EXCEPT !.state = "deleted"]
            /\ Become(r, [req[r] EXCEPT !.at = "getJob", !.remindAt = None])
            /\ Written
       ELSE Finish(r) /\ UNCHANGED <<card, undone>>
    /\ UNCHANGED <<job, now>>

----------------------------------------------------------------------------
(* scheduleDueReminder.  Its exceptions are caught by the callers and logged. *)

\* Mutant: the existing job is left alone.
GetJob_Keep(r) ==
    /\ req[r].at = "getJob"
    /\ Goto(r, "addJob")
    /\ UNCHANGED <<card, job, now, undone>>

GetJob(r) ==
    /\ req[r].at = "getJob"
    /\ Goto(r, IF job # NoJob THEN "removeJob" ELSE "addJob")
    /\ UNCHANGED <<card, job, now, undone>>

\* existing.remove() names the job by its id, whatever it has become meanwhile.
RemoveJob(r) ==
    /\ req[r].at = "removeJob"
    /\ IF job.state = "active"
       THEN Finish(r) /\ undone' = TRUE /\ UNCHANGED job
       ELSE Goto(r, "addJob") /\ job' = NoJob /\ UNCHANGED undone
    /\ UNCHANGED <<card, now>>

\* Mutant: a null offset does not return early.
Wanted_NullOffset(p) == p = None \/ p > now
\* Neither null nor in the past.
Wanted(p) == p # None /\ p > now

AddJob(r) ==
    /\ req[r].at = "addJob"
    /\ job' = IF Wanted(req[r].remindAt) /\ job = NoJob
              THEN [state |-> "delayed", at |-> req[r].remindAt] ELSE job
    /\ Finish(r)
    /\ UNCHANGED <<card, now, undone>>

----------------------------------------------------------------------------
(* The queue's worker, the clock, and failures                               *)

WorkerTake ==
    /\ job.state = "delayed" /\ job.at <= now
    /\ job' = [job EXCEPT !.state = "active"]
    /\ UNCHANGED <<card, now, req, undone>>

\* DueReminderProcessor.process returns (removeOnComplete), throws and is tried
\* again, or has used its attempts.
WorkerFinish ==
    /\ job.state = "active"
    /\ \/ job' = NoJob
       \/ Failures /\ \E s \in {"delayed", "failed"} : job' = [job EXCEPT !.state = s]
    /\ UNCHANGED <<card, now, req, undone>>

Tick ==
    /\ now < MaxTime
    /\ now' = now + 1
    /\ UNCHANGED <<card, job, req, undone>>

Abort(r) ==
    /\ Failures /\ ~Free(r)
    /\ Finish(r)
    /\ undone' = (undone \/ Scheduling(r))
    /\ UNCHANGED <<card, job, now>>

Init ==
    /\ card = [state |-> "none", version |-> 0, remindAt |-> None]
    /\ job = NoJob /\ now = 0 /\ undone = FALSE
    /\ req = [r \in Reqs |-> Idle]

Next ==
    \/ \E r \in Reqs :
         \/ Create(r) \/ ArriveUpdate(r) \/ ArriveRemove(r) \/ Check(r)
         \/ UpdateWrite(r) \/ RemoveWrite(r)
         \/ GetJob(r) \/ RemoveJob(r) \/ AddJob(r) \/ Abort(r)
    \/ WorkerTake \/ WorkerFinish \/ Tick

Spec == Init /\ [][Next]_vars

----------------------------------------------------------------------------
(* Properties *)

\* Every variable keeps its type; a queued job has an instant to fire at.
TypeOK ==
    /\ card \in Card /\ job \in Job
    /\ job.state = "none" <=> job.at = None
    /\ now \in 0..MaxTime /\ req \in [Reqs -> Request] /\ undone \in BOOLEAN

\* The edits under way, as the clients see them: made on the latest content
\* when they carry the version of the row.
Basis == [r \in Reqs |->
    IF ~Pending(r) THEN "none"
    ELSE IF card.state = "live" /\ req[r].version = card.version THEN "latest"
    ELSE "old"]
Conflict == INSTANCE EditConflict
    WITH Edits <- Reqs, basis <- Basis, accepted <- card.version

\* updateWithVersion implements EditConflict: an update is accepted only on the
\* content it was made on, so no accepted update overwrites another one unseen,
\* also when the same version is submitted twice at once.
NoLostUpdate == Conflict!Spec

\* Whenever no scheduling is under way, the queue holds exactly the reminder
\* that the row asks for, if it is still to come, and none of an earlier plan
\* or of a deleted card, however worker, clock, retries and requests
\* interleave.  The exceptions are the ones `undone` records: two schedulings
\* overlapped, the last one died, or it found the worker processing the job.
Quiet == \A r \in Reqs : ~Scheduling(r)
Queued(t) == job.state = "delayed" /\ job.at = t
Asked(t) == card.state = "live" /\ card.remindAt = t
ReminderFollowsCard ==
    Quiet /\ ~undone => \A t \in Instants : t > now => (Queued(t) <=> Asked(t))
=============================================================================
