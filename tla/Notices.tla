------------------------------- MODULE Notices -------------------------------
(***************************************************************************)
(* What users are told about one card.  NotificationsListener turns events *)
(* into notifications, all recipients at the same time; the worker of the  *)
(* due-reminder queue turns its job into notifications, one assignee after *)
(* the other; a notification may be followed by a mail, if the user's      *)
(* preference allows it; a second worker sends the mails.  Any statement   *)
(* may fail and the process may die.                                       *)
(*                                                                         *)
(* BullMQ is external: it runs a job again while it has attempts left, and *)
(* once more after the process died with the job active.  That a user has  *)
(* read a notification matters to nothing here and is left out.            *)
(***************************************************************************)
EXTENDS Naturals, FiniteSets

CONSTANTS
    Users,
    Slots,       \* slots for events being handled
    Mails,       \* bound: ids of mails in the queue
    Kinds,       \* the kinds of notices there may be
    Attempts,    \* attempts of a due-reminder job, 3 in the code, and of the
                 \* mail about an assignment
    Stalls,      \* how often a job is started again after a crash (BullMQ: 1)
    None

\* "due" are reminders, the others answer events.  A behaviour is about one kind:
\* they share nothing but the mail queue.
AllKinds == {"due", "assigned", "unassigned", "moved", "attachment", "comment"}

ASSUME NoticesAssumption ==
    /\ Kinds \subseteq AllKinds /\ Attempts \in Nat \ {0} /\ Stalls \in Nat
    /\ None \notin Users

VARIABLES
    kind,       \* what the behaviour is about
    card,       \* [exists, due, assignees]
    pref,       \* does the preference of a user, the frequency and the switch for
                \* the kind taken together, allow mails
    event,      \* the events being handled, by slot
    job,        \* the job of the due-reminder queue
    mail,       \* the mail queue, by id
    reminders   \* history: the reminders each user got from the job

vars == <<kind, card, pref, event, job, mail, reminders>>

\* A notification of a user under way: to be inserted, its preference to be
\* read, its mail to be queued; "belated" is as "mail" after the user has
\* changed the preference.
Stages == {"none", "insert", "pref", "mail", "belated"}

Event == [at: {"idle", "card", "send"},
          actor: Users \cup {None}, user: Users \cup {None}, stage: [Users -> Stages]]
Nobody == [u \in Users |-> "none"]
NoEvent == [at |-> "idle", actor |-> None, user |-> None, stage |-> Nobody]

\* runs, made, stalls: how often the job was started, failed, stalled;
\* todo: the assignees still to come; all: those of the current run.
Job == [at: {"none", "delayed", "waiting", "card", "next", "send", "completed", "failed"},
        runs: Nat, made: Nat, stalls: Nat, todo: SUBSET Users, all: SUBSET Users,
        user: Users \cup {None}, stage: Stages]

NoJob == [at |-> "none", runs |-> 0, made |-> 0, stalls |-> 0, todo |-> {}, all |-> {},
          user |-> None, stage |-> "none"]

Mail == [to: Users, left: Nat]

Card == [exists: BOOLEAN, due: BOOLEAN, assignees: SUBSET Users]

----------------------------------------------------------------------------
(* Users                                                                     *)

Assign(u) ==
    /\ card.exists
    /\ \/ card' = [card EXCEPT !.assignees = @ \cup {u}]
       \/ card' = [card EXCEPT !.assignees = @ \ {u}]
    /\ UNCHANGED <<kind, pref, event, job, mail, reminders>>

Postpone == /\ card.exists /\ card.due /\ card' = [card EXCEPT !.due = FALSE]
            /\ UNCHANGED <<kind, pref, event, job, mail, reminders>>

DeleteCard == /\ card.exists
              /\ card' = [exists |-> FALSE, due |-> FALSE, assignees |-> {}]
              /\ UNCHANGED <<kind, pref, event, job, mail, reminders>>

Belate(stage) == IF stage = "mail" THEN "belated" ELSE stage

\* updatePreference, an upsert.
UpdatePreference(u) ==
    /\ pref' = [pref EXCEPT ![u] = ~@]
    /\ event' = [s \in Slots |-> [event[s] EXCEPT !.stage[u] = Belate(@)]]
    /\ job' = IF job.user = u THEN [job EXCEPT !.stage = Belate(@)] ELSE job
    /\ UNCHANGED <<kind, card, mail, reminders>>

----------------------------------------------------------------------------
(* NotificationsService; what it inserts is represented for reminders only.  *)

\* Mutant: the preference is not looked at.
CanEmail_Always(u) == TRUE
CanEmail(u) == pref[u]

AddMail(u, attempts) ==
    \E m \in Mails : mail[m] = None /\ mail' = [mail EXCEPT ![m] = [to |-> u, left |-> attempts]]

----------------------------------------------------------------------------
(* NotificationsListener                                                     *)

\* assignMember queues a mail, which no preference is asked for, and emits then.
Emit(s) ==
    /\ kind # "due" /\ event[s] = NoEvent
    /\ \E a, u \in Users :
          /\ event' = [event EXCEPT ![s] = [NoEvent EXCEPT !.at = "card", !.actor = a, !.user = u]]
          /\ IF kind = "assigned" THEN AddMail(u, Attempts) ELSE UNCHANGED mail
    /\ UNCHANGED <<kind, card, pref, job, reminders>>

\* Who is told: the user who was assigned, or removed by somebody else, or the
\* assignees but the actor.
Recipients(q) == CASE kind = "assigned" -> {q.user}
                   [] kind = "unassigned" -> {q.user} \ {q.actor}
                   [] OTHER -> card.assignees \ {q.actor}

ReadCard(s) ==
    LET told == IF card.exists THEN Recipients(event[s]) ELSE {} IN
    /\ event[s].at = "card"
    /\ event' = [event EXCEPT ![s] = IF told = {} THEN NoEvent ELSE
                    [@ EXCEPT !.at = "send",
                              !.stage = [u \in Users |-> IF u \in told THEN "insert" ELSE "none"]]]
    /\ UNCHANGED <<kind, card, pref, job, mail, reminders>>

\* The slot is free when the last recipient is done.
Goto(s, u, stage) ==
    LET q == [event[s] EXCEPT !.stage[u] = stage]
    IN event' = [event EXCEPT ![s] = IF q.stage = Nobody THEN NoEvent ELSE q]

Notify(s, u) ==
    /\ event[s].stage[u] = "insert"
    /\ Goto(s, u, IF kind # "assigned" THEN "pref" ELSE "none")
    /\ UNCHANGED <<kind, card, pref, job, mail, reminders>>

ReadPreference(s, u) ==
    /\ event[s].stage[u] = "pref"
    /\ Goto(s, u, IF CanEmail(u) THEN "mail" ELSE "none")
    /\ UNCHANGED <<kind, card, pref, job, mail, reminders>>

QueueMail(s, u) ==
    /\ event[s].stage[u] \in {"mail", "belated"}
    /\ AddMail(u, 1) /\ Goto(s, u, "none")
    /\ UNCHANGED <<kind, card, pref, job, reminders>>

\* One of the recipients fails; the others go on.
Fail(s, u) ==
    /\ event[s].stage[u] # "none"
    /\ Goto(s, u, "none")
    /\ UNCHANGED <<kind, card, pref, job, mail, reminders>>

----------------------------------------------------------------------------
(* DueReminderProcessor                                                      *)

\* The delay, or the backoff, is over.
Start ==
    /\ job.at \in {"delayed", "waiting"}
    /\ job' = [job EXCEPT !.at = "card", !.runs = @ + 1]
    /\ UNCHANGED <<kind, card, pref, event, mail, reminders>>

JobReadCard ==
    /\ job.at = "card"
    /\ job' = IF card.exists /\ card.due
              THEN [job EXCEPT !.at = "next", !.todo = card.assignees, !.all = card.assignees]
              ELSE [job EXCEPT !.at = "completed"]
    /\ UNCHANGED <<kind, card, pref, event, mail, reminders>>

JobNext ==
    /\ job.at = "next"
    /\ IF job.todo = {}
       THEN job' = [job EXCEPT !.at = "completed"]
       ELSE \E u \in job.todo :
              job' = [job EXCEPT !.at = "send", !.todo = @ \ {u}, !.user = u, !.stage = "insert"]
    /\ UNCHANGED <<kind, card, pref, event, mail, reminders>>

JobNotify ==
    /\ job.stage = "insert"
    /\ reminders' = [reminders EXCEPT ![job.user] = @ + 1]
    /\ job' = [job EXCEPT !.stage = "pref"]
    /\ UNCHANGED <<kind, card, pref, event, mail>>

NextOne == [job EXCEPT !.at = "next", !.user = None, !.stage = "none"]

\* Mutant: return in place of continue.
Skipped_Rest == [job EXCEPT !.at = "completed", !.user = None, !.stage = "none"]
\* An assignee who does not want mails.
Skipped == NextOne

JobReadPreference ==
    /\ job.stage = "pref"
    /\ job' = IF CanEmail(job.user) THEN [job EXCEPT !.stage = "mail"] ELSE Skipped
    /\ UNCHANGED <<kind, card, pref, event, mail, reminders>>

JobQueueMail ==
    /\ job.stage \in {"mail", "belated"}
    /\ AddMail(job.user, 1) /\ job' = NextOne
    /\ UNCHANGED <<kind, card, pref, event, reminders>>

Active == job.at \in {"card", "next", "send"}
\* Mutant: a retry goes on where the attempt that failed stopped.
Ended_Resume(at) == [job EXCEPT !.at = at]
Ended(at) == [job EXCEPT !.at = at, !.todo = {}, !.all = {}, !.user = None, !.stage = "none"]

\* BullMQ's answer to an attempt that threw.
Retry == [Ended(IF job.made + 1 < Attempts THEN "waiting" ELSE "failed") EXCEPT !.made = @ + 1]

JobFail == Active /\ job' = Retry /\ UNCHANGED <<kind, card, pref, event, mail, reminders>>

----------------------------------------------------------------------------
(* MailProcessor                                                             *)

Send(m) == /\ mail[m] # None /\ mail' = [mail EXCEPT ![m] = None]
           /\ UNCHANGED <<kind, card, pref, event, job, reminders>>

\* Mutant: a mail out of attempts is put in the queue again.
SendFails_Again(m) ==
    /\ mail[m] # None
    /\ mail' = [mail EXCEPT ![m].left = IF @ > 1 THEN @ - 1 ELSE Attempts]
    /\ UNCHANGED <<kind, card, pref, event, job, reminders>>
SendFails(m) ==
    /\ mail[m] # None
    /\ mail' = [mail EXCEPT ![m] = IF @.left > 1 THEN [to |-> @.to, left |-> @.left - 1] ELSE None]
    /\ UNCHANGED <<kind, card, pref, event, job, reminders>>

\* The process dies: the events are lost, the job is found stalled.
Crash ==
    /\ (\E s \in Slots : event[s] # NoEvent) \/ Active
    /\ event' = [s \in Slots |-> NoEvent]
    /\ job' = IF ~Active THEN job
              ELSE [Ended(IF job.stalls < Stalls THEN "waiting" ELSE "failed") EXCEPT !.stalls = @ + 1]
    /\ UNCHANGED <<kind, card, pref, mail, reminders>>

----------------------------------------------------------------------------
Init ==
    /\ kind \in Kinds
    /\ card \in [exists: {TRUE}, due: {TRUE}, assignees: SUBSET Users]
    /\ pref = [u \in Users |-> TRUE]
    /\ event = [s \in Slots |-> NoEvent]
    /\ job = IF kind = "due" THEN [NoJob EXCEPT !.at = "delayed"] ELSE NoJob
    /\ mail = [m \in Mails |-> None]
    /\ reminders = [u \in Users |-> 0]

Work == Start \/ JobReadCard \/ JobNext \/ JobNotify \/ JobReadPreference \/ JobQueueMail \/ JobFail
Deliver(m) == Send(m) \/ SendFails(m)

Next ==
    \/ Postpone \/ DeleteCard \/ Crash \/ Work
    \/ \E u \in Users : Assign(u) \/ UpdatePreference(u)
    \/ \E s \in Slots : Emit(s) \/ ReadCard(s)
    \/ \E s \in Slots, u \in Users :
          Notify(s, u) \/ ReadPreference(s, u) \/ QueueMail(s, u) \/ Fail(s, u)
    \/ \E m \in Mails : Deliver(m)

Spec == Init /\ [][Next]_vars

\* The two workers run.
FairSpec == Spec /\ WF_vars(Work) /\ \A m \in Mails : WF_vars(Deliver(m))

----------------------------------------------------------------------------
(* Properties                                                                *)

TypeOK ==
    /\ card \in Card
    /\ kind \in Kinds /\ pref \in [Users -> BOOLEAN]
    /\ event \in [Slots -> Event]
    /\ job \in Job
    /\ (job.user # None) = (job.at = "send") /\ (job.stage # "none") = (job.at = "send")
    /\ mail \in [Mails -> Mail \cup {None}]
    /\ reminders \in [Users -> Nat]

\* A job that has completed has reminded everybody who was assigned when it last
\* looked, whatever they prefer; a retry repeats reminders, but nobody gets more
\* of them than BullMQ starts the job.
RemindersCounted ==
    /\ \A u \in Users : reminders[u] <= job.runs
    /\ job.runs <= Attempts + Stalls
    /\ job.at = "completed" => \A u \in job.all : reminders[u] > 0

\* A mail that is about to be queued is about what its user wants, unless the
\* preference changed after it was read.
OptOutHonoured ==
    /\ \A s \in Slots, u \in Users : event[s].stage[u] = "mail" => pref[u]
    /\ job.stage = "mail" => pref[job.user]

\* Neither a reminder nor a mail stays in its queue for ever.
QueuesDrain == /\ job # NoJob ~> job.at \in {"completed", "failed"}
               /\ \A m \in Mails : mail[m] # None ~> mail[m] = None
=============================================================================
