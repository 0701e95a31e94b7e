--------------------------- MODULE DeliveryProofs ---------------------------
(* Theorems about what reaches a user.  About Notices: how often and whom a *)
(* reminder job reminds, and that mails follow the preferences, for any     *)
(* number of users, events, mails, attempts and stalls.  About Sockets:     *)
(* whom the room and the notifications reach, and whom a kick hits, for any *)
(* number of sockets, accounts, tokens and requests.                        *)
EXTENDS Notices, Sockets, TLAPS

----------------------------------------------------------------------------
(* Notices: types                                                            *)

LEMMA JobType ==
  ASSUME TypeOK
  PROVE  /\ job \in Job
         /\ job.runs \in Nat /\ job.made \in Nat /\ job.stalls \in Nat
         /\ job.todo \subseteq Users /\ job.all \subseteq Users
         /\ job.stage \in Stages /\ job.user \in Users \cup {None}
         /\ job.stage # "none" => job.at = "send" /\ job.user \in Users
         /\ job.at # "send" => job.stage = "none" /\ job.user = None
BY DEF TypeOK, Job

LEMMA EventType ==
  ASSUME TypeOK, NEW s \in Slots
  PROVE  /\ event[s] \in Event
         /\ event[s].stage \in [Users -> Stages]
         /\ event[s].user \in Users \cup {None} /\ event[s].actor \in Users \cup {None}
BY DEF TypeOK, Event

LEMMA NoEventType == NoEvent \in Event /\ NoEvent.stage = Nobody
BY DEF NoEvent, Event, Nobody, Stages

LEMMA BelateType ==
  ASSUME NEW stage \in Stages
  PROVE  Belate(stage) \in Stages /\ Belate(stage) # "mail" /\ (Belate(stage) = "none" <=> stage = "none")
BY DEF Belate, Stages

\* A step of one recipient keeps the types of the events.
LEMMA GotoType ==
  ASSUME TypeOK, NEW s \in Slots, NEW u \in Users, NEW stage \in Stages, Goto(s, u, stage)
  PROVE  event' \in [Slots -> Event]
<1> DEFINE q == [event[s] EXCEPT !.stage[u] = stage]
<1>1. q \in Event
  BY EventType DEF Event
<1>2. event' = [event EXCEPT ![s] = IF q.stage = Nobody THEN NoEvent ELSE q]
  BY DEF Goto
<1> HIDE DEF q
<1> QED
  BY <1>1, <1>2, NoEventType DEF TypeOK

LEMMA MailType ==
  ASSUME TypeOK, NEW u \in Users, NEW n \in Nat, AddMail(u, n)
  PROVE  mail' \in [Mails -> Mail \cup {None}]
<1>1. PICK m \in Mails : mail' = [mail EXCEPT ![m] = [to |-> u, left |-> n]]
  BY DEF AddMail
<1>2. [to |-> u, left |-> n] \in Mail
  BY DEF Mail
<1> QED
  BY <1>1, <1>2 DEF TypeOK

\* The types of the job alone.
JobOK ==
    /\ job \in Job
    /\ (job.user # None) = (job.at = "send") /\ (job.stage # "none") = (job.at = "send")

LEMMA EndedType ==
  ASSUME TypeOK, NEW at \in {"waiting", "failed"}
  PROVE  /\ Ended(at) \in Job /\ Ended(at).at = at
         /\ Ended(at).user = None /\ Ended(at).stage = "none"
         /\ Ended(at).todo = {} /\ Ended(at).all = {}
         /\ Ended(at).runs = job.runs /\ Ended(at).made = job.made
         /\ Ended(at).stalls = job.stalls
BY JobType DEF Ended, Job, Stages

LEMMA NextOneType ==
  ASSUME TypeOK
  PROVE  /\ NextOne \in Job /\ NextOne.at = "next"
         /\ NextOne.user = None /\ NextOne.stage = "none"
         /\ NextOne.todo = job.todo /\ NextOne.all = job.all
         /\ NextOne.runs = job.runs /\ NextOne.made = job.made
         /\ NextOne.stalls = job.stalls
BY JobType DEF NextOne, Job, Stages

LEMMA RetryType ==
  ASSUME TypeOK
  PROVE  /\ Retry \in Job /\ Retry.user = None /\ Retry.stage = "none"
         /\ Retry.at = IF job.made + 1 < Attempts THEN "waiting" ELSE "failed"
         /\ Retry.todo = {} /\ Retry.all = {}
         /\ Retry.runs = job.runs /\ Retry.made = job.made + 1
         /\ Retry.stalls = job.stalls
<1> DEFINE at == IF job.made + 1 < Attempts THEN "waiting" ELSE "failed"
           e == Ended(at)
<1>1. /\ e \in Job /\ e.at = at /\ e.user = None /\ e.stage = "none"
      /\ e.todo = {} /\ e.all = {}
      /\ e.runs = job.runs /\ e.made = job.made /\ e.stalls = job.stalls
  BY EndedType
<1>2. Retry = [e EXCEPT !.made = @ + 1] /\ job.made \in Nat
  BY JobType DEF Retry
<1> HIDE DEF e, at
<1>3. Retry = [e EXCEPT !.made = e.made + 1]
  BY <1>2
<1> QED
  BY <1>1, <1>2, <1>3 DEF Job, at


\* The statements of the worker keep the types of the job.
LEMMA WorkType ==
  ASSUME TypeOK, \/ Start \/ JobReadCard \/ JobNext \/ JobNotify
                 \/ JobReadPreference \/ JobQueueMail \/ JobFail
  PROVE  JobOK'
<1>1. CASE Start
  <2>1. job' = [job EXCEPT !.at = "card", !.runs = job.runs + 1] /\ job.runs + 1 \in Nat
    BY <1>1, JobType DEF Start
  <2>2. job.stage = "none" /\ job.user = None
    BY <1>1, JobType DEF Start
  <2>3. job' \in Job /\ job'.user = None /\ job'.stage = "none" /\ job'.at = "card"
    BY <2>1, <2>2, JobType DEF Job
  <2> QED
    BY <2>3 DEF JobOK
<1>2. CASE JobReadCard
  <2>1. card.assignees \subseteq Users
    BY DEF TypeOK, Card
  <2>2. job' \in Job /\ job'.user = None /\ job'.stage = "none" /\ job'.at \in {"next", "completed"}
    BY <1>2, <2>1, JobType DEF JobReadCard, Job
  <2> QED
    BY <2>2 DEF JobOK
<1>3. CASE JobNext
  <2>1. CASE job.todo = {}
    <3>1. job' \in Job /\ job'.user = None /\ job'.stage = "none" /\ job'.at = "completed"
      BY <1>3, <2>1, JobType DEF JobNext, Job
    <3> QED
      BY <3>1 DEF JobOK
  <2>2. CASE job.todo # {}
    <3>1. PICK u \in job.todo :
             job' = [job EXCEPT !.at = "send", !.todo = @ \ {u}, !.user = u, !.stage = "insert"]
      BY <1>3, <2>2 DEF JobNext
    <3>2. u \in Users /\ u # None
      BY JobType, NoticesAssumption
    <3>3. job' \in Job /\ job'.user = u /\ job'.stage = "insert" /\ job'.at = "send"
      BY <3>1, <3>2, JobType DEF Job, Stages
    <3> QED
      BY <3>2, <3>3 DEF JobOK
  <2> QED
    BY <2>1, <2>2
<1>4. CASE JobNotify
  <2>1. job' \in Job /\ job'.user = job.user /\ job'.stage = "pref" /\ job'.at = job.at
    BY <1>4, JobType DEF JobNotify, Job, Stages
  <2> QED
    BY <1>4, <2>1 DEF JobOK, JobNotify, TypeOK
<1>5. CASE JobReadPreference
  <2>1. CASE job' = [job EXCEPT !.stage = "mail"]
    <3>1. job' \in Job /\ job'.user = job.user /\ job'.stage = "mail" /\ job'.at = job.at
      BY <2>1, JobType DEF Job, Stages
    <3> QED
      BY <1>5, <3>1 DEF JobOK, JobReadPreference, TypeOK
  <2>2. CASE job' = NextOne
    BY <2>2, NextOneType DEF JobOK
  <2> QED
    BY <1>5, <2>1, <2>2 DEF JobReadPreference, Skipped
<1>6. CASE JobQueueMail
  BY <1>6, NextOneType DEF JobOK, JobQueueMail
<1>7. CASE JobFail
  <2>1. Retry.at # "send"
    BY RetryType
  <2> QED
    BY <1>7, <2>1, RetryType DEF JobOK, JobFail
<1> QED
  BY <1>1, <1>2, <1>3, <1>4, <1>5, <1>6, <1>7

\* So does a crash.
LEMMA CrashType ==
  ASSUME TypeOK, Crash
  PROVE  JobOK'
<1>1. CASE ~Active
  BY <1>1 DEF Crash, JobOK, TypeOK
<1>2. CASE Active
  <2> DEFINE at == IF job.stalls < Stalls THEN "waiting" ELSE "failed"
             e == Ended(at)
  <2>1. /\ e \in Job /\ e.at = at /\ e.user = None /\ e.stage = "none" /\ e.stalls \in Nat
    BY EndedType, JobType
  <2>2. job' = [e EXCEPT !.stalls = e.stalls + 1] /\ at \in {"waiting", "failed"}
    BY <1>2 DEF Crash
  <2> HIDE DEF e, at
  <2>3. job' \in Job /\ job'.at = at /\ job'.user = None /\ job'.stage = "none"
    BY <2>1, <2>2 DEF Job
  <2> QED
    BY <2>2, <2>3 DEF JobOK
<1> QED
  BY <1>1, <1>2

LEMMA TypeInit == Init => TypeOK
<1> SUFFICES ASSUME Init PROVE TypeOK
  OBVIOUS
<1>1. card \in Card /\ kind \in Kinds /\ pref \in [Users -> BOOLEAN]
  BY DEF Init, Card
<1>2. event \in [Slots -> Event]
  BY NoEventType DEF Init
<1>3. NoJob \in Job /\ [NoJob EXCEPT !.at = "delayed"] \in Job
  BY DEF NoJob, Job, Stages
<1>4. /\ job \in Job
      /\ job.user = None /\ job.stage = "none" /\ job.at # "send"
  BY <1>3 DEF Init, NoJob
<1>5. mail \in [Mails -> Mail \cup {None}] /\ reminders \in [Users -> Nat]
  BY DEF Init
<1> QED
  BY <1>1, <1>2, <1>4, <1>5 DEF TypeOK

LEMMA TypeStep == TypeOK /\ [Next]_vars => TypeOK'
<1> SUFFICES ASSUME TypeOK, [Next]_vars PROVE TypeOK'
  OBVIOUS
<1> USE NoticesAssumption
<1>1. ASSUME card' \in Card, UNCHANGED <<kind, pref, event, job, mail, reminders>>
      PROVE  TypeOK'
  BY <1>1 DEF TypeOK
<1>2. ASSUME event' \in [Slots -> Event], mail' \in [Mails -> Mail \cup {None}],
             UNCHANGED <<kind, card, pref, job, reminders>>
      PROVE  TypeOK'
  BY <1>2 DEF TypeOK
<1>3. ASSUME JobOK', mail' \in [Mails -> Mail \cup {None}], reminders' \in [Users -> Nat],
             event' \in [Slots -> Event], UNCHANGED <<kind, card, pref>>
      PROVE  TypeOK'
  BY <1>3 DEF TypeOK, JobOK
<1>4. CASE Postpone
  <2>1. card' \in Card
    BY <1>4 DEF Postpone, TypeOK, Card
  <2> QED
    BY <1>1, <1>4, <2>1 DEF Postpone
<1>5. CASE DeleteCard
  <2>1. card' \in Card
    BY <1>5 DEF DeleteCard, TypeOK, Card
  <2> QED
    BY <1>1, <1>5, <2>1 DEF DeleteCard
<1>6. ASSUME NEW u \in Users, Assign(u) PROVE TypeOK'
  <2>1. card' \in Card
    BY <1>6 DEF Assign, TypeOK, Card
  <2> QED
    BY <1>1, <1>6, <2>1 DEF Assign
<1>7. ASSUME NEW u \in Users, UpdatePreference(u) PROVE TypeOK'
  <2>1. pref' \in [Users -> BOOLEAN]
    BY <1>7 DEF UpdatePreference, TypeOK
  <2>2. event' \in [Slots -> Event]
    <3>1. ASSUME NEW s \in Slots
          PROVE  [event[s] EXCEPT !.stage[u] = Belate(@)] \in Event
      <4>1. event[s] \in Event /\ event[s].stage \in [Users -> Stages]
        BY <3>1, EventType
      <4>2. Belate(event[s].stage[u]) \in Stages
        BY <4>1, BelateType
      <4> QED
        BY <4>1, <4>2 DEF Event
    <3> QED
      BY <1>7, <3>1 DEF UpdatePreference
  <2>3. JobOK'
    <3>1. CASE job.user = u
      <4>1. job' = [job EXCEPT !.stage = Belate(job.stage)]
        BY <1>7, <3>1 DEF UpdatePreference
      <4>2. Belate(job.stage) \in Stages /\ (Belate(job.stage) = "none" <=> job.stage = "none")
        BY BelateType, JobType
      <4>3. job' \in Job /\ job'.user = job.user /\ job'.at = job.at /\ job'.stage = Belate(job.stage)
        BY <4>1, <4>2, JobType DEF Job
      <4> QED
        BY <4>2, <4>3 DEF JobOK, TypeOK
    <3>2. CASE job.user # u
      BY <1>7, <3>2 DEF UpdatePreference, JobOK, TypeOK
    <3> QED
      BY <3>1, <3>2
  <2> QED
    BY <1>7, <2>1, <2>2, <2>3 DEF UpdatePreference, TypeOK, JobOK
<1>8. ASSUME NEW s \in Slots, Emit(s) PROVE TypeOK'
  <2>1. PICK a \in Users, u \in Users :
           /\ event' = [event EXCEPT ![s] = [NoEvent EXCEPT !.at = "card", !.actor = a, !.user = u]]
           /\ IF kind = "assigned" THEN AddMail(u, Attempts) ELSE UNCHANGED mail
    BY <1>8 DEF Emit
  <2>2. [NoEvent EXCEPT !.at = "card", !.actor = a, !.user = u] \in Event
    BY NoEventType DEF Event
  <2>3. event' \in [Slots -> Event]
    BY <2>1, <2>2 DEF TypeOK
  <2>4. mail' \in [Mails -> Mail \cup {None}]
    BY <2>1, MailType DEF TypeOK
  <2> QED
    BY <1>2, <1>8, <2>3, <2>4 DEF Emit
<1>9. ASSUME NEW s \in Slots, ReadCard(s) PROVE TypeOK'
  <2> DEFINE told == IF card.exists THEN Recipients(event[s]) ELSE {}
             stage == [u \in Users |-> IF u \in told THEN "insert" ELSE "none"]
  <2>1. stage \in [Users -> Stages]
    BY DEF Stages
  <2> HIDE DEF stage
  <2>2. [event[s] EXCEPT !.at = "send", !.stage = stage] \in Event
    BY <2>1, EventType DEF Event
  <2>3. event' = [event EXCEPT ![s] = IF told = {} THEN NoEvent
                                     ELSE [event[s] EXCEPT !.at = "send", !.stage = stage]]
    BY <1>9 DEF ReadCard, stage
  <2> HIDE DEF told
  <2>4. event' \in [Slots -> Event]
    BY <2>2, <2>3, NoEventType DEF TypeOK
  <2> QED
    BY <1>2, <1>9, <2>4 DEF ReadCard, TypeOK
<1>10. ASSUME NEW s \in Slots, NEW u \in Users,
              Notify(s, u) \/ ReadPreference(s, u) \/ QueueMail(s, u) \/ Fail(s, u)
       PROVE  TypeOK'
  <2>1. PICK stage \in Stages : Goto(s, u, stage)
    BY <1>10 DEF Notify, ReadPreference, QueueMail, Fail, Stages
  <2>2. event' \in [Slots -> Event]
    BY <2>1, GotoType
  <2>3. mail' \in [Mails -> Mail \cup {None}] /\ UNCHANGED <<kind, card, pref, job, reminders>>
    BY <1>10, MailType DEF Notify, ReadPreference, QueueMail, Fail, TypeOK
  <2> QED
    BY <1>2, <2>2, <2>3
<1>11. CASE Work
  <2>1. JobOK'
    BY <1>11, WorkType DEF Work
  <2>2. mail' \in [Mails -> Mail \cup {None}]
    <3>1. CASE JobQueueMail
      BY <3>1, MailType, JobType DEF JobQueueMail
    <3>2. CASE ~JobQueueMail
      BY <1>11, <3>2 DEF Work, Start, JobReadCard, JobNext, JobNotify, JobReadPreference,
         JobFail, TypeOK
    <3> QED
      BY <3>1, <3>2
  <2>3. reminders' \in [Users -> Nat]
    <3>1. CASE JobNotify
      BY <3>1, JobType DEF JobNotify, TypeOK
    <3>2. CASE ~JobNotify
      BY <1>11, <3>2 DEF Work, Start, JobReadCard, JobNext, JobQueueMail, JobReadPreference,
         JobFail, TypeOK
    <3> QED
      BY <3>1, <3>2
  <2>4. UNCHANGED <<kind, card, pref, event>>
    BY <1>11 DEF Work, Start, JobReadCard, JobNext, JobNotify, JobReadPreference, JobQueueMail, JobFail
  <2> QED
    BY <1>3, <2>1, <2>2, <2>3, <2>4 DEF TypeOK
<1>12. ASSUME NEW m \in Mails, Deliver(m) PROVE TypeOK'
  <2>1. mail[m] # None => mail[m].left \in Nat /\ mail[m] \in Mail
    BY DEF TypeOK, Mail
  <2>2. CASE Send(m)
    BY <1>2, <2>2 DEF Send, TypeOK
  <2>3. CASE SendFails(m)
    <3>1. CASE mail[m].left > 1
      <4> DEFINE r == [to |-> mail[m].to, left |-> mail[m].left - 1]
      <4>1. r \in Mail
        BY <2>1, <2>3, <3>1 DEF SendFails, Mail
      <4>2. mail' = [mail EXCEPT ![m] = r]
        BY <2>3, <3>1 DEF SendFails
      <4> HIDE DEF r
      <4> QED
        BY <1>2, <2>3, <4>1, <4>2 DEF SendFails, TypeOK
    <3>2. CASE ~(mail[m].left > 1)
      BY <1>2, <2>3, <3>2 DEF SendFails, TypeOK
    <3> QED
      BY <3>1, <3>2
  <2> QED
    BY <1>12, <2>2, <2>3 DEF Deliver
<1>13. CASE Crash
  <2>1. JobOK'
    BY <1>13, CrashType
  <2>2. event' \in [Slots -> Event]
    BY <1>13, NoEventType DEF Crash
  <2> QED
    BY <1>3, <1>13, <2>1, <2>2 DEF Crash, TypeOK
<1>14. CASE UNCHANGED vars
  BY <1>14 DEF vars, TypeOK
<1> QED
  BY <1>4, <1>5, <1>6, <1>7, <1>8, <1>9, <1>10, <1>11, <1>12, <1>13, <1>14 DEF Next

\* Every variable of the notices keeps its type, and the worker of the reminders
\* is with a user exactly while it is sending to one.
THEOREM TypeCorrect == Spec => []TypeOK
BY TypeInit, TypeStep, PTL DEF Spec

----------------------------------------------------------------------------
(* Reminders                                                                 *)

Running == {"card", "next", "send", "completed"}

\* A run is over, has failed or has stalled; a job that may still run has
\* attempts left.
RunsInv ==
    /\ job.runs = job.made + job.stalls + (IF job.at \in Running THEN 1 ELSE 0)
    /\ job.at \notin {"none", "failed"} => job.made < Attempts /\ job.stalls <= Stalls
    /\ job.at = "failed" => job.made + job.stalls <= Attempts + Stalls
    /\ job.at = "none" => job.runs = 0

\* A user the current run has not come to yet was reminded by earlier runs only.
OnceARun ==
    /\ \A u \in Users : reminders[u] <= job.runs
    /\ job.at = "card" => \A u \in Users : reminders[u] < job.runs
    /\ \A u \in job.todo : reminders[u] < job.runs
    /\ job.stage = "insert" => reminders[job.user] < job.runs
    /\ job.user \notin job.todo

\* A user the run is done with has been reminded.
DoneInv ==
    /\ job.at \in {"none", "delayed", "waiting", "card", "failed"} => job.todo = {} /\ job.all = {}
    /\ \A u \in job.all \ job.todo : reminders[u] > 0 \/ (job.stage = "insert" /\ u = job.user)
    /\ job.at = "completed" => job.todo = {}

CountInv == RunsInv /\ OnceARun /\ DoneInv

LEMMA CountImplies == TypeOK /\ CountInv => RemindersCounted
BY JobType, NoticesAssumption
   DEF CountInv, RunsInv, OnceARun, DoneInv, RemindersCounted, Running, TypeOK, Job

LEMMA CountInit == Init => CountInv
<1> SUFFICES ASSUME Init PROVE CountInv
  OBVIOUS
<1>1. /\ job.runs = 0 /\ job.made = 0 /\ job.stalls = 0 /\ job.todo = {} /\ job.all = {}
      /\ job.user = None /\ job.stage = "none" /\ job.at \in {"none", "delayed"}
  BY DEF Init, NoJob
<1>2. \A u \in Users : reminders[u] = 0
  BY DEF Init
<1> QED
  BY <1>1, <1>2, NoticesAssumption DEF CountInv, RunsInv, OnceARun, DoneInv, Running

\* An attempt that ends with a job in which nobody is left to remind.
LEMMA CountEnded ==
  ASSUME TypeOK, CountInv, UNCHANGED reminders, job' \in Job,
         job'.at \in {"waiting", "failed"}, job'.user = None, job'.stage = "none",
         job'.todo = {}, job'.all = {}, job'.runs = job.runs, RunsInv'
  PROVE  CountInv'
<1>1. OnceARun'
  BY DEF CountInv, OnceARun
<1>2. DoneInv'
  BY DEF DoneInv
<1> QED
  BY <1>1, <1>2 DEF CountInv

LEMMA CountStep == TypeOK /\ CountInv /\ [Next]_vars => CountInv'
<1> SUFFICES ASSUME TypeOK, CountInv, [Next]_vars PROVE CountInv'
  OBVIOUS
<1> USE NoticesAssumption
<1>a. reminders \in [Users -> Nat] /\ JobOK
  BY DEF TypeOK, JobOK
<1>1. CASE UNCHANGED <<job, reminders>>
  BY <1>1 DEF CountInv, RunsInv, OnceARun, DoneInv
<1>2. ASSUME NEW u \in Users, UpdatePreference(u) PROVE CountInv'
  <2>1. CASE job.user = u
    <3>1. job' = [job EXCEPT !.stage = Belate(job.stage)] /\ UNCHANGED reminders
      BY <1>2, <2>1 DEF UpdatePreference
    <3>2. (Belate(job.stage) = "insert") = (job.stage = "insert")
      BY DEF Belate
    <3>3. /\ job'.at = job.at /\ job'.runs = job.runs /\ job'.made = job.made
          /\ job'.stalls = job.stalls /\ job'.todo = job.todo /\ job'.all = job.all
          /\ job'.user = job.user /\ job'.stage = Belate(job.stage)
      BY <3>1, JobType DEF Job
    <3> QED
      BY <3>1, <3>2, <3>3 DEF CountInv, RunsInv, OnceARun, DoneInv
  <2>2. CASE job.user # u
    BY <1>1, <1>2, <2>2 DEF UpdatePreference
  <2> QED
    BY <2>1, <2>2
<1>3. CASE Start
  <2>1. job' = [job EXCEPT !.at = "card", !.runs = job.runs + 1] /\ UNCHANGED reminders
    BY <1>3, JobType DEF Start
  <2>2. /\ job'.at = "card" /\ job'.runs = job.runs + 1 /\ job'.made = job.made
        /\ job'.stalls = job.stalls /\ job'.todo = job.todo /\ job'.all = job.all
        /\ job'.user = job.user /\ job'.stage = job.stage
    BY <2>1, JobType DEF Job
  <2>3. job.at \in {"delayed", "waiting"} /\ job.stage = "none" /\ job.user = None
    BY <1>3, JobType DEF Start
  <2>4. RunsInv'
    BY <2>2, <2>3, JobType DEF CountInv, RunsInv, Running
  <2>5. OnceARun'
    BY <2>1, <2>2, <2>3, JobType, <1>a DEF CountInv, OnceARun
  <2>6. DoneInv'
    BY <2>1, <2>2, <2>3 DEF CountInv, DoneInv
  <2> QED
    BY <2>4, <2>5, <2>6 DEF CountInv
<1>4. CASE JobReadCard
  <2>1. job.at = "card" /\ job.stage = "none" /\ job.user = None /\ UNCHANGED reminders
    BY <1>4, JobType DEF JobReadCard
  <2>2. card.assignees \subseteq Users
    BY DEF TypeOK, Card
  <2>3. CASE card.exists /\ card.due
    <3>1. /\ job'.at = "next" /\ job'.runs = job.runs /\ job'.made = job.made
          /\ job'.stalls = job.stalls /\ job'.todo = card.assignees /\ job'.all = card.assignees
          /\ job'.user = job.user /\ job'.stage = job.stage
      BY <1>4, <2>3, JobType DEF JobReadCard, Job
    <3> QED
      BY <2>1, <2>2, <3>1, JobType, <1>a DEF CountInv, RunsInv, OnceARun, DoneInv, Running
  <2>4. CASE ~(card.exists /\ card.due)
    <3>1. /\ job'.at = "completed" /\ job'.runs = job.runs /\ job'.made = job.made
          /\ job'.stalls = job.stalls /\ job'.todo = job.todo /\ job'.all = job.all
          /\ job'.user = job.user /\ job'.stage = job.stage
      BY <1>4, <2>4, JobType DEF JobReadCard, Job
    <3> QED
      BY <2>1, <3>1, JobType, <1>a DEF CountInv, RunsInv, OnceARun, DoneInv, Running
  <2> QED
    BY <2>3, <2>4
<1>5. CASE JobNext
  <2>1. job.at = "next" /\ job.stage = "none" /\ job.user = None /\ UNCHANGED reminders
    BY <1>5, JobType DEF JobNext
  <2>2. CASE job.todo = {}
    <3>1. /\ job'.at = "completed" /\ job'.runs = job.runs /\ job'.made = job.made
          /\ job'.stalls = job.stalls /\ job'.todo = job.todo /\ job'.all = job.all
          /\ job'.user = job.user /\ job'.stage = job.stage
      BY <1>5, <2>2, JobType DEF JobNext, Job
    <3> QED
      BY <2>1, <2>2, <3>1 DEF CountInv, RunsInv, OnceARun, DoneInv, Running
  <2>3. CASE job.todo # {}
    <3>1. PICK u \in job.todo :
             job' = [job EXCEPT !.at = "send", !.todo = @ \ {u}, !.user = u, !.stage = "insert"]
      BY <1>5, <2>3 DEF JobNext
    <3>2. /\ job'.at = "send" /\ job'.runs = job.runs /\ job'.made = job.made
          /\ job'.stalls = job.stalls /\ job'.todo = job.todo \ {u} /\ job'.all = job.all
          /\ job'.user = u /\ job'.stage = "insert"
      BY <3>1, JobType DEF Job
    <3>3. RunsInv'
      BY <2>1, <3>2 DEF CountInv, RunsInv, Running
    <3>4. OnceARun'
      BY <2>1, <3>2 DEF CountInv, OnceARun
    <3>5. DoneInv'
      BY <2>1, <3>2 DEF CountInv, DoneInv
    <3> QED
      BY <3>3, <3>4, <3>5 DEF CountInv
  <2> QED
    BY <2>2, <2>3
<1>6. CASE JobNotify
  <2>1. job.stage = "insert" /\ job.at = "send" /\ job.user \in Users
    BY <1>6, JobType DEF JobNotify
  <2>2. /\ job'.at = "send" /\ job'.runs = job.runs /\ job'.made = job.made
        /\ job'.stalls = job.stalls /\ job'.todo = job.todo /\ job'.all = job.all
        /\ job'.user = job.user /\ job'.stage = "pref"
    BY <1>6, <2>1, JobType DEF JobNotify, Job
  <2>3. /\ reminders'[job.user] = reminders[job.user] + 1
        /\ \A u \in Users \ {job.user} : reminders'[u] = reminders[u]
    BY <1>6, <1>a, <2>1 DEF JobNotify
  <2>4. \A u \in Users : reminders[u] \in Nat
    BY <1>a
  <2>5. RunsInv'
    BY <2>1, <2>2 DEF CountInv, RunsInv, Running
  <2>6. OnceARun'
    BY <2>1, <2>2, <2>3, <2>4, JobType DEF CountInv, OnceARun
  <2>7. DoneInv'
    BY <2>1, <2>2, <2>3, <2>4, JobType DEF CountInv, DoneInv
  <2> QED
    BY <2>5, <2>6, <2>7 DEF CountInv
<1>7. ASSUME job.at = "send", job.stage # "insert", job' = NextOne, UNCHANGED reminders
      PROVE  CountInv'
  <2>1. RunsInv'
    BY <1>7, NextOneType DEF CountInv, RunsInv, Running
  <2>2. None \notin job.todo
    BY JobType
  <2>3. OnceARun'
    BY <1>7, <2>2, NextOneType DEF CountInv, OnceARun
  <2>4. DoneInv'
    BY <1>7, NextOneType DEF CountInv, DoneInv
  <2> QED
    BY <2>1, <2>3, <2>4 DEF CountInv
<1>8. CASE JobReadPreference
  <2>1. job.at = "send" /\ job.stage = "pref" /\ UNCHANGED reminders
    BY <1>8, JobType DEF JobReadPreference
  <2>2. CASE CanEmail(job.user)
    <3>1. /\ job'.at = "send" /\ job'.runs = job.runs /\ job'.made = job.made
          /\ job'.stalls = job.stalls /\ job'.todo = job.todo /\ job'.all = job.all
          /\ job'.user = job.user /\ job'.stage = "mail"
      BY <1>8, <2>1, <2>2, JobType DEF JobReadPreference, Job
    <3> QED
      BY <2>1, <3>1 DEF CountInv, RunsInv, OnceARun, DoneInv, Running
  <2>3. CASE ~CanEmail(job.user)
    BY <1>7, <1>8, <2>1, <2>3 DEF JobReadPreference, Skipped
  <2> QED
    BY <2>2, <2>3
<1>9. CASE JobQueueMail
  BY <1>7, <1>9, JobType DEF JobQueueMail
<1>10. CASE JobFail
  <2>1. job' = Retry /\ UNCHANGED reminders /\ job.at \in {"card", "next", "send"}
    BY <1>10 DEF JobFail, Active
  <2>2. RunsInv'
    BY <2>1, RetryType, JobType DEF CountInv, RunsInv, Running
  <2>3. job'.at \in {"waiting", "failed"}
    BY <2>1, RetryType
  <2> QED
    BY <2>1, <2>2, <2>3, CountEnded, RetryType
<1>11. CASE Crash
  <2>1. CASE ~Active
    BY <1>1, <1>11, <2>1 DEF Crash
  <2>2. CASE Active
    <3> DEFINE at == IF job.stalls < Stalls THEN "waiting" ELSE "failed"
               e == Ended(at)
    <3>1. /\ e \in Job /\ e.at = at /\ e.user = None /\ e.stage = "none"
          /\ e.todo = {} /\ e.all = {}
          /\ e.runs = job.runs /\ e.made = job.made /\ e.stalls = job.stalls
      BY EndedType
    <3>2. job' = [e EXCEPT !.stalls = e.stalls + 1] /\ at \in {"waiting", "failed"}
      BY <1>11, <2>2 DEF Crash
    <3>3. job.at \in {"card", "next", "send"} /\ UNCHANGED reminders
      BY <1>11, <2>2 DEF Crash, Active
    <3>4. at = IF job.stalls < Stalls THEN "waiting" ELSE "failed"
      OBVIOUS
    <3> HIDE DEF e, at
    <3>5. /\ job' \in Job /\ job'.at = at /\ job'.user = None /\ job'.stage = "none"
          /\ job'.todo = {} /\ job'.all = {}
          /\ job'.runs = job.runs /\ job'.made = job.made /\ job'.stalls = job.stalls + 1
      BY <3>1, <3>2, JobType DEF Job
    <3>6. RunsInv'
      BY <3>3, <3>4, <3>5, JobType DEF CountInv, RunsInv, Running
    <3> QED
      BY <3>2, <3>3, <3>5, <3>6, CountEnded
  <2> QED
    BY <2>1, <2>2
<1>12. CASE Postpone \/ DeleteCard \/ (\E u \in Users : Assign(u))
  BY <1>1, <1>12 DEF Postpone, DeleteCard, Assign
<1>13. CASE \E s \in Slots : Emit(s) \/ ReadCard(s)
  BY <1>1, <1>13 DEF Emit, ReadCard
<1>14. CASE \E s \in Slots, u \in Users :
              Notify(s, u) \/ ReadPreference(s, u) \/ QueueMail(s, u) \/ Fail(s, u)
  BY <1>1, <1>14 DEF Notify, ReadPreference, QueueMail, Fail
<1>15. CASE \E m \in Mails : Deliver(m)
  BY <1>1, <1>15 DEF Deliver, Send, SendFails
<1>16. CASE UNCHANGED vars
  BY <1>1, <1>16 DEF vars
<1> QED
  BY <1>2, <1>3, <1>4, <1>5, <1>6, <1>8, <1>9, <1>10, <1>11, <1>12, <1>13, <1>14, <1>15, <1>16
     DEF Next, Work

\* However its attempts fail or stall, a job reminds nobody more often than it
\* is started, is started a bounded number of times, and completes only when
\* everybody its last look found has been reminded.
THEOREM RemindersSafe == Spec => []RemindersCounted
<1>1. Spec => []CountInv
  BY CountInit, CountStep, TypeCorrect, PTL DEF Spec
<1> QED
  BY <1>1, CountImplies, TypeCorrect, PTL

----------------------------------------------------------------------------
(* Preferences                                                               *)

\* Setting the stage of one recipient of an event leaves the others.
LEMMA GotoStage ==
  ASSUME TypeOK, NEW s \in Slots, NEW u \in Users, NEW stage \in Stages, Goto(s, u, stage),
         NEW t \in Slots, NEW w \in Users, event'[t].stage[w] = "mail"
  PROVE  \/ event[t].stage[w] = "mail"
         \/ t = s /\ w = u /\ stage = "mail"
<1> DEFINE q == [event[s] EXCEPT !.stage[u] = stage]
<1>1. q.stage = [event[s].stage EXCEPT ![u] = stage]
  BY EventType DEF Event
<1>2. event' = [event EXCEPT ![s] = IF q.stage = Nobody THEN NoEvent ELSE q]
  BY DEF Goto
<1> HIDE DEF q
<1>3. CASE t # s
  BY <1>2, <1>3 DEF TypeOK
<1>4. CASE t = s
  <2>1. q.stage # Nobody
    BY <1>2, <1>4, NoEventType DEF TypeOK, Nobody
  <2>2. q.stage[w] = "mail"
    BY <1>2, <1>4, <2>1 DEF TypeOK
  <2> QED
    BY <1>1, <1>4, <2>2, EventType
<1> QED
  BY <1>3, <1>4

LEMMA OptOutInit == Init => OptOutHonoured
BY NoEventType DEF Init, OptOutHonoured, NoJob, Nobody

LEMMA OptOutStep == TypeOK /\ OptOutHonoured /\ [Next]_vars => OptOutHonoured'
<1> SUFFICES ASSUME TypeOK, OptOutHonoured, [Next]_vars PROVE OptOutHonoured'
  OBVIOUS
<1>a. pref \in [Users -> BOOLEAN]
  BY DEF TypeOK
<1>1. ASSUME NEW s \in Slots, NEW u \in Users, NEW stage \in Stages, Goto(s, u, stage),
             stage = "mail" => pref[u], UNCHANGED <<pref, job>>
      PROVE  OptOutHonoured'
  BY <1>1, GotoStage DEF OptOutHonoured
<1>2. ASSUME job'.stage # "mail", UNCHANGED <<pref, event>> PROVE OptOutHonoured'
  BY <1>2 DEF OptOutHonoured
<1>3. CASE UNCHANGED <<pref, event, job>>
  BY <1>3 DEF OptOutHonoured
<1>4. ASSUME NEW u \in Users, UpdatePreference(u) PROVE OptOutHonoured'
  <2>1. \A w \in Users \ {u} : pref'[w] = pref[w]
    BY <1>4, <1>a DEF UpdatePreference
  <2>2. ASSUME NEW s \in Slots, NEW w \in Users, event'[s].stage[w] = "mail" PROVE pref'[w]
    <3>1. event'[s].stage = [event[s].stage EXCEPT ![u] = Belate(event[s].stage[u])]
      BY <1>4, EventType DEF UpdatePreference, Event
    <3>2. event[s].stage \in [Users -> Stages]
      BY EventType
    <3>3. w # u
      BY <2>2, <3>1, <3>2, BelateType
    <3>4. event[s].stage[w] = "mail"
      BY <2>2, <3>1, <3>2, <3>3
    <3> QED
      BY <2>1, <3>3, <3>4 DEF OptOutHonoured
  <2>3. ASSUME job'.stage = "mail" PROVE pref'[job'.user]
    <3>1. CASE job.user = u
      <4>1. job'.stage = Belate(job.stage)
        BY <1>4, <3>1, JobType DEF UpdatePreference, Job
      <4> QED
        BY <2>3, <4>1, BelateType, JobType
    <3>2. CASE job.user # u
      <4>1. job' = job /\ job.user \in Users
        BY <1>4, <2>3, <3>2, JobType DEF UpdatePreference
      <4> QED
        BY <2>1, <2>3, <3>2, <4>1 DEF OptOutHonoured
    <3> QED
      BY <3>1, <3>2
  <2> QED
    BY <2>2, <2>3 DEF OptOutHonoured
<1>5. ASSUME NEW s \in Slots, Emit(s) PROVE OptOutHonoured'
  <2>1. PICK q : event' = [event EXCEPT ![s] = q] /\ q.stage = Nobody
    BY <1>5, NoEventType DEF Emit, NoEvent
  <2>2. UNCHANGED <<pref, job>>
    BY <1>5 DEF Emit
  <2> QED
    BY <2>1, <2>2 DEF OptOutHonoured, Nobody, TypeOK
<1>6. ASSUME NEW s \in Slots, ReadCard(s) PROVE OptOutHonoured'
  <2> DEFINE told == IF card.exists THEN Recipients(event[s]) ELSE {}
             stage == [u \in Users |-> IF u \in told THEN "insert" ELSE "none"]
  <2>1. \A u \in Users : stage[u] # "mail"
    OBVIOUS
  <2>2. event' = [event EXCEPT ![s] = IF told = {} THEN NoEvent
                                     ELSE [event[s] EXCEPT !.at = "send", !.stage = stage]]
    BY <1>6 DEF ReadCard
  <2> HIDE DEF stage, told
  <2>3. [event[s] EXCEPT !.at = "send", !.stage = stage].stage = stage
    BY EventType DEF Event
  <2>4. UNCHANGED <<pref, job>>
    BY <1>6 DEF ReadCard
  <2> QED
    BY <2>1, <2>2, <2>3, <2>4, NoEventType DEF OptOutHonoured, Nobody, TypeOK
<1>7. ASSUME NEW s \in Slots, NEW u \in Users,
             Notify(s, u) \/ ReadPreference(s, u) \/ QueueMail(s, u) \/ Fail(s, u)
      PROVE  OptOutHonoured'
  <2>1. PICK stage \in Stages : Goto(s, u, stage) /\ (stage = "mail" => pref[u])
    BY <1>7 DEF Notify, ReadPreference, CanEmail, QueueMail, Fail, Stages
  <2>2. UNCHANGED <<pref, job>>
    BY <1>7 DEF Notify, ReadPreference, QueueMail, Fail
  <2> QED
    BY <1>1, <2>1, <2>2
<1>8. CASE Work
  <2>1. UNCHANGED <<pref, event>>
    BY <1>8 DEF Work, Start, JobReadCard, JobNext, JobNotify, JobReadPreference, JobQueueMail, JobFail
  <2>2. CASE Start \/ JobReadCard
    <3>1. job'.stage = job.stage /\ job.stage = "none"
      BY <2>2, JobType DEF Start, JobReadCard, Job
    <3> QED
      BY <1>2, <2>1, <3>1
  <2>3. CASE JobNext
    <3>1. job'.stage = "none" \/ job'.stage = "insert"
      BY <2>3, JobType DEF JobNext, Job
    <3> QED
      BY <1>2, <2>1, <3>1
  <2>4. CASE JobNotify
    <3>1. job'.stage = "pref"
      BY <2>4, JobType DEF JobNotify, Job
    <3> QED
      BY <1>2, <2>1, <3>1
  <2>5. CASE JobReadPreference
    <3>1. CASE CanEmail(job.user)
      <4>1. job'.user = job.user
        BY <2>5, <3>1, JobType DEF JobReadPreference, Job
      <4> QED
        BY <2>1, <3>1, <4>1 DEF OptOutHonoured, CanEmail
    <3>2. CASE ~CanEmail(job.user)
      BY <1>2, <2>1, <2>5, <3>2, NextOneType DEF JobReadPreference, Skipped
    <3> QED
      BY <3>1, <3>2
  <2>6. CASE JobQueueMail
    BY <1>2, <2>1, <2>6, NextOneType DEF JobQueueMail
  <2>7. CASE JobFail
    BY <1>2, <2>1, <2>7, RetryType DEF JobFail
  <2> QED
    BY <1>8, <2>2, <2>3, <2>4, <2>5, <2>6, <2>7 DEF Work
<1>9. CASE Crash
  <2>1. \A s \in Slots : event'[s].stage = Nobody
    BY <1>9, NoEventType DEF Crash
  <2>2. UNCHANGED pref
    BY <1>9 DEF Crash
  <2>3. job' = job \/ job'.stage = "none"
    <3>1. CASE Active
      <4> DEFINE at == IF job.stalls < Stalls THEN "waiting" ELSE "failed"
                 e == Ended(at)
      <4>1. e \in Job /\ e.stage = "none"
        BY EndedType
      <4>2. job' = [e EXCEPT !.stalls = e.stalls + 1]
        BY <1>9, <3>1 DEF Crash
      <4> HIDE DEF e, at
      <4> QED
        BY <4>1, <4>2 DEF Job
    <3>2. CASE ~Active
      BY <1>9, <3>2 DEF Crash
    <3> QED
      BY <3>1, <3>2
  <2> QED
    BY <2>1, <2>2, <2>3 DEF OptOutHonoured, Nobody
<1>10. CASE Postpone \/ DeleteCard \/ (\E u \in Users : Assign(u))
  BY <1>3, <1>10 DEF Postpone, DeleteCard, Assign
<1>11. CASE \E m \in Mails : Deliver(m)
  BY <1>3, <1>11 DEF Deliver, Send, SendFails
<1>12. CASE UNCHANGED vars
  BY <1>3, <1>12 DEF vars
<1> QED
  BY <1>4, <1>5, <1>6, <1>7, <1>8, <1>9, <1>10, <1>11, <1>12 DEF Next

\* Of the mails about to be queued, only those of a user whose preference
\* changed after it was read may go against it.
THEOREM OptOutSafe == Spec => []OptOutHonoured
BY OptOutInit, OptOutStep, TypeCorrect, PTL DEF Spec

----------------------------------------------------------------------------
(* Sockets: types                                                            *)

USE DEF Become, Finish, Put, UserOf, LoggedOut

\* What is still to be sent, idle slots included.
Kicks == {req[r] : r \in Reqs}
Eviction(u) == [op |-> "remove", who |-> u]
Closing(t) == [op |-> "logout", who |-> t]

LEMMA SocketType ==
  ASSUME GatewayTypeOK, NEW s \in SocketIds
  PROVE  /\ sock[s] \in Socket
         /\ sock[s].at = "off" => sock[s] = Off
         /\ sock[s].at # "off" => sock[s].token \in Tokens
         /\ sock[s].room \/ sock[s].joining => Open(s)
         /\ sock[s].at \in {"off", "cleared", "on"}
         /\ sock[s].room \in BOOLEAN /\ sock[s].joining \in BOOLEAN
         /\ sock[s].at = "cleared" => ~sock[s].room /\ ~sock[s].joining
         /\ sock[s] = [at |-> sock[s].at, token |-> sock[s].token,
                       room |-> sock[s].room, joining |-> sock[s].joining]
<1>1. sock[s] \in Socket
  BY DEF GatewayTypeOK
<1>2. CASE sock[s] = Off
  BY <1>1, <1>2 DEF Off, Open
<1>3. CASE sock[s] \in [at: {"cleared"}, token: Tokens, room: {FALSE}, joining: {FALSE}]
  BY <1>1, <1>3 DEF Open
<1>4. CASE sock[s] \in [at: {"on"}, token: Tokens, room: BOOLEAN, joining: BOOLEAN]
  BY <1>1, <1>4 DEF Open
<1> QED
  BY <1>1, <1>2, <1>4 DEF Socket

LEMMA EditedType ==
  ASSUME GatewayTypeOK, NEW s \in SocketIds, sock[s].at # "off"
  PROVE  /\ [sock[s] EXCEPT !.at = "on"] \in Socket
         /\ Open(s) => /\ [sock[s] EXCEPT !.joining = TRUE] \in Socket
                       /\ [sock[s] EXCEPT !.joining = FALSE, !.room = TRUE] \in Socket
                       /\ [sock[s] EXCEPT !.room = FALSE] \in Socket
<1> DEFINE q == sock[s]
           Admitted == [at: {"on"}, token: Tokens, room: BOOLEAN, joining: BOOLEAN]
<1>0. sock[s] \in Socket
  BY SocketType
<1>1. q \in [at: {"cleared", "on"}, token: Tokens, room: BOOLEAN, joining: BOOLEAN]
  <2>1. \/ q \in [at: {"cleared"}, token: Tokens, room: {FALSE}, joining: {FALSE}]
        \/ q \in Admitted
    <3>1. sock[s] # Off
      BY DEF Off
    <3> QED
      BY ONLY <1>0, <3>1 DEF Socket, q, Admitted
  <2> HIDE DEF q
  <2>2. CASE q \in [at: {"cleared"}, token: Tokens, room: {FALSE}, joining: {FALSE}]
    BY <2>2
  <2>3. CASE q \in Admitted
    BY <2>3
  <2> QED
    BY <2>1, <2>2, <2>3
<1>2. Open(s) => q \in Admitted
  BY <1>1 DEF Open
<1> HIDE DEF q
<1>3. [q EXCEPT !.at = "on"] \in Admitted
  BY <1>1
<1>4. ASSUME q \in Admitted PROVE [q EXCEPT !.joining = TRUE] \in Admitted
  BY <1>4
<1>5. ASSUME q \in Admitted PROVE [q EXCEPT !.joining = FALSE, !.room = TRUE] \in Admitted
  BY <1>5
<1>6. ASSUME q \in Admitted PROVE [q EXCEPT !.room = FALSE] \in Admitted
  BY <1>6
<1>7. Admitted \subseteq Socket
  BY DEF Socket
<1> QED
  BY <1>2, <1>3, <1>4, <1>5, <1>6, <1>7 DEF q

LEMMA SlotType ==
  ASSUME GatewayTypeOK, NEW r \in Reqs
  PROVE  /\ req[r] \in Request
         /\ req[r].op \in {"none", "remove", "logout"}
         /\ req[r] = [op |-> req[r].op, who |-> req[r].who]
         /\ req[r].who \in Accounts \cup Tokens \cup {Absent}
BY DEF GatewayTypeOK, Request

LEMMA UserType ==
  ASSUME GatewayTypeOK, NEW s \in SocketIds, sock[s].at # "off"
  PROVE  UserOf(s) \in Accounts
BY SocketType DEF UserOf, Owner, Tokens

LEMMA GatewayTypeInit == ASSUME GatewayInit PROVE GatewayTypeOK
BY DEF GatewayInit, GatewayTypeOK, Socket, Request, Idle, TokenStates

\* Closing sockets keeps the type.
LEMMA DropType ==
  ASSUME GatewayTypeOK, NEW gone, Drop(gone)
  PROVE  sock' \in [SocketIds -> Socket] /\ strays' \subseteq SocketIds
         /\ survivors' \subseteq SocketIds
BY DEF GatewayTypeOK, Drop, Socket, Off

LEMMA GatewayTypeStep == GatewayTypeOK /\ [GatewayNext]_gateway => GatewayTypeOK'
<1> SUFFICES ASSUME GatewayTypeOK, [GatewayNext]_gateway PROVE GatewayTypeOK'
  OBVIOUS
<1>1. Idle \in Request
  BY DEF Idle, Request
<1>2. ASSUME NEW s \in SocketIds, ClientStep(s) PROVE GatewayTypeOK'
  <2> USE SocketType
  <2>1. CASE Connect(s)
    <3>1. PICK t \in Tokens : /\ Put(s, [Off EXCEPT !.at = "cleared", !.token = t])
                              /\ survivors' \in {survivors \cup {s}, survivors \ {s}}
      BY <2>1 DEF Connect
    <3>2. [Off EXCEPT !.at = "cleared", !.token = t] \in Socket
      BY DEF Off, Socket
    <3> QED
      BY <2>1, <3>1, <3>2 DEF GatewayTypeOK, Connect
  <2>2. CASE Admit(s)
    <3>1. [sock[s] EXCEPT !.at = "on"] \in Socket
      BY <2>2, EditedType DEF Admit
    <3> QED
      BY <2>2, <3>1 DEF GatewayTypeOK, Admit
  <2>3. CASE Disconnect(s)
    BY <2>3 DEF GatewayTypeOK, Disconnect, Socket
  <2>4. CASE JoinLookup(s)
    <3>1. [sock[s] EXCEPT !.joining = TRUE] \in Socket
      BY <2>4, EditedType DEF JoinLookup, Open
    <3> QED
      BY <2>4, <3>1 DEF GatewayTypeOK, JoinLookup
  <2>5. CASE JoinRoom(s)
    <3>1. [sock[s] EXCEPT !.joining = FALSE, !.room = TRUE] \in Socket
      BY <2>5, SocketType, EditedType DEF JoinRoom, Open
    <3> QED
      BY <2>5, <3>1 DEF GatewayTypeOK, JoinRoom
  <2>6. CASE LeaveRoom(s)
    <3>1. [sock[s] EXCEPT !.room = FALSE] \in Socket
      BY <2>6, SocketType, EditedType DEF LeaveRoom, Open
    <3> QED
      BY <2>6, <3>1 DEF GatewayTypeOK, LeaveRoom
  <2> QED
    BY <1>2, <2>1, <2>2, <2>3, <2>4, <2>5, <2>6 DEF ClientStep
<1>3. ASSUME NEW r \in Reqs, RequestStep(r) PROVE GatewayTypeOK'
  <2>1. CASE RemoveMember(r)
    <3>1. PICK u \in member : /\ member' = member \ {u}
                              /\ req' = [req EXCEPT ![r] = [op |-> "remove", who |-> u]]
                              /\ strays' = strays \cup {s \in SocketsOf(u) : sock[s].joining}
      BY <2>1 DEF RemoveMember
    <3>2. [op |-> "remove", who |-> u] \in Request
      BY DEF GatewayTypeOK, Request
    <3> QED
      BY <2>1, <3>1, <3>2 DEF GatewayTypeOK, RemoveMember, SocketsOf
  <2>2. CASE EvictMember(r)
    <3>1. ASSUME NEW s \in SocketIds, s \in Evicted(req[r].who)
          PROVE  [sock[s] EXCEPT !.room = FALSE] \in Socket
      BY <3>1, SocketType, EditedType DEF Evicted, Room, Open
    <3> QED
      BY <1>1, <2>2, <3>1 DEF GatewayTypeOK, EvictMember
  <2>3. CASE Logout(r)
    <3>1. PICK t \in Tokens :
             /\ \E after \in {"blocked", "lapsed"} : token' = [token EXCEPT ![t] = after]
             /\ survivors' = survivors \cup
                  {s \in SocketIds : sock[s].token = t /\ sock[s].at = "cleared"}
             /\ req' = [req EXCEPT ![r] = [op |-> "logout", who |-> t]]
      BY <2>3 DEF Logout
    <3>2. [op |-> "logout", who |-> t] \in Request
      BY DEF Request
    <3> QED
      BY <2>3, <3>1, <3>2 DEF GatewayTypeOK, Logout, TokenStates
  <2>4. CASE DropSockets(r)
    BY <1>1, <2>4, DropType DEF GatewayTypeOK, DropSockets
  <2>5. CASE Abort(r)
    BY <1>1, <2>5 DEF GatewayTypeOK, Abort, Evicted, Room, Targets
  <2> QED
    BY <1>3, <2>1, <2>2, <2>3, <2>4, <2>5 DEF RequestStep
<1>4. ASSUME NEW u \in Accounts, AddMember(u) PROVE GatewayTypeOK'
  BY <1>4 DEF GatewayTypeOK, AddMember
<1>5. ASSUME NEW u \in Accounts, LogoutAll(u) PROVE GatewayTypeOK'
  BY <1>5, DropType DEF GatewayTypeOK, LogoutAll
<1>6. ASSUME NEW t \in Tokens, BlacklistExpires(t) PROVE GatewayTypeOK'
  BY <1>6 DEF GatewayTypeOK, BlacklistExpires, TokenStates
<1>7. CASE UNCHANGED gateway
  BY <1>7 DEF GatewayTypeOK, gateway
<1> QED
  BY <1>2, <1>3, <1>4, <1>5, <1>6, <1>7 DEF GatewayNext

----------------------------------------------------------------------------
(* Who is in the room, and who is connected                                  *)

\* A socket that is joining was let in by a membership that still stands; one
\* that is in the room is a member's or about to be kicked; one that is being
\* admitted has a good token; one that is on has a good token or is about to be
\* kicked.  The sockets in the histories are left out.
Sound(s) ==
    /\ s \notin strays =>
         /\ sock[s].joining => UserOf(s) \in member
         /\ sock[s].room => UserOf(s) \in member \/ Eviction(UserOf(s)) \in Kicks
    /\ s \notin survivors =>
         /\ sock[s].at = "cleared" => ~LoggedOut(sock[s].token)
         /\ Open(s) /\ LoggedOut(sock[s].token) => Closing(sock[s].token) \in Kicks

SocketInv == \A s \in SocketIds : Sound(s)

\* A kick that another request has to send is still to be sent.
LEMMA KicksStay ==
  ASSUME GatewayTypeOK, NEW r \in Reqs, NEW rec, req' = [req EXCEPT ![r] = rec]
  PROVE  rec \in Kicks' /\ Kicks \subseteq Kicks' \cup {req[r]}
BY DEF Kicks, GatewayTypeOK

LEMMA KickNames ==
  ASSUME NEW u, NEW w
  PROVE  /\ Eviction(u) # Closing(w) /\ Eviction(u) # Idle /\ Closing(u) # Idle
         /\ Eviction(u) = Eviction(w) => u = w
         /\ Closing(u) = Closing(w) => u = w
         /\ Eviction(u).op = "remove" /\ Eviction(u).who = u
         /\ Closing(u).op = "logout" /\ Closing(u).who = u
<1>1. Eviction(u).op = "remove" /\ Closing(w).op = "logout" /\ Closing(u).op = "logout"
      /\ Idle.op = "none" /\ Eviction(u).who = u /\ Eviction(w).who = w
      /\ Closing(u).who = u /\ Closing(w).who = w
  BY DEF Eviction, Closing, Idle
<1> QED
  BY <1>1

\* What an untouched socket needs: memberships, tokens and kicks stand, and it
\* leaves no history.
LEMMA Untouched ==
  ASSUME NEW s \in SocketIds, Sound(s), sock'[s] = sock[s],
         s \in strays => s \in strays', s \in survivors => s \in survivors',
         s \notin strays' /\ UserOf(s) \in member => UserOf(s) \in member' \/
                                   (~sock[s].joining /\ Eviction(UserOf(s)) \in Kicks'),
         s \notin strays' /\ sock[s].room /\ Eviction(UserOf(s)) \in Kicks
            => Eviction(UserOf(s)) \in Kicks' \/ UserOf(s) \in member',
         s \notin survivors' /\ sock[s].at # "off" /\ LoggedOut(sock[s].token)'
            => \/ LoggedOut(sock[s].token)
               \/ sock[s].at = "on" /\ Closing(sock[s].token) \in Kicks',
         s \notin survivors' /\ Open(s) /\ Closing(sock[s].token) \in Kicks
            => Closing(sock[s].token) \in Kicks'
  PROVE  Sound(s)'
<1>1. UserOf(s)' = UserOf(s) /\ Open(s)' = Open(s)
  BY DEF Open
<1> QED
  BY <1>1 DEF Sound, Open

\* A socket that is off is sound.
LEMMA OffSound == ASSUME NEW s \in SocketIds, sock[s] = Off PROVE Sound(s)
BY DEF Sound, Off, Open

LEMMA SocketStep == GatewayTypeOK /\ SocketInv /\ [GatewayNext]_gateway => SocketInv'
<1> SUFFICES ASSUME GatewayTypeOK, SocketInv, [GatewayNext]_gateway, NEW s \in SocketIds PROVE Sound(s)'
  BY DEF SocketInv
<1>1. Sound(s)
  BY DEF SocketInv
<1>2. UNCHANGED req => Kicks' = Kicks
  BY DEF Kicks
<1>4. sock'[s] = Off => Sound(s)'
  BY DEF Sound, Off, Open
<1>5. ASSUME NEW q \in SocketIds, ClientStep(q) PROVE Sound(s)'
  <2>1. UNCHANGED <<member, token, req>>
    BY <1>5 DEF ClientStep, Connect, Admit, Disconnect, JoinLookup, JoinRoom, LeaveRoom
  <2>2. CASE q # s
    <3>1. /\ sock'[s] = sock[s]
          /\ s \in strays <=> s \in strays'
          /\ s \in survivors <=> s \in survivors'
      BY <1>5, <2>2 DEF ClientStep, Connect, Admit, Disconnect, JoinLookup, JoinRoom, LeaveRoom,
                        GatewayTypeOK
    <3> QED
      BY <1>1, <1>2, <2>1, <3>1, Untouched
  <2>3. CASE q = s /\ Connect(s)
    <3>1. PICK t \in Tokens :
             /\ token[t] # "blocked"
             /\ sock' = [sock EXCEPT ![s] = [Off EXCEPT !.at = "cleared", !.token = t]]
             /\ token[t] = "lapsed" => s \in survivors'
      BY <2>3 DEF Connect, Blacklisted
    <3>2. token[t] # "lapsed" => ~LoggedOut(t)'
      BY <2>1, <3>1 DEF GatewayTypeOK, TokenStates
    <3>3. sock'[s] = [Off EXCEPT !.at = "cleared", !.token = t]
      BY <3>1 DEF GatewayTypeOK
    <3> QED
      BY <3>1, <3>2, <3>3 DEF Sound, Off, Open
  <2>4. CASE q = s /\ Admit(s)
    <3>1. /\ sock'[s] = [sock[s] EXCEPT !.at = "on"] /\ sock[s].at = "cleared"
          /\ UNCHANGED <<strays, survivors>>
      BY <2>4 DEF Admit, GatewayTypeOK
    <3>2. sock'[s].token = sock[s].token /\ ~sock'[s].joining /\ ~sock'[s].room
      BY <3>1, SocketType
    <3> QED
      BY <1>1, <1>2, <2>1, <3>1, <3>2 DEF Sound
  <2>5. CASE q = s /\ Disconnect(s)
    BY <1>4, <2>5 DEF Disconnect, GatewayTypeOK
  <2>6. CASE q = s /\ (JoinLookup(s) \/ JoinRoom(s) \/ LeaveRoom(s))
    <3>1. /\ \/ sock'[s] = [sock[s] EXCEPT !.joining = TRUE] /\ UserOf(s) \in member
             \/ sock'[s] = [sock[s] EXCEPT !.joining = FALSE, !.room = TRUE]
                  /\ sock[s].joining /\ UNCHANGED strays
             \/ sock'[s] = [sock[s] EXCEPT !.room = FALSE] /\ UNCHANGED strays
          /\ UNCHANGED survivors /\ Open(s)
      BY <2>6, SocketType DEF JoinLookup, JoinRoom, LeaveRoom, GatewayTypeOK
    <3>2. sock'[s].token = sock[s].token /\ sock'[s].at = sock[s].at
      BY <3>1, SocketType, ZenonT(60)
    <3>3. UserOf(s)' = UserOf(s) /\ Open(s)' = Open(s)
      BY <3>2 DEF Open
    <3>4. s \notin strays' => /\ sock'[s].joining => UserOf(s) \in member
                              /\ sock'[s].room => \/ UserOf(s) \in member
                                                  \/ Eviction(UserOf(s)) \in Kicks
      <4>1. CASE sock'[s] = [sock[s] EXCEPT !.joining = TRUE] /\ UserOf(s) \in member
        BY <4>1
      <4>2. CASE /\ sock'[s] = [sock[s] EXCEPT !.joining = FALSE, !.room = TRUE]
                 /\ sock[s].joining /\ UNCHANGED strays
        <5>1. sock'[s].joining = FALSE
          BY <4>2, <3>1, SocketType
        <5> QED
          BY <1>1, <4>2, <5>1 DEF Sound
      <4>3. CASE sock'[s] = [sock[s] EXCEPT !.room = FALSE] /\ UNCHANGED strays
        <5>1. sock'[s].joining = sock[s].joining /\ sock'[s].room = FALSE
          BY <4>3, <3>1, SocketType
        <5> QED
          BY <1>1, <4>3, <5>1 DEF Sound
      <4> QED
        BY <3>1, <4>1, <4>2, <4>3
    <3>5. s \notin survivors' =>
            /\ sock'[s].at # "cleared"
            /\ LoggedOut(sock[s].token) => Closing(sock[s].token) \in Kicks
      BY <1>1, <3>1, <3>2 DEF Sound, Open
    <3> QED
      BY <1>2, <2>1, <3>2, <3>3, <3>4, <3>5 DEF Sound
  <2> QED
    BY <1>5, <2>2, <2>3, <2>4, <2>5, <2>6 DEF ClientStep
<1>6. ASSUME NEW r \in Reqs, RemoveMember(r) PROVE Sound(s)'
  <2>1. PICK u \in member :
           /\ member' = member \ {u}
           /\ req' = [req EXCEPT ![r] = [op |-> "remove", who |-> u]]
           /\ strays' = strays \cup {x \in SocketsOf(u) : sock[x].joining}
    BY <1>6 DEF RemoveMember
  <2>2. Kicks \subseteq Kicks' \cup {Idle}
    BY <1>6, <2>1, KicksStay DEF RemoveMember, Free, Idle
  <2>3. Eviction(u) \in Kicks'
    BY <2>1, KicksStay DEF Eviction, Closing
  <2>4. UserOf(s) = u /\ sock[s].joining => s \in strays'
    BY <2>1, SocketType DEF SocketsOf
  <2>5. UserOf(s) \in member => UserOf(s) \in member' \/ UserOf(s) = u
    BY <2>1
  <2> QED
    BY <1>1, <1>6, <2>1, <2>2, <2>3, <2>4, <2>5, Untouched, KickNames DEF RemoveMember
<1>7. ASSUME NEW r \in Reqs, EvictMember(r) PROVE Sound(s)'
  <2>1. req[r].op = "remove" /\ req' = [req EXCEPT ![r] = Idle]
    BY <1>7 DEF EvictMember
  <2>2. \A t : Closing(t) \in Kicks => Closing(t) \in Kicks'
    BY <2>1, KicksStay, KickNames
  <2>3. \A u : u # req[r].who /\ Eviction(u) \in Kicks => Eviction(u) \in Kicks'
    BY <2>1, KicksStay, KickNames
  <2>4. CASE s \in Evicted(req[r].who)
    <3>1. sock'[s] = [sock[s] EXCEPT !.room = FALSE] /\ Open(s)
      BY <1>7, <2>4, SocketType DEF EvictMember, Evicted, Room
    <3>2. /\ sock'[s].token = sock[s].token /\ sock'[s].at = sock[s].at
          /\ sock'[s].joining = sock[s].joining /\ ~sock'[s].room
      BY <3>1, SocketType
    <3> QED
      BY <1>1, <1>7, <2>2, <3>2 DEF EvictMember, Sound, Open
  <2>5. CASE s \notin Evicted(req[r].who)
    <3>1. sock'[s] = sock[s] /\ (sock[s].room => UserOf(s) # req[r].who)
      BY <1>7, <2>5 DEF EvictMember, Evicted, Room
    <3> QED
      BY <1>1, <1>7, <2>2, <2>3, <3>1, Untouched DEF EvictMember
  <2> QED
    BY <2>4, <2>5
<1>8. ASSUME NEW r \in Reqs, Logout(r) PROVE Sound(s)'
  <2>1. PICK t \in Tokens :
           /\ \E after \in {"blocked", "lapsed"} : token' = [token EXCEPT ![t] = after]
           /\ survivors' = survivors \cup
                {x \in SocketIds : sock[x].token = t /\ sock[x].at = "cleared"}
           /\ req' = [req EXCEPT ![r] = [op |-> "logout", who |-> t]]
    BY <1>8 DEF Logout
  <2>2. Kicks \subseteq Kicks' \cup {Idle}
    BY <1>8, <2>1, KicksStay DEF Logout, Free, Idle
  <2>3. Closing(t) \in Kicks'
    BY <2>1, KicksStay DEF Eviction, Closing
  <2>4. sock[s].at # "off" /\ sock[s].token # t
        => LoggedOut(sock[s].token)' = LoggedOut(sock[s].token)
    BY <1>8, <2>1, SocketType DEF Logout, GatewayTypeOK
  <2>5. sock[s].token = t /\ s \notin survivors' /\ sock[s].at # "off" => sock[s].at = "on"
    BY <2>1, SocketType
  <2> QED
    BY <1>1, <1>8, <2>1, <2>2, <2>3, <2>4, <2>5, Untouched, KickNames DEF Logout
<1>9. ASSUME NEW r \in Reqs, DropSockets(r) PROVE Sound(s)'
  <2>1. /\ req[r].op = "logout" /\ req' = [req EXCEPT ![r] = Idle]
        /\ Drop(Targets("logout", req[r].who)) /\ UNCHANGED <<member, token>>
    BY <1>9 DEF DropSockets
  <2>2. \A u : Eviction(u) \in Kicks => Eviction(u) \in Kicks'
    BY <2>1, KicksStay, KickNames
  <2>3. \A t : t # req[r].who /\ Closing(t) \in Kicks => Closing(t) \in Kicks'
    BY <2>1, KicksStay, KickNames
  <2>4. CASE s \in Targets("logout", req[r].who)
    BY <1>4, <2>1, <2>4 DEF Drop
  <2>5. CASE s \notin Targets("logout", req[r].who)
    <3>1. /\ sock'[s] = sock[s] /\ (Open(s) => sock[s].token # req[r].who)
          /\ s \in strays <=> s \in strays'
          /\ s \in survivors <=> s \in survivors'
      BY <2>1, <2>5 DEF Drop, Targets
    <3> QED
      BY <1>1, <2>1, <2>2, <2>3, <3>1, Untouched
  <2> QED
    BY <2>4, <2>5
<1>10. ASSUME NEW r \in Reqs, Abort(r) PROVE Sound(s)'
  <2>1. /\ UNCHANGED <<sock, member, token>> /\ req' = [req EXCEPT ![r] = Idle]
        /\ IF req[r].op = "remove" THEN strays' = strays \cup Evicted(req[r].who)
           ELSE UNCHANGED strays
        /\ IF req[r].op = "logout"
           THEN survivors' = survivors \cup Targets("logout", req[r].who)
           ELSE UNCHANGED survivors
    BY <1>10 DEF Abort
  <2>2. \A k \in Kicks : k # req[r] => k \in Kicks'
    BY <2>1, KicksStay, KickNames
  <2>3. req[r].op = "remove" /\ sock[s].room /\ s \notin strays' => UserOf(s) # req[r].who
    BY <2>1 DEF Evicted, Room
  <2>4. req[r].op = "logout" /\ Open(s) /\ s \notin survivors' => sock[s].token # req[r].who
    BY <2>1 DEF Targets
  <2> QED
    BY <1>1, <2>1, <2>2, <2>3, <2>4, Untouched, KickNames
<1>11. ASSUME NEW u \in Accounts, AddMember(u) PROVE Sound(s)'
  <2>1. /\ member' = member \cup {u} /\ strays' = {x \in strays : UserOf(x) # u}
        /\ UNCHANGED <<sock, token, req, survivors>>
    BY <1>11 DEF AddMember
  <2>2. CASE UserOf(s) = u
    BY <1>1, <1>2, <2>1, <2>2 DEF Sound, Open
  <2>3. CASE UserOf(s) # u
    BY <1>1, <1>2, <2>1, <2>3, Untouched
  <2> QED
    BY <2>2, <2>3
<1>12. ASSUME NEW u \in Accounts, LogoutAll(u) PROVE Sound(s)'
  <2>1. Drop(Targets("logoutAll", u)) /\ UNCHANGED <<member, token, req>>
    BY <1>12 DEF LogoutAll
  <2>2. CASE s \in Targets("logoutAll", u)
    BY <1>4, <2>1, <2>2 DEF Drop
  <2>3. CASE s \notin Targets("logoutAll", u)
    <3>1. /\ sock'[s] = sock[s]
          /\ s \in strays <=> s \in strays'
          /\ s \in survivors <=> s \in survivors'
      BY <2>1, <2>3 DEF Drop
    <3> QED
      BY <1>1, <1>2, <2>1, <3>1, Untouched
  <2> QED
    BY <2>2, <2>3
<1>13. ASSUME NEW t \in Tokens, BlacklistExpires(t) PROVE Sound(s)'
  <2>1. \A x \in Tokens : LoggedOut(x)' = LoggedOut(x)
    BY <1>13 DEF BlacklistExpires, GatewayTypeOK
  <2> QED
    BY <1>1, <1>2, <1>13, <2>1, SocketType, Untouched DEF BlacklistExpires
<1>14. CASE UNCHANGED gateway
  BY <1>1, <1>2, <1>14, Untouched DEF gateway
<1> QED
  BY <1>5, <1>6, <1>7, <1>8, <1>9, <1>10, <1>11, <1>12, <1>13, <1>14
     DEF GatewayNext, RequestStep

----------------------------------------------------------------------------
(* The theorems                                                              *)

\* In every reachable state a socket, a token and a request have their types.
THEOREM GatewayTypeCorrect == GatewaySpec => []GatewayTypeOK
<1> QED
  BY GatewayTypeInit, GatewayTypeStep, PTL DEF GatewaySpec

LEMMA SocketInvHolds == GatewaySpec => []SocketInv
<1>1. GatewayInit => SocketInv
  BY DEF GatewayInit, SocketInv, Sound, Off, Open
<1> QED
  BY <1>1, SocketStep, GatewayTypeCorrect, PTL DEF GatewaySpec

\* Events of the board reach members, but for the sockets that a removal
\* overtook or whose kick was lost.
THEOREM RoomSafe == GatewaySpec => []OutsidersHearNothing
<1>1. SocketInv => OutsidersHearNothing
  BY DEF SocketInv, Sound, OutsidersHearNothing, Audience, Room,
         Kicking, Kicks, Eviction
<1> QED
  BY <1>1, SocketInvHolds, PTL

\* Notifications reach no socket of a token that was logged out, but for the
\* sockets that the logout overtook or whose kick was lost.
THEOREM LogoutSafe == GatewaySpec => []LoggedOutHearNothing
<1>1. GatewayTypeOK /\ SocketInv => LoggedOutHearNothing
  <2> SUFFICES ASSUME GatewayTypeOK, SocketInv, NEW u \in Accounts, NEW s \in Audience(u) \ survivors,
                      LoggedOut(sock[s].token)
               PROVE  Closing(sock[s].token) \in Kicks
    BY DEF LoggedOutHearNothing, Kicking, Kicks, Closing
  <2>1. s \in SocketIds /\ Open(s)
    BY SocketType DEF Audience, Room, SocketsOf
  <2> QED
    BY <2>1 DEF SocketInv, Sound
<1> QED
  BY <1>1, SocketInvHolds, GatewayTypeCorrect, PTL

\* A kick closes the sockets of its own token or, after a logout of all
\* devices, of its user, and takes nobody else out of the room.
THEOREM KicksSafe == GatewaySpec => KicksHitTheirTarget
<1>1. GatewayTypeOK /\ [GatewayNext]_gateway =>
        [\A s \in SocketIds :
           /\ Open(s) /\ sock'[s].at = "off" =>
                \/ Disconnect(s) \/ LogoutAll(UserOf(s))
                \/ \E r \in Reqs : req[r] = [op |-> "logout", who |-> sock[s].token]
                                   /\ req'[r] = Idle
           /\ sock[s].room /\ ~sock'[s].room /\ sock'[s].at = "on" =>
                \/ LeaveRoom(s)
                \/ \E r \in Reqs : req[r] = [op |-> "remove", who |-> UserOf(s)]
                                   /\ req'[r] = Idle]_gateway
  <2> SUFFICES ASSUME GatewayTypeOK, GatewayNext, NEW s \in SocketIds
               PROVE  /\ Open(s) /\ sock'[s].at = "off" =>
                           \/ Disconnect(s) \/ LogoutAll(UserOf(s))
                           \/ \E r \in Reqs : req[r] = Closing(sock[s].token) /\ req'[r] = Idle
                      /\ sock[s].room /\ ~sock'[s].room /\ sock'[s].at = "on" =>
                           \/ LeaveRoom(s)
                           \/ \E r \in Reqs : req[r] = Eviction(UserOf(s)) /\ req'[r] = Idle
    BY DEF Closing, Eviction, gateway
  <2>1. CASE sock'[s] = sock[s]
    BY <2>1 DEF Open
  <2>2. ASSUME NEW q \in SocketIds, ClientStep(q), sock'[s] # sock[s]
        PROVE  /\ Open(s) /\ sock'[s].at = "off" => Disconnect(s)
               /\ sock[s].room /\ ~sock'[s].room /\ sock'[s].at = "on" => LeaveRoom(s)
    <3>1. q = s
      BY <2>2 DEF ClientStep, Connect, Admit, Disconnect, JoinLookup, JoinRoom, LeaveRoom, GatewayTypeOK
    <3>2. CASE Connect(s) \/ Admit(s)
      BY <3>2, SocketType DEF Connect, Admit, Open
    <3>3. CASE Disconnect(s)
      BY <3>3 DEF Disconnect, GatewayTypeOK, Off
    <3>4. CASE JoinLookup(s) \/ JoinRoom(s)
      <4>1. \/ sock'[s] = [sock[s] EXCEPT !.joining = TRUE]
            \/ sock'[s] = [sock[s] EXCEPT !.joining = FALSE, !.room = TRUE]
        BY <3>4 DEF JoinLookup, JoinRoom, GatewayTypeOK
      <4>2. sock'[s].at = sock[s].at /\ (sock[s].room => sock'[s].room)
        BY <4>1, SocketType
      <4> QED
        BY <4>2 DEF Open
    <3>5. CASE LeaveRoom(s)
      <4>1. sock'[s] = [sock[s] EXCEPT !.room = FALSE]
        BY <3>5 DEF LeaveRoom, GatewayTypeOK
      <4>2. sock'[s].at = sock[s].at
        BY <4>1, SocketType
      <4> QED
        BY <3>5, <4>2 DEF Open
    <3> QED
      BY <2>2, <3>1, <3>2, <3>3, <3>4, <3>5 DEF ClientStep
  <2>3. ASSUME NEW r \in Reqs, EvictMember(r), sock'[s] # sock[s]
        PROVE  /\ sock'[s].at = sock[s].at
               /\ req[r] = Eviction(UserOf(s)) /\ req'[r] = Idle
    <3>1. s \in Evicted(req[r].who) /\ sock'[s] = [sock[s] EXCEPT !.room = FALSE]
      BY <2>3 DEF EvictMember
    <3>2. sock'[s].at = sock[s].at
      BY <3>1, SocketType
    <3>3. req[r] = Eviction(UserOf(s))
      BY <2>3, <3>1, SlotType DEF EvictMember, Evicted, Eviction
    <3> QED
      BY <2>3, <3>2, <3>3 DEF EvictMember, GatewayTypeOK
  <2>4. ASSUME NEW r \in Reqs, DropSockets(r), sock'[s] # sock[s]
        PROVE  sock'[s].at = "off" /\ req[r] = Closing(sock[s].token) /\ req'[r] = Idle
    <3>1. s \in Targets("logout", req[r].who) /\ sock'[s] = Off
      BY <2>4 DEF DropSockets, Drop
    <3>2. req[r] = Closing(sock[s].token)
      BY <2>4, <3>1, SlotType DEF DropSockets, Targets, Closing
    <3> QED
      BY <2>4, <3>1, <3>2 DEF DropSockets, GatewayTypeOK, Off
  <2>5. ASSUME NEW u \in Accounts, LogoutAll(u), sock'[s] # sock[s]
        PROVE  sock'[s].at = "off" /\ LogoutAll(UserOf(s))
    <3>1. s \in Targets("logoutAll", u) /\ sock'[s] = Off
      BY <2>5 DEF LogoutAll, Drop
    <3>2. UserOf(s) = u
      BY <3>1 DEF Targets
    <3>3. LogoutAll(UserOf(s))
      BY ONLY <2>5, <3>2
    <3> QED
      BY <3>1, <3>3 DEF Off
  <2>6. \/ sock' = sock
        \/ \E q \in SocketIds : ClientStep(q)
        \/ \E r \in Reqs : EvictMember(r) \/ DropSockets(r)
        \/ \E u \in Accounts : LogoutAll(u)
    BY DEF GatewayNext, RequestStep, RemoveMember, Logout, Abort, AddMember, BlacklistExpires
  <2> QED
    BY <2>1, <2>2, <2>3, <2>4, <2>5, <2>6 DEF Open
<1> QED
  BY <1>1, GatewayTypeCorrect, PTL DEF GatewaySpec, KicksHitTheirTarget
=============================================================================
