-------------------------------- MODULE Notices --------------------------------
(***************************************************************************)
(* NotificationService and CronService: a notice is sent at once, or at a  *)
(* date by a job that lives in the memory of the process and is named      *)
(* after the day of the date.                                              *)
(***************************************************************************)
EXTENDS Requests, Naturals

CONSTANTS
    NoticeIds,   \* the notices ever asked for
    Days         \* the days they are scheduled for

VARIABLES
    jobs,        \* SchedulerRegistry: by day, None or the notice and whether it is due yet
    notices,     \* table notifications with notification_users
    answered,    \* history: the notices whose sender was told they are queued
    delivered,   \* history: how often each notice went out
    restarted    \* history: the process has been restarted

noticeVars == <<jobs, notices, answered, delivered, restarted>>

Job == [notice: NoticeIds, due: BOOLEAN]

ASSUME NoneIsNoJob == None \notin Job

NoticeTask == [pc: {"schedule"}, notice: NoticeIds, day: Days]
    \cup [pc: {"deliver", "save"}, notice: NoticeIds]

NoticesTypeOK ==
    /\ jobs \in [Days -> Job \cup {None}]
    /\ notices \subseteq NoticeIds
    /\ answered \subseteq NoticeIds
    /\ delivered \in [NoticeIds -> Nat]
    /\ restarted \in BOOLEAN
    /\ \A s \in Slots : task[s] \in NoticeTask \cup {Idle}

NoticesInit ==
    /\ jobs = [d \in Days |-> None]
    /\ notices = {}
    /\ answered = {}
    /\ delivered = [n \in NoticeIds |-> 0]
    /\ restarted = FALSE

\* A request that nobody has made yet.
Unasked(n) ==
    /\ n \notin answered /\ delivered[n] = 0
    /\ \A s \in Slots : task[s] \in NoticeTask => task[s].notice # n

-----------------------------------------------------------------------------
(* To all users, some, those with a role or the inactive ones: the users   *)
(* are read now, whenever the notice goes out.                             *)

\* Notices to the inactive go out at once, schedule or not.
SendNow(s, n) ==
    /\ Unasked(n)
    /\ Begin(s, [pc |-> "deliver", notice |-> n])
    /\ UNCHANGED noticeVars

Schedule(s, n, day) ==
    /\ Unasked(n)
    /\ Begin(s, [pc |-> "schedule", notice |-> n, day |-> day])
    /\ UNCHANGED noticeVars

\* addJob is asynchronous and not awaited: the sender is told that the notice is
\* queued also when the registry refuses the name, which jobs done keep too.
AddJob(s) ==
    /\ At(s, "schedule")
    /\ LET n == task[s].notice
           day == task[s].day
       IN  /\ jobs' = [jobs EXCEPT ![day] = IF @ = None THEN [notice |-> n, due |-> TRUE] ELSE @]
           /\ answered' = answered \cup {n}
    /\ Finish(s)
    /\ UNCHANGED <<notices, delivered, restarted>>

\* For contrast, a job that is not over once it has run.
StillDue(job) == job

Run(job) == [job EXCEPT !.due = FALSE]

\* The date has come.
Tick(s, day) ==
    /\ jobs[day] # None /\ jobs[day].due
    /\ Begin(s, [pc |-> "deliver", notice |-> jobs[day].notice])
    /\ jobs' = [jobs EXCEPT ![day] = Run(@)]
    /\ UNCHANGED <<notices, answered, delivered, restarted>>

-----------------------------------------------------------------------------
\* A failure of the mail or sms service is logged; either way the notice is saved.
Deliver(s, fails) ==
    /\ At(s, "deliver")
    /\ delivered' = [delivered EXCEPT ![task[s].notice] = IF fails THEN @ ELSE @ + 1]
    /\ Await(s, [task[s] EXCEPT !.pc = "save"])
    /\ UNCHANGED <<jobs, notices, answered, restarted>>

\* A user removed since makes the insert fail; the sender then hears of a wrong
\* channel.
SaveNotice(s, fails) ==
    /\ At(s, "save")
    /\ notices' = IF fails THEN notices ELSE notices \cup {task[s].notice}
    /\ Finish(s)
    /\ UNCHANGED <<jobs, answered, delivered, restarted>>

\* find is not awaited, so it always finds; a row that is gone makes delete throw.
DeleteNotice(n) ==
    /\ n \in notices
    /\ notices' = notices \ {n}
    /\ UNCHANGED <<task, jobs, answered, delivered, restarted>>

\* An exit of the process: also by the rejection of addJob, when no Sentry listens.
RestartJobs ==
    /\ jobs' = [d \in Days |-> None]
    /\ task' = [s \in Slots |-> Idle]
    /\ restarted' = TRUE
    /\ UNCHANGED <<notices, answered, delivered>>

-----------------------------------------------------------------------------
NoticesNext ==
    \/ \E n \in NoticeIds : DeleteNotice(n)
    \/ RestartJobs
    \/ \E s \in Slots :
        \/ \E n \in NoticeIds :
            SendNow(s, n) \/ \E day \in Days : Schedule(s, n, day)
        \/ \E day \in Days : Tick(s, day)
        \/ AddJob(s)
        \/ \E fails \in BOOLEAN : Deliver(s, fails) \/ SaveNotice(s, fails)

NoticesSpec == RequestsInit /\ NoticesInit /\ [][NoticesNext]_<<task, noticeVars>>

-----------------------------------------------------------------------------
\* Nobody gets a notice twice, whatever jobs and requests overlap and however often
\* the process restarts: a job runs once and is not made again.
DeliveredOnce == \A n \in NoticeIds : delivered[n] <= 1

\* What the answer of sendNotification says: as long as the process runs, a notice
\* whose sender was told 'Notification queued' is in the queue, on its way, or has
\* been tried.
QueuedIsQueued ==
    \A n \in answered :
        \/ restarted
        \/ \E d \in Days : jobs[d] # None /\ jobs[d].notice = n
=============================================================================
