------------------------------ MODULE MonthlyRun ------------------------------
(***************************************************************************)
(* How a month gets invoiced: the cron runner that dispatches the invoicer *)
(* once a month and the reconciliation every day, the loop of              *)
(* run_invoicing over the customers, and the operator who runs             *)
(* issue_invoices again after an error in the log or an outage of the      *)
(* runner.  What one invoice charges is in Billing.tla.                    *)
(*                                                                         *)
(* The clock counts minutes; a month has MonthLength of them.  The runner  *)
(* polls every 15 seconds, so no minute passes without a poll while it is  *)
(* up.  A draft exists only inside the transaction that issues it.         *)
(***************************************************************************)
EXTENDS Integers

CONSTANTS
    Customers,
    Jobs,         \* processes running issue_invoices
    MonthLength,  \* minutes in a month
    IssueAt,      \* the minute of the month the invoicer is scheduled for
    ReconcileAt,  \* the minutes of the month the reconciliation is scheduled for
    Grace,        \* grace_days of check_stuck_drafts, in minutes
    FirstMonth, LastMonth,  \* bound: the months the clock runs through
    MaxFailures,  \* bound: how many jobs fail or runners die
    None          \* no customer, or no minute yet

ASSUME ClockAssumption ==
    /\ MonthLength \in Nat \ {0} /\ IssueAt \in 0 .. MonthLength - 1
    /\ ReconcileAt \subseteq 0 .. MonthLength - 1
    /\ FirstMonth \in Nat \ {0} /\ LastMonth \in Nat /\ FirstMonth <= LastMonth
    /\ Grace \in Nat /\ MaxFailures \in Nat

Periods == 0 .. LastMonth - 1
MonthOf(t) == t \div MonthLength
MinuteOf(t) == t % MonthLength
CurrentMonthPeriod(t) == MonthOf(t)               \* mutant: the month of now
PreviousMonthPeriod(t) == MonthOf(t) - 1

VARIABLES
    minute,    \* the clock
    up,        \* whether the runner is running
    lastKey,   \* last_minute_key of the runner
    due,       \* whether a dispatched reconciliation has not run yet
    report,    \* what the last reconciliation of this minute found
    alarm,     \* whether an error or an outage waits for an operator
    invoice,   \* committed rows: the status of a customer's invoice of a period
    job,       \* per process: where it is, its period and its customers
    failures   \* how many jobs have failed and runners have died

runVars == <<minute, up, lastKey, due, report, alarm, invoice, job, failures>>
runner == <<up, lastKey>>
reconciler == <<due, report>>

IdleJob == [pc |-> "idle", period |-> 0, asked |-> {}, todo |-> {}, doing |-> None]

\* The periods before the first month's have been invoiced.
RunInit ==
    /\ minute = FirstMonth * MonthLength
    /\ up = TRUE /\ lastKey = None
    /\ due = FALSE /\ report = "none"
    /\ alarm = FALSE
    /\ invoice = [c \in Customers |->
                     [p \in Periods |-> IF p < FirstMonth - 1 THEN "issued" ELSE "none"]]
    /\ job = [j \in Jobs |-> IdleJob]
    /\ failures = 0

Invoiced(c, p) == invoice[c][p] \in {"issued", "paid"}
Free(j) == job[j].pc \in {"idle", "failed"}

-----------------------------------------------------------------------------
(* cron_runner.main                                                        *)

\* The runner has slept through the rest of the minute.  A minute is long enough
\* for the reconciliation, which only reads; a month is long enough for its
\* invoicer runs, and for operators to answer its alarms.
Tick ==
    /\ minute < (LastMonth + 1) * MonthLength - 1
    /\ up => lastKey = minute
    /\ ~due
    /\ MonthOf(minute + 1) # MonthOf(minute) => ~alarm /\ \A j \in Jobs : Free(j)
    /\ minute' = minute + 1
    /\ alarm' = (alarm \/ (MinuteOf(minute') = 0 /\ ~up))
    /\ report' = "none"
    /\ UNCHANGED <<runner, due, invoice, job, failures>>

\* A job is dispatched on a thread of its own.
Dispatch(j, S) ==
    /\ Free(j)
    /\ job' = [job EXCEPT ![j] = [IdleJob EXCEPT !.pc = "start", !.asked = S, !.todo = S]]

\* The first poll of a minute runs what is scheduled for it.
Poll ==
    /\ up
    /\ lastKey # minute
    /\ lastKey' = minute
    /\ due' = (due \/ MinuteOf(minute) \in ReconcileAt)
    /\ IF MinuteOf(minute) = IssueAt
       THEN \E j \in Jobs : Dispatch(j, Customers)
       ELSE UNCHANGED job
    /\ UNCHANGED <<minute, up, report, alarm, invoice, failures>>

\* The container stops; jobs at work may be killed with it.  No code reports
\* this: that an operator notices the outage is an assumption.
RunnerDies ==
    /\ up /\ failures < MaxFailures
    /\ up' = FALSE /\ lastKey' = None /\ due' = FALSE /\ alarm' = TRUE
    /\ failures' = failures + 1
    /\ \E K \in SUBSET {j \in Jobs : ~Free(j)} :
          job' = [j \in Jobs |-> IF j \in K THEN [job[j] EXCEPT !.pc = "failed", !.doing = None]
                                 ELSE job[j]]
    /\ UNCHANGED <<minute, report, invoice>>

RunnerStarts ==
    /\ ~up
    /\ up' = TRUE
    /\ UNCHANGED <<minute, lastKey, reconciler, alarm, invoice, job, failures>>

-----------------------------------------------------------------------------
(* run_invoicing in the process j                                          *)

SetJob(j, r) == job' = [job EXCEPT ![j] = r]

\* The period is that of the month before the job's own now.
Begin(j) ==
    /\ job[j].pc = "start"
    /\ SetJob(j, [job[j] EXCEPT !.pc = "loop", !.period = PreviousMonthPeriod(minute)])
    /\ UNCHANGED <<minute, runner, reconciler, alarm, invoice, failures>>

\* issue_monthly_invoice: one transaction under the customer's billing lock.
\* Whether the period is invoiced is asked under the lock.
Locked(c) == \E j \in Jobs : job[j].doing = c

IssueBegin(j) ==
    /\ job[j].pc = "loop" /\ job[j].doing = None
    /\ \E c \in job[j].todo : ~Locked(c) /\ SetJob(j, [job[j] EXCEPT !.doing = c])
    /\ UNCHANGED <<minute, runner, reconciler, alarm, invoice, failures>>

IssueCommit(j) ==
    LET c == job[j].doing IN
    /\ job[j].pc = "loop" /\ c # None
    /\ invoice' = [invoice EXCEPT ![c][job[j].period] = IF @ = "none" THEN "issued" ELSE @]
    /\ SetJob(j, [job[j] EXCEPT !.doing = None, !.todo = @ \ {c}])
    /\ UNCHANGED <<minute, runner, reconciler, alarm, failures>>

\* The loop is over: exit status 0.
Exit(j) ==
    /\ job[j].pc = "loop" /\ job[j].todo = {}
    /\ SetJob(j, IdleJob)
    /\ UNCHANGED <<minute, runner, reconciler, alarm, invoice, failures>>

\* A customer's transaction raises: it is rolled back, the customers after it
\* are left out, and _run_job logs the exit status.
FailSilently(j) ==                                \* mutant: the exit status is dropped
    /\ job[j].pc = "loop" /\ job[j].doing # None /\ failures < MaxFailures
    /\ failures' = failures + 1
    /\ SetJob(j, [job[j] EXCEPT !.pc = "failed", !.doing = None])
    /\ UNCHANGED <<minute, runner, reconciler, alarm, invoice>>
FailAndGoOn(j) ==                                 \* mutant: the exception is swallowed
    /\ job[j].pc = "loop" /\ job[j].doing # None /\ failures < MaxFailures
    /\ failures' = failures + 1
    /\ SetJob(j, [job[j] EXCEPT !.doing = None, !.todo = @ \ {job[j].doing}])
    /\ UNCHANGED <<minute, runner, reconciler, alarm, invoice>>
Fail(j) ==
    /\ job[j].pc = "loop" /\ job[j].doing # None /\ failures < MaxFailures
    /\ failures' = failures + 1
    /\ alarm' = TRUE
    /\ SetJob(j, [job[j] EXCEPT !.pc = "failed", !.doing = None])
    /\ UNCHANGED <<minute, runner, reconciler, invoice>>

\* An operator answers the alarm with issue_invoices, for all customers or with
\* --customer for some, those without the invoice among them.
Manual(j, S) ==
    /\ alarm /\ alarm' = FALSE
    /\ {c \in Customers : ~Invoiced(c, MonthOf(minute) - 1)} \subseteq S
    /\ Dispatch(j, S)
    /\ UNCHANGED <<minute, runner, reconciler, invoice, failures>>

JobStep(j) == Begin(j) \/ IssueBegin(j) \/ IssueCommit(j) \/ Exit(j)

-----------------------------------------------------------------------------
(* run_reconciliation: check_stuck_drafts on the committed rows            *)

PeriodEnd(p) == (p + 1) * MonthLength
Overdue(p) == PeriodEnd(p) < minute - Grace
StuckDrafts ==
    {i \in Customers \X Periods : invoice[i[1]][i[2]] = "draft" /\ Overdue(i[2])}

Reconcile ==
    /\ due
    /\ due' = FALSE
    /\ report' = IF StuckDrafts = {} THEN "clean" ELSE "drift"
    /\ alarm' = (alarm \/ StuckDrafts # {})
    /\ UNCHANGED <<minute, runner, invoice, job, failures>>

RunNext ==
    \/ Tick \/ Poll \/ RunnerDies \/ RunnerStarts \/ Reconcile
    \/ \E j \in Jobs : JobStep(j) \/ Fail(j)
    \/ \E j \in Jobs, S \in (SUBSET Customers) \ {{}} : Manual(j, S)

-----------------------------------------------------------------------------
(* Properties                                                              *)

\* Every variable holds a value of its kind; a period is one that has begun.
TypeOK ==
    /\ minute \in FirstMonth * MonthLength .. (LastMonth + 1) * MonthLength - 1
    /\ up \in BOOLEAN /\ lastKey \in Nat \cup {None}
    /\ due \in BOOLEAN /\ report \in {"none", "clean", "drift"} /\ alarm \in BOOLEAN
    /\ invoice \in [Customers -> [Periods -> {"none", "draft", "issued", "paid"}]]
    /\ job \in [Jobs -> [pc : {"idle", "start", "loop", "failed"}, period : Periods,
                         asked : SUBSET Customers, todo : SUBSET Customers,
                         doing : Customers \cup {None}]]
    /\ failures \in 0 .. MaxFailures

\* Exit status 0 means what it says, for overlapping runs and runs after a
\* failure too: every customer of the run has the invoice of its period.
ExitOkMeansInvoiced ==
    [][\A j \in Jobs : job[j].pc = "loop" /\ job'[j].pc = "idle" =>
          \A c \in job[j].asked : Invoiced(c, job[j].period)]_runVars

\* No month is missed: with operators that answer errors and outages within the
\* month, every customer gets the invoice of every period, whatever runs fail
\* half-way, overlap, start late or find part of the work done.
MonthInvoiced ==
    <>(\A c \in Customers, p \in Periods : Invoiced(c, p))

\* What DESIGN.md says of a failed run: the stuck-draft check catches it.  A
\* clean report then leaves no customer of a failed run without the invoice,
\* once the period has been over for the days of grace.
FailureSurfaces ==
    report = "clean" =>
        \A j \in Jobs : job[j].pc = "failed" /\ Overdue(job[j].period) =>
            \A c \in job[j].asked : Invoiced(c, job[j].period)

-----------------------------------------------------------------------------
(* The inductive invariant of the proofs.                                  *)

\* A job has dropped from its list only customers that have the invoice, and
\* drafts are never committed: that a row exists means that it is issued.
JobInv ==
    /\ \A j \in Jobs :
          /\ job[j].pc = "start" => job[j].todo = job[j].asked
          /\ job[j].pc = "loop" =>
                \A c \in job[j].asked \ job[j].todo : Invoiced(c, job[j].period)
    /\ \A c \in Customers, p \in Periods : invoice[c][p] # "draft"
===============================================================================
