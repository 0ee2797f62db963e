------------------------ MODULE PrioritizedDispatcher ------------------------
(***************************************************************************)
(* PrioritizedDispatcher (base/prioritized_dispatcher.cc), which starts    *)
(* the jobs of the host resolver: a job runs at once if the limits permit, *)
(* and otherwise waits in a PriorityQueue (base/priority_queue.h).         *)
(*                                                                         *)
(* Job::Start() is client code, and may call the dispatcher again.  Every  *)
(* method calls it last, except SetLimits(), whose loop goes on when it    *)
(* returns.  `loops' is the number of such loops on the stack; between two *)
(* of their iterations any method can be called.                           *)
(***************************************************************************)
EXTENDS Integers, Sequences, FiniteSets

CONSTANTS
    Jobs,
    NumPriorities,
    LimitsValues,   \* the Limits the client may set
    MaxLoops        \* bound on SetLimits() calls nested in Start()

Priority == 0..NumPriorities - 1

\* The slots reserved for a set of priorities, and their number.
Slots(limits, P) == UNION {{p} \X (1..limits.reserved_slots[p]) : p \in P}
Reserved(limits, P) == Cardinality(Slots(limits, P))

\* "Sum of reserved_slots must be no greater than total_jobs."
ASSUME PrioritiesAssumption == NumPriorities \in Nat \ {0} /\ MaxLoops \in Nat
ASSUME JobsAssumption == IsFiniteSet(Jobs)
ASSUME LimitsAssumption ==
    /\ LimitsValues # {}
    /\ \A limits \in LimitsValues :
          /\ limits \in [total_jobs : Nat, reserved_slots : [Priority -> Nat]]
          /\ Reserved(limits, Priority) <= limits.total_jobs

VARIABLES
    queue,             \* the lists of queue_
    max_running_jobs,
    num_running_jobs,
    started,           \* history: the priority each running job was started with
    peak,              \* history: the most max_running_jobs has allowed
    loops              \* SetLimits() calls that wait for a Start() to return

vars == <<queue, max_running_jobs, num_running_jobs, started, peak, loops>>

(***************************************************************************)
(* The queue.                                                              *)
(***************************************************************************)
Levels(q) == {p \in Priority : q[p] # <<>>}

\* Mutant: the lowest level.
FirstMaxLowest(q) == CHOOSE p \in Levels(q) : \A r \in Levels(q) : p <= r

\* FirstMax() and FirstMin(): the first job of the last and of the first level.
FirstMax(q) == CHOOSE p \in Levels(q) : \A r \in Levels(q) : r <= p
FirstMin(q) == CHOOSE p \in Levels(q) : \A r \in Levels(q) : p <= r

IsQueued(j, p) == \E i \in 1..Len(queue[p]) : queue[p][i] = j

\* A handle is the position of a job in a list: position i of list p.
Erase(q, p, i) ==
    [q EXCEPT ![p] = [k \in 1..Len(@) - 1 |-> IF k < i THEN @[k] ELSE @[k + 1]]]

\* Insert() and InsertAtFront().
Insert(q, j, p, at_head) ==
    [q EXCEPT ![p] = IF at_head THEN <<j>> \o @ ELSE Append(@, j)]

Known(j) == j \in DOMAIN started \/ \E p \in Priority : IsQueued(j, p)

(***************************************************************************)
(* Starting a job.                                                         *)
(***************************************************************************)
\* The running jobs with j among them, or without it.
With(s, j, p) == [k \in DOMAIN s \cup {j} |-> IF k = j THEN p ELSE s[k]]
But(s, j) == [k \in DOMAIN s \ {j} |-> s[k]]

\* Mutant: one job too many.
PermittedOffByOne(n, max, p) == n <= max[p]

Permitted(n, max, p) == n < max[p]

CanDispatchNext(q, n, max) == Levels(q) # {} /\ Permitted(n, max, FirstMax(q))

\* MaybeDispatchNextJob() with the given queue, running jobs and limits.
MaybeDispatchNextJob(q, n, s, max) ==
    IF CanDispatchNext(q, n, max)
    THEN LET p == FirstMax(q) IN
         /\ queue' = Erase(q, p, 1)
         /\ num_running_jobs' = n + 1
         /\ started' = With(s, Head(q[p]), p)
    ELSE queue' = q /\ num_running_jobs' = n /\ started' = s

(***************************************************************************)
(* The methods.                                                            *)
(***************************************************************************)
Start(j, p) ==
    /\ num_running_jobs' = num_running_jobs + 1
    /\ started' = With(started, j, p)

\* Add() and AddAtHead().
Add(j, p, at_head) ==
    /\ ~Known(j)
    /\ IF Permitted(num_running_jobs, max_running_jobs, p)
       THEN Start(j, p) /\ UNCHANGED queue
       ELSE /\ queue' = Insert(queue, j, p, at_head)
            /\ UNCHANGED <<num_running_jobs, started>>
    /\ UNCHANGED <<max_running_jobs, peak, loops>>

Cancel(p, i) ==
    /\ queue' = Erase(queue, p, i)
    /\ UNCHANGED <<max_running_jobs, num_running_jobs, started, peak, loops>>

EvictOldestLowest ==
    /\ Levels(queue) # {}
    /\ queue' = Erase(queue, FirstMin(queue), 1)
    /\ UNCHANGED <<max_running_jobs, num_running_jobs, started, peak, loops>>

\* Mutant: the job is queued again without asking whether it may start now.
ChangePriorityQueueOnly(from, i, to) ==
    /\ from # to
    /\ queue' = Insert(Erase(queue, from, i), queue[from][i], to, FALSE)
    /\ UNCHANGED <<max_running_jobs, num_running_jobs, started, peak, loops>>

ChangePriority(from, i, to) ==
    /\ from # to
    /\ IF Permitted(num_running_jobs, max_running_jobs, to)
       THEN queue' = Erase(queue, from, i) /\ Start(queue[from][i], to)
       ELSE /\ queue' = Insert(Erase(queue, from, i), queue[from][i], to, FALSE)
            /\ UNCHANGED <<num_running_jobs, started>>
    /\ UNCHANGED <<max_running_jobs, peak, loops>>

\* Mutant: the job that starts instead is not counted.
OnJobFinishedUncounted(j) ==
    /\ j \in DOMAIN started
    /\ MaybeDispatchNextJob(queue, num_running_jobs - 1, started, max_running_jobs)
    /\ UNCHANGED <<max_running_jobs, peak, loops>>

\* The job itself calls OnJobFinished(), once.
OnJobFinished(j) ==
    /\ j \in DOMAIN started
    /\ MaybeDispatchNextJob(queue, num_running_jobs - 1, But(started, j), max_running_jobs)
    /\ UNCHANGED <<max_running_jobs, peak, loops>>

\* Mutant: the slots reserved for a priority are kept from that priority too.
MaxRunningJobsExclusive(limits) ==
    [p \in Priority |-> limits.total_jobs - Reserved(limits, p..NumPriorities - 1)]

\* The two loops of SetLimits(): a priority may use what is reserved for it and
\* for lower ones, and what is not reserved at all.
MaxRunningJobs(limits) ==
    [p \in Priority |-> Reserved(limits, 0..p)
                        + (limits.total_jobs - Reserved(limits, Priority))]

Higher(m, n) == [p \in Priority |-> IF m[p] < n[p] THEN n[p] ELSE m[p]]

SetLimits(limits) ==
    LET max == MaxRunningJobs(limits) IN
    /\ loops < MaxLoops
    /\ max_running_jobs' = max
    /\ peak' = Higher(peak, max)
    /\ MaybeDispatchNextJob(queue, num_running_jobs, started, max)
    /\ loops' = IF CanDispatchNext(queue, num_running_jobs, max) THEN loops + 1 ELSE loops

\* A Start() called by SetLimits() returns, and the loop goes on or ends.
SetLimitsLoop ==
    /\ loops > 0
    /\ MaybeDispatchNextJob(queue, num_running_jobs, started, max_running_jobs)
    /\ loops' = IF CanDispatchNext(queue, num_running_jobs, max_running_jobs)
                THEN loops ELSE loops - 1
    /\ UNCHANGED <<max_running_jobs, peak>>

\* GetLimits().
GetLimits ==
    [total_jobs |-> max_running_jobs[NumPriorities - 1],
     reserved_slots |-> [p \in Priority |->
        IF p = 0 THEN 0 ELSE max_running_jobs[p] - max_running_jobs[p - 1]]]

(***************************************************************************)
(* The specification.                                                      *)
(***************************************************************************)
Init ==
    /\ queue = [p \in Priority |-> <<>>]
    /\ num_running_jobs = 0
    /\ started = <<>>
    /\ \E limits \in LimitsValues : max_running_jobs = MaxRunningJobs(limits)
    /\ peak = max_running_jobs
    /\ loops = 0

Next ==
    \/ \E j \in Jobs :
          \/ \E p \in Priority, at_head \in BOOLEAN : Add(j, p, at_head)
          \/ OnJobFinished(j)
    \/ \E p \in Priority : \E i \in 1..Len(queue[p]) :
          \/ Cancel(p, i)
          \/ \E to \in Priority : ChangePriority(p, i, to)
    \/ EvictOldestLowest
    \/ \E limits \in LimitsValues : SetLimits(limits)
    \/ SetLimitsLoop

Spec == Init /\ [][Next]_vars

(***************************************************************************)
(* Properties.                                                             *)
(***************************************************************************)
TypeOK ==
    /\ queue \in [Priority -> Seq(Jobs)]
    /\ max_running_jobs \in [Priority -> Nat]
    /\ num_running_jobs \in Nat
    /\ DOMAIN started \subseteq Jobs
    /\ started \in [DOMAIN started -> Priority]
    /\ peak \in [Priority -> Nat]
    /\ loops \in 0..MaxLoops

\* num_running_jobs_ is the number of jobs that have been started and have not
\* finished, and a job waits at most once and never while it runs: a Handle is
\* valid iff the job is in the queue, i.e. has not started.
JobsTracked ==
    /\ num_running_jobs = Cardinality(DOMAIN started)
    /\ \A p, r \in Priority : \A i \in 1..Len(queue[p]), k \in 1..Len(queue[r]) :
          queue[p][i] = queue[r][k] => p = r /\ i = k
    /\ \A p \in Priority : \A i \in 1..Len(queue[p]) : queue[p][i] \notin DOMAIN started

\* "Job should not be in queue when limits permit it to start."
QueuedOnlyAtLimit ==
    \A p \in Priority : queue[p] # <<>> => num_running_jobs >= max_running_jobs[p]

\* Outside the loop of SetLimits() no job waits although it may start, whatever
\* jobs were added, cancelled, moved or finished and however the limits changed:
\* a job that finishes hands its slot on, and to one job only.
NoIdleSlot == loops = 0 => QueuedOnlyAtLimit

\* Jobs of a priority and below never take the slots reserved for higher ones:
\* no more of them run at a time than some limits set so far have allowed
\* ("Jobs at priority 0 can't use slots reserved for higher priorities").
RunningAtMost(p) == {j \in DOMAIN started : started[j] <= p}
ReservedSlotsKept == \A p \in Priority : Cardinality(RunningAtMost(p)) <= peak[p]

\* Outside the loop of SetLimits() a job is never started while one of a higher
\* priority stays queued.
NoOvertaking ==
    [][loops = 0 =>
         \A j \in DOMAIN started' \ DOMAIN started : \A p \in Priority :
             p > started'[j] => queue'[p] = <<>> ]_vars

\* The Limits that GetLimits() returns, set again as the host resolver does when
\* it aborts all jobs, give back the same limits.
LimitsRoundTrip == MaxRunningJobs(GetLimits) = max_running_jobs
=============================================================================
