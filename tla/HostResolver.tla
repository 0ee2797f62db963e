---------------------------- MODULE HostResolver ----------------------------
(***************************************************************************)
(* HostResolverImpl, its Jobs and their DnsTasks and ProcTasks             *)
(* (dns/host_resolver_impl.cc), on top of PrioritizedDispatcher.           *)
(*                                                                         *)
(* Requests for the same key share a Job. The dispatcher starts a Job, and *)
(* a second time if it has a DnsTask with two transactions, so that a Job  *)
(* may occupy two slots: to the dispatcher these are the jobs <<j, 1>> and *)
(* <<j, 2>>.                                                               *)
(*                                                                         *)
(* Everything runs on one thread. Each step is at most one call of the     *)
(* dispatcher; `todo' is the stack: what is left to do of the calls that   *)
(* are under way. A call that starts a Job puts its Start() on top. While  *)
(* a callback is on top the client may call the resolver again, once.      *)
(***************************************************************************)
EXTENDS Integers, FiniteSets, SequencesExt

CONSTANTS
  Keys,            \* of the hosts, in the order of jobs_: numbers
  TwoFamilies,     \* keys that take two transactions, for A and AAAA
  ProcOnly,        \* keys that are never resolved by the DnsClient
  Requests,
  NumPriorities,
  Limits,          \* what GetDispatcherLimits() may return
  MaxQueuedJobs,   \* max_queued_jobs_
  MaxFailures,     \* kMaximumDnsFailures
  Fallback,        \* fallback_to_proctask_
  MaxJobs,         \* bound: Jobs that exist at a time
  Faults,          \* which of the hazards below may happen
  None

Priority == 0 .. NumPriorities - 1
JobIds == 1 .. MaxJobs
Slots == JobIds \X {1, 2}
Zero == [total_jobs |-> 0, reserved_slots |-> [p \in Priority |-> 0]]

ASSUME ResolverAssumption ==
  /\ Keys \subseteq Nat
  /\ TwoFamilies \subseteq Keys /\ ProcOnly \subseteq Keys
  /\ {MaxQueuedJobs, MaxFailures, MaxJobs} \subseteq Nat \ {0}
  /\ Fallback \in BOOLEAN
  /\ Faults \subseteq {"overflow_in_callback", "cancel_in_loop"}
  /\ None \notin JobIds

VARIABLES
  jobs,         \* jobs_: the Job of each key
  job,          \* the Jobs
  req,          \* the job_ and the priority of each request
  outdated,     \* history: keys whose result in cache_ is outdated
  dns_client,   \* dns_client_ is set
  config,       \* HaveDnsConfig()
  nc_config,    \* the NetworkChangeNotifier has a valid DnsConfig
  failures,     \* num_dns_failures_
  todo,
  queue, max_running_jobs, num_running_jobs, started, peak, loops

D == INSTANCE PrioritizedDispatcher
       WITH Jobs <- Slots, LimitsValues <- Limits \cup {Zero}, MaxLoops <- 1

dispatcher == <<queue, max_running_jobs, num_running_jobs, started, peak, loops>>
settings == <<dns_client, config, nc_config, failures>>
vars == <<jobs, job, req, outdated, settings, todo, dispatcher>>

-----------------------------------------------------------------------------
(* The stack *)

\* Whatever was on top, a callback included, is replaced by these steps.
Then(steps) == todo' = steps \o IF todo = <<>> THEN <<>> ELSE Tail(todo)

\* The Start() that the dispatcher has just called.
Started ==
  SetToSeq({<<"start", t[1]>> : t \in DOMAIN started' \ DOMAIN started})

InCallback == todo # <<>> /\ Head(todo)[1] = "callback"

\* Nothing is under way, or it is the client's turn.
AtRest == todo = <<>> \/ InCallback

Pending(step) == \E i \in DOMAIN todo : todo[i] = step

-----------------------------------------------------------------------------
(* Jobs *)

Live == {j \in JobIds : job[j] # None}

NewJob(k, p) ==
  [key |-> k, requests |-> <<>>, completed |-> 0, highest |-> p,
   slots |-> 0, handle |-> FALSE, task |-> "none",
   first_done |-> FALSE, dns_failed |-> FALSE, fresh |-> FALSE]

\* num_active_requests(): the requests that CompleteRequests() has answered are
\* still counted.
NumActive(J) == Len(J.requests) + J.completed

\* PriorityTracker::highest_priority_ after a change, given the priorities.
Highest(requests, priority) == Max({0} \cup {priority[r] : r \in Range(requests)})

Priorities == [r \in Requests |-> req[r].priority]

\* handle_: where the Job is in the queue.
Level(j) == CHOOSE p \in Priority : \E s \in {1, 2} : D!IsQueued(<<j, s>>, p)
Position(j) == CHOOSE i \in 1 .. Len(queue[Level(j)]) : queue[Level(j)][i][1] = j

NumQueued == MapThenSumSet(LAMBDA p : Len(queue[p]), Priority)

\* Job::Start(), called by the dispatcher for the first or the second slot.
\* Schedule(true) asks for the second one.
Start(j) ==
  LET J == [job[j] EXCEPT !.slots = @ + 1, !.handle = FALSE]
      Run(task) == [J EXCEPT !.task = task, !.fresh = TRUE]
      dns == config /\ J.key \notin ProcOnly
  IN /\ IF J.slots = 1 /\ dns /\ J.key \in TwoFamilies
        THEN /\ D!Add(<<j, 2>>, J.highest, TRUE)
             /\ job' = [job EXCEPT ![j] = [Run("dns") EXCEPT !.handle = queue' # queue]]
        ELSE /\ UNCHANGED dispatcher
             /\ job' = [job EXCEPT ![j] =
                          IF J.slots = 2 THEN J
                          ELSE Run(IF dns THEN "dns" ELSE "proc")]
     /\ Then(Started)
     /\ UNCHANGED <<jobs, req, outdated, settings>>

\* Mutant: a second slot that is still queued is left there.
ReduceQueued(j, task) ==
  LET J == job[j]
      After(slots) ==
        [J EXCEPT !.handle = FALSE, !.slots = slots, !.task = task,
                  !.first_done = (task = "dns"), !.fresh = @ \/ task = "proc"]
  IN /\ IF J.handle
        THEN UNCHANGED dispatcher /\ job' = [job EXCEPT ![j] = After(J.slots)]
        ELSE IF J.slots > 1
        THEN D!OnJobFinished(<<j, 2>>) /\ job' = [job EXCEPT ![j] = After(J.slots - 1)]
        ELSE UNCHANGED dispatcher /\ job' = [job EXCEPT ![j] = After(J.slots)]
     /\ Then(Started)
     /\ UNCHANGED <<jobs, req, outdated, settings>>

\* ReduceToOneJobSlot(), and what follows: KillDnsTask(), perhaps with
\* StartProcTask(), or the transaction that waited for the second slot.
Reduce(j, task) ==
  LET J == job[j]
      After(slots) ==
        [J EXCEPT !.handle = FALSE, !.slots = slots, !.task = task,
                  !.first_done = (task = "dns"), !.fresh = @ \/ task = "proc"]
  IN /\ IF J.handle
        THEN D!Cancel(Level(j), Position(j)) /\ job' = [job EXCEPT ![j] = After(J.slots)]
        ELSE IF J.slots > 1
        THEN D!OnJobFinished(<<j, 2>>) /\ job' = [job EXCEPT ![j] = After(J.slots - 1)]
        ELSE UNCHANGED dispatcher /\ job' = [job EXCEPT ![j] = After(J.slots)]
     /\ Then(Started)
     /\ UNCHANGED <<jobs, req, outdated, settings>>

\* UpdatePriority() of the Job j, which is now J. When ChangePriority() starts it
\* a null handle is returned, and replaces the one that Start() may have got for
\* the second slot.
UpdatePriority(j, J) ==
  /\ job' = [job EXCEPT ![j] = J]
  /\ IF J.handle /\ Level(j) # J.highest
     THEN /\ D!ChangePriority(Level(j), Position(j), J.highest)
          /\ Then(IF Started = <<>> THEN <<>> ELSE Started \o <<<<"null_handle", j>>>>)
     ELSE UNCHANGED dispatcher /\ Then(<<>>)

NullHandle(j) ==
  /\ job' = [job EXCEPT ![j].handle = FALSE]
  /\ Then(<<>>)
  /\ UNCHANGED <<jobs, req, outdated, settings, dispatcher>>

\* AddRequest().
AddRequest(j, r, p) ==
  /\ req' = [req EXCEPT ![r] = [job |-> j, priority |-> p]]
  /\ UpdatePriority(j, [job[j] EXCEPT !.requests = Append(@, r),
                                      !.highest = Max({@, p})])
  /\ UNCHANGED <<outdated, settings>>

\* Mutant: what was aborted is cached as well.
DidCompleteAlways(error) == TRUE

\* did_complete: the Job was neither aborted nor evicted.
DidComplete(error) == error \notin {"NETWORK_CHANGED", "QUEUE_TOO_LARGE"}

\* CompleteRequests(), up to its loop: the Job leaves jobs_, gives its slots
\* back or leaves the queue, and its result is cached unless it was aborted or
\* evicted.
Complete(j, error) ==
  LET J == job[j]
      end == <<<<"answer", j>>>>
      cached == DidComplete(error) /\ NumActive(J) > 0
  IN /\ jobs' = [k \in Keys |-> IF jobs[k] = j THEN None ELSE jobs[k]]
     /\ outdated' = CASE cached /\ J.fresh -> outdated \ {J.key}
                      [] cached /\ ~J.fresh -> outdated \cup {J.key}
                      [] OTHER -> outdated
     /\ CASE J.task = "proc" ->
               /\ D!OnJobFinished(<<j, 1>>)
               /\ job' = [job EXCEPT ![j].task = "none"]
               /\ Then(Started \o end)
          [] J.task = "dns" ->
               /\ Then(<<<<"reduce", j, "none">>, <<"finish", j>>>> \o end)
               /\ UNCHANGED <<job, dispatcher>>
          [] J.task = "none" /\ J.handle ->
               /\ D!Cancel(Level(j), Position(j))
               /\ job' = [job EXCEPT ![j].handle = FALSE]
               /\ Then(end)
          [] OTHER -> Then(end) /\ UNCHANGED <<job, dispatcher>>
     /\ UNCHANGED <<req, settings>>

\* The last slot of a Job with a DnsTask.
Finish(j) ==
  /\ D!OnJobFinished(<<j, 1>>)
  /\ Then(Started)
  /\ UNCHANGED <<jobs, job, req, outdated, settings>>

\* ~Job(): requests that are left are never answered.
Delete(j) ==
  /\ job' = [job EXCEPT ![j] = None]
  /\ req' = [r \in Requests |-> IF req[r].job = j
                                THEN [job |-> None, priority |-> 0] ELSE req[r]]

\* The loop of CompleteRequests(): the next request is detached and its callback
\* is run. At the end the Job deletes itself.
Answer(j) ==
  LET r == Head(job[j].requests)
  IN /\ IF job[j].requests = <<>> THEN Delete(j) /\ Then(<<>>)
        ELSE /\ job' = [job EXCEPT ![j].requests = Tail(@), ![j].completed = @ + 1]
             /\ req' = [req EXCEPT ![r] = [job |-> None, priority |-> 0]]
             /\ Then(<<<<"callback">>, <<"answer", j>>>>)
     /\ UNCHANGED <<jobs, outdated, settings, dispatcher>>

-----------------------------------------------------------------------------
(* What the client calls *)

\* Resolve() of a host that has to be looked up: the request joins the Job of
\* its key, or a new Job is scheduled. A call that is answered at once changes
\* nothing. A request for which Resolve() has yet to return is not a new one.
Resolve(r, k, p) ==
  LET j == Min(JobIds \ Live)
  IN /\ AtRest /\ req[r].job = None
     /\ \A i \in DOMAIN todo : todo[i][1] = "attach" => todo[i][3] # r
     /\ IF jobs[k] # None THEN AddRequest(jobs[k], r, p)
        ELSE /\ JobIds # Live
             /\ InCallback /\ "overflow_in_callback" \notin Faults =>
                  /\ NumQueued < MaxQueuedJobs
                  /\ \A i \in DOMAIN todo : todo[i][1] # "attach"
             /\ D!Add(<<j, 1>>, p, FALSE)
             /\ job' = [job EXCEPT ![j] = [NewJob(k, p) EXCEPT !.handle = queue' # queue]]
             /\ Then(Started \o <<<<"check_overflow", j, r, p>>>>)
             /\ UNCHANGED <<req, outdated, settings>>
     /\ UNCHANGED jobs

\* When too many Jobs are queued the oldest of the least urgent is evicted.
CheckOverflow(j, r, p) ==
  LET attach == <<<<"attach", j, r, p>>>>
      victim == queue[D!FirstMin(queue)][1][1]
      evict == <<<<"complete", victim, "QUEUE_TOO_LARGE">>>>
  IN /\ IF NumQueued > MaxQueuedJobs
        THEN /\ D!EvictOldestLowest
             /\ job' = [job EXCEPT ![victim].handle = FALSE]
             /\ Then(IF victim = j THEN evict ELSE evict \o attach)
        ELSE Then(attach) /\ UNCHANGED <<job, dispatcher>>
     /\ UNCHANGED <<jobs, req, outdated, settings>>

\* jobs_[key] = job, which destroys a Job that is already there, and AddRequest().
Attach(j, r, p) ==
  LET k == job[j].key
      old == jobs[k]
      again == <<Head(todo)>>
  IN CASE old = None -> jobs' = [jobs EXCEPT ![k] = j] /\ AddRequest(j, r, p)
       [] old # None /\ job[old].task = "dns" ->
            /\ Then(<<<<"reduce", old, "none">>>> \o again)
            /\ UNCHANGED <<jobs, job, req, outdated, settings, dispatcher>>
       [] OTHER ->
            /\ jobs' = [jobs EXCEPT ![k] = None]
            /\ Delete(old)
            /\ Then(again)
            /\ UNCHANGED <<outdated, settings, dispatcher>>

\* Mutant: a Job without requests goes on.
CancelRequestKeepsJob(r) ==
  LET j == req[r].job
      left == Remove(job[j].requests, r)
      J == [job[j] EXCEPT !.requests = left, !.highest = Highest(left, Priorities)]
  IN /\ AtRest /\ j # None
     /\ req' = [req EXCEPT ![r] = [job |-> None, priority |-> 0]]
     /\ UpdatePriority(j, J)
     /\ UNCHANGED <<jobs, outdated, settings>>

\* The client destroys its Request: CancelRequest().
CancelRequest(r) ==
  LET j == req[r].job
      left == Remove(job[j].requests, r)
      J == [job[j] EXCEPT !.requests = left, !.highest = Highest(left, Priorities)]
      last == NumActive(job[j]) = 1
  IN /\ AtRest /\ j # None
     /\ last /\ "cancel_in_loop" \notin Faults =>
          \A i \in DOMAIN todo : todo[i][1] \in {"complete", "hosts"} => todo[i][2] # j
     /\ req' = [req EXCEPT ![r] = [job |-> None, priority |-> 0]]
     /\ IF last
        THEN /\ job' = [job EXCEPT ![j] = J]
             /\ Then(<<<<"complete", j, "CANCELLED">>>>)
             /\ UNCHANGED dispatcher
        ELSE UpdatePriority(j, J)
     /\ UNCHANGED <<jobs, outdated, settings>>

ChangeRequestPriority(r, p) ==
  LET j == req[r].job
      now == [Priorities EXCEPT ![r] = p]
  IN /\ AtRest /\ j # None /\ p # req[r].priority
     /\ req' = [req EXCEPT ![r].priority = p]
     /\ UpdatePriority(j, [job[j] EXCEPT !.highest = Highest(job[j].requests, now)])
     /\ UNCHANGED <<jobs, outdated, settings>>

CallbackReturns ==
  /\ InCallback
  /\ Then(<<>>)
  /\ UNCHANGED <<jobs, job, req, outdated, settings, dispatcher>>

-----------------------------------------------------------------------------
(* Changes of the network and of the DnsClient *)

\* The Jobs of jobs_ in the order of their keys.
JobsInOrder ==
  LET ordered == SetToSortSeq({k \in Keys : jobs[k] # None}, <)
  IN [i \in DOMAIN ordered |-> jobs[ordered[i]]]

\* Mutant: the limits are not restored.
PausedForGood(steps) == <<<<"set_limits", Zero>>>> \o steps

\* The dispatcher is paused while something is done to some of the Jobs.
Paused(steps) ==
  <<<<"set_limits", Zero>>>> \o steps \o <<<<"set_limits", D!GetLimits>>>>

\* AbortAllInProgressJobs().
AbortAllInProgressJobs ==
  LET running == SelectSeq(JobsInOrder, LAMBDA j : job[j].task # "none")
  IN Paused([i \in DOMAIN running |-> <<"complete", running[i], "NETWORK_CHANGED">>])

\* AbortDnsTasks(): Jobs with a DnsTask go on with a ProcTask.
AbortDnsTasks ==
  LET dns == SelectSeq(JobsInOrder, LAMBDA j : job[j].task = "dns")
  IN Paused([i \in DOMAIN dns |-> <<"reduce", dns[i], "proc">>])

SetLimits(limits) ==
  /\ D!SetLimits(limits)
  /\ Then(Started \o IF loops' > loops THEN <<<<"limits_loop">>>> ELSE <<>>)
  /\ UNCHANGED <<jobs, job, req, outdated, settings>>

SetLimitsLoop ==
  /\ D!SetLimitsLoop
  /\ Then(Started \o IF loops' = loops THEN <<<<"limits_loop">>>> ELSE <<>>)
  /\ UNCHANGED <<jobs, job, req, outdated, settings>>

\* What has been looked up so far is outdated.
Outdate ==
  /\ jobs' = [k \in Keys |-> IF jobs[k] # None /\ job[jobs[k]].task # "none"
                             THEN None ELSE jobs[k]]
  /\ job' = [j \in JobIds |-> IF job[j] = None THEN None ELSE [job[j] EXCEPT !.fresh = FALSE]]
  /\ outdated' = {}

OnIPAddressChanged ==
  /\ todo = <<>>
  /\ Outdate
  /\ todo' = AbortAllInProgressJobs
  /\ UNCHANGED <<req, settings, dispatcher>>

\* UpdateDNSConfig(), for OnInitialDNSConfigRead() and OnDNSChanged().
UpdateDNSConfig(config_changed, valid) ==
  /\ todo = <<>>
  /\ config_changed \/ ~nc_config
  /\ nc_config' = valid
  /\ config' = (dns_client /\ valid)
  /\ failures' = 0
  /\ IF config_changed \/ config'
     THEN /\ Outdate
          /\ todo' = AbortAllInProgressJobs \o
                     IF config' THEN <<<<"serve_from_hosts">>>> ELSE <<>>
     ELSE UNCHANGED <<jobs, job, outdated, todo>>
  /\ UNCHANGED <<req, dns_client, dispatcher>>

\* The Job at which the iteration over jobs_ goes on behind a key.
From(k) ==
  LET behind == {n \in Keys : n > k /\ jobs[n] # None}
  IN IF behind = {} THEN <<>> ELSE <<<<"hosts", jobs[Min(behind)]>>>>

\* TryServingAllJobsFromHosts(): one round of its loop. HOSTS may know the host.
TryServingAllJobsFromHosts ==
  /\ Then(From(-1))
  /\ UNCHANGED <<jobs, job, req, outdated, settings, dispatcher>>

ServeFromHosts(j, known) ==
  /\ job' = [job EXCEPT ![j].fresh = @ \/ known]
  /\ Then((IF known THEN <<<<"complete", j, "OK">>>> ELSE <<>>) \o From(job[j].key))
  /\ UNCHANGED <<jobs, req, outdated, settings, dispatcher>>

\* SetDnsClientEnabled() and SetDnsClient().
SetDnsClientEnabled(enabled) ==
  /\ todo = <<>>
  /\ dns_client # enabled
  /\ dns_client' = enabled
  /\ config' = (enabled /\ failures < MaxFailures /\ nc_config)
  /\ failures' = IF enabled /\ failures < MaxFailures THEN 0 ELSE failures
  /\ todo' = AbortDnsTasks
  /\ UNCHANGED <<jobs, job, req, outdated, nc_config, dispatcher>>

-----------------------------------------------------------------------------
(* Lookups that end *)

\* DnsTask::OnTransactionComplete(), with the sorting of the addresses.
TransactionComplete(j, ok) ==
  LET J == job[j]
      first == J.key \in TwoFamilies /\ ~J.first_done
  IN /\ todo = <<>>
     /\ J # None /\ J.task = "dns"
     /\ job' = [job EXCEPT ![j].dns_failed = ~ok]
     /\ failures' = IF ok /\ ~first THEN 0 ELSE failures
     /\ todo' = CASE ok /\ first -> <<<<"reduce", j, "dns">>>>
                  [] ok /\ ~first -> <<<<"complete", j, "OK">>>>
                  [] ~ok /\ Fallback -> <<<<"reduce", j, "proc">>>>
                  [] OTHER -> <<<<"complete", j, "ERR">>>>
     /\ UNCHANGED <<jobs, req, outdated, dns_client, config, nc_config, dispatcher>>

\* OnDnsTaskResolve() of a failure: the DnsClient is switched off when it has
\* failed too often where the system's resolver succeeds.
TooManyFailures == failures + 1 >= MaxFailures

\* OnProcTaskComplete().
ProcTaskComplete(j, ok) ==
  LET J == job[j]
      counts == J.dns_failed /\ ok
      disable == counts /\ TooManyFailures
  IN /\ todo = <<>>
     /\ J # None /\ J.task = "proc"
     /\ failures' = IF counts /\ failures < MaxFailures THEN failures + 1 ELSE failures
     /\ config' = (config /\ ~disable)
     /\ todo' = (IF disable THEN AbortDnsTasks ELSE <<>>) \o
                <<<<"complete", j, IF ok THEN "OK" ELSE "ERR">>>>
     /\ UNCHANGED <<jobs, job, req, outdated, dns_client, nc_config, dispatcher>>

-----------------------------------------------------------------------------
(* Specification *)

Init ==
  /\ jobs = [k \in Keys |-> None]
  /\ job = [j \in JobIds |-> None]
  /\ req = [r \in Requests |-> [job |-> None, priority |-> 0]]
  /\ outdated = {}
  /\ dns_client = FALSE /\ config = FALSE /\ nc_config \in BOOLEAN
  /\ failures = 0
  /\ todo = <<>>
  /\ D!Init
  /\ \E limits \in Limits : max_running_jobs = D!MaxRunningJobs(limits)

On(name) == todo # <<>> /\ Head(todo)[1] = name

Step ==
  LET arg(i) == Head(todo)[i + 1]
  IN \/ On("start") /\ Start(arg(1))
     \/ On("reduce") /\ Reduce(arg(1), arg(2))
     \/ On("null_handle") /\ NullHandle(arg(1))
     \/ On("complete") /\ Complete(arg(1), arg(2))
     \/ On("finish") /\ Finish(arg(1))
     \/ On("answer") /\ Answer(arg(1))
     \/ On("check_overflow") /\ CheckOverflow(arg(1), arg(2), arg(3))
     \/ On("attach") /\ Attach(arg(1), arg(2), arg(3))
     \/ On("set_limits") /\ SetLimits(arg(1))
     \/ On("limits_loop") /\ SetLimitsLoop
     \/ On("serve_from_hosts") /\ TryServingAllJobsFromHosts
     \/ On("hosts") /\ \E known \in BOOLEAN : ServeFromHosts(arg(1), known)

Next ==
  \/ Step
  \/ CallbackReturns
  \/ \E r \in Requests :
       \/ \E k \in Keys, p \in Priority : Resolve(r, k, p)
       \/ CancelRequest(r)
       \/ \E p \in Priority : ChangeRequestPriority(r, p)
  \/ \E j \in JobIds, ok \in BOOLEAN :
       \/ TransactionComplete(j, ok)
       \/ ProcTaskComplete(j, ok)
  \/ OnIPAddressChanged
  \/ \E changed, valid \in BOOLEAN : UpdateDNSConfig(changed, valid)
  \/ \E enabled \in BOOLEAN : SetDnsClientEnabled(enabled)

Spec == Init /\ [][Next]_vars

\* A call runs to its end, callbacks return, and every lookup ends: transactions
\* and attempts have their timeouts, and the message loop runs what is posted.
FairSpec ==
  /\ Spec
  /\ WF_vars(Step \/ CallbackReturns)
  /\ \A j \in JobIds :
       SF_vars(\E ok \in BOOLEAN : TransactionComplete(j, ok) \/ ProcTaskComplete(j, ok))

-----------------------------------------------------------------------------
(* Properties *)

TypeOK ==
  /\ jobs \in [Keys -> JobIds \cup {None}]
  /\ \A j \in Live :
       /\ job[j].key \in Keys
       /\ job[j].requests \in Seq(Requests)
       /\ job[j].slots \in 0 .. 2
       /\ job[j].highest \in Priority
       /\ job[j].task \in {"none", "dns", "proc"}
  /\ req \in [Requests -> [job : JobIds \cup {None}, priority : Priority]]
  /\ outdated \subseteq Keys
  /\ failures \in 0 .. MaxFailures
  /\ config => dns_client /\ nc_config

\* Whenever client code or the message loop runs, the Jobs and the dispatcher
\* agree: what runs are the slots the Jobs count, and what is queued is the next
\* slot of a Job that has the handle for it. So no slot is lost, and the
\* dispatcher never starts a Job that is gone.
SlotsAgree ==
  AtRest =>
    /\ DOMAIN started =
         UNION {{j} \X (1 .. job[j].slots) : j \in {i \in Live : job[i].task # "none"}}
    /\ {t \in Slots : \E p \in Priority : D!IsQueued(t, p)} =
         {<<j, job[j].slots + 1>> : j \in {i \in Live : job[i].handle}}
    /\ \A j \in Live : job[j].handle => D!IsQueued(<<j, job[j].slots + 1>>, job[j].highest)

\* A request that waits is attached, once, to a Job that exists and that is
\* running or queued, or about to answer it; and a Job that nobody waits for
\* does not go on.
NobodyForgotten ==
  AtRest =>
    /\ \A r \in Requests : LET j == req[r].job IN
         j # None => /\ j \in Live
                     /\ Cardinality({i \in DOMAIN job[j].requests : job[j].requests[i] = r}) = 1
                     /\ \/ jobs[job[j].key] = j /\ (job[j].task # "none" \/ job[j].handle)
                        \/ Pending(<<"answer", j>>)
                        \/ Pending(<<"complete", j, "NETWORK_CHANGED">>)
    /\ \A j \in Live : job[j].task # "none" \/ job[j].handle =>
         \/ job[j].requests # <<>>
         \/ \E i \in DOMAIN todo : todo[i][1] = "attach" /\ todo[i][2] = j

\* No answer is from before the last change of the network: nothing that was
\* looked up earlier gets into the cache, no earlier lookup is left running, and
\* a DnsTask is only there while there is a configuration for it. (With the type
\* invariant, which says that there is none without a client.)
LookupsCurrent ==
  /\ TypeOK
  /\ outdated = {}
  /\ AtRest => \A j \in Live :
       job[j].task # "none" =>
         \/ job[j].fresh /\ (job[j].task = "dns" => config)
         \/ Pending(<<"complete", j, "NETWORK_CHANGED">>)

\* Once the clients ask for nothing new, every request is answered.
AllAnswered ==
  <>[][\A r \in Requests : req[r].job = None => req'[r].job = None]_vars
    => <>[](\A r \in Requests : req[r].job = None)

\* "DCHECK(!is_running())" of OnEvicted(): a Job that is evicted has not started.
EvictedNeverRan ==
  \A i \in DOMAIN todo :
    todo[i][1] = "complete" /\ todo[i][3] = "QUEUE_TOO_LARGE" =>
      todo[i][2] \in Live /\ job[todo[i][2]].task = "none"

\* "DCHECK(dns_client_)" of OnDnsTaskResolve().
FallbackHasClient ==
  \A j \in Live : job[j].task = "proc" /\ job[j].dns_failed => dns_client

\* "This could remove |job| from |jobs_|, but iterator will remain valid": the
\* Jobs that the calls under way will come back to still exist.
StackValid ==
  \A i \in DOMAIN todo :
    todo[i][1] \in {"hosts", "complete", "attach"} => todo[i][2] \in Live
=============================================================================
