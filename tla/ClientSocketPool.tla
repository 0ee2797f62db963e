--------------------------- MODULE ClientSocketPool ---------------------------
(***************************************************************************)
(* ClientSocketPoolBaseHelper and the ClientSocketHandles that use it      *)
(* (socket/client_socket_pool_base.{h,cc}, socket/client_socket_handle.cc).*)
(*                                                                         *)
(* A pool shares at most max_sockets sockets, and at most                  *)
(* max_sockets_per_group per group, between the requests of its handles.   *)
(* Requests wait in a priority queue per group, ConnectJobs are bound to   *)
(* requests only when they complete, idle sockets are kept for reuse, and  *)
(* results reach the user through a posted task.                           *)
(*                                                                         *)
(* Everything runs on one thread, so a public method is one action.  The   *)
(* methods call each other; each private method is an operator from a pool *)
(* (a record, named p or q below) to the set of pools it can leave behind: *)
(* more than one when the outcome of a Connect() or the state of an idle   *)
(* socket, which the pool does not control, decides.                       *)
(***************************************************************************)
EXTENDS Integers, FiniteSets, Sequences, SequencesExt

CONSTANTS
  Groups,                  \* group names, ordered as the keys of group_map_
  Handles,                 \* ClientSocketHandle objects
  NumPriorities,           \* NUM_PRIORITIES of RequestPriority
  max_sockets,
  max_sockets_per_group,
  ConnectResults,          \* what ConnectJob::Connect() may return at once
  RespectLimitsValues,     \* the RespectLimits values clients use
  connect_backup_jobs_enabled,
  HasLowerPool,            \* does the pool connect through a lower pool?
  NoHandle,                \* the null handle of a preconnect
  NoSocket,                \* a handle's socket_ when it holds none
  NoResult,                \* no entry in pending_callback_map_
  MaxGeneration,           \* bound on pool_generation_number_
  MaxTasks,                \* bound on InvokeUserCallback tasks per handle
  MaxOverLimit             \* bound on sockets over max_sockets

ASSUME GroupsAssumption ==
  /\ Groups \subseteq Nat
  /\ IsFiniteSet(Groups)
  /\ Groups # {}
ASSUME HandlesAssumption ==
  /\ IsFiniteSet(Handles)
  /\ NoHandle \notin Handles
ASSUME LimitsAssumption ==
  /\ NumPriorities \in Nat \ {0}
  /\ max_sockets \in Nat
  /\ max_sockets_per_group \in Nat
  /\ max_sockets_per_group <= max_sockets
  /\ MaxGeneration \in Nat
  /\ MaxTasks \in Nat
  /\ MaxOverLimit \in Nat
ASSUME OptionsAssumption ==
  /\ ConnectResults \subseteq {"OK", "PENDING", "ERR", "ERR_SOCKET"}
  /\ RespectLimitsValues \subseteq {"ENABLED", "DISABLED"}
  /\ connect_backup_jobs_enabled \in BOOLEAN
  /\ HasLowerPool \in BOOLEAN

VARIABLES
  pool,        \* the ClientSocketPoolBaseHelper, with the sockets it handed out
  handle,      \* is_initialized_ and group_name_ of each ClientSocketHandle
  preconnect   \* the RequestSockets() loop in progress, if any

vars == <<pool, handle, preconnect>>

Priority == 0 .. NumPriorities - 1
MAXIMUM_PRIORITY == NumPriorities - 1

\* A ConnectJob ends with a socket, with an error, or with an error and a
\* socket that holds information about it (for instance proxy authentication).
CompletionResults == {"OK", "ERR", "ERR_SOCKET"}

Request == [handle : Handles \cup {NoHandle}, priority : Priority,
            respect_limits : {"ENABLED", "DISABLED"}]

\* was_ever_used is StreamSocket::WasEverUsed(); birth is the generation of the
\* pool when the socket was connected (a history variable: no code reads it).
Socket == [was_ever_used : BOOLEAN, birth : Nat]

ASSUME NullsAssumption ==
  /\ NoSocket \notin Socket
  /\ NoResult \notin CompletionResults

NewSocket(p) == [was_ever_used |-> FALSE, birth |-> p.generation]

-------------------------------------------------------------------------------
(* The number of sockets of all groups, from the number n[g] of each group. *)

Slots(n) == UNION {{g} \X (1 .. n[g]) : g \in Groups}
Total(n) == Cardinality(Slots(n))

IdleCounts(idle) == [g \in Groups |-> Len(idle[g])]

(* Group: the per-group predicates. *)

IsEmpty(p, g) ==
  /\ p.active[g] = 0
  /\ p.idle[g] = <<>>
  /\ p.jobs[g] = 0
  /\ p.pending[g] = <<>>

NumActiveSocketSlots(p, g) == p.active[g] + p.jobs[g] + Len(p.idle[g])

\* Mutant: off by one.
HasAvailableSocketSlotOffByOne(p, g) == NumActiveSocketSlots(p, g) <= max_sockets_per_group

HasAvailableSocketSlot(p, g) == NumActiveSocketSlots(p, g) < max_sockets_per_group

CanUseAdditionalSocketSlot(p, g) ==
  /\ HasAvailableSocketSlot(p, g)
  /\ Len(p.pending[g]) > p.jobs[g]

TotalSockets(p) ==
  p.handed_out_socket_count + p.connecting_socket_count + p.idle_socket_count

ReachedMaxSocketsLimit(p) == TotalSockets(p) >= max_sockets

(* Group: the request queue, in the order in which requests are served.      *)

\* Mutant: a request that ignores the limits waits behind its equals.
InsertPendingRequestAtBack(p, g, r) ==
  LET q == p.pending[g]
  IN  [p EXCEPT !.pending[g] = InsertAt(q,
         1 + Cardinality({i \in 1 .. Len(q) : q[i].priority >= r.priority}), r)]

InsertPendingRequest(p, g, r) ==
  LET q   == p.pending[g]
      pos == IF r.respect_limits = "DISABLED"
             THEN 1
             ELSE 1 + Cardinality({i \in 1 .. Len(q) : q[i].priority >= r.priority})
  IN  [p EXCEPT !.pending[g] = InsertAt(q, pos, r)]

\* Removing the last request also stops the backup timer.
RemovePendingRequest(p, g, i) ==
  [p EXCEPT !.pending[g] = RemoveAt(@, i),
            !.backup_timer[g] = @ /\ Len(p.pending[g]) > 1]

PopNextPendingRequest(p, g) == RemovePendingRequest(p, g, 1)

(* Group: ConnectJobs are interchangeable (late binding), so a group keeps    *)
(* only their number.                                                         *)

\* Mutant: the last job leaves the backup timer running.
RemoveConnectJobKeepTimer(p, g) ==
  LET left == p.jobs[g] - 1
  IN  [p EXCEPT !.connecting_socket_count = @ - 1,
                !.jobs[g] = left,
                !.unassigned[g] = IF left < @ THEN left ELSE @]

RemoveConnectJob(p, g) ==
  LET left == p.jobs[g] - 1
  IN  [p EXCEPT !.connecting_socket_count = @ - 1,
                !.jobs[g] = left,
                !.unassigned[g] = IF left < @ THEN left ELSE @,
                !.backup_timer[g] = @ /\ left # 0]

AddJob(p, g, isPreconnect) ==
  [p EXCEPT !.connecting_socket_count = @ + 1,
            !.jobs[g] = @ + 1,
            !.unassigned[g] = IF isPreconnect THEN @ + 1 ELSE @]

(* group_map_ *)

GetOrCreateGroup(p, g) == [p EXCEPT !.group_map = @ \cup {g}]

\* Mutant: the sockets that clients hold are forgotten.
RemoveGroupIfIdle(p, g) ==
  IF p.idle[g] = <<>> /\ p.jobs[g] = 0 /\ p.pending[g] = <<>>
  THEN [p EXCEPT !.group_map = @ \ {g}] ELSE p

RemoveGroupIfEmpty(p, g) ==
  IF IsEmpty(p, g) THEN [p EXCEPT !.group_map = @ \ {g}] ELSE p

RemoveEmptyGroups(p) ==
  [p EXCEPT !.group_map = {g \in @ : ~IsEmpty(p, g)}]

(* Sockets *)

HandOutSocket(p, g, h, s) ==
  [p EXCEPT !.socket[h] = s,
            !.pool_id[h] = p.generation,
            !.handed_out_socket_count = @ + 1,
            !.active[g] = @ + 1]

AddIdleSocket(p, g, s) ==
  [p EXCEPT !.idle[g] = Append(@, s), !.idle_socket_count = @ + 1]

InvokeUserCallbackLater(p, h, result) ==
  [p EXCEPT !.pending_callback_map[h] = result, !.tasks[h] = @ + 1]

\* What can be left of the idle list s after a pass that drops the sockets that
\* timed out or are unusable: the peer decides which, so any subsequence.
Survivors(s) ==
  {t \in UNION {[1 .. n -> ToSet(s)] : n \in 0 .. Len(s)} :
     \E f \in [1 .. Len(t) -> 1 .. Len(s)] :
        /\ \A i, j \in 1 .. Len(t) : i < j => f[i] < f[j]
        /\ \A i \in 1 .. Len(t) : t[i] = s[f[i]]}

\* Leave the idle sockets of each group as in idle, and the empty groups out.
KeepIdleSockets(p, idle) ==
  RemoveEmptyGroups(
    [p EXCEPT !.idle = idle,
              !.idle_socket_count = @ - (Total(IdleCounts(p.idle)) - Total(IdleCounts(idle)))])

CleanupIdleSockets(p, force) ==
  IF p.idle_socket_count = 0
  THEN {p}
  ELSE IF force
       THEN {KeepIdleSockets(p, [g \in Groups |-> <<>>])}
       ELSE {KeepIdleSockets(p, idle) :
               idle \in {f \in [Groups -> UNION {Survivors(p.idle[g]) : g \in Groups}] :
                           \A g \in Groups : f[g] \in Survivors(p.idle[g])}}

\* Groups are visited in the order of their names: the first one with an idle
\* socket, other than those in except, loses its oldest.
CloseOneIdleSocketExceptInGroup(p, except) ==
  LET candidates == {g \in p.group_map \ except : p.idle[g] # <<>>}
      first == {g \in candidates : \A x \in candidates : g <= x}
  IN  IF candidates = {}
      THEN {p}
      ELSE {RemoveGroupIfEmpty([p EXCEPT !.idle[g] = Tail(@),
                                         !.idle_socket_count = @ - 1], g) : g \in first}

CloseOneIdleSocket(p) ==
  IF p.idle_socket_count = 0 THEN {p} ELSE CloseOneIdleSocketExceptInGroup(p, {})

-------------------------------------------------------------------------------
(* Serving one request. *)

\* The newest used idle socket, or the oldest one when none was ever used.
IdleSocketToReuse(s) ==
  LET used == {i \in 1 .. Len(s) : s[i].was_ever_used}
  IN  CHOOSE i \in 1 .. Len(s) :
        IF used = {} THEN i = 1 ELSE i \in used /\ \A j \in used : j <= i

DropUnusableIdleSockets(p, g) ==
  {[p EXCEPT !.idle[g] = t,
             !.idle_socket_count = @ - (Len(p.idle[g]) - Len(t))]
     : t \in Survivors(p.idle[g])}

AssignIdleSocketToRequest(p, g, h) ==
  LET i == IdleSocketToReuse(p.idle[g])
  IN  HandOutSocket([p EXCEPT !.idle[g] = RemoveAt(@, i),
                              !.idle_socket_count = @ - 1],
                    g, h, p.idle[g][i])

\* The outcome rv of the Connect() of a new ConnectJob for the request of h.
FinishConnect(p, g, h, rv) ==
  CASE rv = "OK" /\ h = NoHandle -> AddIdleSocket(p, g, NewSocket(p))
    [] rv = "PENDING" ->
         AddJob([p EXCEPT !.backup_timer[g] =
                   @ \/ (connect_backup_jobs_enabled /\ IsEmpty(p, g))],
                g, h = NoHandle)
    [] rv \in {"OK", "ERR_SOCKET"} /\ h # NoHandle ->
         HandOutSocket(p, g, h, NewSocket(p))
    [] OTHER -> RemoveGroupIfEmpty(p, g)

ConnectNewJob(p, g, h) ==
  {[pool |-> FinishConnect(p, g, h, rv), rv |-> rv] : rv \in ConnectResults}

\* Only a preconnect can find that the idle sockets are all in its own group.
ConnectAtSocketLimit(p, g, h) ==
  IF p.idle_socket_count = 0
  THEN {[pool |-> p, rv |-> "PENDING"]}
  ELSE UNION {IF h = NoHandle /\ q.idle_socket_count = p.idle_socket_count
              THEN {[pool |-> q, rv |-> "ERR_PRECONNECT_MAX"]}
              ELSE ConnectNewJob(q, g, h)
                : q \in CloseOneIdleSocketExceptInGroup(p, {g})}

\* A socket for request r, when no idle one can be reused.
RequestNewSocket(p, g, r) ==
  LET enabled == r.respect_limits = "ENABLED"
  IN  IF r.handle # NoHandle /\ p.unassigned[g] > 0
      THEN {[pool |-> [p EXCEPT !.unassigned[g] = @ - 1], rv |-> "PENDING"]}
      ELSE IF enabled /\ ~HasAvailableSocketSlot(p, g)
      THEN {[pool |-> p, rv |-> "PENDING"]}
      ELSE IF enabled /\ ReachedMaxSocketsLimit(p)
      THEN ConnectAtSocketLimit(p, g, r.handle)
      ELSE ConnectNewJob(p, g, r.handle)

\* The NO_IDLE_SOCKETS flag is set exactly on preconnects.
RequestSocketInternal(p, g, r) ==
  IF r.handle = NoHandle
  THEN RequestNewSocket(GetOrCreateGroup(p, g), g, r)
  ELSE UNION {IF q.idle[g] # <<>>
              THEN {[pool |-> AssignIdleSocketToRequest(q, g, r.handle), rv |-> "OK"]}
              ELSE RequestNewSocket(q, g, r)
                : q \in DropUnusableIdleSockets(GetOrCreateGroup(p, g), g)}

\* Mutant: the request that was served stays in the queue.
ProcessPendingRequestNoPop(p, g) ==
  IF p.idle[g] = <<>> /\ ~CanUseAdditionalSocketSlot(p, g)
  THEN {p}
  ELSE {IF res.rv = "PENDING"
        THEN res.pool
        ELSE InvokeUserCallbackLater(res.pool, Head(p.pending[g]).handle, res.rv)
          : res \in RequestSocketInternal(p, g, Head(p.pending[g]))}

ProcessPendingRequest(p, g) ==
  LET r == Head(p.pending[g])
  IN  IF p.idle[g] = <<>> /\ ~CanUseAdditionalSocketSlot(p, g)
      THEN {p}
      ELSE {IF res.rv = "PENDING"
            THEN res.pool
            ELSE InvokeUserCallbackLater(
                   RemoveGroupIfEmpty(PopNextPendingRequest(res.pool, g), g),
                   r.handle, res.rv)
              : res \in RequestSocketInternal(p, g, r)}

OnAvailableSocketSlot(p, g) ==
  IF p.pending[g] # <<>> THEN ProcessPendingRequest(p, g)
                         ELSE {RemoveGroupIfEmpty(p, g)}

StalledGroups(p) == {g \in p.group_map : CanUseAdditionalSocketSlot(p, g)}

\* The stalled group with the most urgent request; the first name breaks ties.
FindTopStalledGroup(p) ==
  LET top(g) == Head(p.pending[g]).priority
  IN  {g \in StalledGroups(p) :
         \A x \in StalledGroups(p) : top(x) < top(g) \/ (top(x) = top(g) /\ g <= x)}

\* With no stalled group, the lower pool may still be stalled: it decides.
CheckForStalledSocketGroups(p) ==
  IF StalledGroups(p) = {}
  THEN {p} \cup (IF HasLowerPool THEN CloseOneIdleSocket(p) ELSE {})
  ELSE IF ReachedMaxSocketsLimit(p) /\ p.idle_socket_count = 0
  THEN {p}
  ELSE UNION {OnAvailableSocketSlot(q, g) :
                q \in (IF ReachedMaxSocketsLimit(p) THEN CloseOneIdleSocket(p) ELSE {p}),
                g \in FindTopStalledGroup(p)}

OfferSlot(p, g) ==
  UNION {CheckForStalledSocketGroups(q) : q \in OnAvailableSocketSlot(p, g)}

-------------------------------------------------------------------------------
(* Results and cancellation. *)

OnConnectJobComplete(p, g, result) ==
  LET q == RemoveConnectJob(p, g)
      h == Head(p.pending[g]).handle
      popped == PopNextPendingRequest(q, g)
  IN  IF p.pending[g] = <<>>
      THEN OfferSlot(IF result = "OK" THEN AddIdleSocket(q, g, NewSocket(q)) ELSE q, g)
      ELSE IF result \in {"OK", "ERR_SOCKET"}
      THEN {InvokeUserCallbackLater(HandOutSocket(popped, g, h, NewSocket(q)), h, result)}
      ELSE OfferSlot(InvokeUserCallbackLater(popped, h, result), g)

\* Mutant: the generation of the socket is not compared.
ReleaseSocketAnyGeneration(p, g, s, id, connected) ==
  LET q == [p EXCEPT !.handed_out_socket_count = @ - 1, !.active[g] = @ - 1]
  IN  IF connected THEN OfferSlot(AddIdleSocket(q, g, s), g)
                   ELSE CheckForStalledSocketGroups(q)

\* Mutant: a socket that cannot be reused frees its slot silently.
ReleaseSocketNoWakeup(p, g, s, id, connected) ==
  LET q == [p EXCEPT !.handed_out_socket_count = @ - 1, !.active[g] = @ - 1]
  IN  IF connected /\ id = p.generation
      THEN OfferSlot(AddIdleSocket(q, g, s), g)
      ELSE {q}

\* connected: is the socket connected and idle when it comes back?
ReleaseSocket(p, g, s, id, connected) ==
  LET q == [p EXCEPT !.handed_out_socket_count = @ - 1, !.active[g] = @ - 1]
  IN  IF connected /\ id = p.generation
      THEN OfferSlot(AddIdleSocket(q, g, s), g)
      ELSE CheckForStalledSocketGroups(q)

PassSocket(p, h) == [p EXCEPT !.socket[h] = NoSocket, !.pool_id[h] = -1]

\* The handle is the key of its request, so there is at most one such position.
PositionOf(p, g, h) == {i \in 1 .. Len(p.pending[g]) : p.pending[g][i].handle = h}

\* Mutant: the job of the cancelled request is deleted, its slot offered to nobody.
CancelPendingRequestNoWakeup(p, g, i) ==
  LET q == RemovePendingRequest(p, g, i)
  IN  IF q.jobs[g] > Len(q.pending[g]) /\ ReachedMaxSocketsLimit(q)
      THEN {RemoveConnectJob(q, g)}
      ELSE {q}

CancelPendingRequest(p, g, i) ==
  LET q == RemovePendingRequest(p, g, i)
  IN  IF q.jobs[g] > Len(q.pending[g]) /\ ReachedMaxSocketsLimit(q)
      THEN CheckForStalledSocketGroups(RemoveConnectJob(q, g))
      ELSE {q}

\* Mutant: the posted result of the cancelled request is not withdrawn.
CancelRequestKeepResult(p, g, h, connected) ==
  IF p.pending_callback_map[h] = NoResult
  THEN UNION {CancelPendingRequest(p, g, i) : i \in PositionOf(p, g, h)}
  ELSE IF p.socket[h] = NoSocket
  THEN {p}
  ELSE ReleaseSocket(PassSocket(p, h), g, p.socket[h], p.pool_id[h],
                     connected /\ p.pending_callback_map[h] = "OK")

CancelRequest(p, g, h, connected) ==
  LET result == p.pending_callback_map[h]
      q == [p EXCEPT !.pending_callback_map[h] = NoResult]
  IN  IF result = NoResult
      THEN IF PositionOf(p, g, h) = {}
           THEN {p}
           ELSE UNION {CancelPendingRequest(p, g, i) : i \in PositionOf(p, g, h)}
      ELSE IF p.socket[h] = NoSocket
      THEN {q}
      ELSE ReleaseSocket(PassSocket(q, h), g, p.socket[h], p.pool_id[h],
                         connected /\ result = "OK")

\* Mutant: the jobs go, their number stays in connecting_socket_count_.
CancelAllConnectJobsKeepCount(p) ==
  RemoveEmptyGroups(
    [p EXCEPT !.jobs = [g \in Groups |-> 0],
              !.unassigned = [g \in Groups |-> 0],
              !.backup_timer = [g \in Groups |-> FALSE]])

CancelAllConnectJobs(p) ==
  RemoveEmptyGroups(
    [p EXCEPT !.connecting_socket_count = @ - Total(p.jobs),
              !.jobs = [g \in Groups |-> 0],
              !.unassigned = [g \in Groups |-> 0],
              !.backup_timer = [g \in Groups |-> FALSE]])

CancelAllRequestsWithError(p, error) ==
  LET waiting(h) == \E g \in Groups : PositionOf(p, g, h) # {}
  IN  RemoveEmptyGroups(
        [p EXCEPT !.pending = [g \in Groups |-> <<>>],
                  !.backup_timer = [g \in Groups |-> p.backup_timer[g] /\ p.pending[g] = <<>>],
                  !.pending_callback_map = [h \in Handles |-> IF waiting(h) THEN error ELSE @[h]],
                  !.tasks = [h \in Handles |-> IF waiting(h) THEN @[h] + 1 ELSE @[h]]])

-------------------------------------------------------------------------------
(* ClientSocketHandle *)

NoGroup == -1

IsPending(h) == handle[h].group_name # NoGroup /\ ~handle[h].is_initialized

\* HandleInitCompletion(): a handle is initialized when it has a socket, even
\* after an error, and reset otherwise.
HandleInitCompletion(p, h, g) ==
  [is_initialized |-> p.socket[h] # NoSocket,
   group_name     |-> IF p.socket[h] # NoSocket THEN g ELSE NoGroup]

\* ResetInternal(true): what h holds or waits for goes back to the pool.  used:
\* did the client ever use the socket?
ResetHandle(p, h, connected, used) ==
  LET g == handle[h].group_name
      s == [p.socket[h] EXCEPT !.was_ever_used = @ \/ used]
  IN  IF g = NoGroup
      THEN {p}
      ELSE IF handle[h].is_initialized
      THEN ReleaseSocket(PassSocket(p, h), g, s, p.pool_id[h], connected)
      ELSE CancelRequest(p, g, h, connected)

\* No public method runs inside the loop of RequestSockets().
Quiet == preconnect.left = -1

NoPreconnect == [group |-> NoGroup, num |-> 0, left |-> -1]

\* The Request of a preconnect is never queued: its priority, IDLE, plays no part.
PreconnectRequest == [handle |-> NoHandle, priority |-> 0, respect_limits |-> "ENABLED"]

-------------------------------------------------------------------------------
Init ==
  /\ pool = [group_map |-> {},
             pending |-> [g \in Groups |-> <<>>],
             jobs |-> [g \in Groups |-> 0],
             unassigned |-> [g \in Groups |-> 0],
             idle |-> [g \in Groups |-> <<>>],
             active |-> [g \in Groups |-> 0],
             backup_timer |-> [g \in Groups |-> FALSE],
             idle_socket_count |-> 0,
             connecting_socket_count |-> 0,
             handed_out_socket_count |-> 0,
             generation |-> 0,
             pending_callback_map |-> [h \in Handles |-> NoResult],
             socket |-> [h \in Handles |-> NoSocket],
             pool_id |-> [h \in Handles |-> -1],
             tasks |-> [h \in Handles |-> 0]]
  /\ handle = [h \in Handles |-> [is_initialized |-> FALSE, group_name |-> NoGroup]]
  /\ preconnect = NoPreconnect

\* ClientSocketHandle::Init(), with RequestSocket(): reset, then ask for a socket.
RequestSocket(h, g, priority, respect_limits) ==
  LET r == [handle |-> h, priority |-> priority, respect_limits |-> respect_limits]
  IN  /\ Quiet
      /\ respect_limits = "DISABLED" => priority = MAXIMUM_PRIORITY
      /\ pool.tasks[h] < MaxTasks
      /\ respect_limits = "DISABLED" => TotalSockets(pool) < max_sockets + MaxOverLimit
      /\ \E connected, used \in BOOLEAN :
         \E reset \in ResetHandle(pool, h, connected, used) :
         \E cleaned \in CleanupIdleSockets(reset, FALSE) :
         \E res \in RequestSocketInternal(cleaned, g, r) :
           IF res.rv = "PENDING"
           THEN /\ pool' = InsertPendingRequest(res.pool, g, r)
                /\ handle' = [handle EXCEPT ![h] = [is_initialized |-> FALSE, group_name |-> g]]
           ELSE /\ pool' = res.pool
                /\ handle' = [handle EXCEPT ![h] = HandleInitCompletion(res.pool, h, g)]
      /\ UNCHANGED preconnect

\* ClientSocketHandle::Reset(): ReleaseSocket() or CancelRequest().
Reset(h) ==
  /\ Quiet
  /\ handle[h].group_name # NoGroup
  /\ handle' = [handle EXCEPT ![h] = [is_initialized |-> FALSE, group_name |-> NoGroup]]
  /\ UNCHANGED preconnect
  /\ \E connected, used \in BOOLEAN : pool' \in ResetHandle(pool, h, connected, used)

\* ClientSocketHandle::SetPriority() on a request that is still queued.
SetPriority(h, priority) ==
  LET g == handle[h].group_name
  IN  /\ Quiet
      /\ IsPending(h)
      /\ \E i \in PositionOf(pool, g, h) :
           /\ pool.pending[g][i].priority # priority
           /\ pool.pending[g][i].respect_limits = "ENABLED"
           /\ pool' = InsertPendingRequest(
                        RemovePendingRequest(pool, g, i), g,
                        [pool.pending[g][i] EXCEPT !.priority = priority])
      /\ UNCHANGED <<handle, preconnect>>

\* RequestSockets(): the call, and then each pass of its loop.
RequestSockets(g, num_sockets) ==
  /\ Quiet
  /\ \E cleaned \in CleanupIdleSockets(pool, FALSE) : pool' = GetOrCreateGroup(cleaned, g)
  /\ preconnect' = [group |-> g, num |-> num_sockets, left |-> num_sockets]
  /\ UNCHANGED handle

RequestSocketsLoop ==
  LET g == preconnect.group
      more == NumActiveSocketSlots(pool, g) < preconnect.num /\ preconnect.left > 0
  IN  /\ ~Quiet
      /\ \/ /\ more
            /\ \E res \in RequestSocketInternal(pool, g, PreconnectRequest) :
                 /\ res.rv \in {"OK", "PENDING"}
                 /\ pool' = res.pool
                 /\ preconnect' = [preconnect EXCEPT !.left = @ - 1]
         \/ /\ more
            /\ \E res \in RequestSocketInternal(pool, g, PreconnectRequest) :
                 /\ res.rv \notin {"OK", "PENDING"}
                 /\ pool' = RemoveGroupIfEmpty(res.pool, g)
                 /\ preconnect' = NoPreconnect
         \/ /\ ~more
            /\ pool' = RemoveGroupIfEmpty(pool, g)
            /\ preconnect' = NoPreconnect
      /\ UNCHANGED handle

\* A ConnectJob of group g ends: by itself, or by its timeout (an error).
ConnectJobComplete(g, result) ==
  /\ Quiet
  /\ pool.jobs[g] > 0
  /\ UNCHANGED <<handle, preconnect>>
  /\ pool' \in OnConnectJobComplete(pool, g, result)

\* OneShotTimer stops before it runs its task.  resolving: the oldest job of the
\* group is still in LOAD_STATE_RESOLVING_HOST.
OnBackupJobTimerFired(g) ==
  /\ Quiet
  /\ pool.backup_timer[g]
  /\ LET fired == [pool EXCEPT !.backup_timer[g] = FALSE]
         h == Head(pool.pending[g]).handle
     IN  \/ pool' = pool                              \* the timer is restarted
         \/ /\ ~ReachedMaxSocketsLimit(pool)
            /\ HasAvailableSocketSlot(pool, g)
            /\ IF pool.pending[g] = <<>>
               THEN pool' = fired
               ELSE \E rv \in ConnectResults :
                      IF rv = "PENDING"
                      THEN pool' = AddJob(fired, g, FALSE)
                      ELSE pool' \in OnConnectJobComplete(AddJob(fired, g, FALSE), g, rv)
  /\ UNCHANGED <<handle, preconnect>>

\* The task posted by InvokeUserCallbackLater(); it finds nothing to do when the
\* request was cancelled after it was posted.
InvokeUserCallback(h) ==
  LET q == [pool EXCEPT !.tasks[h] = @ - 1]
  IN  /\ Quiet
      /\ pool.tasks[h] > 0
      /\ IF pool.pending_callback_map[h] = NoResult
         THEN /\ pool' = q
              /\ UNCHANGED handle
         ELSE /\ pool' = [q EXCEPT !.pending_callback_map[h] = NoResult]
              /\ handle' = [handle EXCEPT ![h] =
                              HandleInitCompletion(pool, h, handle[h].group_name)]
      /\ UNCHANGED preconnect

\* OnIPAddressChanged(), and the flushes the owner of the pool asks for.
FlushWithError ==
  /\ Quiet
  /\ pool.generation < MaxGeneration
  /\ LET jobless == CancelAllConnectJobs([pool EXCEPT !.generation = @ + 1])
     IN  \E q \in CleanupIdleSockets(jobless, TRUE) :
           pool' = CancelAllRequestsWithError(q, "ERR")
  /\ UNCHANGED <<handle, preconnect>>

CloseIdleSockets ==
  /\ Quiet
  /\ pool' \in CleanupIdleSockets(pool, TRUE)
  /\ UNCHANGED <<handle, preconnect>>

\* Mutant: the sockets are closed and counted, but left in the list.
CloseIdleSocketsInGroupKeepList(g) ==
  /\ Quiet
  /\ pool.idle_socket_count > 0
  /\ g \in pool.group_map
  /\ pool' = [pool EXCEPT !.idle_socket_count = @ - Len(pool.idle[g])]
  /\ UNCHANGED <<handle, preconnect>>

CloseIdleSocketsInGroup(g) ==
  /\ Quiet
  /\ pool.idle_socket_count > 0
  /\ g \in pool.group_map
  /\ pool' = RemoveGroupIfEmpty(
               [pool EXCEPT !.idle[g] = <<>>,
                            !.idle_socket_count = @ - Len(pool.idle[g])], g)
  /\ UNCHANGED <<handle, preconnect>>

\* The lower pool, being stalled, asks this one to give up an idle socket.
CloseOneIdleConnection ==
  /\ Quiet
  /\ HasLowerPool
  /\ pool.idle_socket_count > 0
  /\ pool' \in CloseOneIdleSocket(pool)
  /\ UNCHANGED <<handle, preconnect>>

-------------------------------------------------------------------------------
NewRequest ==
  \/ \E h \in Handles, g \in Groups, priority \in Priority,
        respect_limits \in RespectLimitsValues :
        RequestSocket(h, g, priority, respect_limits)
  \/ \E g \in Groups, num \in 1 .. max_sockets_per_group : RequestSockets(g, num)

Service ==
  \/ \E h \in Handles : Reset(h)
  \/ \E h \in Handles, priority \in Priority : SetPriority(h, priority)
  \/ RequestSocketsLoop
  \/ \E g \in Groups, result \in CompletionResults : ConnectJobComplete(g, result)
  \/ \E g \in Groups : OnBackupJobTimerFired(g)
  \/ \E h \in Handles : InvokeUserCallback(h)
  \/ FlushWithError
  \/ CloseIdleSockets
  \/ \E g \in Groups : CloseIdleSocketsInGroup(g)
  \/ CloseOneIdleConnection

Next == NewRequest \/ Service

Spec == Init /\ [][Next]_vars

\* Posted tasks run, a ConnectJob ends by its timeout at the latest, a call that
\* has begun returns, and a client gives its socket back some day.
Fairness ==
  /\ WF_vars(RequestSocketsLoop)
  /\ \A g \in Groups : WF_vars(\E result \in CompletionResults : ConnectJobComplete(g, result))
  /\ \A h \in Handles : WF_vars(InvokeUserCallback(h))
  /\ \A h \in Handles : WF_vars(handle[h].is_initialized /\ Reset(h))

FairSpec == Spec /\ Fairness

-------------------------------------------------------------------------------
(* Properties *)

PoolType ==
  [group_map : SUBSET Groups,
   pending : [Groups -> Seq(Request)],
   jobs : [Groups -> Nat],
   unassigned : [Groups -> Nat],
   idle : [Groups -> Seq(Socket)],
   active : [Groups -> Nat],
   backup_timer : [Groups -> BOOLEAN],
   idle_socket_count : Nat,
   connecting_socket_count : Nat,
   handed_out_socket_count : Nat,
   generation : Nat,
   pending_callback_map : [Handles -> CompletionResults \cup {NoResult}],
   socket : [Handles -> Socket \cup {NoSocket}],
   pool_id : [Handles -> Nat \cup {-1}],
   tasks : [Handles -> Nat]]

\* The types of the pool's members: in particular none of the counters that the
\* code only ever increments and decrements is ever negative.
TypeOK ==
  /\ pool \in PoolType
  /\ handle \in [Handles -> [is_initialized : BOOLEAN, group_name : Groups \cup {NoGroup}]]
  /\ preconnect \in [group : Groups \cup {NoGroup}, num : 0 .. max_sockets_per_group,
                     left : -1 .. max_sockets_per_group]

\* Requests are queued by priority, and among equals those that ignore the
\* limits come first (PriorityQueue::FirstMax() order of pending_requests_).
Urgency(r) == 2 * r.priority + (IF r.respect_limits = "DISABLED" THEN 1 ELSE 0)

\* The handles that hold a socket of group g.
Holders(g) == {h \in Handles : pool.socket[h] # NoSocket /\ handle[h].group_name = g}

\* The pool-wide counters, on which every limit check and every CHECK in
\* ReleaseSocket() and RemoveConnectJob() relies, count what the groups hold.
CountersAgree ==
  /\ pool.idle_socket_count = Total(IdleCounts(pool.idle))
  /\ pool.connecting_socket_count = Total(pool.jobs)
  /\ pool.handed_out_socket_count = Total(pool.active)
  /\ \A g \in Groups : pool.active[g] = Cardinality(Holders(g))

\* While every request respects the limits, no group has more sockets (active,
\* idle or connecting) than max_sockets_per_group_, not even through preconnects
\* and backup jobs, and the pool never has more than max_sockets_.
SocketLimits ==
  RespectLimitsValues = {"ENABLED"} =>
    /\ \A g \in Groups : NumActiveSocketSlots(pool, g) <= max_sockets_per_group
    /\ TotalSockets(pool) <= max_sockets

\* Every group that holds a socket, a job or a request is in group_map_: the
\* CHECKs and DCHECKs at the head of ReleaseSocket(), CancelRequest(),
\* OnConnectJobComplete() and OnAvailableSocketSlot() never fail, and
\* no group is deleted while something still points to it.
NonEmptyGroupsMapped ==
  \A g \in Groups : ~IsEmpty(pool, g) => g \in pool.group_map

\* A handle waits either in the queue of its own group, once, or for a posted
\* result, never both and never neither: the CHECK in InvokeUserCallbackLater(),
\* the CHECK in InvokeUserCallback(), the NOTREACHED in GetLoadState().
RequestsTracked ==
  \A h \in Handles, g \in Groups :
    Cardinality(PositionOf(pool, g, h)) =
      IF IsPending(h) /\ handle[h].group_name = g
         /\ pool.pending_callback_map[h] = NoResult THEN 1 ELSE 0

\* A posted result has a task that will deliver it, belongs to a handle that
\* waits for it, and comes with a socket exactly when it should.
ResultsDelivered ==
  \A h \in Handles :
    /\ pool.pending_callback_map[h] # NoResult => IsPending(h) /\ pool.tasks[h] > 0
    /\ pool.pending_callback_map[h] = "OK" => pool.socket[h] # NoSocket
    /\ handle[h].is_initialized => pool.socket[h] # NoSocket
    /\ pool.socket[h] # NoSocket =>
         handle[h].is_initialized \/ pool.pending_callback_map[h] # NoResult

\* When the backup timer runs, there is a job to back up: the NOTREACHED of
\* OnBackupJobTimerFired().  Unassigned jobs are jobs: SanityCheck().
BackupTimerHasJob ==
  \A g \in Groups :
    /\ pool.backup_timer[g] => pool.jobs[g] > 0
    /\ pool.unassigned[g] <= pool.jobs[g]

\* FlushWithError() separates generations: no socket connected before a flush is
\* idle after it, even one that a client held during the flush and released later.
NoSocketSurvivesFlush ==
  \A g \in Groups : \A i \in 1 .. Len(pool.idle[g]) : pool.idle[g][i].birth = pool.generation

\* Every queue is in the order of urgency, so that TopPendingPriority() is the
\* highest priority in it and a request that ignores the limits comes before all
\* others.  The comment on TopPendingPriority() says more cautiously that the head
\* "may be less than the maximum priority over the entire queue" because of the
\* requests that ignore the limits; it never is, for the DCHECKs of Request(),
\* InsertPendingRequest() and Group::SetPriority() keep these at MAXIMUM_PRIORITY.
MostUrgentFirst ==
  \A g \in Groups : \A i, j \in 1 .. Len(pool.pending[g]) :
    i < j => Urgency(pool.pending[g][i]) >= Urgency(pool.pending[g][j])

\* A group is left stalled only at the pool's limit, with no idle socket to
\* close for it: every freed slot was offered.
NoLostSlot ==
  Quiet /\ StalledGroups(pool) # {} =>
    ReachedMaxSocketsLimit(pool) /\ pool.idle_socket_count = 0

\* "This function must be called with a valid ClientSocketHandle" (the NOTREACHED
\* of Group::SetPriority): whenever ClientSocketHandle::SetPriority() reaches the
\* group of a handle, the group has the request of that handle.
SetPriorityFindsRequest ==
  \A h \in Handles :
    IsPending(h) /\ pool.socket[h] = NoSocket /\ handle[h].group_name \in pool.group_map
      => PositionOf(pool, handle[h].group_name, h) # {}

\* "There is no starvation" (CheckForStalledSocketGroups): once clients ask for
\* nothing new, the callback of every waiting handle runs, or it is cancelled.
NoStarvation ==
  (<>[][Service]_vars) => \A h \in Handles : IsPending(h) ~> ~IsPending(h)

===============================================================================
