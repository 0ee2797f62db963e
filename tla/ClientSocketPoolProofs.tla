------------------------- MODULE ClientSocketPoolProofs ------------------------
(***************************************************************************)
(* The private methods of ClientSocketPool and then every action of it     *)
(* keep its inductive invariant, and the theorems that follow, for any     *)
(* groups, handles and limits.                                             *)
(***************************************************************************)
EXTENDS ClientSocketPoolInvariant

(* Serving one request. *)

\* AssignIdleSocketToRequest() finds a socket in a list that is not empty.
LEMMA IdleSocketToReuseType ==
  ASSUME NEW s \in Seq(Socket), s # <<>>
  PROVE  IdleSocketToReuse(s) \in 1 .. Len(s)
<1> DEFINE used == {i \in 1 .. Len(s) : s[i].was_ever_used}
           best(i) == IF used = {} THEN i = 1 ELSE i \in used /\ \A j \in used : j <= i
<1>1. Len(s) \in Nat \ {0}
  BY LenProperties, EmptySeq
<1>2. \E i \in 1 .. Len(s) : best(i)
  <2>1. CASE used = {}
    <3>1. 1 \in 1 .. Len(s)
      BY <1>1
    <3> QED
      BY <2>1, <3>1
  <2>2. CASE used # {}
    <3> DEFINE T == {Len(s) - i : i \in used}
    <3>1. T \in SUBSET Nat /\ T # {}
      BY <1>1, <2>2
    <3> HIDE DEF T
    <3>2. PICK t \in T : \A y \in T : t <= y
      BY <3>1, LeastNatural
    <3>3. PICK i \in used : t = Len(s) - i
      BY DEF T
    <3>4. ASSUME NEW j \in used
          PROVE  j <= i
      <4>1. Len(s) - j \in T /\ Len(s) - i <= Len(s) - j
        BY <3>2, <3>3 DEF T
      <4>2. i \in Nat /\ j \in Nat
        BY <1>1
      <4> QED
        BY <1>1, <4>1, <4>2
    <3> QED
      BY <2>2, <3>4
  <2> QED
    BY <2>1, <2>2
<1>3. IdleSocketToReuse(s) = CHOOSE i \in 1 .. Len(s) : best(i)
  BY DEF IdleSocketToReuse
<1> HIDE DEF best
<1> QED
  BY <1>2, <1>3

\* AssignIdleSocketToRequest() keeps the invariant and gives the handle a socket.
LEMMA AssignIdleSocketToRequestInv ==
  ASSUME NEW p, NEW hd \in HandleType, NEW g \in Groups, NEW h \in Handles,
         PoolInv(p, hd, h), g \in p.group_map, p.idle[g] # <<>>, p.socket[h] = NoSocket,
         hd[h] = WaitingIn(g)
  PROVE  LET q == AssignIdleSocketToRequest(p, g, h)
         IN  /\ PoolInv(q, hd, h)
             /\ q.pending = p.pending
             /\ q.pending_callback_map = p.pending_callback_map
             /\ q.socket[h] # NoSocket
<1> DEFINE s == p.idle[g]
           i == IdleSocketToReuse(s)
           t == RemoveAt(s, i)
           c == CutIdle(p, g, t)
<1>p. p \in PoolType
  BY DEF PoolInv
<1>s. s \in Seq(Socket) /\ Len(s) \in Nat /\ p.idle_socket_count \in Nat
  BY <1>p, PoolFields, LenProperties
<1>i. i \in 1 .. Len(s) /\ s[i] \in Socket
  <2>1. i \in 1 .. Len(s)
    BY <1>s, IdleSocketToReuseType
  <2> QED
    BY <2>1, <1>s, ElementOfSeq
<1> HIDE DEF i
<1>1. /\ t \in Seq(Socket) /\ Len(t) = Len(s) - 1
      /\ \A j \in 1 .. Len(s) - 1 : t[j] = s[IF j < i THEN j ELSE j + 1]
  <2> HIDE DEF s
  <2> QED
    BY <1>s, <1>i, RemoveAtProperties
<1> HIDE DEF t
<1>2. CutFits(p.idle[g], t) /\ Len(t) < Len(p.idle[g])
  <2>1. ASSUME NEW j \in 1 .. Len(t)
        PROVE  \E k \in 1 .. Len(s) : t[j] = s[k]
    <3>1. (IF j < i THEN j ELSE j + 1) \in 1 .. Len(s)
      BY <1>s, <1>1
    <3> QED
      BY <3>1, <1>1
  <2> QED
    BY <2>1, <1>1, <1>s DEF CutFits
<1>3. c = [p EXCEPT !.idle[g] = RemoveAt(@, i), !.idle_socket_count = @ - 1]
  <2>1. p.idle_socket_count - 1 = p.idle_socket_count - (Len(s) - Len(t))
    BY <1>1, <1>s
  <2> QED
    BY <2>1 DEF CutIdle, t
<1> HIDE DEF c
<1>4. PoolInv(c, hd, h) /\ SameHandles(p, c) /\ c.group_map = p.group_map /\ Room(c, g)
  <2>1. PoolInv(c, hd, h) /\ SameHandles(p, c) /\ Room(c, g)
    BY <1>2, CutIdleInv, Zenon DEF c
  <2>2. c.group_map = p.group_map
    BY <1>p DEF c, CutIdle, PoolType
  <2> QED
    BY <2>1, <2>2
<1>5. s[i].birth = c.generation
  BY <1>i, <1>4 DEF PoolInv, GroupsInv, IdleBorn, SameHandles
<1>6. AssignIdleSocketToRequest(p, g, h) = HandOutSocket(c, g, h, s[i])
  BY <1>3 DEF AssignIdleSocketToRequest, i
<1>7. c.socket[h] = NoSocket /\ g \in c.group_map
  BY <1>4 DEF SameHandles
<1>8. LET q == HandOutSocket(c, g, h, s[i])
      IN  /\ PoolInv(q, hd, h)
          /\ q.pending = c.pending
          /\ q.pending_callback_map = c.pending_callback_map
          /\ q.socket[h] # NoSocket
  BY <1>i, <1>4, <1>5, <1>7, HandOutSocketInv
<1> QED
  BY <1>4, <1>6, <1>8 DEF SameHandles

\* A new ConnectJob: h is NoHandle for a preconnect.
LEMMA FinishConnectInv ==
  ASSUME NEW p, NEW hd \in HandleType, NEW g \in Groups, NEW h \in Handles \cup {NoHandle},
         NEW rv \in ConnectResults, PoolInv(p, hd, NoHandle), g \in p.group_map, Room(p, g),
         h # NoHandle => /\ p.socket[h] = NoSocket
                         /\ p.pending_callback_map[h] = NoResult
                         /\ hd[h] = WaitingIn(g)
  PROVE  LET q == FinishConnect(p, g, h, rv)
         IN  /\ PoolInv(q, hd, h)
             /\ q.pending = p.pending
             /\ q.pending_callback_map = p.pending_callback_map
             /\ rv = "PENDING" => g \in q.group_map /\ q.socket = p.socket
             /\ rv = "OK" /\ h # NoHandle => q.socket[h] # NoSocket
<1> DEFINE q == FinishConnect(p, g, h, rv)
<1>p. p \in PoolType
  BY DEF PoolInv
<1>s. NewSocket(p) \in Socket /\ NewSocket(p).birth = p.generation
  BY <1>p, PoolFields DEF NewSocket, Socket
<1>r. rv \in {"OK", "PENDING", "ERR", "ERR_SOCKET"}
  BY OptionsAssumption
<1>x. PoolInv(p, hd, h)
  BY ExceptHandleInv
<1>1. CASE rv = "OK" /\ h = NoHandle
  <2>1. q = AddIdleSocket(p, g, NewSocket(p))
    BY <1>1 DEF FinishConnect
  <2>2. PoolInv(AddIdleSocket(p, g, NewSocket(p)), hd, h) /\ SameHandles(p, AddIdleSocket(p, g, NewSocket(p)))
    BY <1>s, <1>x, AddIdleSocketInv
  <2> QED
    BY <1>1, <2>1, <2>2 DEF SameHandles
<1>2. CASE rv = "PENDING"
  <2> DEFINE b == p.backup_timer[g] \/ (connect_backup_jobs_enabled /\ IsEmpty(p, g))
             pre == h = NoHandle
  <2>1. b \in BOOLEAN /\ pre \in BOOLEAN
    BY <1>p, PoolFields, OptionsAssumption
  <2>2. q = AddJob([p EXCEPT !.backup_timer[g] = b], g, pre)
    BY <1>2 DEF FinishConnect
  <2> HIDE DEF b, pre
  <2>3. PoolInv(q, hd, h) /\ SameHandles(p, q) /\ q.group_map = p.group_map
    BY <1>x, <2>1, <2>2, AddJobInv
  <2> QED
    BY <1>2, <2>3 DEF SameHandles
<1>3. CASE rv \in {"OK", "ERR_SOCKET"} /\ h # NoHandle
  <2>1. q = HandOutSocket(p, g, h, NewSocket(p)) /\ h \in Handles
    BY <1>3 DEF FinishConnect
  <2>2. LET w == HandOutSocket(p, g, h, NewSocket(p))
        IN  /\ PoolInv(w, hd, h)
            /\ w.pending = p.pending
            /\ w.pending_callback_map = p.pending_callback_map
            /\ w.socket[h] # NoSocket
    BY <1>3, <1>s, <1>x, <2>1, HandOutSocketInv
  <2> QED
    BY <1>3, <2>1, <2>2
<1>4. CASE rv = "ERR" \/ (rv = "ERR_SOCKET" /\ h = NoHandle)
  <2>1. q = RemoveGroupIfEmpty(p, g)
    BY <1>4 DEF FinishConnect
  <2>2. PoolInv(RemoveGroupIfEmpty(p, g), hd, h)
    BY <1>x, GroupMapOperatorsInv
  <2>3. q.pending = p.pending /\ q.pending_callback_map = p.pending_callback_map
    BY <1>p, <2>1 DEF RemoveGroupIfEmpty, PoolType
  <2> QED
    BY <1>4, <2>1, <2>2, <2>3
<1> QED
  BY <1>1, <1>2, <1>3, <1>4, <1>r

\* Request r of group g, by handle h or a preconnect, may be served in p.
MayServe(p, hd, g, r) ==
  /\ PoolInv(p, hd, NoHandle)
  /\ r.handle \in Handles \cup {NoHandle}
  /\ RespectLimitsValues = {"ENABLED"} => r.respect_limits = "ENABLED"
  /\ r.handle # NoHandle =>
       /\ p.socket[r.handle] = NoSocket
       /\ p.pending_callback_map[r.handle] = NoResult
       /\ hd[r.handle] = WaitingIn(g)

\* res is what serving it in p leaves and returns.
Served(p, hd, g, h, res) ==
  /\ PoolInv(res.pool, hd, h)
  /\ res.pool.pending = p.pending
  /\ res.pool.pending_callback_map = p.pending_callback_map
  /\ res.rv = "PENDING" => g \in res.pool.group_map /\ res.pool.socket = p.socket
  /\ res.rv = "OK" /\ h # NoHandle => res.pool.socket[h] # NoSocket
  /\ h # NoHandle => res.rv \in CompletionResults \cup {"PENDING"}

\* A new ConnectJob, whatever Connect() returns, serves the request or leaves it waiting.
LEMMA ConnectNewJobInv ==
  ASSUME NEW p, NEW hd \in HandleType, NEW g \in Groups, NEW r, MayServe(p, hd, g, r),
         g \in p.group_map, Room(p, g), NEW res \in ConnectNewJob(p, g, r.handle)
  PROVE  Served(p, hd, g, r.handle, res)
<1> DEFINE h == r.handle
<1>1. PICK rv \in ConnectResults : res = [pool |-> FinishConnect(p, g, h, rv), rv |-> rv]
  BY DEF ConnectNewJob
<1>2. rv \in CompletionResults \cup {"PENDING"}
  BY OptionsAssumption DEF CompletionResults
<1>3. LET q == FinishConnect(p, g, h, rv)
      IN  /\ PoolInv(q, hd, h)
          /\ q.pending = p.pending
          /\ q.pending_callback_map = p.pending_callback_map
          /\ rv = "PENDING" => g \in q.group_map /\ q.socket = p.socket
          /\ rv = "OK" /\ h # NoHandle => q.socket[h] # NoSocket
  <2>1. /\ PoolInv(p, hd, NoHandle) /\ h \in Handles \cup {NoHandle}
        /\ h # NoHandle => /\ p.socket[h] = NoSocket
                           /\ p.pending_callback_map[h] = NoResult
                           /\ hd[h] = WaitingIn(g)
    BY DEF MayServe
  <2> HIDE DEF h
  <2> QED
    BY <2>1, FinishConnectInv
<1> QED
  BY <1>1, <1>2, <1>3 DEF Served

\* The same at the pool's limit, after an idle socket of another group was closed.
LEMMA ConnectAtSocketLimitInv ==
  ASSUME NEW p, NEW hd \in HandleType, NEW g \in Groups, NEW r, MayServe(p, hd, g, r),
         g \in p.group_map, HasAvailableSocketSlot(p, g),
         r.handle # NoHandle => p.idle[g] = <<>>,
         NEW res \in ConnectAtSocketLimit(p, g, r.handle)
  PROVE  Served(p, hd, g, r.handle, res)
<1> DEFINE h == r.handle
<1>p. p \in PoolType /\ PoolInv(p, hd, NoHandle) /\ PoolInv(p, hd, h)
  BY ExceptHandleInv DEF MayServe, PoolInv
<1>1. CASE p.idle_socket_count = 0
  <2>1. res = [pool |-> p, rv |-> "PENDING"]
    BY <1>1 DEF ConnectAtSocketLimit
  <2> QED
    BY <2>1, <1>p DEF Served
<1>2. CASE p.idle_socket_count # 0
  <2>1. PICK q \in CloseOneIdleSocketExceptInGroup(p, {g}) :
          res \in IF h = NoHandle /\ q.idle_socket_count = p.idle_socket_count
                  THEN {[pool |-> q, rv |-> "ERR_PRECONNECT_MAX"]}
                  ELSE ConnectNewJob(q, g, h)
    BY <1>2 DEF ConnectAtSocketLimit
  <2>2. /\ PoolInv(q, hd, NoHandle)
        /\ SameHandles(p, q)
        /\ q.jobs = p.jobs
        /\ \/ q = p /\ \A k \in Groups \ {g} : p.idle[k] = <<>>
           \/ OneLess(p, q, {g})
    <3>1. {g} \in SUBSET Groups
      OBVIOUS
    <3> QED
      BY <3>1, <1>p, CloseOneIdleSocketExceptInGroupInv
  <2>3. CASE h = NoHandle /\ q.idle_socket_count = p.idle_socket_count
    BY <2>1, <2>2, <2>3, ExceptHandleInv DEF Served, SameHandles
  <2>4. CASE ~(h = NoHandle /\ q.idle_socket_count = p.idle_socket_count)
    \* An idle socket was closed: if there was none in another group, the
    \* request would have used the one of its own.
    <3>1. OneLess(p, q, {g})
      <4> SUFFICES ASSUME q = p, \A k \in Groups \ {g} : p.idle[k] = <<>>
                   PROVE  FALSE
        BY <2>2
      <4>1. h # NoHandle /\ p.idle[g] = <<>>
        BY <2>4
      <4>2. \A k \in Groups : IdleCounts(p.idle)[k] = 0
        BY <4>1 DEF IdleCounts
      <4>3. Total(IdleCounts(p.idle)) = 0
        BY <4>2, <1>p, PoolCounts, TotalZero
      <4> QED
        BY <4>3, <1>2, <1>p DEF PoolInv, GroupsInv, Counted
    <3>2. Room(q, g) /\ g \in q.group_map
      <4>1. NumActiveSocketSlots(q, g) = NumActiveSocketSlots(p, g)
        BY <2>2, <3>1 DEF OneLess, SameHandles, NumActiveSocketSlots
      <4>2. TotalSockets(q) = TotalSockets(p) - 1 /\ TotalSockets(p) \in Nat
        <5>1. /\ p.handed_out_socket_count \in Nat /\ p.connecting_socket_count \in Nat
              /\ p.idle_socket_count \in Nat
          BY <1>p, PoolFields
        <5> QED
          BY <5>1, <3>1 DEF OneLess, TotalSockets
      <4>3. RespectLimitsValues = {"ENABLED"} => TotalSockets(p) <= max_sockets
        BY <1>p DEF PoolInv, GroupsInv, Limited
      <4>4. RespectLimitsValues = {"ENABLED"} => ~(TotalSockets(q) >= max_sockets)
        BY <4>2, <4>3, LimitsAssumption
      <4> QED
        BY <3>1, <4>1, <4>4 DEF Room, HasAvailableSocketSlot, ReachedMaxSocketsLimit, OneLess
    <3>3. MayServe(q, hd, g, r)
      BY <2>2 DEF MayServe, SameHandles
    <3>4. res \in ConnectNewJob(q, g, h)
      BY <2>1, <2>4
    <3>5. Served(q, hd, g, h, res)
      BY <3>2, <3>3, <3>4, ConnectNewJobInv
    <3> QED
      BY <2>2, <3>5 DEF Served, SameHandles
  <2> QED
    BY <2>3, <2>4
<1> QED
  BY <1>1, <1>2

\* RequestSocketInternal() beyond the idle sockets: the two cases and the refusals.
LEMMA RequestNewSocketInv ==
  ASSUME NEW p, NEW hd \in HandleType, NEW g \in Groups, NEW r, MayServe(p, hd, g, r),
         g \in p.group_map, r.handle # NoHandle => p.idle[g] = <<>>,
         NEW res \in RequestNewSocket(p, g, r)
  PROVE  Served(p, hd, g, r.handle, res)
<1> DEFINE h == r.handle
           enabled == r.respect_limits = "ENABLED"
<1>p. p \in PoolType /\ PoolInv(p, hd, NoHandle) /\ PoolInv(p, hd, h)
  BY ExceptHandleInv DEF MayServe, PoolInv
<1>1. CASE h # NoHandle /\ p.unassigned[g] > 0
  <2> DEFINE q == [p EXCEPT !.unassigned[g] = @ - 1]
  <2>1. res = [pool |-> q, rv |-> "PENDING"]
    BY <1>1 DEF RequestNewSocket
  <2>2. PoolInv(q, hd, h) /\ SameHandles(p, q) /\ q.group_map = p.group_map
    BY <1>1, <1>p, UseUnassignedInv
  <2> HIDE DEF q
  <2> QED
    BY <2>1, <2>2 DEF Served, SameHandles
<1>2. CASE ~(h # NoHandle /\ p.unassigned[g] > 0) /\ enabled /\ ~HasAvailableSocketSlot(p, g)
  <2>1. res = [pool |-> p, rv |-> "PENDING"]
    BY <1>2 DEF RequestNewSocket
  <2> QED
    BY <2>1, <1>p DEF Served
<1>3. CASE /\ ~(h # NoHandle /\ p.unassigned[g] > 0)
           /\ enabled /\ HasAvailableSocketSlot(p, g) /\ ReachedMaxSocketsLimit(p)
  <2>1. res \in ConnectAtSocketLimit(p, g, h)
    BY <1>3 DEF RequestNewSocket
  <2> QED
    BY <1>3, <2>1, ConnectAtSocketLimitInv
<1>4. CASE /\ ~(h # NoHandle /\ p.unassigned[g] > 0)
           /\ enabled => HasAvailableSocketSlot(p, g) /\ ~ReachedMaxSocketsLimit(p)
  <2>1. res \in ConnectNewJob(p, g, h)
    BY <1>4 DEF RequestNewSocket
  <2>2. Room(p, g)
    BY <1>4 DEF Room, MayServe
  <2> QED
    BY <2>1, <2>2, ConnectNewJobInv
<1> QED
  BY <1>1, <1>2, <1>3, <1>4

\* Dropping the unusable idle sockets of a group keeps the invariant.
LEMMA DropUnusableIdleSocketsInv ==
  ASSUME NEW p, NEW hd, NEW x, NEW g \in Groups, PoolInv(p, hd, x), g \in p.group_map,
         NEW q \in DropUnusableIdleSockets(p, g)
  PROVE  PoolInv(q, hd, x) /\ SameHandles(p, q) /\ q.group_map = p.group_map
<1>1. PICK t \in Survivors(p.idle[g]) : q = CutIdle(p, g, t)
  BY DEF DropUnusableIdleSockets, CutIdle
<1>2. CutFits(p.idle[g], t)
  <2>1. p.idle[g] \in Seq(Socket)
    BY PoolFields DEF PoolInv
  <2> QED
    BY <2>1, SurvivorsProperties DEF CutFits
<1>3. PoolInv(CutIdle(p, g, t), hd, x) /\ SameHandles(p, CutIdle(p, g, t))
  BY <1>2, CutIdleInv, Zenon
<1>4. CutIdle(p, g, t).group_map = p.group_map
  <2>1. p \in PoolType
    BY DEF PoolInv
  <2> QED
    BY <2>1 DEF CutIdle, PoolType
<1> QED
  BY <1>1, <1>3, <1>4

\* RequestSocketInternal() serves the request or leaves it waiting, and keeps the
\* invariant.
LEMMA RequestSocketInternalInv ==
  ASSUME NEW p, NEW hd \in HandleType, NEW g \in Groups, NEW r, MayServe(p, hd, g, r),
         NEW res \in RequestSocketInternal(p, g, r)
  PROVE  Served(p, hd, g, r.handle, res)
<1> DEFINE h == r.handle
           m == GetOrCreateGroup(p, g)
<1>p. p \in PoolType /\ PoolInv(p, hd, NoHandle)
  BY DEF MayServe, PoolInv
<1>1. PoolInv(m, hd, NoHandle)
  BY <1>p, GroupMapOperatorsInv
<1>2. SameHandles(p, m) /\ g \in m.group_map
  BY <1>p DEF GetOrCreateGroup, PoolType, SameHandles
<1> HIDE DEF m
<1>3. MayServe(m, hd, g, r)
  BY <1>1, <1>2 DEF MayServe, SameHandles
<1>4. Served(m, hd, g, h, res) => Served(p, hd, g, h, res)
  BY <1>2 DEF Served, SameHandles
<1>5. CASE h = NoHandle
  <2>1. res \in RequestNewSocket(m, g, r)
    BY <1>5 DEF RequestSocketInternal, m
  <2> QED
    BY <1>2, <1>3, <1>4, <1>5, <2>1, RequestNewSocketInv
<1>6. CASE h # NoHandle
  <2>1. PICK q \in DropUnusableIdleSockets(m, g) :
          res \in IF q.idle[g] # <<>>
                  THEN {[pool |-> AssignIdleSocketToRequest(q, g, h), rv |-> "OK"]}
                  ELSE RequestNewSocket(q, g, r)
    BY <1>6 DEF RequestSocketInternal, m
  <2>4. PoolInv(q, hd, NoHandle) /\ SameHandles(m, q) /\ q.group_map = m.group_map
    BY <1>1, <1>2, DropUnusableIdleSocketsInv
  <2>5. MayServe(q, hd, g, r) /\ g \in q.group_map
    BY <1>2, <1>3, <2>4 DEF MayServe, SameHandles
  <2>6. CASE q.idle[g] # <<>>
    <3>1. res = [pool |-> AssignIdleSocketToRequest(q, g, h), rv |-> "OK"]
      BY <2>1, <2>6
    <3>2. h \in Handles /\ PoolInv(q, hd, h)
      BY <1>6, <2>4, <2>5, ExceptHandleInv DEF MayServe
    <3>3. q.socket[h] = NoSocket /\ hd[h] = WaitingIn(g)
      BY <1>6, <2>5 DEF MayServe
    <3>4. LET w == AssignIdleSocketToRequest(q, g, h)
          IN  /\ PoolInv(w, hd, h)
              /\ w.pending = q.pending
              /\ w.pending_callback_map = q.pending_callback_map
              /\ w.socket[h] # NoSocket
      BY <2>5, <2>6, <3>2, <3>3, AssignIdleSocketToRequestInv
    <3>5. Served(m, hd, g, h, res)
      BY <2>4, <3>1, <3>4 DEF Served, SameHandles, CompletionResults
    <3> QED
      BY <3>5, <1>4
  <2>7. CASE q.idle[g] = <<>>
    <3>1. Served(q, hd, g, h, res)
      BY <2>1, <2>5, <2>7, RequestNewSocketInv
    <3>2. Served(m, hd, g, h, res)
      BY <2>4, <3>1 DEF Served, SameHandles
    <3> QED
      BY <3>2, <1>4
  <2> QED
    BY <2>6, <2>7
<1> QED
  BY <1>5, <1>6

-------------------------------------------------------------------------------
(* Free slots are offered to the requests that wait. *)

\* What the invariant says of the handle of a queued request.
LEMMA QueuedRequest ==
  ASSUME NEW p, NEW hd \in HandleType, NEW g \in Groups, NEW i \in 1 .. Len(p.pending[g]),
         PoolInv(p, hd, NoHandle)
  PROVE  LET h == p.pending[g][i].handle
         IN  /\ h \in Handles /\ h # NoHandle
             /\ p.pending[g][i] \in Request
             /\ p.pending[g][i].respect_limits \in RespectLimitsValues
             /\ hd[h] = WaitingIn(g)
             /\ hd[h].group_name # NoGroup
             /\ ~hd[h].is_initialized
             /\ p.socket[h] = NoSocket
             /\ p.pending_callback_map[h] = NoResult
             /\ g \in p.group_map
             /\ MayServe(p, hd, g, p.pending[g][i])
<1> DEFINE h == p.pending[g][i].handle
<1>p. p \in PoolType
  BY DEF PoolInv
<1>s. p.pending[g] \in Seq(Request) /\ Len(p.pending[g]) \in Nat
  BY <1>p, PoolFields, LenProperties
<1>1. p.pending[g][i] \in Request
  BY <1>s, ElementOfSeq
<1>2. /\ h \in Handles
      /\ hd[h] = WaitingIn(g)
      /\ p.pending[g][i].respect_limits \in RespectLimitsValues
  BY DEF PoolInv, HandlesInv, Queued
<1>3. h # NoHandle
  BY <1>2, HandlesAssumption
<1>4. p.socket[h] = NoSocket /\ p.pending_callback_map[h] = NoResult
  BY <1>3 DEF PoolInv, HandlesInv, Waiting
<1>5. g \in p.group_map
  <2>1. p.pending[g] # <<>>
    BY <1>s
  <2> QED
    BY <2>1 DEF PoolInv, GroupsInv, Mapped, IsEmpty
<1>6. hd[h].group_name # NoGroup /\ ~hd[h].is_initialized
  BY <1>2, GroupsAssumption DEF NoGroup, WaitingIn
<1>7. MayServe(p, hd, g, p.pending[g][i])
  BY <1>2, <1>4 DEF MayServe
<1> QED
  BY <1>1, <1>2, <1>3, <1>4, <1>5, <1>6, <1>7

\* The head of a queue that is not empty is its first request.
LEMMA HeadRequest ==
  ASSUME NEW p, NEW hd, NEW g \in Groups, PoolInv(p, hd, NoHandle), p.pending[g] # <<>>
  PROVE  1 \in 1 .. Len(p.pending[g]) /\ Head(p.pending[g]) = p.pending[g][1]
<1>1. p.pending[g] \in Seq(Request)
  BY PoolFields DEF PoolInv
<1>2. Len(p.pending[g]) \in Nat \ {0}
  BY <1>1, LenProperties, EmptySeq
<1> QED
  BY <1>1, <1>2, HeadTailProperties

\* ProcessPendingRequest() keeps the invariant, whether its request completes or not.
LEMMA ProcessPendingRequestInv ==
  ASSUME NEW p, NEW hd \in HandleType, NEW g \in Groups, PoolInv(p, hd, NoHandle),
         NEW i \in 1 .. Len(p.pending[g]), i = 1, NEW q \in ProcessPendingRequest(p, g)
  PROVE  PoolInv(q, hd, NoHandle)
<1> DEFINE r == Head(p.pending[g])
           h == r.handle
<1>1. r = p.pending[g][i]
  <2>1. p.pending[g] # <<>>
    <3>1. Len(p.pending[g]) # 0
      OBVIOUS
    <3> QED
      BY <3>1
  <2> QED
    BY <2>1, HeadRequest
<1>2. /\ h \in Handles /\ h # NoHandle /\ hd[h].group_name # NoGroup /\ ~hd[h].is_initialized
      /\ p.socket[h] = NoSocket /\ p.pending_callback_map[h] = NoResult
      /\ MayServe(p, hd, g, r)
  <2> DEFINE k == p.pending[g][i].handle
  <2>1. /\ k \in Handles /\ k # NoHandle /\ hd[k].group_name # NoGroup /\ ~hd[k].is_initialized
        /\ p.socket[k] = NoSocket /\ p.pending_callback_map[k] = NoResult
        /\ MayServe(p, hd, g, p.pending[g][i])
    BY QueuedRequest
  <2> QED
    BY <1>1, <2>1
<1> HIDE DEF r
<1>3. CASE p.idle[g] = <<>> /\ ~CanUseAdditionalSocketSlot(p, g)
  BY <1>3 DEF ProcessPendingRequest
<1>4. CASE ~(p.idle[g] = <<>> /\ ~CanUseAdditionalSocketSlot(p, g))
  <2>1. PICK res \in RequestSocketInternal(p, g, r) :
          q = IF res.rv = "PENDING"
              THEN res.pool
              ELSE InvokeUserCallbackLater(
                     RemoveGroupIfEmpty(PopNextPendingRequest(res.pool, g), g), h, res.rv)
    BY <1>4 DEF ProcessPendingRequest, r
  <2>2. Served(p, hd, g, h, res)
    BY <1>2, RequestSocketInternalInv
  <2>3. CASE res.rv = "PENDING"
    <3>1. /\ PoolInv(res.pool, hd, h)
          /\ res.pool.socket[h] = NoSocket
          /\ res.pool.pending_callback_map[h] = NoResult
      BY <1>2, <2>2, <2>3 DEF Served
    <3> QED
      BY <2>1, <2>3, <3>1, NoExceptionInv
  <2>4. CASE res.rv # "PENDING"
    <3> DEFINE a == res.pool
               b == PopNextPendingRequest(a, g)
               c == RemoveGroupIfEmpty(b, g)
    <3>1. PoolInv(a, hd, h) /\ a.pending = p.pending
      BY <2>2 DEF Served
    <3>2. res.rv \in CompletionResults /\ (res.rv = "OK" => a.socket[h] # NoSocket)
      BY <1>2, <2>2, <2>4 DEF Served
    <3> HIDE DEF a
    <3>3. i \in 1 .. Len(a.pending[g]) /\ a.pending[g][i].handle = h /\ i = 1
      BY <3>1, <1>1
    <3>4. PoolInv(b, hd, h) /\ NotQueued(b, h) /\ b.socket = a.socket
      BY <3>1, <3>3, PopNextPendingRequestInv
    <3> HIDE DEF b
    <3>5. PoolInv(c, hd, h)
      BY <3>4, GroupMapOperatorsInv
    <3>6. c.socket = a.socket /\ NotQueued(c, h)
      <4>1. b \in PoolType
        BY <3>4 DEF PoolInv
      <4>2. c.socket = b.socket /\ c.pending = b.pending
        BY <4>1 DEF RemoveGroupIfEmpty, PoolType
      <4> QED
        BY <3>4, <4>2 DEF NotQueued
    <3> HIDE DEF c
    <3>7. q = InvokeUserCallbackLater(c, h, res.rv)
      BY <2>1, <2>4 DEF a, b, c
    <3>8. PoolInv(InvokeUserCallbackLater(c, h, res.rv), hd, NoHandle)
      <4>1. res.rv = "OK" => c.socket[h] # NoSocket
        BY <3>2, <3>6
      <4> QED
        BY <1>2, <3>2, <3>5, <3>6, <4>1, InvokeUserCallbackLaterInv
    <3> QED
      BY <3>7, <3>8
  <2> QED
    BY <2>3, <2>4
<1> QED
  BY <1>3, <1>4

\* OnAvailableSocketSlot() keeps the invariant.
LEMMA OnAvailableSocketSlotInv ==
  ASSUME NEW p, NEW hd \in HandleType, NEW g \in Groups, PoolInv(p, hd, NoHandle),
         NEW q \in OnAvailableSocketSlot(p, g)
  PROVE  PoolInv(q, hd, NoHandle)
<1>1. CASE p.pending[g] # <<>>
  <2>1. PICK i \in 1 .. Len(p.pending[g]) : i = 1
    BY <1>1, HeadRequest
  <2>2. q \in ProcessPendingRequest(p, g)
    BY <1>1 DEF OnAvailableSocketSlot
  <2> QED
    BY <2>1, <2>2, ProcessPendingRequestInv
<1>2. CASE p.pending[g] = <<>>
  BY <1>2, GroupMapOperatorsInv DEF OnAvailableSocketSlot
<1> QED
  BY <1>1, <1>2

\* CheckForStalledSocketGroups() keeps the invariant.
LEMMA CheckForStalledSocketGroupsInv ==
  ASSUME NEW p, NEW hd \in HandleType, PoolInv(p, hd, NoHandle),
         NEW q \in CheckForStalledSocketGroups(p)
  PROVE  PoolInv(q, hd, NoHandle)
<1>1. CASE StalledGroups(p) = {}
  <2>1. q = p \/ q \in CloseOneIdleSocket(p)
    BY <1>1 DEF CheckForStalledSocketGroups
  <2> QED
    BY <2>1, CloseOneIdleSocketInv
<1>2. CASE StalledGroups(p) # {} /\ ReachedMaxSocketsLimit(p) /\ p.idle_socket_count = 0
  BY <1>2 DEF CheckForStalledSocketGroups
<1>3. CASE StalledGroups(p) # {} /\ ~(ReachedMaxSocketsLimit(p) /\ p.idle_socket_count = 0)
  <2>1. PICK w \in (IF ReachedMaxSocketsLimit(p) THEN CloseOneIdleSocket(p) ELSE {p}),
             g \in FindTopStalledGroup(p) : q \in OnAvailableSocketSlot(w, g)
    BY <1>3 DEF CheckForStalledSocketGroups
  <2>2. w = p \/ w \in CloseOneIdleSocket(p)
    BY <2>1
  <2>3. PoolInv(w, hd, NoHandle)
    BY <2>2, CloseOneIdleSocketInv
  <2>4. g \in Groups
    <3>1. p.group_map \subseteq Groups
      BY PoolFields DEF PoolInv
    <3> QED
      BY <3>1, <2>1 DEF FindTopStalledGroup, StalledGroups
  <2> QED
    BY <2>1, <2>3, <2>4, OnAvailableSocketSlotInv
<1> QED
  BY <1>1, <1>2, <1>3

\* Offering a freed slot to its own group and then to the stalled ones keeps the
\* invariant.
LEMMA OfferSlotInv ==
  ASSUME NEW p, NEW hd \in HandleType, NEW g \in Groups, PoolInv(p, hd, NoHandle),
         NEW q \in OfferSlot(p, g)
  PROVE  PoolInv(q, hd, NoHandle)
<1>1. PICK w \in OnAvailableSocketSlot(p, g) : q \in CheckForStalledSocketGroups(w)
  BY DEF OfferSlot
<1>2. PoolInv(w, hd, NoHandle)
  BY OnAvailableSocketSlotInv
<1> QED
  BY <1>1, <1>2, CheckForStalledSocketGroupsInv

\* OnConnectJobComplete() keeps the invariant, for every result of the job.
LEMMA OnConnectJobCompleteInv ==
  ASSUME NEW p, NEW hd \in HandleType, NEW g \in Groups, NEW result \in CompletionResults,
         PoolInv(p, hd, NoHandle), p.jobs[g] > 0, NEW w \in OnConnectJobComplete(p, g, result)
  PROVE  PoolInv(w, hd, NoHandle)
<1> DEFINE q == RemoveConnectJob(p, g)
           h == Head(p.pending[g]).handle
           popped == PopNextPendingRequest(q, g)
<1>1. /\ PoolInv(q, hd, NoHandle) /\ SameHandles(p, q) /\ q.group_map = p.group_map
      /\ g \in p.group_map /\ Room(q, g)
  BY RemoveConnectJobInv
<1> HIDE DEF q
<1>2. NewSocket(q) \in Socket /\ NewSocket(q).birth = q.generation
  <2>1. q \in PoolType
    BY <1>1 DEF PoolInv
  <2> QED
    BY <2>1, PoolFields DEF NewSocket, Socket
<1>3. CASE p.pending[g] = <<>>
  <2> DEFINE a == IF result = "OK" THEN AddIdleSocket(q, g, NewSocket(q)) ELSE q
  <2>1. w \in OfferSlot(a, g)
    BY <1>3 DEF OnConnectJobComplete, q
  <2>2. PoolInv(AddIdleSocket(q, g, NewSocket(q)), hd, NoHandle)
    BY <1>1, <1>2, AddIdleSocketInv
  <2>3. PoolInv(a, hd, NoHandle)
    BY <1>1, <2>2
  <2> HIDE DEF a
  <2> QED
    BY <2>1, <2>3, OfferSlotInv
<1>4. CASE p.pending[g] # <<>>
  <2>1. 1 \in 1 .. Len(p.pending[g]) /\ h = p.pending[g][1].handle
    BY <1>4, HeadRequest
  <2>2. /\ h \in Handles /\ hd[h] = WaitingIn(g)
        /\ hd[h].group_name # NoGroup /\ ~hd[h].is_initialized
        /\ p.socket[h] = NoSocket
    BY <2>1, QueuedRequest
  <2> HIDE DEF h
  <2>3. q.pending = p.pending /\ q.socket = p.socket /\ q.generation = p.generation
    BY <1>1 DEF SameHandles
  <2>4. /\ PoolInv(popped, hd, NoHandle) /\ NotQueued(popped, h)
        /\ popped.group_map = q.group_map /\ popped.socket = q.socket
        /\ popped.generation = q.generation /\ Room(popped, g)
    BY <1>1, <2>1, <2>3, RemovePendingRequestInv DEF PopNextPendingRequest
  <2> HIDE DEF popped
  <2>5. PoolInv(popped, hd, h)
    BY <2>4, ExceptHandleInv
  <2>6. CASE result \in {"OK", "ERR_SOCKET"}
    <3> DEFINE a == HandOutSocket(popped, g, h, NewSocket(q))
    <3>1. w = InvokeUserCallbackLater(a, h, result)
      BY <1>4, <2>6 DEF OnConnectJobComplete, q, h, popped
    <3>2. PoolInv(a, hd, h) /\ a.pending = popped.pending /\ a.socket[h] # NoSocket
      <4>1. popped.socket[h] = NoSocket /\ NewSocket(q).birth = popped.generation
            /\ g \in popped.group_map
        BY <1>1, <1>2, <2>2, <2>3, <2>4
      <4> QED
        BY <1>2, <2>2, <2>4, <2>5, <4>1, HandOutSocketInv
    <3> HIDE DEF a
    <3>3. NotQueued(a, h)
      BY <2>4, <3>2 DEF NotQueued
    <3> QED
      BY <2>2, <3>1, <3>2, <3>3, InvokeUserCallbackLaterInv
  <2>7. CASE result \notin {"OK", "ERR_SOCKET"}
    <3> DEFINE a == InvokeUserCallbackLater(popped, h, result)
    <3>1. w \in OfferSlot(a, g)
      BY <1>4, <2>7 DEF OnConnectJobComplete, q, h, popped
    <3>2. PoolInv(a, hd, NoHandle)
      BY <2>2, <2>4, <2>5, <2>7, InvokeUserCallbackLaterInv
    <3> HIDE DEF a
    <3> QED
      BY <3>1, <3>2, OfferSlotInv
  <2> QED
    BY <2>6, <2>7
<1> QED
  BY <1>3, <1>4

-------------------------------------------------------------------------------
(* A handle gives back its socket, or withdraws its request. *)

\* A handle that has been reset waits for nothing.
LEMMA FreedType ==
  ASSUME NEW hd \in HandleType, NEW h \in Handles
  PROVE  /\ Freed(hd, h) \in HandleType
         /\ Freed(hd, h)[h] = WaitingIn(NoGroup)
BY DEF Freed, HandleType, WaitingIn

\* A handle that waits for nothing has no socket, no result and no queued request.
LEMMA FreedHandle ==
  ASSUME NEW p, NEW hd \in HandleType, NEW h \in Handles, PoolInv(p, hd, NoHandle),
         hd[h] = WaitingIn(NoGroup)
  PROVE  /\ NotQueued(p, h)
         /\ p.socket[h] = NoSocket
         /\ p.pending_callback_map[h] = NoResult
<1>1. hd[h].group_name = NoGroup /\ ~hd[h].is_initialized
  BY DEF WaitingIn
<1>2. NotQueued(p, h)
  <2> SUFFICES ASSUME NEW g \in Groups, NEW i \in 1 .. Len(p.pending[g]),
                      p.pending[g][i].handle = h
               PROVE  FALSE
    BY DEF NotQueued
  <2>1. hd[h] = WaitingIn(g)
    BY DEF PoolInv, HandlesInv, Queued
  <2>2. g # NoGroup
    BY GroupsAssumption DEF NoGroup
  <2> QED
    BY <2>1, <2>2, <1>1 DEF WaitingIn
<1>3. h # NoHandle
  BY HandlesAssumption
<1>4. p.pending_callback_map[h] = NoResult
  BY <1>1 DEF PoolInv, HandlesInv, Results
<1>5. p.socket[h] = NoSocket
  BY <1>1, <1>3, <1>4 DEF PoolInv, HandlesInv, Results
<1> QED
  BY <1>2, <1>4, <1>5

\* ReleaseSocket() keeps the invariant; it is called by a handle that gives up its
\* socket, so its own count still includes that socket.
LEMMA ReleaseSocketInv ==
  ASSUME NEW p, NEW hd \in HandleType, NEW h \in Handles, NEW g \in Groups,
         PoolInv(p, hd, NoHandle), p.socket[h] # NoSocket, hd[h].group_name = g,
         NEW s \in Socket, s.birth = p.socket[h].birth, NEW connected, NEW passed,
         passed.generation = p.generation,
         [passed EXCEPT !.handed_out_socket_count = @ - 1, !.active[g] = @ - 1] = Dropped(p, g, h),
         NEW w \in ReleaseSocket(passed, g, s, p.pool_id[h], connected)
  PROVE  PoolInv(w, Freed(hd, h), NoHandle)
<1> DEFINE q == Dropped(p, g, h)
           hd2 == Freed(hd, h)
<1>1. PoolInv(q, hd2, NoHandle) /\ Room(q, g)
  BY DroppedInv, Zenon
<1>2. g \in q.group_map /\ q.generation = p.generation
  <2>1. p \in PoolType
    BY DEF PoolInv
  <2>2. g \in p.group_map
    BY DroppedInv, Zenon
  <2>3. q.group_map = p.group_map /\ q.generation = p.generation
    BY <2>1 DEF Dropped, PoolType
  <2> QED
    BY <2>2, <2>3
<1>3. hd2 \in HandleType
  BY FreedType
<1>4. s.birth = p.pool_id[h]
  BY DEF PoolInv, HandlesInv, HeldBorn
<1>5. w \in IF connected /\ p.pool_id[h] = p.generation
            THEN OfferSlot(AddIdleSocket(q, g, s), g)
            ELSE CheckForStalledSocketGroups(q)
  BY DEF ReleaseSocket
<1> HIDE DEF q, hd2
<1>6. CASE connected /\ p.pool_id[h] = p.generation
  <2> DEFINE a == AddIdleSocket(q, g, s)
  <2>1. w \in OfferSlot(a, g)
    BY <1>5, <1>6
  <2>2. s.birth = q.generation
    BY <1>2, <1>4, <1>6
  <2>3. PoolInv(a, hd2, NoHandle)
    BY <1>1, <1>2, <2>2, AddIdleSocketInv, Zenon
  <2> HIDE DEF a
  <2>4. PoolInv(w, hd2, NoHandle)
    BY <1>3, <2>1, <2>3, OfferSlotInv
  <2> QED
    BY <2>4 DEF hd2
<1>7. CASE ~(connected /\ p.pool_id[h] = p.generation)
  <2>1. w \in CheckForStalledSocketGroups(q)
    BY <1>5, <1>7
  <2>2. PoolInv(w, hd2, NoHandle)
    BY <1>1, <1>3, <2>1, CheckForStalledSocketGroupsInv
  <2> QED
    BY <2>2 DEF hd2
<1> QED
  BY <1>6, <1>7

\* FreeHandleInv, for a handle whose result, if any, is already withdrawn.
LEMMA FreedInv ==
  ASSUME NEW p, NEW hd \in HandleType, NEW h \in Handles, NEW g \in Groups \cup {NoGroup},
         PoolInv(p, hd, NoHandle), NotQueued(p, h), p.socket[h] = NoSocket,
         p.pending_callback_map[h] = NoResult
  PROVE  PoolInv(p, [hd EXCEPT ![h] = WaitingIn(g)], NoHandle)
<1> DEFINE q == [p EXCEPT !.pending_callback_map[h] = NoResult]
           hd2 == [hd EXCEPT ![h] = WaitingIn(g)]
<1>1. PoolInv(q, hd2, NoHandle)
  BY FreeHandleInv, Zenon
<1>2. q = p
  <2>1. p \in PoolType
    BY DEF PoolInv
  <2> QED
    BY <2>1, PoolFields DEF PoolType
<1> QED
  BY <1>1, <1>2

\* CancelRequest() of a queued request keeps the invariant.
LEMMA CancelPendingRequestInv ==
  ASSUME NEW p, NEW hd \in HandleType, NEW g \in Groups, NEW i \in 1 .. Len(p.pending[g]),
         NEW h, h = p.pending[g][i].handle, PoolInv(p, hd, NoHandle),
         NEW w \in CancelPendingRequest(p, g, i)
  PROVE  PoolInv(w, Freed(hd, h), NoHandle)
<1> DEFINE q == RemovePendingRequest(p, g, i)
           hd2 == Freed(hd, h)
<1>1. h \in Handles
  BY QueuedRequest, Zenon
<1>2. p.socket[h] = NoSocket /\ p.pending_callback_map[h] = NoResult
  <2>1. p.socket[h] = NoSocket
    BY QueuedRequest, Zenon
  <2>2. p.pending_callback_map[h] = NoResult
    BY QueuedRequest, Zenon
  <2> QED
    BY <2>1, <2>2
<1>3. PoolInv(q, hd, NoHandle) /\ NotQueued(q, h)
  BY RemovePendingRequestInv, Zenon
<1>4. q.socket[h] = NoSocket /\ q.pending_callback_map[h] = NoResult
  <2>1. p \in PoolType
    BY DEF PoolInv
  <2>2. q.socket = p.socket /\ q.pending_callback_map = p.pending_callback_map
    BY <2>1 DEF RemovePendingRequest, PoolType
  <2> QED
    BY <1>2, <2>2
<1>5. w \in IF q.jobs[g] > Len(q.pending[g]) /\ ReachedMaxSocketsLimit(q)
            THEN CheckForStalledSocketGroups(RemoveConnectJob(q, g))
            ELSE {q}
  BY DEF CancelPendingRequest
<1> HIDE DEF q
<1>6. PoolInv(q, hd2, NoHandle)
  BY <1>1, <1>3, <1>4, FreedInv DEF Freed
<1>7. hd2 \in HandleType
  BY <1>1, FreedType
<1> HIDE DEF hd2
<1>8. CASE q.jobs[g] > Len(q.pending[g]) /\ ReachedMaxSocketsLimit(q)
  <2>1. q.jobs[g] > 0
    <3>1. q \in PoolType
      BY <1>3 DEF PoolInv
    <3>2. q.jobs[g] \in Nat /\ Len(q.pending[g]) \in Nat
      BY <3>1, PoolFields, PoolCounts
    <3> QED
      BY <1>8, <3>2
  <2>2. PoolInv(RemoveConnectJob(q, g), hd2, NoHandle)
    BY <1>6, <2>1, RemoveConnectJobInv, Zenon
  <2>3. w \in CheckForStalledSocketGroups(RemoveConnectJob(q, g))
    BY <1>5, <1>8
  <2>4. PoolInv(w, hd2, NoHandle)
    BY <1>7, <2>2, <2>3, CheckForStalledSocketGroupsInv
  <2> QED
    BY <2>4 DEF hd2
<1>9. CASE ~(q.jobs[g] > Len(q.pending[g]) /\ ReachedMaxSocketsLimit(q))
  BY <1>5, <1>6, <1>9 DEF hd2
<1> QED
  BY <1>8, <1>9

\* A held socket stays one, of the same birth, when it is used.
LEMMA HeldSocket ==
  ASSUME NEW p, NEW hd, NEW h \in Handles, PoolInv(p, hd, NoHandle), p.socket[h] # NoSocket,
         NEW used
  PROVE  /\ p.socket[h] \in Socket
         /\ used \in BOOLEAN =>
              /\ [p.socket[h] EXCEPT !.was_ever_used = @ \/ used] \in Socket
              /\ [p.socket[h] EXCEPT !.was_ever_used = @ \/ used].birth = p.socket[h].birth
<1>1. p.socket[h] \in Socket
  BY PoolFields DEF PoolInv
<1> QED
  BY <1>1 DEF Socket

\* CancelRequest() keeps the invariant, for a queued request and for a result that has
\* not been delivered.
LEMMA CancelRequestInv ==
  ASSUME NEW p, NEW hd \in HandleType, NEW g \in Groups, NEW h \in Handles,
         PoolInv(p, hd, NoHandle), hd[h] = WaitingIn(g), NEW connected,
         NEW w \in CancelRequest(p, g, h, connected)
  PROVE  PoolInv(w, Freed(hd, h), NoHandle)
<1> DEFINE q == [p EXCEPT !.pending_callback_map[h] = NoResult]
           result == p.pending_callback_map[h]
<1>p. p \in PoolType
  BY DEF PoolInv
<1>h. hd[h].group_name = g /\ ~hd[h].is_initialized /\ h # NoHandle
  BY HandlesAssumption DEF WaitingIn
<1>n. NoGroup \in Groups \cup {NoGroup}
  OBVIOUS
<1>1. CASE result = NoResult /\ PositionOf(p, g, h) = {}
  <2>1. w = p
    BY <1>1 DEF CancelRequest
  <2>2. p.socket[h] = NoSocket
    BY <1>1, <1>h DEF PoolInv, HandlesInv, Results
  <2>3. NotQueued(p, h)
    <3> SUFFICES ASSUME NEW k \in Groups, NEW i \in 1 .. Len(p.pending[k]),
                        p.pending[k][i].handle = h
                 PROVE  FALSE
      BY DEF NotQueued
    <3>1. hd[h] = WaitingIn(k)
      BY DEF PoolInv, HandlesInv, Queued
    <3>2. k = g
      BY <3>1, <1>h DEF WaitingIn
    <3> QED
      BY <3>2, <1>1 DEF PositionOf
  <2>4. PoolInv(p, Freed(hd, h), NoHandle)
    BY <1>1, <1>n, <2>2, <2>3, FreedInv DEF Freed
  <2> QED
    BY <2>1, <2>4
<1>2. CASE result = NoResult /\ PositionOf(p, g, h) # {}
  <2>1. PICK i \in PositionOf(p, g, h) : w \in CancelPendingRequest(p, g, i)
    BY <1>2 DEF CancelRequest
  <2>2. i \in 1 .. Len(p.pending[g]) /\ h = p.pending[g][i].handle
    BY DEF PositionOf
  <2> QED
    BY <2>1, <2>2, CancelPendingRequestInv
<1>3. CASE result # NoResult /\ p.socket[h] = NoSocket
  <2>1. w = q
    BY <1>3 DEF CancelRequest
  <2>2. NotQueued(p, h)
    BY <1>3, <1>h DEF NotQueued, PoolInv, HandlesInv, Waiting
  <2>3. PoolInv(q, Freed(hd, h), NoHandle)
    BY <1>3, <1>n, <2>2, FreeHandleInv, Zenon DEF Freed
  <2> QED
    BY <2>1, <2>3
<1>4. CASE result # NoResult /\ p.socket[h] # NoSocket
  <2> DEFINE passed == PassSocket(q, h)
             c == connected /\ result = "OK"
             s == p.socket[h]
  <2>1. w \in ReleaseSocket(passed, g, s, p.pool_id[h], c)
    BY <1>4 DEF CancelRequest
  <2>2. [passed EXCEPT !.handed_out_socket_count = @ - 1, !.active[g] = @ - 1] = Dropped(p, g, h)
    BY <1>p DEF PassSocket, Dropped, PoolType
  <2>3. passed.generation = p.generation
    BY <1>p DEF PassSocket, PoolType
  <2>4. s \in Socket
    BY <1>4, HeldSocket
  <2> HIDE DEF passed, c
  <2> QED
    BY <1>4, <1>h, <2>1, <2>2, <2>3, <2>4, ReleaseSocketInv
<1> QED
  BY <1>1, <1>2, <1>3, <1>4

\* ClientSocketHandle::ResetInternal() keeps the invariant in each of its cases.
LEMMA ResetHandleInv ==
  ASSUME NEW p, NEW h \in Handles, NEW connected \in BOOLEAN, NEW used \in BOOLEAN,
         handle \in HandleType, PoolInv(p, handle, NoHandle),
         NEW w \in ResetHandle(p, h, connected, used)
  PROVE  PoolInv(w, Freed(handle, h), NoHandle)
<1> DEFINE g == handle[h].group_name
           s == [p.socket[h] EXCEPT !.was_ever_used = @ \/ used]
<1>p. p \in PoolType
  BY DEF PoolInv
<1>h. handle[h] \in [is_initialized : BOOLEAN, group_name : Groups \cup {NoGroup}]
  BY DEF HandleType
<1>r. h # NoHandle /\ Results(p, handle, NoHandle)
  BY HandlesAssumption DEF PoolInv, HandlesInv
<1>1. CASE g = NoGroup
  <2>1. w = p
    BY <1>1 DEF ResetHandle
  <2>2. ~handle[h].is_initialized
    BY <1>1, <1>r DEF Results
  <2>3. handle[h] = WaitingIn(NoGroup)
    BY <1>1, <1>h, <2>2 DEF WaitingIn
  <2>4. Freed(handle, h) = handle
    BY <2>3 DEF Freed, HandleType
  <2> QED
    BY <2>1, <2>4
<1>2. CASE g # NoGroup /\ handle[h].is_initialized
  <2> DEFINE passed == PassSocket(p, h)
  <2>1. w \in ReleaseSocket(passed, g, s, p.pool_id[h], connected)
    BY <1>2 DEF ResetHandle
  <2>2. p.socket[h] # NoSocket /\ p.pending_callback_map[h] = NoResult
    BY <1>2, <1>r DEF Results
  <2>3. [passed EXCEPT !.handed_out_socket_count = @ - 1, !.active[g] = @ - 1] = Dropped(p, g, h)
    <3>1. p.pending_callback_map = [p.pending_callback_map EXCEPT ![h] = NoResult]
      BY <2>2, <1>p, PoolFields
    <3> QED
      BY <1>p, <3>1 DEF PassSocket, Dropped, PoolType
  <2>4. passed.generation = p.generation
    BY <1>p DEF PassSocket, PoolType
  <2>5. s \in Socket /\ s.birth = p.socket[h].birth
    BY <2>2, HeldSocket
  <2>6. g \in Groups
    BY <1>2, <1>h
  <2> HIDE DEF passed, s
  <2> QED
    BY <2>1, <2>2, <2>3, <2>4, <2>5, <2>6, ReleaseSocketInv
<1>3. CASE g # NoGroup /\ ~handle[h].is_initialized
  <2>1. w \in CancelRequest(p, g, h, connected)
    BY <1>3 DEF ResetHandle
  <2>2. g \in Groups /\ handle[h] = WaitingIn(g)
    BY <1>3, <1>h DEF WaitingIn
  <2> QED
    BY <2>1, <2>2, CancelRequestInv
<1> QED
  BY <1>1, <1>2, <1>3

-------------------------------------------------------------------------------
(* The actions. *)

\* The result of h is delivered, and n of its tasks are left.
Completed(p, h, n) == [p EXCEPT !.pending_callback_map[h] = NoResult, !.tasks[h] = n]

Completing(p, hd, h, g) == [hd EXCEPT ![h] = HandleInitCompletion(p, h, g)]

\* HandleInitCompletion(), with the result of a served request or of a task.
LEMMA CompletionInv ==
  ASSUME NEW p, NEW hd \in HandleType, NEW h \in Handles, NEW g \in Groups, NEW n \in Nat,
         PoolInv(p, hd, h), NotQueued(p, h), hd[h] = WaitingIn(g)
  PROVE  /\ PoolInv(Completed(p, h, n), Completing(p, hd, h, g), NoHandle)
         /\ Completing(p, hd, h, g) \in HandleType
<1> DEFINE q == Completed(p, h, n)
           hd2 == Completing(p, hd, h, g)
<1>p. p \in PoolType
  BY DEF PoolInv
<1>t. /\ p.pending_callback_map \in [Handles -> CompletionResults \cup {NoResult}]
      /\ p.tasks \in [Handles -> Nat]
  BY <1>p, PoolFields
<1>g. g # NoGroup
  BY GroupsAssumption DEF NoGroup
<1>1. q \in PoolType
  <2>1. /\ [p.pending_callback_map EXCEPT ![h] = NoResult]
             \in [Handles -> CompletionResults \cup {NoResult}]
        /\ [p.tasks EXCEPT ![h] = n] \in [Handles -> Nat]
    BY <1>t
  <2> QED
    BY <1>p, <2>1 DEF PoolType, Completed
<1>2. /\ q.group_map = p.group_map
      /\ q.pending = p.pending
      /\ q.jobs = p.jobs
      /\ q.unassigned = p.unassigned
      /\ q.idle = p.idle
      /\ q.active = p.active
      /\ q.backup_timer = p.backup_timer
      /\ q.idle_socket_count = p.idle_socket_count
      /\ q.connecting_socket_count = p.connecting_socket_count
      /\ q.handed_out_socket_count = p.handed_out_socket_count
      /\ q.generation = p.generation
      /\ q.pending_callback_map = [p.pending_callback_map EXCEPT ![h] = NoResult]
      /\ q.socket = p.socket
      /\ q.pool_id = p.pool_id
      /\ q.tasks = [p.tasks EXCEPT ![h] = n]
  BY <1>p DEF PoolType, Completed
<1>3. /\ q.pending_callback_map[h] = NoResult
      /\ \A k \in Handles \ {h} : /\ q.pending_callback_map[k] = p.pending_callback_map[k]
                                  /\ q.tasks[k] = p.tasks[k]
  BY <1>2, <1>t
<1>4. /\ hd2[h].is_initialized = (p.socket[h] # NoSocket)
      /\ p.socket[h] # NoSocket => hd2[h].group_name = g
      /\ p.socket[h] = NoSocket => hd2[h].group_name = NoGroup
      /\ \A k \in Handles \ {h} : hd2[k] = hd[k]
  BY DEF HandleType, Completing, HandleInitCompletion
<1>5. hd2 \in HandleType
  BY DEF HandleType, Completing, HandleInitCompletion
<1> HIDE DEF q, hd2
<1>6. GroupsInv(q)
  BY <1>2 DEF PoolInv, GroupsInv, Counted, JobsTracked, Mapped, IsEmpty, IdleBorn, Limited,
              NumActiveSocketSlots, TotalSockets
<1>w. hd[h].group_name = g /\ ~hd[h].is_initialized
  BY DEF WaitingIn
<1>7. Owned(q, hd2) /\ HeldBorn(q)
  <2>1. \A k \in Groups : HoldersOf(q, hd2, k) = HoldersOf(p, hd, k)
    BY <1>2, <1>4, <1>w DEF HoldersOf
  <2> QED
    BY <2>1, <1>2 DEF PoolInv, HandlesInv, Owned, HeldBorn
<1>8. \A k \in Groups : \A i \in 1 .. Len(p.pending[k]) : p.pending[k][i].handle \in Handles \ {h}
  BY DEF NotQueued, PoolInv, HandlesInv, Queued
<1>9. Queued(p.pending, hd2)
  <2> SUFFICES ASSUME NEW k \in Groups, NEW i \in 1 .. Len(p.pending[k])
               PROVE  /\ p.pending[k][i].handle \in Handles
                      /\ hd2[p.pending[k][i].handle] = WaitingIn(k)
                      /\ p.pending[k][i].respect_limits \in RespectLimitsValues
                      /\ \A j \in 1 .. Len(p.pending[k]) :
                           p.pending[k][i].handle = p.pending[k][j].handle => i = j
    BY DEF Queued
  <2>1. hd2[p.pending[k][i].handle] = hd[p.pending[k][i].handle]
    BY <1>4, <1>8
  <2> QED
    BY <2>1 DEF PoolInv, HandlesInv, Queued
<1>10. Waiting(q, NoHandle)
  BY <1>2, <1>3, <1>8 DEF PoolInv, HandlesInv, Waiting
<1>11. Results(q, hd2, NoHandle)
  <2> SUFFICES ASSUME NEW k \in Handles
               PROVE  /\ q.pending_callback_map[k] # NoResult =>
                           /\ hd2[k].group_name # NoGroup
                           /\ ~hd2[k].is_initialized
                           /\ q.tasks[k] > 0
                      /\ q.pending_callback_map[k] = "OK" => q.socket[k] # NoSocket
                      /\ hd2[k].is_initialized => q.socket[k] # NoSocket /\ hd2[k].group_name # NoGroup
                      /\ q.socket[k] # NoSocket =>
                           hd2[k].is_initialized \/ q.pending_callback_map[k] # NoResult
    BY DEF Results
  <2>1. Results(p, hd, h)
    BY DEF PoolInv, HandlesInv
  <2>2. CASE k = h
    BY <2>2, <1>2, <1>3, <1>4, <1>g, NullsAssumption DEF CompletionResults
  <2>3. CASE k # h
    BY <2>1, <2>3, <1>2, <1>3, <1>4, HandlesAssumption DEF Results
  <2> QED
    BY <2>2, <2>3
<1>12. PoolInv(q, hd2, NoHandle)
  BY <1>1, <1>2, <1>6, <1>7, <1>9, <1>10, <1>11 DEF PoolInv, HandlesInv
<1> QED
  BY <1>5, <1>12 DEF q, hd2

\* A task that finds no result only disappears.
LEMMA TaskGoneInv ==
  ASSUME NEW p, NEW hd, NEW h \in Handles, NEW n \in Nat, PoolInv(p, hd, NoHandle),
         p.pending_callback_map[h] = NoResult
  PROVE  PoolInv([p EXCEPT !.tasks[h] = n], hd, NoHandle)
<1> DEFINE q == [p EXCEPT !.tasks[h] = n]
<1>p. p \in PoolType
  BY DEF PoolInv
<1>t. p.tasks \in [Handles -> Nat]
  BY <1>p, PoolFields
<1>1. q \in PoolType
  <2>1. [p.tasks EXCEPT ![h] = n] \in [Handles -> Nat]
    BY <1>t
  <2> QED
    BY <1>p, <2>1 DEF PoolType
<1>2. /\ q.group_map = p.group_map
      /\ q.pending = p.pending
      /\ q.jobs = p.jobs
      /\ q.unassigned = p.unassigned
      /\ q.idle = p.idle
      /\ q.active = p.active
      /\ q.backup_timer = p.backup_timer
      /\ q.idle_socket_count = p.idle_socket_count
      /\ q.connecting_socket_count = p.connecting_socket_count
      /\ q.handed_out_socket_count = p.handed_out_socket_count
      /\ q.generation = p.generation
      /\ q.pending_callback_map = p.pending_callback_map
      /\ q.socket = p.socket
      /\ q.pool_id = p.pool_id
      /\ q.tasks = [p.tasks EXCEPT ![h] = n]
  BY <1>p DEF PoolType
<1>3. \A k \in Handles \ {h} : q.tasks[k] = p.tasks[k]
  BY <1>2, <1>t
<1> HIDE DEF q
<1>4. GroupsInv(q)
  BY <1>2 DEF PoolInv, GroupsInv, Counted, JobsTracked, Mapped, IsEmpty, IdleBorn, Limited,
              NumActiveSocketSlots, TotalSockets
<1>5. Owned(q, hd) /\ HeldBorn(q) /\ Queued(q.pending, hd) /\ Waiting(q, NoHandle)
  BY <1>2 DEF PoolInv, HandlesInv, Owned, HoldersOf, HeldBorn, Waiting
<1>6. Results(q, hd, NoHandle)
  BY <1>2, <1>3 DEF PoolInv, HandlesInv, Results
<1> QED
  BY <1>1, <1>4, <1>5, <1>6 DEF PoolInv, HandlesInv, q

-------------------------------------------------------------------------------
(* The actions. *)

\* The task of InvokeUserCallback() preserves the invariant.
LEMMA InvokeUserCallbackStep ==
  ASSUME IInv, NEW h \in Handles, InvokeUserCallback(h)
  PROVE  IInv'
<1>1. PoolInv(pool, handle, NoHandle) /\ handle \in HandleType /\ pool \in PoolType
  BY DEF IInv, PoolInv
<1>2. pool.tasks[h] \in Nat /\ pool.tasks[h] > 0 /\ pool.tasks[h] - 1 \in Nat
  <2>1. pool.tasks[h] \in Nat
    BY <1>1, PoolFields
  <2>2. pool.tasks[h] > 0
    BY DEF InvokeUserCallback
  <2> QED
    BY <2>1, <2>2
<1> DEFINE n == pool.tasks[h] - 1
           g == handle[h].group_name
<1>3. PoolInv(pool', handle', NoHandle) /\ handle' \in HandleType
  <2>1. CASE pool.pending_callback_map[h] = NoResult
    <3>1. pool' = [pool EXCEPT !.tasks[h] = n] /\ handle' = handle
      BY <2>1 DEF InvokeUserCallback
    <3> HIDE DEF n
    <3>2. PoolInv([pool EXCEPT !.tasks[h] = n], handle, NoHandle)
      BY <1>1, <1>2, <2>1, TaskGoneInv DEF n
    <3> QED
      BY <1>1, <3>1, <3>2
  <2>2. CASE pool.pending_callback_map[h] # NoResult
    <3>1. pool' = Completed(pool, h, n)
      BY <1>1, <2>2 DEF InvokeUserCallback, Completed, PoolType
    <3>2. handle' = Completing(pool, handle, h, g)
      BY <2>2 DEF InvokeUserCallback, Completing
    <3>3. handle[h] \in [is_initialized : BOOLEAN, group_name : Groups \cup {NoGroup}]
      BY <1>1 DEF HandleType
    <3>4. g # NoGroup /\ ~handle[h].is_initialized
      BY <1>1, <2>2 DEF PoolInv, HandlesInv, Results
    <3>5. g \in Groups /\ handle[h] = WaitingIn(g)
      BY <3>3, <3>4 DEF WaitingIn
    <3>6. NotQueued(pool, h)
      <4>1. Waiting(pool, NoHandle) /\ h # NoHandle
        BY <1>1, HandlesAssumption DEF PoolInv, HandlesInv
      <4> QED
        BY <4>1, <2>2 DEF Waiting, NotQueued
    <3>7. PoolInv(pool, handle, h)
      BY <1>1, ExceptHandleInv
    <3>8. n \in Nat
      BY <1>2
    <3> HIDE DEF n, g
    <3>9. /\ PoolInv(Completed(pool, h, n), Completing(pool, handle, h, g), NoHandle)
          /\ Completing(pool, handle, h, g) \in HandleType
      BY <1>1, <3>5, <3>6, <3>7, <3>8, CompletionInv
    <3> QED
      BY <3>1, <3>2, <3>9
  <2> QED
    BY <2>1, <2>2
<1>4. preconnect' = preconnect
  BY DEF InvokeUserCallback
<1> QED
  BY <1>3, <1>4 DEF IInv, Quiet

\* ClientSocketHandle::Reset() preserves the invariant.
LEMMA ResetStep ==
  ASSUME IInv, NEW h \in Handles, Reset(h)
  PROVE  IInv'
<1>1. PoolInv(pool, handle, NoHandle) /\ handle \in HandleType
  BY DEF IInv
<1>2. PICK connected \in BOOLEAN, used \in BOOLEAN : pool' \in ResetHandle(pool, h, connected, used)
  BY DEF Reset
<1>3. PoolInv(pool', Freed(handle, h), NoHandle)
  BY <1>1, <1>2, ResetHandleInv
<1>4. handle' = Freed(handle, h) /\ preconnect' = preconnect
  BY DEF Reset, Freed, WaitingIn
<1>5. Freed(handle, h) \in HandleType
  BY <1>1, FreedType
<1> QED
  BY <1>3, <1>4, <1>5 DEF IInv, Quiet

\* SetPriority() preserves the invariant.
LEMMA SetPriorityStep ==
  ASSUME IInv, NEW h \in Handles, NEW priority \in Priority, SetPriority(h, priority)
  PROVE  IInv'
<1> DEFINE g == handle[h].group_name
<1>1. PoolInv(pool, handle, NoHandle) /\ handle \in HandleType /\ pool \in PoolType
  BY DEF IInv, PoolInv
<1>2. handle[h] \in [is_initialized : BOOLEAN, group_name : Groups \cup {NoGroup}]
  BY <1>1 DEF HandleType
<1>3. g # NoGroup
  BY DEF SetPriority, IsPending
<1>4. g \in Groups
  BY <1>2, <1>3
<1>5. PICK i \in PositionOf(pool, g, h) :
        pool' = InsertPendingRequest(RemovePendingRequest(pool, g, i), g,
                                     [pool.pending[g][i] EXCEPT !.priority = priority])
  BY DEF SetPriority
<1>6. handle' = handle /\ preconnect' = preconnect
  BY DEF SetPriority
<1> HIDE DEF g
<1>7. i \in 1 .. Len(pool.pending[g]) /\ pool.pending[g][i].handle = h
  BY DEF PositionOf
<1> DEFINE q == RemovePendingRequest(pool, g, i)
           r == [pool.pending[g][i] EXCEPT !.priority = priority]
<1>8. /\ PoolInv(q, handle, NoHandle) /\ NotQueued(q, h)
      /\ q.group_map = pool.group_map /\ q.socket = pool.socket
      /\ q.pending_callback_map = pool.pending_callback_map
  <2>1. PoolInv(q, handle, NoHandle) /\ NotQueued(q, pool.pending[g][i].handle)
    BY <1>1, <1>4, <1>7, RemovePendingRequestInv, Zenon
  <2>2. /\ q.group_map = pool.group_map /\ q.socket = pool.socket
        /\ q.pending_callback_map = pool.pending_callback_map
    BY <1>1 DEF RemovePendingRequest, PoolType
  <2> QED
    BY <1>7, <2>1, <2>2
<1>9. /\ handle[h] = WaitingIn(g) /\ pool.socket[h] = NoSocket
      /\ pool.pending_callback_map[h] = NoResult
  BY <1>1, <1>4, <1>7, QueuedRequest
<1>10. g \in pool.group_map
  <2>1. pool.pending[g] # <<>>
    BY <1>7
  <2> QED
    BY <1>1, <1>4, <2>1 DEF PoolInv, GroupsInv, Mapped, IsEmpty
<1>11. r \in Request /\ r.handle = h /\ r.respect_limits \in RespectLimitsValues
  <2>1. pool.pending[g] \in Seq(Request)
    BY <1>1, <1>4, PoolFields
  <2>2. pool.pending[g][i] \in Request
    BY <1>7, <2>1, ElementOfSeq
  <2>3. pool.pending[g][i].respect_limits \in RespectLimitsValues
    BY <1>1, <1>4, <1>7 DEF PoolInv, HandlesInv, Queued
  <2> QED
    BY <1>7, <2>2, <2>3 DEF Request
<1> HIDE DEF q, r
<1>12. PoolInv(InsertPendingRequest(q, g, r), handle, NoHandle)
  BY <1>1, <1>4, <1>8, <1>9, <1>10, <1>11, InsertPendingRequestInv
<1> QED
  BY <1>1, <1>5, <1>6, <1>12 DEF IInv, Quiet, q, r

\* The beginning of RequestSockets() preserves the invariant.
LEMMA RequestSocketsStep ==
  ASSUME IInv, NEW g \in Groups, NEW num \in 1 .. max_sockets_per_group, RequestSockets(g, num)
  PROVE  IInv'
<1>1. PoolInv(pool, handle, NoHandle) /\ handle \in HandleType
  BY DEF IInv
<1>2. PICK q \in CleanupIdleSockets(pool, FALSE) : pool' = GetOrCreateGroup(q, g)
  BY DEF RequestSockets
<1>3. PoolInv(q, handle, NoHandle)
  <2>1. FALSE \in BOOLEAN
    OBVIOUS
  <2> QED
    BY <1>1, <1>2, <2>1, CleanupIdleSocketsInv
<1>4. PoolInv(pool', handle, NoHandle)
  BY <1>2, <1>3, GroupMapOperatorsInv
<1>5. handle' = handle /\ preconnect' = [group |-> g, num |-> num, left |-> num]
  BY DEF RequestSockets
<1>6. /\ preconnect' \in [group : Groups \cup {NoGroup}, num : 0 .. max_sockets_per_group,
                          left : -1 .. max_sockets_per_group]
      /\ preconnect'.group \in Groups
  BY <1>5, LimitsAssumption
<1> QED
  BY <1>1, <1>4, <1>5, <1>6 DEF IInv, Quiet

\* One iteration of RequestSockets(), or its end, preserves the invariant.
LEMMA RequestSocketsLoopStep ==
  ASSUME IInv, RequestSocketsLoop
  PROVE  IInv'
<1> DEFINE g == preconnect.group
           PreconnectType == [group : Groups \cup {NoGroup}, num : 0 .. max_sockets_per_group,
                              left : -1 .. max_sockets_per_group]
<1>1. PoolInv(pool, handle, NoHandle) /\ handle \in HandleType /\ preconnect \in PreconnectType
  BY DEF IInv
<1>2. ~Quiet /\ g \in Groups
  BY DEF IInv, RequestSocketsLoop
<1>3. MayServe(pool, handle, g, PreconnectRequest)
  BY <1>1 DEF MayServe, PreconnectRequest
<1>4. PreconnectRequest.handle = NoHandle
  BY DEF PreconnectRequest
<1>5. ASSUME NEW res \in RequestSocketInternal(pool, g, PreconnectRequest)
      PROVE  PoolInv(res.pool, handle, NoHandle)
  <2> HIDE DEF g
  <2>1. Served(pool, handle, g, NoHandle, res)
    BY <1>1, <1>2, <1>3, <1>4, RequestSocketInternalInv
  <2> QED
    BY <2>1 DEF Served
<1>6. NoPreconnect \in PreconnectType /\ NoPreconnect.left = -1
  BY LimitsAssumption DEF NoPreconnect
<1>7. PoolInv(RemoveGroupIfEmpty(pool, g), handle, NoHandle)
  BY <1>1, <1>2, GroupMapOperatorsInv
<1>8. CASE /\ preconnect.left > 0
           /\ \E res \in RequestSocketInternal(pool, g, PreconnectRequest) : pool' = res.pool
           /\ preconnect' = [preconnect EXCEPT !.left = @ - 1]
           /\ handle' = handle
  <2>1. PoolInv(pool', handle', NoHandle)
    BY <1>5, <1>8
  <2>2. preconnect' \in PreconnectType /\ preconnect'.group = preconnect.group
    BY <1>1, <1>8, LimitsAssumption
  <2> QED
    BY <1>1, <1>2, <1>8, <2>1, <2>2 DEF IInv
<1>9. CASE /\ \/ pool' = RemoveGroupIfEmpty(pool, g)
              \/ \E res \in RequestSocketInternal(pool, g, PreconnectRequest) :
                   pool' = RemoveGroupIfEmpty(res.pool, g)
           /\ preconnect' = NoPreconnect
           /\ handle' = handle
  <2>1. PoolInv(pool', handle', NoHandle)
    BY <1>2, <1>5, <1>7, <1>9, GroupMapOperatorsInv
  <2>2. Quiet'
    BY <1>6, <1>9 DEF Quiet
  <2> QED
    BY <1>1, <1>6, <1>9, <2>1, <2>2 DEF IInv
<1> QED
  BY <1>8, <1>9 DEF RequestSocketsLoop

\* The completion of a ConnectJob preserves the invariant.
LEMMA ConnectJobCompleteStep ==
  ASSUME IInv, NEW g \in Groups, NEW result \in CompletionResults, ConnectJobComplete(g, result)
  PROVE  IInv'
<1>1. PoolInv(pool, handle, NoHandle) /\ handle \in HandleType
  BY DEF IInv
<1>2. /\ pool.jobs[g] > 0 /\ pool' \in OnConnectJobComplete(pool, g, result)
      /\ handle' = handle /\ preconnect' = preconnect
  BY DEF ConnectJobComplete
<1>3. PoolInv(pool', handle, NoHandle)
  BY <1>1, <1>2, OnConnectJobCompleteInv
<1> QED
  BY <1>1, <1>2, <1>3 DEF IInv, Quiet

\* CloseIdleSockets() preserves the invariant.
LEMMA CloseIdleSocketsStep ==
  ASSUME IInv, CloseIdleSockets
  PROVE  IInv'
<1>1. PoolInv(pool, handle, NoHandle) /\ handle \in HandleType
  BY DEF IInv
<1>2. pool' \in CleanupIdleSockets(pool, TRUE) /\ handle' = handle /\ preconnect' = preconnect
  BY DEF CloseIdleSockets
<1>3. PoolInv(pool', handle, NoHandle)
  <2>1. TRUE \in BOOLEAN
    OBVIOUS
  <2> QED
    BY <1>1, <1>2, <2>1, CleanupIdleSocketsInv
<1> QED
  BY <1>1, <1>2, <1>3 DEF IInv, Quiet

\* CloseIdleSocketsInGroup() preserves the invariant.
LEMMA CloseIdleSocketsInGroupStep ==
  ASSUME IInv, NEW g \in Groups, CloseIdleSocketsInGroup(g)
  PROVE  IInv'
<1>1. PoolInv(pool, handle, NoHandle) /\ handle \in HandleType /\ pool \in PoolType
  BY DEF IInv, PoolInv
<1>2. /\ pool' = RemoveGroupIfEmpty([pool EXCEPT !.idle[g] = <<>>,
                                                 !.idle_socket_count = @ - Len(pool.idle[g])], g)
      /\ g \in pool.group_map /\ handle' = handle /\ preconnect' = preconnect
  BY DEF CloseIdleSocketsInGroup
<1>3. CutFits(pool.idle[g], <<>>)
  <2>1. Len(pool.idle[g]) \in Nat
    BY <1>1, PoolCounts
  <2>2. <<>> \in Seq(Socket) /\ Len(<<>>) = 0
    BY EmptySeq
  <2> QED
    BY <2>1, <2>2 DEF CutFits
<1> DEFINE q == CutIdle(pool, g, <<>>)
<1>4. q = [pool EXCEPT !.idle[g] = <<>>, !.idle_socket_count = @ - Len(pool.idle[g])]
  <2>1. Len(pool.idle[g]) \in Nat /\ Len(<<>>) = 0
    BY <1>1, PoolCounts, EmptySeq
  <2>2. Len(pool.idle[g]) - Len(<<>>) = Len(pool.idle[g])
    BY <2>1
  <2> QED
    BY <2>2 DEF CutIdle
<1>5. PoolInv(q, handle, NoHandle)
  BY <1>1, <1>2, <1>3, CutIdleInv, Zenon
<1> HIDE DEF q
<1>6. PoolInv(pool', handle, NoHandle)
  BY <1>2, <1>4, <1>5, GroupMapOperatorsInv
<1> QED
  BY <1>1, <1>2, <1>6 DEF IInv, Quiet

\* CloseOneIdleConnection() preserves the invariant.
LEMMA CloseOneIdleConnectionStep ==
  ASSUME IInv, CloseOneIdleConnection
  PROVE  IInv'
<1>1. PoolInv(pool, handle, NoHandle) /\ handle \in HandleType
  BY DEF IInv
<1>2. pool' \in CloseOneIdleSocket(pool) /\ handle' = handle /\ preconnect' = preconnect
  BY DEF CloseOneIdleConnection
<1>3. PoolInv(pool', handle, NoHandle)
  BY <1>1, <1>2, CloseOneIdleSocketInv
<1> QED
  BY <1>1, <1>2, <1>3 DEF IInv, Quiet

\* The timer of g has fired, and the backup job is added.
Fired(p, g) == [p EXCEPT !.backup_timer[g] = FALSE]
BackedUp(p, g) == AddJob(Fired(p, g), g, FALSE)

\* Neither disturbs the invariant, the job where there is room.
LEMMA BackupJobInv ==
  ASSUME NEW p, NEW hd, NEW g \in Groups, PoolInv(p, hd, NoHandle), p.backup_timer[g]
  PROVE  /\ PoolInv(Fired(p, g), hd, NoHandle)
         /\ SameHandles(p, Fired(p, g))
         /\ Room(p, g) => /\ PoolInv(BackedUp(p, g), hd, NoHandle)
                          /\ SameHandles(p, BackedUp(p, g))
                          /\ BackedUp(p, g).jobs[g] > 0
<1> DEFINE fired == Fired(p, g)
           added == BackedUp(p, g)
<1>1. p \in PoolType
  BY DEF PoolInv
<1>2. p.jobs[g] > 0 /\ g \in p.group_map
  <2>1. p.jobs[g] > 0
    BY DEF PoolInv, GroupsInv, JobsTracked
  <2>2. p.jobs[g] # 0
    BY <2>1
  <2> QED
    BY <2>1, <2>2 DEF PoolInv, GroupsInv, Mapped, IsEmpty
<1>3. PoolInv(fired, hd, NoHandle)
  <2> DEFINE n == p.jobs[g]
             u == p.unassigned[g]
  <2>1. n \in Nat /\ u \in Nat /\ u <= n /\ p.connecting_socket_count \in Nat
    BY <1>1, PoolFields DEF PoolInv, GroupsInv, JobsTracked
  <2>2. JobsFit(p, g, n, u, FALSE)
    BY <2>1 DEF JobsFit
  <2>3. SetJobs(p, g, n, u, FALSE) = fired
    <3>1. p.connecting_socket_count - (p.jobs[g] - n) = p.connecting_socket_count
      BY <2>1
    <3>2. /\ [p.jobs EXCEPT ![g] = n] = p.jobs
          /\ [p.unassigned EXCEPT ![g] = u] = p.unassigned
      BY <1>1, PoolFields
    <3> QED
      BY <1>1, <3>1, <3>2 DEF SetJobs, PoolType, Fired
  <2> HIDE DEF n, u
  <2>4. PoolInv(SetJobs(p, g, n, u, FALSE), hd, NoHandle)
    BY <1>2, <2>2, JobsInv, Zenon
  <2> QED
    BY <2>3, <2>4
<1>4. SameHandles(p, fired)
  BY <1>1 DEF SameHandles, Fired, PoolType
<1>5. ASSUME Room(p, g)
      PROVE  PoolInv(added, hd, NoHandle) /\ SameHandles(p, added) /\ added.jobs[g] > 0
  <2>1. PoolInv(added, hd, NoHandle)
    BY <1>2, <1>5, AddJobInv DEF BackedUp, Fired
  <2>2. SameHandles(p, added)
    BY <1>1 DEF SameHandles, BackedUp, Fired, AddJob, PoolType
  <2>3. added.jobs[g] > 0
    <3>1. added.jobs = [p.jobs EXCEPT ![g] = p.jobs[g] + 1]
      BY <1>1 DEF BackedUp, Fired, AddJob, PoolType
    <3>2. p.jobs \in [Groups -> Nat]
      BY <1>1, PoolFields
    <3> HIDE DEF added
    <3> QED
      BY <3>1, <3>2
  <2> QED
    BY <2>1, <2>2, <2>3
<1> QED
  BY <1>3, <1>4, <1>5

\* What OnBackupJobTimerFired() may do.
LEMMA OnBackupJobTimerFiredCases ==
  ASSUME NEW g \in Groups, OnBackupJobTimerFired(g)
  PROVE  \/ pool' = pool
         \/ pool' = Fired(pool, g)
         \/ /\ ~ReachedMaxSocketsLimit(pool) /\ HasAvailableSocketSlot(pool, g)
            /\ \/ pool' = BackedUp(pool, g)
               \/ \E rv \in ConnectResults \ {"PENDING"} :
                    pool' \in OnConnectJobComplete(BackedUp(pool, g), g, rv)
  BY DEF OnBackupJobTimerFired, Fired, BackedUp

\* OnBackupJobTimerFired() preserves the invariant.
LEMMA OnBackupJobTimerFiredStep ==
  ASSUME IInv, NEW g \in Groups, OnBackupJobTimerFired(g)
  PROVE  IInv'
<1>1. PoolInv(pool, handle, NoHandle) /\ handle \in HandleType
  BY DEF IInv
<1>2. handle' = handle /\ preconnect' = preconnect /\ pool.backup_timer[g]
  BY DEF OnBackupJobTimerFired
<1>3. PoolInv(pool', handle, NoHandle)
  <2>1. CASE pool' = pool \/ pool' = Fired(pool, g)
    BY <1>1, <1>2, <2>1, BackupJobInv
  <2>2. ASSUME ~ReachedMaxSocketsLimit(pool), HasAvailableSocketSlot(pool, g)
        PROVE  PoolInv(BackedUp(pool, g), handle, NoHandle) /\ BackedUp(pool, g).jobs[g] > 0
    <3>1. Room(pool, g)
      BY <2>2 DEF Room
    <3> QED
      BY <1>1, <1>2, <3>1, BackupJobInv
  <2>3. ASSUME ~ReachedMaxSocketsLimit(pool), HasAvailableSocketSlot(pool, g),
               NEW rv \in ConnectResults \ {"PENDING"},
               pool' \in OnConnectJobComplete(BackedUp(pool, g), g, rv)
        PROVE  PoolInv(pool', handle, NoHandle)
    <3>1. rv \in CompletionResults
      BY OptionsAssumption DEF CompletionResults
    <3> QED
      BY <1>1, <2>2, <2>3, <3>1, OnConnectJobCompleteInv
  <2> QED
    BY <2>1, <2>2, <2>3, OnBackupJobTimerFiredCases
<1> QED
  BY <1>1, <1>2, <1>3 DEF IInv, Quiet

\* The handles once h asks for a socket of g.
Asking(hd, h, g) == [hd EXCEPT ![h] = WaitingIn(g)]

\* The pools that RequestSocket() goes through: the handle is reset, the idle sockets are
\* cleaned up, the request is served.
AfterReset(h, g, r, reset, cleaned, res) ==
  /\ \E connected, used \in BOOLEAN : reset \in ResetHandle(pool, h, connected, used)
  /\ cleaned \in CleanupIdleSockets(reset, FALSE)
  /\ res \in RequestSocketInternal(cleaned, g, r)

\* What the request of a handle finds, and leaves.
LEMMA RequestSocketServed ==
  ASSUME IInv, NEW h \in Handles, NEW g \in Groups, NEW r, NEW reset, NEW cleaned, NEW res,
         AfterReset(h, g, r, reset, cleaned, res),
         r.handle = h, r.respect_limits \in RespectLimitsValues
  PROVE  /\ Asking(handle, h, g) \in HandleType /\ Asking(handle, h, g)[h] = WaitingIn(g)
         /\ PoolInv(reset, Asking(handle, h, g), NoHandle)
         /\ SameHandles(reset, cleaned)
         /\ MayServe(cleaned, Asking(handle, h, g), g, r)
         /\ Served(cleaned, Asking(handle, h, g), g, h, res)
         /\ cleaned.socket[h] = NoSocket
         /\ NotQueued(res.pool, h)
         /\ res.pool.pending_callback_map[h] = NoResult
<1> DEFINE hd == Asking(handle, h, g)
<1>1. PoolInv(pool, handle, NoHandle) /\ handle \in HandleType
  BY DEF IInv
<1>2. /\ \E connected, used \in BOOLEAN : reset \in ResetHandle(pool, h, connected, used)
      /\ cleaned \in CleanupIdleSockets(reset, FALSE)
      /\ res \in RequestSocketInternal(cleaned, g, r)
  BY DEF AfterReset
<1>h. hd \in HandleType /\ hd[h] = WaitingIn(g)
  BY <1>1 DEF HandleType, WaitingIn, Asking
<1>3. PoolInv(reset, Freed(handle, h), NoHandle)
  BY <1>1, <1>2, ResetHandleInv
<1>4. Freed(handle, h) \in HandleType /\ Freed(handle, h)[h] = WaitingIn(NoGroup)
  BY <1>1, FreedType
<1>5. NotQueued(reset, h) /\ reset.socket[h] = NoSocket /\ reset.pending_callback_map[h] = NoResult
  BY <1>3, <1>4, FreedHandle
<1>6. PoolInv(reset, hd, NoHandle)
  <2> DEFINE fh == Freed(handle, h)
  <2>1. [fh EXCEPT ![h] = WaitingIn(g)] = hd
    BY <1>1 DEF Freed, HandleType, Asking
  <2> HIDE DEF fh, hd
  <2>2. PoolInv(reset, [fh EXCEPT ![h] = WaitingIn(g)], NoHandle)
    <3>1. g \in Groups \cup {NoGroup}
      OBVIOUS
    <3> QED
      BY <1>3, <1>4, <1>5, <3>1, FreedInv DEF fh
  <2> QED
    BY <2>1, <2>2
<1> HIDE DEF hd
<1>7. PoolInv(cleaned, hd, NoHandle) /\ SameHandles(reset, cleaned)
  <2>1. FALSE \in BOOLEAN
    OBVIOUS
  <2> QED
    BY <1>2, <1>6, <2>1, CleanupIdleSocketsInv
<1>8. /\ NotQueued(cleaned, h) /\ cleaned.socket[h] = NoSocket
      /\ cleaned.pending_callback_map[h] = NoResult
  BY <1>5, <1>7 DEF SameHandles, NotQueued
<1>9. MayServe(cleaned, hd, g, r)
  BY <1>7, <1>8, <1>h, OptionsAssumption DEF MayServe
<1>10. Served(cleaned, hd, g, h, res)
  BY <1>2, <1>9, <1>h, RequestSocketInternalInv
<1>11. NotQueued(res.pool, h) /\ res.pool.pending_callback_map[h] = NoResult
  BY <1>8, <1>10 DEF Served, NotQueued
<1> QED
  BY <1>h, <1>6, <1>7, <1>8, <1>9, <1>10, <1>11 DEF hd

\* How RequestSocket() leaves the pool and its handle.
Requested(h, g, r, res) ==
  \/ /\ res.rv = "PENDING"
     /\ pool' = InsertPendingRequest(res.pool, g, r)
     /\ handle' = Asking(handle, h, g)
  \/ /\ res.rv # "PENDING"
     /\ pool' = res.pool
     /\ handle' = [handle EXCEPT ![h] = HandleInitCompletion(res.pool, h, g)]

\* The request of ClientSocketHandle::Init().
RequestOf(h, priority, respect_limits) ==
  [handle |-> h, priority |-> priority, respect_limits |-> respect_limits]

\* What the caller asks for is a request.
LEMMA RequestOfType ==
  ASSUME NEW h \in Handles, NEW priority \in Priority,
         NEW respect_limits \in RespectLimitsValues
  PROVE  LET r == RequestOf(h, priority, respect_limits)
         IN  /\ r \in Request /\ r.handle = h /\ r.priority = priority
             /\ r.respect_limits = respect_limits
  BY OptionsAssumption DEF RequestOf, Request

\* RequestSocket() resets the handle, may clean up idle sockets, and asks for a socket.
LEMMA RequestSocketCases ==
  ASSUME NEW h, NEW g, NEW priority, NEW respect_limits,
         RequestSocket(h, g, priority, respect_limits)
  PROVE  LET r == RequestOf(h, priority, respect_limits)
         IN  \E reset, cleaned, res : /\ AfterReset(h, g, r, reset, cleaned, res)
                                      /\ Requested(h, g, r, res)
<1> DEFINE r == RequestOf(h, priority, respect_limits)
<1>1. PICK connected \in BOOLEAN, used \in BOOLEAN :
        \E reset \in ResetHandle(pool, h, connected, used) :
        \E cleaned \in CleanupIdleSockets(reset, FALSE) :
        \E res \in RequestSocketInternal(cleaned, g, r) : Requested(h, g, r, res)
  BY DEF RequestSocket, WaitingIn, Requested, RequestOf, Asking
<1>2. PICK reset \in ResetHandle(pool, h, connected, used) :
        \E cleaned \in CleanupIdleSockets(reset, FALSE) :
        \E res \in RequestSocketInternal(cleaned, g, r) : Requested(h, g, r, res)
  BY <1>1
<1>3. PICK cleaned \in CleanupIdleSockets(reset, FALSE) :
        \E res \in RequestSocketInternal(cleaned, g, r) : Requested(h, g, r, res)
  BY <1>2
<1>4. PICK res \in RequestSocketInternal(cleaned, g, r) : Requested(h, g, r, res)
  BY <1>3
<1>5. AfterReset(h, g, r, reset, cleaned, res)
  BY DEF AfterReset
<1> QED
  BY <1>4, <1>5

\* ClientSocketHandle::Init(), that is RequestSocket(), preserves the invariant.
LEMMA RequestSocketStep ==
  ASSUME IInv, NEW h \in Handles, NEW g \in Groups, NEW priority \in Priority,
         NEW respect_limits \in RespectLimitsValues,
         RequestSocket(h, g, priority, respect_limits)
  PROVE  IInv'
<1> DEFINE r == RequestOf(h, priority, respect_limits)
           hd == Asking(handle, h, g)
<1>1. PoolInv(pool, handle, NoHandle) /\ handle \in HandleType
  BY DEF IInv
<1>5. PICK reset, cleaned, res : /\ AfterReset(h, g, r, reset, cleaned, res)
                                 /\ Requested(h, g, r, res)
  BY RequestSocketCases
<1>r. r \in Request /\ r.handle = h /\ r.respect_limits \in RespectLimitsValues
  BY RequestOfType
<1> HIDE DEF r, hd
<1>6. /\ hd \in HandleType /\ hd[h] = WaitingIn(g)
      /\ Served(cleaned, hd, g, h, res)
      /\ cleaned.socket[h] = NoSocket
      /\ NotQueued(res.pool, h)
      /\ res.pool.pending_callback_map[h] = NoResult
  BY <1>5, <1>r, RequestSocketServed DEF hd
<1>7. PoolInv(res.pool, hd, h)
  BY <1>6 DEF Served
<1>8. PoolInv(pool', handle', NoHandle) /\ handle' \in HandleType
  <2>1. CASE res.rv = "PENDING"
    <3>1. g \in res.pool.group_map /\ res.pool.socket[h] = NoSocket
      BY <1>6, <2>1 DEF Served
    <3>2. PoolInv(res.pool, hd, NoHandle)
      BY <1>6, <1>7, <3>1, NoExceptionInv
    <3>3. PoolInv(InsertPendingRequest(res.pool, g, r), hd, NoHandle)
      BY <1>r, <1>6, <3>1, <3>2, InsertPendingRequestInv
    <3> QED
      BY <1>5, <1>6, <2>1, <3>3 DEF Requested, hd
  <2>2. CASE res.rv # "PENDING"
    <3> DEFINE q == res.pool
               n == q.tasks[h]
    <3>1. q \in PoolType
      BY <1>7 DEF PoolInv
    <3>2. n \in Nat
      BY <3>1, PoolFields
    <3>3. Completed(q, h, n) = q
      <4>1. /\ [q.pending_callback_map EXCEPT ![h] = NoResult] = q.pending_callback_map
            /\ [q.tasks EXCEPT ![h] = n] = q.tasks
        BY <1>6, <3>1, PoolFields
      <4> QED
        BY <3>1, <4>1 DEF Completed, PoolType
    <3>4. handle' = Completing(q, hd, h, g) /\ pool' = q
      BY <1>1, <1>5, <2>2 DEF Requested, Completing, hd, Asking, HandleType
    <3> HIDE DEF q, n
    <3>5. PoolInv(q, hd, h) /\ NotQueued(q, h)
      BY <1>6, <1>7 DEF q
    <3>6. /\ PoolInv(Completed(q, h, n), Completing(q, hd, h, g), NoHandle)
          /\ Completing(q, hd, h, g) \in HandleType
      BY <1>6, <3>2, <3>5, CompletionInv
    <3> QED
      BY <3>3, <3>4, <3>6
  <2> QED
    BY <2>1, <2>2
<1>9. preconnect' = preconnect
  BY DEF RequestSocket
<1> QED
  BY <1>8, <1>9 DEF IInv, Quiet

-------------------------------------------------------------------------------
(* FlushWithError(): between its steps the idle sockets are of the previous   *)
(* generation, so the invariant is established for its result only.           *)

\* w is p in its next generation, without jobs, timers and, if bare, idle sockets.
Flushed(p, w, bare) ==
  /\ w.group_map \subseteq Groups
  /\ \A g \in Groups : g \in w.group_map \/ IsEmpty(w, g)
  /\ w.pending = p.pending
  /\ w.jobs = [g \in Groups |-> 0]
  /\ w.unassigned = [g \in Groups |-> 0]
  /\ w.idle = IF bare THEN [g \in Groups |-> <<>>] ELSE p.idle
  /\ w.active = p.active
  /\ w.backup_timer = [g \in Groups |-> FALSE]
  /\ w.idle_socket_count = IF bare THEN 0 ELSE p.idle_socket_count
  /\ w.connecting_socket_count = 0
  /\ w.handed_out_socket_count = p.handed_out_socket_count
  /\ w.generation = p.generation + 1
  /\ w.pending_callback_map = p.pending_callback_map
  /\ w.socket = p.socket
  /\ w.pool_id = p.pool_id
  /\ w.tasks = p.tasks

\* In FlushWithError(), CancelAllConnectJobs() leaves no job, and no timer that waits
\* for one.
LEMMA CancelAllConnectJobsFlushes ==
  ASSUME NEW p, NEW hd, PoolInv(p, hd, NoHandle)
  PROVE  LET w == CancelAllConnectJobs([p EXCEPT !.generation = @ + 1])
         IN  w \in PoolType /\ Flushed(p, w, FALSE)
<1> DEFINE a == [p EXCEPT !.generation = @ + 1]
           zero == [g \in Groups |-> 0]
           c == [a EXCEPT !.connecting_socket_count = @ - Total(a.jobs),
                          !.jobs = zero, !.unassigned = zero,
                          !.backup_timer = [g \in Groups |-> FALSE]]
           w == CancelAllConnectJobs(a)
<1>p. p \in PoolType /\ Counted(p) /\ Mapped(p)
  BY DEF PoolInv, GroupsInv
<1>1. a.jobs = p.jobs /\ a.connecting_socket_count = p.connecting_socket_count
  BY <1>p DEF PoolType
<1>2. a.connecting_socket_count - Total(a.jobs) = 0
  <2>1. p.connecting_socket_count \in Nat /\ p.connecting_socket_count = Total(p.jobs)
    BY <1>p, PoolFields DEF Counted
  <2> HIDE DEF a
  <2> QED
    BY <1>1, <2>1
<1>3. c = [p EXCEPT !.generation = p.generation + 1, !.connecting_socket_count = 0,
                    !.jobs = zero, !.unassigned = zero,
                    !.backup_timer = [g \in Groups |-> FALSE]]
  BY <1>p, <1>2 DEF PoolType
<1> DEFINE M == {g \in c.group_map : ~IsEmpty(c, g)}
<1>4. w = [c EXCEPT !.group_map = M]
  BY DEF CancelAllConnectJobs, RemoveEmptyGroups
<1> HIDE DEF a, c, w
<1>5. /\ c.group_map = p.group_map /\ c.pending = p.pending /\ c.jobs = zero
      /\ c.idle = p.idle /\ c.active = p.active /\ c \in PoolType
  <2>1. /\ p.generation + 1 \in Nat /\ 0 \in Nat /\ zero \in [Groups -> Nat]
        /\ [g \in Groups |-> FALSE] \in [Groups -> BOOLEAN]
    BY <1>p, PoolFields
  <2> QED
    BY <1>p, <1>3, <2>1 DEF PoolType
<1>6. M \subseteq Groups /\ \A g \in Groups : g \in M \/ IsEmpty(c, g)
  <2>1. p.group_map \subseteq Groups
    BY <1>p, PoolFields
  <2>2. ASSUME NEW g \in Groups, g \notin p.group_map
        PROVE  IsEmpty(c, g)
    BY <1>p, <1>5, <2>2 DEF Mapped, IsEmpty
  <2> QED
    BY <1>5, <2>1, <2>2
<1> HIDE DEF M
<1>7. /\ w.group_map = M /\ w.pending = p.pending /\ w.jobs = zero /\ w.unassigned = zero
      /\ w.idle = p.idle /\ w.active = p.active
      /\ w.backup_timer = [g \in Groups |-> FALSE]
      /\ w.idle_socket_count = p.idle_socket_count
      /\ w.connecting_socket_count = 0
      /\ w.handed_out_socket_count = p.handed_out_socket_count
      /\ w.generation = p.generation + 1
      /\ w.pending_callback_map = p.pending_callback_map
      /\ w.socket = p.socket
      /\ w.pool_id = p.pool_id
      /\ w.tasks = p.tasks
  BY <1>p, <1>3, <1>4 DEF PoolType
<1>8. w \in PoolType
  BY <1>4, <1>5, <1>6 DEF PoolType
<1>9. \A g \in Groups : g \in w.group_map \/ IsEmpty(w, g)
  BY <1>5, <1>6, <1>7 DEF IsEmpty
<1> QED
  BY <1>6, <1>7, <1>8, <1>9 DEF Flushed, w, a

\* The forced CleanupIdleSockets() that follows leaves no idle socket of the old
\* generation.
LEMMA CleanupIdleSocketsFlushes ==
  ASSUME NEW p, NEW hd, PoolInv(p, hd, NoHandle), NEW w \in PoolType, Flushed(p, w, FALSE),
         NEW q \in CleanupIdleSockets(w, TRUE)
  PROVE  q \in PoolType /\ Flushed(p, q, TRUE)
<1> DEFINE none == [g \in Groups |-> <<>>]
<1>p. p \in PoolType /\ Counted(p)
  BY DEF PoolInv, GroupsInv
<1>w. w.idle = p.idle /\ w.idle_socket_count = p.idle_socket_count
  BY DEF Flushed
<1>1. CASE w.idle_socket_count = 0
  <2>1. q = w
    BY <1>1 DEF CleanupIdleSockets
  <2>2. p.idle = none
    <3>1. Total(IdleCounts(p.idle)) = 0 /\ IdleCounts(p.idle) \in [Groups -> Nat]
      BY <1>1, <1>p, <1>w, PoolCounts DEF Counted
    <3>2. ASSUME NEW g \in Groups
          PROVE  p.idle[g] = <<>>
      <4>1. IdleCounts(p.idle)[g] <= 0 /\ IdleCounts(p.idle)[g] = Len(p.idle[g])
        BY <3>1, TotalBound DEF IdleCounts
      <4>2. Len(p.idle[g]) = 0
        BY <4>1, <1>p, PoolCounts
      <4>3. p.idle[g] \in Seq(Socket)
        BY <1>p, PoolFields
      <4> QED
        BY <4>2, <4>3, EmptySeq
    <3>3. p.idle \in [Groups -> Seq(Socket)]
      BY <1>p, PoolFields
    <3> QED
      BY <3>2, <3>3
  <2> QED
    BY <1>1, <1>w, <2>1, <2>2 DEF Flushed
<1>2. CASE w.idle_socket_count # 0
  <2> DEFINE n == w.idle_socket_count - (Total(IdleCounts(w.idle)) - Total(IdleCounts(none)))
             c == [w EXCEPT !.idle = none, !.idle_socket_count = n]
             M == {g \in c.group_map : ~IsEmpty(c, g)}
  <2>1. q = [c EXCEPT !.group_map = M]
    BY <1>2 DEF CleanupIdleSockets, KeepIdleSockets, RemoveEmptyGroups
  <2>2. n = 0
    <3>1. IdleCounts(none) \in [Groups -> Nat] /\ \A g \in Groups : IdleCounts(none)[g] = 0
      BY EmptySeq DEF IdleCounts
    <3>2. Total(IdleCounts(none)) = 0
      BY <3>1, TotalZero
    <3>3. w.idle_socket_count = Total(IdleCounts(w.idle)) /\ w.idle_socket_count \in Nat
      BY <1>p, <1>w, PoolFields DEF Counted
    <3> QED
      BY <3>2, <3>3
  <2> HIDE DEF n
  <2>3. /\ c.group_map = w.group_map /\ c.pending = w.pending /\ c.jobs = w.jobs
        /\ c.idle = none /\ c.active = w.active /\ c \in PoolType
    <3>1. none \in [Groups -> Seq(Socket)] /\ n \in Nat
      BY <2>2, EmptySeq
    <3> HIDE DEF none
    <3> QED
      BY <3>1 DEF PoolType
  <2> HIDE DEF c
  <2>4. M \subseteq Groups /\ \A g \in Groups : g \in M \/ IsEmpty(c, g)
    <3>1. w.group_map \subseteq Groups /\ \A g \in Groups : g \in w.group_map \/ IsEmpty(w, g)
      BY DEF Flushed
    <3>2. ASSUME NEW g \in Groups, g \notin w.group_map
          PROVE  IsEmpty(c, g)
      BY <2>3, <3>1, <3>2 DEF IsEmpty
    <3> QED
      BY <2>3, <3>1, <3>2
  <2> HIDE DEF M
  <2>5. /\ q.group_map = M /\ q.pending = w.pending /\ q.jobs = w.jobs
        /\ q.unassigned = w.unassigned /\ q.idle = none /\ q.active = w.active
        /\ q.backup_timer = w.backup_timer /\ q.idle_socket_count = 0
        /\ q.connecting_socket_count = w.connecting_socket_count
        /\ q.handed_out_socket_count = w.handed_out_socket_count
        /\ q.generation = w.generation
        /\ q.pending_callback_map = w.pending_callback_map
        /\ q.socket = w.socket /\ q.pool_id = w.pool_id /\ q.tasks = w.tasks
    BY <2>1, <2>2 DEF PoolType, c
  <2>6. q \in PoolType
    BY <2>1, <2>3, <2>4 DEF PoolType
  <2>7. \A g \in Groups : g \in q.group_map \/ IsEmpty(q, g)
    BY <2>3, <2>4, <2>5 DEF IsEmpty
  <2> HIDE DEF none
  <2> QED
    BY <2>4, <2>5, <2>6, <2>7 DEF Flushed, none
<1> QED
  BY <1>1, <1>2

\* CancelAllRequestsWithError() re-establishes the invariant on what they leave.
LEMMA CancelAllRequestsWithErrorInv ==
  ASSUME NEW p, NEW hd, PoolInv(p, hd, NoHandle), NEW q \in PoolType, Flushed(p, q, TRUE)
  PROVE  PoolInv(CancelAllRequestsWithError(q, "ERR"), hd, NoHandle)
<1> DEFINE none == [g \in Groups |-> <<>>]
           waiting(h) == \E g \in Groups : PositionOf(q, g, h) # {}
           timers == [g \in Groups |-> q.backup_timer[g] /\ q.pending[g] = <<>>]
           cb == [h \in Handles |-> IF waiting(h) THEN "ERR" ELSE q.pending_callback_map[h]]
           ts == [h \in Handles |-> IF waiting(h) THEN q.tasks[h] + 1 ELSE q.tasks[h]]
           c == [q EXCEPT !.pending = none, !.backup_timer = timers,
                          !.pending_callback_map = cb, !.tasks = ts]
           M == {g \in c.group_map : ~IsEmpty(c, g)}
           w == CancelAllRequestsWithError(q, "ERR")
<1>p. p \in PoolType
  BY DEF PoolInv
<1>1. w = [c EXCEPT !.group_map = M]
  BY DEF CancelAllRequestsWithError, RemoveEmptyGroups
<1>2. timers = [g \in Groups |-> FALSE]
  BY DEF Flushed
<1>3. /\ none \in [Groups -> Seq(Request)]
      /\ timers \in [Groups -> BOOLEAN]
      /\ cb \in [Handles -> CompletionResults \cup {NoResult}]
      /\ ts \in [Handles -> Nat]
  <2>1. /\ q.pending_callback_map \in [Handles -> CompletionResults \cup {NoResult}]
        /\ q.tasks \in [Handles -> Nat]
    BY PoolFields
  <2>2. none \in [Groups -> Seq(Request)]
    BY EmptySeq
  <2>3. timers \in [Groups -> BOOLEAN]
    BY <1>2
  <2> HIDE DEF waiting
  <2>4. cb \in [Handles -> CompletionResults \cup {NoResult}]
    BY <2>1 DEF CompletionResults
  <2>5. ts \in [Handles -> Nat]
    BY <2>1
  <2> QED
    BY <2>2, <2>3, <2>4, <2>5
<1> HIDE DEF waiting, timers, cb, ts, none
<1>4. /\ c.group_map = q.group_map /\ c.pending = none /\ c.jobs = q.jobs
      /\ c.idle = q.idle /\ c.active = q.active /\ c \in PoolType
  BY <1>3 DEF PoolType
<1>5. M \subseteq Groups /\ \A g \in Groups : g \in M \/ IsEmpty(c, g)
  <2>1. q.group_map \subseteq Groups /\ \A g \in Groups : g \in q.group_map \/ IsEmpty(q, g)
    BY DEF Flushed
  <2> HIDE DEF c
  <2>2. ASSUME NEW g \in Groups, g \notin q.group_map
        PROVE  IsEmpty(c, g)
    BY <1>4, <2>1, <2>2 DEF IsEmpty, none
  <2> QED
    BY <1>4, <2>1, <2>2
<1> HIDE DEF M, w
<1>6. /\ w.group_map = M /\ w.pending = none /\ w.jobs = q.jobs
      /\ w.unassigned = q.unassigned /\ w.idle = q.idle /\ w.active = q.active
      /\ w.backup_timer = timers /\ w.idle_socket_count = q.idle_socket_count
      /\ w.connecting_socket_count = q.connecting_socket_count
      /\ w.handed_out_socket_count = q.handed_out_socket_count
      /\ w.generation = q.generation
      /\ w.pending_callback_map = cb
      /\ w.socket = q.socket /\ w.pool_id = q.pool_id /\ w.tasks = ts
  BY <1>1 DEF PoolType
<1>7. w \in PoolType
  <2> HIDE DEF c
  <2> QED
    BY <1>1, <1>4, <1>5 DEF PoolType
<1>8. Mapped(w)
  <2> HIDE DEF c
  <2> QED
    BY <1>4, <1>5, <1>6 DEF Mapped, IsEmpty
<1> HIDE DEF c
<1>9. /\ q.pending = p.pending /\ q.active = p.active /\ q.socket = p.socket
      /\ q.pool_id = p.pool_id /\ q.tasks = p.tasks
      /\ q.pending_callback_map = p.pending_callback_map
      /\ q.generation = p.generation + 1
      /\ q.handed_out_socket_count = p.handed_out_socket_count
      /\ q.jobs = [g \in Groups |-> 0] /\ q.unassigned = [g \in Groups |-> 0]
      /\ q.idle = [g \in Groups |-> <<>>]
      /\ q.idle_socket_count = 0 /\ q.connecting_socket_count = 0
  BY DEF Flushed
<1>10. Counted(w)
  <2>1. /\ IdleCounts(w.idle) \in [Groups -> Nat] /\ \A g \in Groups : IdleCounts(w.idle)[g] = 0
    BY <1>6, <1>9, EmptySeq DEF IdleCounts
  <2>2. Total(IdleCounts(w.idle)) = 0
    BY <2>1, TotalZero
  <2>3. w.jobs \in [Groups -> Nat] /\ \A g \in Groups : w.jobs[g] = 0
    BY <1>6, <1>9
  <2>4. Total(w.jobs) = 0
    BY <2>3, TotalZero
  <2> QED
    BY <1>6, <1>9, <2>2, <2>4 DEF Counted, PoolInv, GroupsInv
<1>11. JobsTracked(w) /\ IdleBorn(w)
  <2>1. \A g \in Groups : w.unassigned[g] = 0 /\ w.jobs[g] = 0 /\ w.backup_timer[g] = FALSE
    BY <1>2, <1>6, <1>9
  <2>2. \A g \in Groups : Len(w.idle[g]) = 0
    BY <1>6, <1>9, EmptySeq
  <2> QED
    BY <2>1, <2>2 DEF JobsTracked, IdleBorn
<1>12. Limited(w)
  <2>1. \A g \in Groups : /\ p.active[g] \in Nat /\ p.jobs[g] \in Nat /\ Len(p.idle[g]) \in Nat
                          /\ w.active[g] = p.active[g] /\ w.jobs[g] = 0 /\ Len(w.idle[g]) = 0
    BY <1>p, <1>6, <1>9, PoolFields, PoolCounts, EmptySeq
  <2>2. /\ p.handed_out_socket_count \in Nat /\ p.idle_socket_count \in Nat
        /\ p.connecting_socket_count \in Nat
        /\ w.handed_out_socket_count = p.handed_out_socket_count
        /\ w.idle_socket_count = 0 /\ w.connecting_socket_count = 0
    BY <1>p, <1>6, <1>9, PoolFields
  <2>3. Limited(p)
    BY DEF PoolInv, GroupsInv
  <2>4. ASSUME RespectLimitsValues = {"ENABLED"}, NEW g \in Groups
        PROVE  NumActiveSocketSlots(w, g) <= max_sockets_per_group
    <3>1. NumActiveSocketSlots(p, g) <= max_sockets_per_group
      BY <2>3, <2>4 DEF Limited
    <3> QED
      BY <2>1, <3>1, LimitsAssumption DEF NumActiveSocketSlots
  <2>5. ASSUME RespectLimitsValues = {"ENABLED"}
        PROVE  TotalSockets(w) <= max_sockets
    <3>1. TotalSockets(p) <= max_sockets
      BY <2>3, <2>5 DEF Limited
    <3> QED
      BY <2>2, <3>1, LimitsAssumption DEF TotalSockets
  <2> QED
    BY <2>4, <2>5 DEF Limited
<1>13. Owned(w, hd) /\ HeldBorn(w)
  <2>1. \A g \in Groups : HoldersOf(w, hd, g) = HoldersOf(p, hd, g)
    BY <1>6, <1>9 DEF HoldersOf
  <2>2. Owned(w, hd)
    BY <1>6, <1>9, <2>1 DEF PoolInv, HandlesInv, Owned
  <2>3. ASSUME NEW h \in Handles, w.socket[h] # NoSocket
        PROVE  w.socket[h].birth = w.pool_id[h] /\ w.pool_id[h] <= w.generation
    <3>1. p.socket[h].birth = p.pool_id[h] /\ p.pool_id[h] <= p.generation
      BY <1>6, <1>9, <2>3 DEF PoolInv, HandlesInv, HeldBorn
    <3>2. p.pool_id[h] \in Nat \cup {-1} /\ p.generation \in Nat
      BY <1>p, PoolFields
    <3>3. w.pool_id[h] = p.pool_id[h] /\ w.generation = p.generation + 1
          /\ w.socket[h] = p.socket[h]
      BY <1>6, <1>9
    <3> QED
      BY <3>1, <3>2, <3>3
  <2> QED
    BY <2>2, <2>3 DEF HeldBorn
<1>14. Queued(w.pending, hd) /\ Waiting(w, NoHandle)
  <2>1. \A g \in Groups : Len(w.pending[g]) = 0
    BY <1>6, EmptySeq DEF none
  <2> QED
    BY <2>1 DEF Queued, Waiting
<1>15. Results(w, hd, NoHandle)
  <2> SUFFICES ASSUME NEW h \in Handles
               PROVE  /\ w.pending_callback_map[h] # NoResult =>
                           /\ hd[h].group_name # NoGroup
                           /\ ~hd[h].is_initialized
                           /\ w.tasks[h] > 0
                      /\ w.pending_callback_map[h] = "OK" => w.socket[h] # NoSocket
                      /\ hd[h].is_initialized => w.socket[h] # NoSocket /\ hd[h].group_name # NoGroup
                      /\ w.socket[h] # NoSocket =>
                           hd[h].is_initialized \/ w.pending_callback_map[h] # NoResult
    BY DEF Results
  <2>1. Results(p, hd, NoHandle) /\ h # NoHandle
    BY HandlesAssumption DEF PoolInv, HandlesInv
  <2>2. p.tasks[h] \in Nat
    BY <1>p, PoolFields
  <2>3. CASE waiting(h)
    <3>1. PICK g \in Groups : PositionOf(p, g, h) # {}
      BY <1>9, <2>3 DEF waiting, PositionOf
    <3>2. PICK i \in 1 .. Len(p.pending[g]) : p.pending[g][i].handle = h
      BY <3>1 DEF PositionOf
    <3>3. hd[h] = WaitingIn(g) /\ p.socket[h] = NoSocket
      BY <2>1, <3>2 DEF PoolInv, HandlesInv, Queued, Waiting
    <3>4. hd[h].group_name # NoGroup /\ ~hd[h].is_initialized
      BY <3>3, GroupsAssumption DEF WaitingIn, NoGroup
    <3>5. w.pending_callback_map[h] = "ERR" /\ w.tasks[h] = p.tasks[h] + 1
      BY <1>6, <1>9, <2>3 DEF cb, ts
    <3>6. w.tasks[h] > 0
      BY <2>2, <3>5
    <3>7. w.pending_callback_map[h] # NoResult
      BY <3>5, NullsAssumption DEF CompletionResults
    <3> QED
      BY <1>6, <1>9, <3>3, <3>4, <3>5, <3>6, <3>7
  <2>4. CASE ~waiting(h)
    <3>1. w.pending_callback_map[h] = p.pending_callback_map[h] /\ w.tasks[h] = p.tasks[h]
      BY <1>6, <1>9, <2>4 DEF cb, ts
    <3> QED
      BY <1>6, <1>9, <2>1, <3>1 DEF Results
  <2> QED
    BY <2>3, <2>4
<1>16. PoolInv(w, hd, NoHandle)
  BY <1>7, <1>8, <1>10, <1>11, <1>12, <1>13, <1>14, <1>15 DEF PoolInv, GroupsInv, HandlesInv
<1> QED
  BY <1>16 DEF w

\* FlushWithError() preserves the invariant.
LEMMA FlushWithErrorStep ==
  ASSUME IInv, FlushWithError
  PROVE  IInv'
<1> DEFINE jobless == CancelAllConnectJobs([pool EXCEPT !.generation = @ + 1])
<1>1. PoolInv(pool, handle, NoHandle) /\ handle \in HandleType
  BY DEF IInv
<1>2. PICK q \in CleanupIdleSockets(jobless, TRUE) : pool' = CancelAllRequestsWithError(q, "ERR")
  BY DEF FlushWithError
<1>3. jobless \in PoolType /\ Flushed(pool, jobless, FALSE)
  BY <1>1, CancelAllConnectJobsFlushes
<1> HIDE DEF jobless
<1>4. q \in PoolType /\ Flushed(pool, q, TRUE)
  BY <1>1, <1>3, CleanupIdleSocketsFlushes
<1>5. PoolInv(pool', handle, NoHandle)
  BY <1>1, <1>2, <1>4, CancelAllRequestsWithErrorInv
<1>6. handle' = handle /\ preconnect' = preconnect
  BY DEF FlushWithError
<1> QED
  BY <1>1, <1>5, <1>6 DEF IInv, Quiet

-------------------------------------------------------------------------------
(* The theorems. *)

\* The invariant holds of an empty pool.
LEMMA InitInv == Init => IInv
<1> SUFFICES ASSUME Init
             PROVE  IInv
  OBVIOUS
<1> DEFINE zero == [g \in Groups |-> 0]
           none == [g \in Groups |-> <<>>]
<1>1. /\ handle \in HandleType
      /\ preconnect \in [group : Groups \cup {NoGroup}, num : 0 .. max_sockets_per_group,
                         left : -1 .. max_sockets_per_group]
      /\ Quiet
  BY LimitsAssumption DEF Init, HandleType, NoPreconnect, Quiet
<1>2. /\ pool.pending = none /\ pool.jobs = zero /\ pool.unassigned = zero
      /\ pool.idle = none /\ pool.active = zero
      /\ pool.backup_timer = [g \in Groups |-> FALSE]
      /\ pool.idle_socket_count = 0 /\ pool.connecting_socket_count = 0
      /\ pool.handed_out_socket_count = 0 /\ pool.generation = 0
      /\ pool.pending_callback_map = [h \in Handles |-> NoResult]
      /\ pool.socket = [h \in Handles |-> NoSocket]
  BY DEF Init
<1>3. pool \in PoolType
  <2>1. none \in [Groups -> Seq(Request)] /\ none \in [Groups -> Seq(Socket)]
    BY EmptySeq
  <2> HIDE DEF none
  <2> QED
    BY <2>1 DEF Init, PoolType, none
<1>4. \A g \in Groups : Len(pool.idle[g]) = 0 /\ Len(pool.pending[g]) = 0
  BY <1>2, EmptySeq
<1>5. Counted(pool)
  <2>1. IdleCounts(pool.idle) \in [Groups -> Nat] /\ \A g \in Groups : IdleCounts(pool.idle)[g] = 0
    BY <1>4 DEF IdleCounts
  <2>2. Total(IdleCounts(pool.idle)) = 0 /\ Total(zero) = 0
    BY <2>1, TotalZero
  <2> QED
    BY <1>2, <2>2 DEF Counted
<1>6. JobsTracked(pool) /\ Mapped(pool) /\ IdleBorn(pool)
  BY <1>2, <1>4 DEF JobsTracked, Mapped, IsEmpty, IdleBorn
<1>7. Limited(pool)
  <2>1. \A g \in Groups : NumActiveSocketSlots(pool, g) = 0
    BY <1>2, <1>4 DEF NumActiveSocketSlots
  <2>2. TotalSockets(pool) = 0
    BY <1>2 DEF TotalSockets
  <2> QED
    BY <2>1, <2>2, LimitsAssumption DEF Limited
<1>8. Owned(pool, handle)
  <2>1. \A g \in Groups : HoldersOf(pool, handle, g) = {}
    BY <1>2 DEF HoldersOf
  <2> QED
    BY <1>2, <2>1, FS_EmptySet DEF Owned
<1>9. HeldBorn(pool) /\ Queued(pool.pending, handle) /\ Waiting(pool, NoHandle)
  BY <1>2, <1>4 DEF HeldBorn, Queued, Waiting
<1>10. Results(pool, handle, NoHandle)
  <2>1. \A h \in Handles : /\ pool.pending_callback_map[h] = NoResult
                           /\ pool.socket[h] = NoSocket
                           /\ ~handle[h].is_initialized
    BY <1>2 DEF Init
  <2> QED
    BY <2>1, NullsAssumption DEF Results, CompletionResults
<1> QED
  BY <1>1, <1>3, <1>5, <1>6, <1>7, <1>8, <1>9, <1>10 DEF IInv, PoolInv, GroupsInv, HandlesInv

\* Every step preserves the invariant.
LEMMA NextInv == IInv /\ [Next]_vars => IInv'
<1> SUFFICES ASSUME IInv, [Next]_vars
             PROVE  IInv'
  OBVIOUS
<1>1. CASE UNCHANGED vars
  BY <1>1 DEF vars, IInv, Quiet
<1>2. ASSUME NEW h \in Handles, NEW g \in Groups, NEW priority \in Priority,
             NEW respect_limits \in RespectLimitsValues,
             RequestSocket(h, g, priority, respect_limits)
      PROVE  IInv'
  BY <1>2, RequestSocketStep
<1>3. ASSUME NEW g \in Groups, NEW num \in 1 .. max_sockets_per_group, RequestSockets(g, num)
      PROVE  IInv'
  BY <1>3, RequestSocketsStep
<1>4. ASSUME NEW h \in Handles, Reset(h)
      PROVE  IInv'
  BY <1>4, ResetStep
<1>5. ASSUME NEW h \in Handles, NEW priority \in Priority, SetPriority(h, priority)
      PROVE  IInv'
  BY <1>5, SetPriorityStep
<1>6. CASE RequestSocketsLoop
  BY <1>6, RequestSocketsLoopStep
<1>7. ASSUME NEW g \in Groups, NEW result \in CompletionResults, ConnectJobComplete(g, result)
      PROVE  IInv'
  BY <1>7, ConnectJobCompleteStep
<1>8. ASSUME NEW g \in Groups, OnBackupJobTimerFired(g)
      PROVE  IInv'
  BY <1>8, OnBackupJobTimerFiredStep
<1>9. ASSUME NEW h \in Handles, InvokeUserCallback(h)
      PROVE  IInv'
  BY <1>9, InvokeUserCallbackStep
<1>10. CASE FlushWithError
  BY <1>10, FlushWithErrorStep
<1>11. CASE CloseIdleSockets
  BY <1>11, CloseIdleSocketsStep
<1>12. ASSUME NEW g \in Groups, CloseIdleSocketsInGroup(g)
       PROVE  IInv'
  BY <1>12, CloseIdleSocketsInGroupStep
<1>13. CASE CloseOneIdleConnection
  BY <1>13, CloseOneIdleConnectionStep
<1> QED
  BY <1>1, <1>2, <1>3, <1>4, <1>5, <1>6, <1>7, <1>8, <1>9, <1>10, <1>11, <1>12, <1>13
  DEF Next, NewRequest, Service

\* IInv holds throughout: no sequence of calls, completions, timers, posted
\* tasks and flushes of ClientSocketPoolBaseHelper breaks it.
THEOREM Invariance == Spec => []IInv
BY InitInv, NextInv, PTL DEF Spec

\* The members keep their types, and no counter of the pool ever goes negative.
THEOREM TypeCorrect == Spec => []TypeOK
<1>1. IInv => TypeOK
  BY DEF IInv, PoolInv, TypeOK, HandleType
<1> QED
  BY <1>1, Invariance, PTL

\* idle_socket_count_, connecting_socket_count_, handed_out_socket_count_ and
\* active_socket_count_ count the sockets, jobs and handles there really are.
THEOREM CountersCorrect == Spec => []CountersAgree
<1>1. IInv => CountersAgree
  BY DEF IInv, PoolInv, GroupsInv, HandlesInv, Counted, Owned, HoldersOf, Holders, CountersAgree
<1> QED
  BY <1>1, Invariance, PTL

\* max_sockets_ and max_sockets_per_group_ are never exceeded, whatever their
\* values and however many groups and handles there are.
THEOREM LimitsKept == Spec => []SocketLimits
<1>1. IInv => SocketLimits
  BY DEF IInv, PoolInv, GroupsInv, Limited, SocketLimits
<1> QED
  BY <1>1, Invariance, PTL

\* A group with a socket, a job or a request is never removed from group_map_.
THEOREM GroupsMapped == Spec => []NonEmptyGroupsMapped
<1>1. IInv => NonEmptyGroupsMapped
  BY DEF IInv, PoolInv, GroupsInv, Mapped, NonEmptyGroupsMapped
<1> QED
  BY <1>1, Invariance, PTL

\* Every entry of pending_callback_map_ has its task, its waiting handle and,
\* after success, its socket; every socket handed out has its handle.
THEOREM ResultsAreDelivered == Spec => []ResultsDelivered
<1>1. IInv => ResultsDelivered
  <2> SUFFICES ASSUME IInv, NEW h \in Handles
               PROVE  /\ pool.pending_callback_map[h] # NoResult => IsPending(h) /\ pool.tasks[h] > 0
                      /\ pool.pending_callback_map[h] = "OK" => pool.socket[h] # NoSocket
                      /\ handle[h].is_initialized => pool.socket[h] # NoSocket
                      /\ pool.socket[h] # NoSocket =>
                           handle[h].is_initialized \/ pool.pending_callback_map[h] # NoResult
    BY DEF ResultsDelivered
  <2>1. Results(pool, handle, NoHandle) /\ h # NoHandle
    BY HandlesAssumption DEF IInv, PoolInv, HandlesInv
  <2> QED
    BY <2>1 DEF Results, IsPending
<1> QED
  BY <1>1, Invariance, PTL

\* A running backup timer always has a ConnectJob to back up.
THEOREM BackupTimerBacksUp == Spec => []BackupTimerHasJob
<1>1. IInv => BackupTimerHasJob
  BY DEF IInv, PoolInv, GroupsInv, JobsTracked, BackupTimerHasJob
<1> QED
  BY <1>1, Invariance, PTL

\* After FlushWithError() no socket of an earlier generation is ever idle.
THEOREM FlushIsFinal == Spec => []NoSocketSurvivesFlush
<1>1. IInv => NoSocketSurvivesFlush
  BY DEF IInv, PoolInv, GroupsInv, IdleBorn, NoSocketSurvivesFlush
<1> QED
  BY <1>1, Invariance, PTL

===============================================================================
