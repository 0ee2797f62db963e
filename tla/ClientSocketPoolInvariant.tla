----------------------- MODULE ClientSocketPoolInvariant -----------------------
(***************************************************************************)
(* The inductive invariant of ClientSocketPool, and what the elementary    *)
(* updates of the pool (hand out a socket, queue a request, count a job,   *)
(* close idle sockets) do to it, for any groups, handles and limits.       *)
(***************************************************************************)
EXTENDS ClientSocketPool, TLAPS, FiniteSetTheorems, SequenceTheorems, WellFoundedInduction

(***************************************************************************)
(* The inductive invariant.  It is stated of a pool p and of the handles'  *)
(* state hd, so that it can be followed through the operators that one     *)
(* action calls in turn.  x is the handle whose request is being served:   *)
(* it may already have its socket while its request is still queued.       *)
(***************************************************************************)

\* The counters count what the groups hold.
Counted(p) ==
  /\ p.idle_socket_count = Total(IdleCounts(p.idle))
  /\ p.connecting_socket_count = Total(p.jobs)
  /\ p.handed_out_socket_count = Total(p.active)

JobsTracked(p) ==
  \A g \in Groups : /\ p.unassigned[g] <= p.jobs[g]
                    /\ p.backup_timer[g] => p.jobs[g] > 0

Mapped(p) == \A g \in Groups : g \in p.group_map \/ IsEmpty(p, g)

IdleBorn(p) ==
  \A g \in Groups : \A i \in 1 .. Len(p.idle[g]) : p.idle[g][i].birth = p.generation

Limited(p) ==
  RespectLimitsValues = {"ENABLED"} =>
    /\ \A g \in Groups : NumActiveSocketSlots(p, g) <= max_sockets_per_group
    /\ TotalSockets(p) <= max_sockets

GroupsInv(p) == Counted(p) /\ JobsTracked(p) /\ Mapped(p) /\ IdleBorn(p) /\ Limited(p)

HoldersOf(p, hd, g) == {h \in Handles : p.socket[h] # NoSocket /\ hd[h].group_name = g}

Owned(p, hd) == \A g \in Groups : p.active[g] = Cardinality(HoldersOf(p, hd, g))

HeldBorn(p) ==
  \A h \in Handles : p.socket[h] # NoSocket =>
    p.socket[h].birth = p.pool_id[h] /\ p.pool_id[h] <= p.generation

\* A handle that waits for a socket of group g, or for none at all.
WaitingIn(g) == [is_initialized |-> FALSE, group_name |-> g]

Queued(pending, hd) ==
  \A g \in Groups : \A i \in 1 .. Len(pending[g]) :
    /\ pending[g][i].handle \in Handles
    /\ hd[pending[g][i].handle] = WaitingIn(g)
    /\ pending[g][i].respect_limits \in RespectLimitsValues
    /\ \A j \in 1 .. Len(pending[g]) :
         pending[g][i].handle = pending[g][j].handle => i = j

Waiting(p, x) ==
  \A g \in Groups : \A i \in 1 .. Len(p.pending[g]) :
    p.pending[g][i].handle # x =>
      /\ p.socket[p.pending[g][i].handle] = NoSocket
      /\ p.pending_callback_map[p.pending[g][i].handle] = NoResult

Results(p, hd, x) ==
  \A h \in Handles :
    /\ p.pending_callback_map[h] # NoResult =>
         /\ hd[h].group_name # NoGroup
         /\ ~hd[h].is_initialized
         /\ p.tasks[h] > 0
    /\ p.pending_callback_map[h] = "OK" => p.socket[h] # NoSocket
    /\ hd[h].is_initialized => p.socket[h] # NoSocket /\ hd[h].group_name # NoGroup
    /\ h # x /\ p.socket[h] # NoSocket =>
         hd[h].is_initialized \/ p.pending_callback_map[h] # NoResult

HandlesInv(p, hd, x) ==
  /\ Owned(p, hd)
  /\ HeldBorn(p)
  /\ Queued(p.pending, hd)
  /\ Waiting(p, x)
  /\ Results(p, hd, x)

HandleType == [Handles -> [is_initialized : BOOLEAN, group_name : Groups \cup {NoGroup}]]

PoolInv(p, hd, x) == p \in PoolType /\ GroupsInv(p) /\ HandlesInv(p, hd, x)

IInv ==
  /\ handle \in HandleType
  /\ preconnect \in [group : Groups \cup {NoGroup}, num : 0 .. max_sockets_per_group,
                     left : -1 .. max_sockets_per_group]
  /\ ~Quiet => preconnect.group \in Groups
  /\ PoolInv(pool, handle, NoHandle)

(* The total number of sockets, from the number of each group. *)

\* The slots of finitely many groups are finitely many, so Total is a number.
LEMMA SlotsFinite ==
  ASSUME NEW n \in [Groups -> Nat]
  PROVE  IsFiniteSet(Slots(n)) /\ Total(n) \in Nat
<1> DEFINE f == [g \in Groups |-> {g} \X (1 .. n[g])]
           R == {{g} \X (1 .. n[g]) : g \in Groups}
<1>1. f \in Surjection(Groups, R)
  BY DEF Surjection
<1>2. IsFiniteSet(R)
  BY <1>1, FS_Surjection, GroupsAssumption
<1>3. \A T \in R : IsFiniteSet(T)
  <2> TAKE T \in R
  <2>1. PICK g \in Groups : T = {g} \X (1 .. n[g])
    OBVIOUS
  <2>2. IsFiniteSet({g})
    BY FS_Singleton
  <2>3. n[g] \in Int /\ 1 \in Int
    OBVIOUS
  <2>4. IsFiniteSet(1 .. n[g])
    BY <2>3, FS_Interval
  <2> QED
    BY <2>1, <2>2, <2>4, FS_Product
<1>4. IsFiniteSet(UNION R)
  BY <1>2, <1>3, FS_UNION
<1>5. Slots(n) = UNION R
  BY DEF Slots
<1> QED
  BY <1>4, <1>5, FS_CardinalityType DEF Total

\* The slots of a group are numbered 1 to n[g].
LEMMA SlotsMember ==
  ASSUME NEW n \in [Groups -> Nat], NEW g \in Groups, NEW i
  PROVE  <<g, i>> \in Slots(n) <=> i \in 1 .. n[g]
BY DEF Slots

\* Incrementing one group's number increments the total, as when a socket is handed out.
LEMMA TotalInc ==
  ASSUME NEW n \in [Groups -> Nat], NEW g \in Groups
  PROVE  /\ Total([n EXCEPT ![g] = n[g] + 1]) = Total(n) + 1
         /\ [n EXCEPT ![g] = n[g] + 1] \in [Groups -> Nat]
<1> DEFINE m == [n EXCEPT ![g] = n[g] + 1]
<1>1. m \in [Groups -> Nat]
  OBVIOUS
<1>2. Slots(m) = Slots(n) \cup {<<g, n[g] + 1>>}
  BY DEF Slots
<1>3. <<g, n[g] + 1>> \notin Slots(n)
  BY SlotsMember
<1> QED
  BY <1>1, <1>2, <1>3, SlotsFinite, FS_AddElement DEF Total

\* Decrementing one group's positive number decrements the total, as in ReleaseSocket().
LEMMA TotalDec ==
  ASSUME NEW n \in [Groups -> Nat], NEW g \in Groups, n[g] > 0
  PROVE  /\ Total([n EXCEPT ![g] = n[g] - 1]) = Total(n) - 1
         /\ [n EXCEPT ![g] = n[g] - 1] \in [Groups -> Nat]
         /\ Total(n) > 0
<1> DEFINE m == [n EXCEPT ![g] = n[g] - 1]
<1>1. m \in [Groups -> Nat] /\ n = [m EXCEPT ![g] = m[g] + 1]
  <2>1. n[g] \in Nat /\ n[g] - 1 \in Nat
    OBVIOUS
  <2>2. m \in [Groups -> Nat] /\ m[g] + 1 = n[g]
    BY <2>1
  <2> QED
    BY <2>1, <2>2, Zenon
<1>2. Total(n) = Total(m) + 1
  BY <1>1, TotalInc
<1> QED
  BY <1>1, <1>2, SlotsFinite

\* The interval 1 .. n has n members.
LEMMA IntervalCardinality ==
  ASSUME NEW n \in Nat
  PROVE  IsFiniteSet(1 .. n) /\ Cardinality(1 .. n) = n
<1>1. n \in Int /\ 1 \in Int /\ n >= 0
  OBVIOUS
<1> QED
  BY <1>1, FS_Interval

\* The total is what the other groups hold plus what g holds.
LEMMA TotalSplit ==
  ASSUME NEW n \in [Groups -> Nat], NEW g \in Groups
  PROVE  Total(n) = Total([n EXCEPT ![g] = 0]) + n[g]
<1> DEFINE z == [n EXCEPT ![g] = 0]
           column == {g} \X (1 .. n[g])
<1>1. z \in [Groups -> Nat]
  OBVIOUS
<1>2. Slots(n) = Slots(z) \cup column
  BY DEF Slots
<1>3. Slots(z) \cap column = {}
  BY DEF Slots
<1>4. IsFiniteSet({g}) /\ Cardinality({g}) = 1
  BY FS_Singleton
<1>5. IsFiniteSet(1 .. n[g]) /\ Cardinality(1 .. n[g]) = n[g]
  <2>1. n[g] \in Nat
    OBVIOUS
  <2> QED
    BY <2>1, IntervalCardinality
<1>6. IsFiniteSet(column) /\ Cardinality(column) = n[g]
  <2>1. IsFiniteSet(column) /\ Cardinality(column) = 1 * n[g]
    BY <1>4, <1>5, FS_Product
  <2> QED
    BY <2>1
<1>7. IsFiniteSet(Slots(z)) /\ Cardinality(Slots(z)) \in Nat
  BY <1>1, SlotsFinite DEF Total
<1>8. Cardinality({}) = 0
  BY FS_EmptySet
<1>9. Cardinality(Slots(n)) = Cardinality(Slots(z)) + Cardinality(column) - 0
  <2> HIDE DEF z, column
  <2>1. Cardinality(Slots(z) \cup column)
          = Cardinality(Slots(z)) + Cardinality(column) - Cardinality(Slots(z) \cap column)
    BY <1>6, <1>7, FS_Union
  <2> QED
    BY <2>1, <1>2, <1>3, <1>8
<1> QED
  BY <1>6, <1>7, <1>9 DEF Total

\* Setting one group's number changes the total by the difference, as when all jobs go.
LEMMA TotalSet ==
  ASSUME NEW n \in [Groups -> Nat], NEW g \in Groups, NEW k \in Nat
  PROVE  Total([n EXCEPT ![g] = k]) = Total(n) - (n[g] - k)
<1> DEFINE m == [n EXCEPT ![g] = k]
           z == [n EXCEPT ![g] = 0]
<1>1. m \in [Groups -> Nat] /\ z \in [Groups -> Nat] /\ m[g] = k
  OBVIOUS
<1>2. [m EXCEPT ![g] = 0] = z
  OBVIOUS
<1>3. Total(m) = Total(z) + k
  BY <1>1, <1>2, TotalSplit
<1>4. Total(n) = Total(z) + n[g]
  BY TotalSplit
<1>5. Total(z) \in Nat /\ n[g] \in Nat
  BY <1>1, SlotsFinite
<1> QED
  BY <1>1, <1>3, <1>4, <1>5

\* The total of nothing but zeros is 0.
LEMMA TotalZero ==
  ASSUME NEW n \in [Groups -> Nat], \A g \in Groups : n[g] = 0
  PROVE  Total(n) = 0
<1>1. Slots(n) = {}
  BY DEF Slots
<1> QED
  BY <1>1, FS_EmptySet DEF Total

\* If the total is not 0, some group holds something (CloseOneIdleSocketExceptInGroup).
LEMMA TotalPositive ==
  ASSUME NEW n \in [Groups -> Nat], Total(n) # 0
  PROVE  \E g \in Groups : n[g] > 0
<1> SUFFICES ASSUME \A g \in Groups : ~(n[g] > 0)
             PROVE  FALSE
  OBVIOUS
<1>1. \A g \in Groups : n[g] = 0
  OBVIOUS
<1> QED
  BY <1>1, TotalZero

\* No group holds more than the total.
LEMMA TotalBound ==
  ASSUME NEW n \in [Groups -> Nat], NEW g \in Groups
  PROVE  n[g] <= Total(n)
<1>1. [n EXCEPT ![g] = 0] \in [Groups -> Nat]
  OBVIOUS
<1>2. Total([n EXCEPT ![g] = 0]) \in Nat /\ n[g] \in Nat
  BY <1>1, SlotsFinite
<1>3. Total(n) = Total([n EXCEPT ![g] = 0]) + n[g]
  BY TotalSplit
<1> QED
  BY <1>2, <1>3

\* A non-empty set of naturals has a least member; IdleSocketToReuse chooses by it.
LEMMA LeastNatural ==
  ASSUME NEW T \in SUBSET Nat, T # {}
  PROVE  \E x \in T : \A y \in T : x <= y
<1> DEFINE R == {ss \in Nat \X Nat : ss[1] < ss[2]}
<1>1. IsWellFoundedOn(R, Nat)
  BY NatLessThanWellFounded DEF OpToRel
<1>2. PICK x \in T : \A y \in T : ~(<<y, x>> \in R)
  <2> HIDE DEF R
  <2> QED
    BY <1>1, WFMin
<1>3. \A y \in T : x <= y
  <2> TAKE y \in T
  <2>1. x \in Nat /\ y \in Nat
    OBVIOUS
  <2>2. y < x => <<y, x>> \in R
    BY <2>1
  <2>3. ~(y < x)
    BY <1>2, <2>2
  <2> QED
    BY <2>1, <2>3
<1> QED
  BY <1>3

(* Sequences. *)

\* RemoveAt drops the i-th element and keeps the order (PriorityQueue::Erase).
LEMMA RemoveAtProperties ==
  ASSUME NEW S, NEW s \in Seq(S), NEW i \in 1 .. Len(s)
  PROVE  /\ RemoveAt(s, i) \in Seq(S)
         /\ Len(RemoveAt(s, i)) = Len(s) - 1
         /\ \A j \in 1 .. Len(s) - 1 :
              RemoveAt(s, i)[j] = s[IF j < i THEN j ELSE j + 1]
<1> DEFINE a == SubSeq(s, 1, i - 1)
           b == SubSeq(s, i + 1, Len(s))
<1>0. Len(s) \in Nat /\ i \in Nat /\ \A j \in 1 .. Len(s) : s[j] \in S
  BY ElementOfSeq
<1>1. a \in Seq(S) /\ Len(a) = i - 1 /\ \A j \in 1 .. i - 1 : a[j] = s[j]
  BY <1>0
<1>2. b \in Seq(S) /\ Len(b) = Len(s) - i /\ \A j \in 1 .. Len(s) - i : b[j] = s[i + j]
  BY <1>0
<1> HIDE DEF a, b
<1>3. a \o b \in Seq(S) /\ Len(a \o b) = Len(s) - 1
  <2>1. a \o b \in Seq(S) /\ Len(a \o b) = Len(a) + Len(b)
    BY <1>1, <1>2, ConcatProperties
  <2> QED
    BY <2>1, <1>0, <1>1, <1>2
<1>4. \A j \in 1 .. Len(s) - 1 : (a \o b)[j] = IF j <= i - 1 THEN a[j] ELSE b[j - (i - 1)]
  <2>1. \A j \in 1 .. Len(a) + Len(b) :
          (a \o b)[j] = IF j <= Len(a) THEN a[j] ELSE b[j - Len(a)]
    BY <1>1, <1>2, ConcatProperties
  <2>2. Len(a) + Len(b) = Len(s) - 1
    BY <1>0, <1>1, <1>2
  <2> QED
    BY <2>1, <2>2, <1>1
<1>5. \A j \in 1 .. Len(s) - 1 : (a \o b)[j] = s[IF j < i THEN j ELSE j + 1]
  <2> TAKE j \in 1 .. Len(s) - 1
  <2>1. CASE j < i
    BY <2>1, <1>0, <1>1, <1>4
  <2>2. CASE ~(j < i)
    <3>1. j - (i - 1) \in 1 .. Len(s) - i /\ i + (j - (i - 1)) = j + 1
      BY <2>2, <1>0
    <3>2. b[j - (i - 1)] = s[i + (j - (i - 1))]
      BY <3>1, <1>2
    <3>3. (a \o b)[j] = b[j - (i - 1)]
      <4>1. ~(j <= i - 1)
        BY <2>2, <1>0
      <4> QED
        BY <4>1, <1>4
    <3> QED
      BY <2>2, <3>1, <3>2, <3>3
  <2> QED
    BY <2>1, <2>2
<1> QED
  BY <1>3, <1>5 DEF RemoveAt, a, b

\* InsertAt adds an element at place i and keeps the order (PriorityQueue::Insert).
LEMMA InsertAtProperties ==
  ASSUME NEW S, NEW s \in Seq(S), NEW i \in 1 .. Len(s) + 1, NEW e \in S
  PROVE  /\ InsertAt(s, i, e) \in Seq(S)
         /\ Len(InsertAt(s, i, e)) = Len(s) + 1
         /\ \A j \in 1 .. Len(s) + 1 :
              InsertAt(s, i, e)[j] = IF j < i THEN s[j]
                                     ELSE IF j = i THEN e ELSE s[j - 1]
<1> DEFINE a == SubSeq(s, 1, i - 1)
           b == SubSeq(s, i, Len(s))
           c == a \o <<e>>
<1>0. Len(s) \in Nat /\ i \in Nat /\ \A j \in 1 .. Len(s) : s[j] \in S
  BY ElementOfSeq
<1>1. a \in Seq(S) /\ Len(a) = i - 1 /\ \A j \in 1 .. i - 1 : a[j] = s[j]
  BY <1>0
<1>2. b \in Seq(S) /\ Len(b) = Len(s) - i + 1 /\ \A j \in 1 .. Len(s) - i + 1 : b[j] = s[i + j - 1]
  BY <1>0
<1> HIDE DEF a, b
<1>3. c \in Seq(S) /\ Len(c) = i /\ c[i] = e /\ \A j \in 1 .. i - 1 : c[j] = s[j]
  BY <1>0, <1>1
<1> HIDE DEF c
<1>4. c \o b \in Seq(S) /\ Len(c \o b) = Len(s) + 1
  BY <1>0, <1>2, <1>3
<1>5. \A j \in 1 .. Len(s) + 1 : (c \o b)[j] = IF j <= i THEN c[j] ELSE b[j - i]
  BY <1>0, <1>2, <1>3
<1>6. \A j \in 1 .. Len(s) + 1 :
        (c \o b)[j] = IF j < i THEN s[j] ELSE IF j = i THEN e ELSE s[j - 1]
  <2> TAKE j \in 1 .. Len(s) + 1
  <2>1. CASE j <= i
    BY <2>1, <1>0, <1>3, <1>5
  <2>2. CASE ~(j <= i)
    <3>1. j - i \in 1 .. Len(s) - i + 1 /\ i + (j - i) - 1 = j - 1
      BY <2>2, <1>0
    <3>2. b[j - i] = s[i + (j - i) - 1]
      BY <3>1, <1>2
    <3>3. (c \o b)[j] = b[j - i]
      BY <2>2, <1>5
    <3>4. j # i /\ ~(j < i)
      BY <2>2, <1>0
    <3> QED
      BY <3>1, <3>2, <3>3, <3>4
  <2> QED
    BY <2>1, <2>2
<1> QED
  BY <1>4, <1>6 DEF InsertAt, a, b, c

\* A list that has lost its unusable sockets holds only sockets it held before.
LEMMA SurvivorsProperties ==
  ASSUME NEW S, NEW s \in Seq(S), NEW t \in Survivors(s)
  PROVE  /\ t \in Seq(S)
         /\ Len(t) <= Len(s)
         /\ \A i \in 1 .. Len(t) : \E j \in 1 .. Len(s) : t[i] = s[j]
<1>1. PICK n \in 0 .. Len(s) : t \in [1 .. n -> ToSet(s)]
  BY DEF Survivors
<1>2. ToSet(s) = {s[j] : j \in 1 .. Len(s)}
  BY DEF ToSet
<1>3. n \in Nat /\ t \in [1 .. n -> S]
  BY <1>1, <1>2
<1>4. t \in Seq(S) /\ Len(t) = n
  BY <1>3
<1> QED
  BY <1>1, <1>2, <1>4

-------------------------------------------------------------------------------
(* The elementary updates of the pool. *)

\* A slot for one more socket of group g.
Room(p, g) ==
  RespectLimitsValues = {"ENABLED"} =>
    HasAvailableSocketSlot(p, g) /\ ~ReachedMaxSocketsLimit(p)

\* The type of each field of the pool.
LEMMA PoolFields ==
  ASSUME NEW p \in PoolType
  PROVE  /\ p.group_map \subseteq Groups
         /\ p.pending \in [Groups -> Seq(Request)]
         /\ p.jobs \in [Groups -> Nat]
         /\ p.unassigned \in [Groups -> Nat]
         /\ p.idle \in [Groups -> Seq(Socket)]
         /\ p.active \in [Groups -> Nat]
         /\ p.backup_timer \in [Groups -> BOOLEAN]
         /\ p.idle_socket_count \in Nat
         /\ p.connecting_socket_count \in Nat
         /\ p.handed_out_socket_count \in Nat
         /\ p.generation \in Nat
         /\ p.pending_callback_map \in [Handles -> CompletionResults \cup {NoResult}]
         /\ p.socket \in [Handles -> Socket \cup {NoSocket}]
         /\ p.pool_id \in [Handles -> Nat \cup {-1}]
         /\ p.tasks \in [Handles -> Nat]
BY DEF PoolType

\* The derived counts of a pool are natural numbers.
LEMMA PoolCounts ==
  ASSUME NEW p \in PoolType
  PROVE  /\ \A g \in Groups : Len(p.idle[g]) \in Nat /\ Len(p.pending[g]) \in Nat
         /\ \A g \in Groups : NumActiveSocketSlots(p, g) \in Nat
         /\ TotalSockets(p) \in Nat
         /\ IdleCounts(p.idle) \in [Groups -> Nat]
<1>1. \A g \in Groups : Len(p.idle[g]) \in Nat
  <2> TAKE g \in Groups
  <2>1. p.idle[g] \in Seq(Socket)
    BY PoolFields
  <2> QED
    BY <2>1, LenProperties
<1>2. \A g \in Groups : Len(p.pending[g]) \in Nat
  <2> TAKE g \in Groups
  <2>1. p.pending[g] \in Seq(Request)
    BY PoolFields
  <2> QED
    BY <2>1, LenProperties
<1>3. \A g \in Groups : p.active[g] \in Nat /\ p.jobs[g] \in Nat
  BY PoolFields
<1>4. \A g \in Groups : NumActiveSocketSlots(p, g) \in Nat
  BY <1>1, <1>3 DEF NumActiveSocketSlots
<1>5. TotalSockets(p) \in Nat
  BY PoolFields DEF TotalSockets
<1>6. IdleCounts(p.idle) \in [Groups -> Nat]
  BY <1>1 DEF IdleCounts
<1> QED
  BY <1>1, <1>2, <1>4, <1>5, <1>6

\* q differs from p at most in group g, and the counters moved with it.
OnlyGroup(p, q, g) ==
  /\ \A k \in Groups \ {g} :
       /\ q.pending[k] = p.pending[k]
       /\ q.jobs[k] = p.jobs[k]
       /\ q.unassigned[k] = p.unassigned[k]
       /\ q.idle[k] = p.idle[k]
       /\ q.active[k] = p.active[k]
       /\ q.backup_timer[k] = p.backup_timer[k]
  /\ q.idle_socket_count = p.idle_socket_count - (Len(p.idle[g]) - Len(q.idle[g]))
  /\ q.connecting_socket_count = p.connecting_socket_count - (p.jobs[g] - q.jobs[g])
  /\ q.handed_out_socket_count = p.handed_out_socket_count - (p.active[g] - q.active[g])
  /\ q.group_map = p.group_map
  /\ q.generation = p.generation

\* If one group changes and the counters follow it, the counters stay right and the
\* number of sockets changes by that group's slots.
LEMMA OnlyGroupTotals ==
  ASSUME NEW p \in PoolType, NEW q \in PoolType, NEW g \in Groups,
         OnlyGroup(p, q, g), Counted(p)
  PROVE  /\ Counted(q)
         /\ TotalSockets(q) = TotalSockets(p)
              + NumActiveSocketSlots(q, g) - NumActiveSocketSlots(p, g)
<1>1. q.jobs = [p.jobs EXCEPT ![g] = q.jobs[g]] /\ q.jobs[g] \in Nat /\ p.jobs[g] \in Nat
  BY PoolFields DEF OnlyGroup
<1>2. q.active = [p.active EXCEPT ![g] = q.active[g]] /\ q.active[g] \in Nat /\ p.active[g] \in Nat
  BY PoolFields DEF OnlyGroup
<1>3. /\ IdleCounts(q.idle) = [IdleCounts(p.idle) EXCEPT ![g] = Len(q.idle[g])]
      /\ IdleCounts(p.idle)[g] = Len(p.idle[g])
  BY DEF OnlyGroup, IdleCounts
<1>4. Len(q.idle[g]) \in Nat /\ Len(p.idle[g]) \in Nat /\ IdleCounts(p.idle) \in [Groups -> Nat]
  BY PoolCounts
<1>5. Total(q.jobs) = Total(p.jobs) - (p.jobs[g] - q.jobs[g])
  <2>1. p.jobs \in [Groups -> Nat]
    BY PoolFields
  <2> QED
    BY <2>1, <1>1, TotalSet
<1>6. Total(q.active) = Total(p.active) - (p.active[g] - q.active[g])
  <2>1. p.active \in [Groups -> Nat]
    BY PoolFields
  <2> QED
    BY <2>1, <1>2, TotalSet
<1>7. Total(IdleCounts(q.idle)) = Total(IdleCounts(p.idle)) - (Len(p.idle[g]) - Len(q.idle[g]))
  <2> DEFINE n == IdleCounts(p.idle)
             k == Len(q.idle[g])
  <2>1. n \in [Groups -> Nat] /\ k \in Nat
    BY <1>4
  <2> HIDE DEF n, k
  <2>2. Total([n EXCEPT ![g] = k]) = Total(n) - (n[g] - k)
    BY <2>1, TotalSet
  <2> QED
    BY <2>2, <1>3 DEF n, k
<1>8. Counted(q)
  BY <1>5, <1>6, <1>7 DEF Counted, OnlyGroup
<1>9. /\ p.idle_socket_count \in Nat /\ p.connecting_socket_count \in Nat
      /\ p.handed_out_socket_count \in Nat
  BY PoolFields
<1>10. /\ q.idle_socket_count = p.idle_socket_count - (Len(p.idle[g]) - Len(q.idle[g]))
       /\ q.connecting_socket_count = p.connecting_socket_count - (p.jobs[g] - q.jobs[g])
       /\ q.handed_out_socket_count = p.handed_out_socket_count - (p.active[g] - q.active[g])
  BY DEF OnlyGroup
<1>11. TotalSockets(q) = TotalSockets(p) + NumActiveSocketSlots(q, g) - NumActiveSocketSlots(p, g)
  <2>1. /\ p.active[g] \in Int /\ p.jobs[g] \in Int /\ Len(p.idle[g]) \in Int
        /\ q.active[g] \in Int /\ q.jobs[g] \in Int /\ Len(q.idle[g]) \in Int
    BY <1>1, <1>2, <1>4
  <2> DEFINE pa == p.active[g]  pj == p.jobs[g]  pi == Len(p.idle[g])
             qa == q.active[g]  qj == q.jobs[g]  qi == Len(q.idle[g])
             ho == p.handed_out_socket_count
             co == p.connecting_socket_count
             id == p.idle_socket_count
  <2>2. /\ TotalSockets(q) = (ho - (pa - qa)) + (co - (pj - qj)) + (id - (pi - qi))
        /\ TotalSockets(p) = ho + co + id
        /\ NumActiveSocketSlots(p, g) = pa + pj + pi
        /\ NumActiveSocketSlots(q, g) = qa + qj + qi
    BY <1>10 DEF TotalSockets, NumActiveSocketSlots
  <2>3. /\ pa \in Int /\ pj \in Int /\ pi \in Int /\ qa \in Int /\ qj \in Int /\ qi \in Int
        /\ ho \in Int /\ co \in Int /\ id \in Int
    BY <2>1, <1>9
  <2> HIDE DEF pa, pj, pi, qa, qj, qi, ho, co, id
  <2> QED
    BY <2>2, <2>3
<1> QED
  BY <1>8, <1>11

\* If one group changes within its limits, the invariant on groups is kept.
LEMMA OnlyGroupInv ==
  ASSUME NEW p \in PoolType, NEW q \in PoolType, NEW g \in Groups,
         OnlyGroup(p, q, g), GroupsInv(p), g \in p.group_map,
         q.unassigned[g] <= q.jobs[g],
         q.backup_timer[g] => q.jobs[g] > 0,
         \A i \in 1 .. Len(q.idle[g]) : q.idle[g][i].birth = p.generation,
         \/ NumActiveSocketSlots(q, g) <= NumActiveSocketSlots(p, g)
         \/ Room(p, g) /\ NumActiveSocketSlots(q, g) <= NumActiveSocketSlots(p, g) + 1
  PROVE  GroupsInv(q)
<1>1. /\ Counted(q)
      /\ TotalSockets(q) = TotalSockets(p)
              + NumActiveSocketSlots(q, g) - NumActiveSocketSlots(p, g)
  BY OnlyGroupTotals DEF GroupsInv
<1>2. JobsTracked(q)
  BY DEF GroupsInv, JobsTracked, OnlyGroup
<1>3. Mapped(q)
  BY DEF GroupsInv, Mapped, IsEmpty, OnlyGroup
<1>4. IdleBorn(q)
  BY DEF GroupsInv, IdleBorn, OnlyGroup
<1>5. \A k \in Groups \ {g} : NumActiveSocketSlots(q, k) = NumActiveSocketSlots(p, k)
  BY DEF NumActiveSocketSlots, OnlyGroup
<1>6. /\ \A k \in Groups : NumActiveSocketSlots(p, k) \in Nat /\ NumActiveSocketSlots(q, k) \in Nat
      /\ TotalSockets(p) \in Nat
  BY PoolCounts
<1>7. Limited(q)
  <2> SUFFICES ASSUME RespectLimitsValues = {"ENABLED"}
               PROVE  /\ \A k \in Groups : NumActiveSocketSlots(q, k) <= max_sockets_per_group
                      /\ TotalSockets(q) <= max_sockets
    BY DEF Limited
  <2>1. /\ \A k \in Groups : NumActiveSocketSlots(p, k) <= max_sockets_per_group
        /\ TotalSockets(p) <= max_sockets
    BY DEF GroupsInv, Limited
  <2>2. Room(p, g) => /\ NumActiveSocketSlots(p, g) < max_sockets_per_group
                      /\ TotalSockets(p) < max_sockets
    BY <1>6, LimitsAssumption DEF Room, HasAvailableSocketSlot, ReachedMaxSocketsLimit
  <2>3. NumActiveSocketSlots(q, g) <= max_sockets_per_group
    BY <2>1, <2>2, <1>6, LimitsAssumption
  <2>4. TotalSockets(q) <= max_sockets
    BY <2>1, <2>2, <1>1, <1>6, LimitsAssumption
  <2> QED
    BY <2>1, <2>3, <2>4, <1>5
<1> QED
  BY <1>1, <1>2, <1>3, <1>4, <1>7 DEF GroupsInv

\* What the handles see of a pool.
SameHandles(p, q) ==
  /\ q.active = p.active
  /\ q.pending = p.pending
  /\ q.socket = p.socket
  /\ q.pool_id = p.pool_id
  /\ q.pending_callback_map = p.pending_callback_map
  /\ q.tasks = p.tasks
  /\ q.generation = p.generation

\* The invariant on handles only depends on the fields that SameHandles compares.
LEMMA SameHandlesInv ==
  ASSUME NEW p, NEW q, NEW hd, NEW x, SameHandles(p, q), HandlesInv(p, hd, x)
  PROVE  HandlesInv(q, hd, x)
<1>1. Owned(q, hd)
  BY DEF SameHandles, HandlesInv, Owned, HoldersOf
<1>2. HeldBorn(q)
  BY DEF SameHandles, HandlesInv, HeldBorn
<1>3. Queued(q.pending, hd)
  BY DEF SameHandles, HandlesInv
<1>4. Waiting(q, x)
  BY DEF SameHandles, HandlesInv, Waiting
<1>5. Results(q, hd, x)
  BY DEF SameHandles, HandlesInv, Results
<1> QED
  BY <1>1, <1>2, <1>3, <1>4, <1>5 DEF HandlesInv

\* A group that has given up a socket has room for one, and so has the pool.
LEMMA RoomAfterShrink ==
  ASSUME NEW p \in PoolType, NEW q \in PoolType, NEW g \in Groups,
         OnlyGroup(p, q, g), GroupsInv(p),
         NumActiveSocketSlots(q, g) < NumActiveSocketSlots(p, g)
  PROVE  Room(q, g)
<1> SUFFICES ASSUME RespectLimitsValues = {"ENABLED"}
             PROVE  HasAvailableSocketSlot(q, g) /\ ~ReachedMaxSocketsLimit(q)
  BY DEF Room
<1>1. TotalSockets(q) = TotalSockets(p) + NumActiveSocketSlots(q, g) - NumActiveSocketSlots(p, g)
  BY OnlyGroupTotals DEF GroupsInv
<1>2. NumActiveSocketSlots(p, g) <= max_sockets_per_group /\ TotalSockets(p) <= max_sockets
  BY DEF GroupsInv, Limited
<1>3. /\ NumActiveSocketSlots(p, g) \in Nat /\ NumActiveSocketSlots(q, g) \in Nat
      /\ TotalSockets(p) \in Nat
  BY PoolCounts
<1>4. NumActiveSocketSlots(q, g) < max_sockets_per_group
  BY <1>2, <1>3, LimitsAssumption
<1>5. TotalSockets(q) < max_sockets
  BY <1>1, <1>2, <1>3, LimitsAssumption
<1>6. TotalSockets(q) \in Nat
  BY PoolCounts
<1> QED
  BY <1>4, <1>5, <1>6, LimitsAssumption DEF HasAvailableSocketSlot, ReachedMaxSocketsLimit

\* group_map_ may lose empty groups and gain any.
LEMMA GroupMapInv ==
  ASSUME NEW p, NEW hd, NEW x, NEW M \in SUBSET Groups, PoolInv(p, hd, x),
         \A k \in Groups : k \in M \/ IsEmpty(p, k)
  PROVE  PoolInv([p EXCEPT !.group_map = M], hd, x)
<1> DEFINE q == [p EXCEPT !.group_map = M]
<1>p. p \in PoolType
  BY DEF PoolInv
<1>1. q \in PoolType
  BY <1>p DEF PoolType
<1>2. /\ q.group_map = M
      /\ q.pending = p.pending
      /\ q.jobs = p.jobs
      /\ q.unassigned = p.unassigned
      /\ q.idle = p.idle
      /\ q.active = p.active
      /\ q.backup_timer = p.backup_timer
      /\ q.idle_socket_count = p.idle_socket_count
      /\ q.connecting_socket_count = p.connecting_socket_count
      /\ q.handed_out_socket_count = p.handed_out_socket_count
      /\ q.generation = p.generation
      /\ SameHandles(p, q)
  BY <1>p DEF PoolType, SameHandles
<1> HIDE DEF q
<1>3. Counted(q)
  BY <1>2 DEF PoolInv, GroupsInv, Counted
<1>4. JobsTracked(q)
  BY <1>2 DEF PoolInv, GroupsInv, JobsTracked
<1>5. Mapped(q)
  BY <1>2 DEF Mapped, IsEmpty
<1>6. IdleBorn(q)
  BY <1>2 DEF PoolInv, GroupsInv, IdleBorn
<1>7. Limited(q)
  BY <1>2 DEF PoolInv, GroupsInv, Limited, NumActiveSocketSlots, TotalSockets
<1>8. HandlesInv(q, hd, x)
  BY <1>2, SameHandlesInv DEF PoolInv
<1> QED
  BY <1>1, <1>3, <1>4, <1>5, <1>6, <1>7, <1>8 DEF PoolInv, GroupsInv, q

\* GetOrCreateGroup(), RemoveGroup() of an empty group and the removal of all empty
\* groups keep the invariant.
LEMMA GroupMapOperatorsInv ==
  ASSUME NEW p, NEW hd, NEW x, NEW g \in Groups, PoolInv(p, hd, x)
  PROVE  /\ PoolInv(GetOrCreateGroup(p, g), hd, x)
         /\ PoolInv(RemoveGroupIfEmpty(p, g), hd, x)
         /\ PoolInv(RemoveEmptyGroups(p), hd, x)
<1>1. p.group_map \subseteq Groups
  BY PoolFields DEF PoolInv
<1>2. \A k \in Groups : k \in p.group_map \/ IsEmpty(p, k)
  BY DEF PoolInv, GroupsInv, Mapped
<1>3. PoolInv(GetOrCreateGroup(p, g), hd, x)
  BY <1>1, <1>2, GroupMapInv DEF GetOrCreateGroup
<1>4. PoolInv(RemoveGroupIfEmpty(p, g), hd, x)
  <2>1. CASE IsEmpty(p, g)
    BY <1>1, <1>2, <2>1, GroupMapInv DEF RemoveGroupIfEmpty
  <2> QED
    BY <2>1 DEF RemoveGroupIfEmpty
<1>5. PoolInv(RemoveEmptyGroups(p), hd, x)
  BY <1>1, <1>2, GroupMapInv DEF RemoveEmptyGroups
<1> QED
  BY <1>3, <1>4, <1>5

\* The idle list of group g is cut to t.
CutIdle(p, g, t) ==
  [p EXCEPT !.idle[g] = t, !.idle_socket_count = @ - (Len(p.idle[g]) - Len(t))]

CutFits(s, t) ==
  /\ t \in Seq(Socket)
  /\ Len(t) <= Len(s)
  /\ \A i \in 1 .. Len(t) : \E j \in 1 .. Len(s) : t[i] = s[j]

\* Closing idle sockets of one group keeps the invariant and makes room.
LEMMA CutIdleInv ==
  ASSUME NEW p, NEW hd, NEW x, NEW g \in Groups, NEW t,
         PoolInv(p, hd, x), g \in p.group_map, CutFits(p.idle[g], t)
  PROVE  /\ PoolInv(CutIdle(p, g, t), hd, x)
         /\ SameHandles(p, CutIdle(p, g, t))
         /\ CutIdle(p, g, t).group_map = p.group_map
         /\ Len(t) < Len(p.idle[g]) => Room(CutIdle(p, g, t), g)
<1> DEFINE q == CutIdle(p, g, t)
<1>f. /\ t \in Seq(Socket)
      /\ Len(t) <= Len(p.idle[g])
      /\ \A i \in 1 .. Len(t) : \E j \in 1 .. Len(p.idle[g]) : t[i] = p.idle[g][j]
  BY DEF CutFits
<1> USE <1>f
<1>p. p \in PoolType
  BY DEF PoolInv
<1>t. p.idle \in [Groups -> Seq(Socket)] /\ p.idle_socket_count \in Nat
  BY <1>p, PoolFields
<1>l. Len(p.idle[g]) \in Nat /\ Len(t) \in Nat /\ Len(p.idle[g]) <= p.idle_socket_count
  <2>1. IdleCounts(p.idle) \in [Groups -> Nat] /\ Len(p.idle[g]) \in Nat
    BY <1>p, PoolCounts
  <2>2. IdleCounts(p.idle)[g] <= Total(IdleCounts(p.idle))
    BY <2>1, TotalBound
  <2> QED
    BY <2>1, <2>2, LenProperties DEF PoolInv, GroupsInv, Counted, IdleCounts
<1>1. q \in PoolType
  <2>1. [p.idle EXCEPT ![g] = t] \in [Groups -> Seq(Socket)]
    BY <1>t
  <2>2. p.idle_socket_count - (Len(p.idle[g]) - Len(t)) \in Nat
    BY <1>t, <1>l
  <2> QED
    BY <1>p, <2>1, <2>2 DEF PoolType, CutIdle
<1>2. /\ q.group_map = p.group_map
      /\ q.pending = p.pending
      /\ q.jobs = p.jobs
      /\ q.unassigned = p.unassigned
      /\ q.idle = [p.idle EXCEPT ![g] = t]
      /\ q.active = p.active
      /\ q.backup_timer = p.backup_timer
      /\ q.idle_socket_count = p.idle_socket_count - (Len(p.idle[g]) - Len(t))
      /\ q.connecting_socket_count = p.connecting_socket_count
      /\ q.handed_out_socket_count = p.handed_out_socket_count
      /\ q.generation = p.generation
      /\ SameHandles(p, q)
  BY <1>p DEF PoolType, SameHandles, CutIdle
<1> HIDE DEF q
<1>3. /\ p.jobs[g] \in Nat /\ p.active[g] \in Nat
      /\ p.connecting_socket_count \in Nat /\ p.handed_out_socket_count \in Nat
  BY <1>p, PoolFields
<1>4. q.idle[g] = t
  BY <1>2, <1>t
<1>5. OnlyGroup(p, q, g)
  <2>1. \A k \in Groups \ {g} : q.idle[k] = p.idle[k]
    BY <1>2, <1>t
  <2>2. /\ p.connecting_socket_count = p.connecting_socket_count - (p.jobs[g] - p.jobs[g])
        /\ p.handed_out_socket_count = p.handed_out_socket_count - (p.active[g] - p.active[g])
    BY <1>3
  <2> QED
    BY <2>1, <2>2, <1>2, <1>4 DEF OnlyGroup
<1>6. /\ NumActiveSocketSlots(q, g) = q.active[g] + q.jobs[g] + Len(t)
      /\ NumActiveSocketSlots(p, g) = q.active[g] + q.jobs[g] + Len(p.idle[g])
  BY <1>2, <1>4 DEF NumActiveSocketSlots
<1>7. /\ NumActiveSocketSlots(q, g) <= NumActiveSocketSlots(p, g)
      /\ Len(t) < Len(p.idle[g]) => NumActiveSocketSlots(q, g) < NumActiveSocketSlots(p, g)
  BY <1>2, <1>3, <1>6, <1>l
<1>8. \A i \in 1 .. Len(q.idle[g]) : q.idle[g][i].birth = p.generation
  BY <1>4 DEF PoolInv, GroupsInv, IdleBorn
<1>9. q.unassigned[g] <= q.jobs[g] /\ (q.backup_timer[g] => q.jobs[g] > 0)
  BY <1>2 DEF PoolInv, GroupsInv, JobsTracked
<1>10. GroupsInv(q)
  BY <1>p, <1>1, <1>5, <1>7, <1>8, <1>9, OnlyGroupInv DEF PoolInv
<1>11. HandlesInv(q, hd, x)
  BY <1>2, SameHandlesInv DEF PoolInv
<1>12. Len(t) < Len(p.idle[g]) => Room(q, g)
  BY <1>p, <1>1, <1>5, <1>7, RoomAfterShrink DEF PoolInv
<1> QED
  BY <1>1, <1>2, <1>10, <1>11, <1>12 DEF PoolInv, q

\* Closing idle sockets of one group leaves the rest of the pool alone.
LEMMA CutIdleFields ==
  ASSUME NEW p \in PoolType, NEW g \in Groups, NEW t
  PROVE  /\ CutIdle(p, g, t).unassigned = p.unassigned
         /\ CutIdle(p, g, t).jobs = p.jobs
         /\ \A k \in Groups \ {g} : CutIdle(p, g, t).idle[k] = p.idle[k]
BY PoolFields DEF CutIdle, PoolType

\* AddIdleSocket() keeps the invariant where there is room, for a socket of this
\* generation.
LEMMA AddIdleSocketInv ==
  ASSUME NEW p, NEW hd, NEW x, NEW g \in Groups, NEW s \in Socket,
         PoolInv(p, hd, x), g \in p.group_map, Room(p, g), s.birth = p.generation
  PROVE  /\ PoolInv(AddIdleSocket(p, g, s), hd, x)
         /\ SameHandles(p, AddIdleSocket(p, g, s))
         /\ AddIdleSocket(p, g, s).group_map = p.group_map
<1> DEFINE q == AddIdleSocket(p, g, s)
           t == Append(p.idle[g], s)
<1>p. p \in PoolType
  BY DEF PoolInv
<1>t. p.idle \in [Groups -> Seq(Socket)] /\ p.idle_socket_count \in Nat
  BY <1>p, PoolFields
<1>l. /\ t \in Seq(Socket) /\ Len(t) = Len(p.idle[g]) + 1 /\ Len(p.idle[g]) \in Nat
      /\ \A i \in 1 .. Len(p.idle[g]) : t[i] = p.idle[g][i]
      /\ t[Len(p.idle[g]) + 1] = s
  BY <1>t, AppendProperties, LenProperties
<1>1. q \in PoolType
  <2>1. [p.idle EXCEPT ![g] = t] \in [Groups -> Seq(Socket)]
    BY <1>t, <1>l
  <2>2. p.idle_socket_count + 1 \in Nat
    BY <1>t
  <2> QED
    BY <1>p, <2>1, <2>2 DEF PoolType, AddIdleSocket
<1>2. /\ q.group_map = p.group_map
      /\ q.pending = p.pending
      /\ q.jobs = p.jobs
      /\ q.unassigned = p.unassigned
      /\ q.idle = [p.idle EXCEPT ![g] = t]
      /\ q.active = p.active
      /\ q.backup_timer = p.backup_timer
      /\ q.idle_socket_count = p.idle_socket_count + 1
      /\ q.connecting_socket_count = p.connecting_socket_count
      /\ q.handed_out_socket_count = p.handed_out_socket_count
      /\ q.generation = p.generation
      /\ SameHandles(p, q)
  BY <1>p DEF PoolType, SameHandles, AddIdleSocket
<1> HIDE DEF q, t
<1>3. /\ p.jobs[g] \in Nat /\ p.active[g] \in Nat
      /\ p.connecting_socket_count \in Nat /\ p.handed_out_socket_count \in Nat
  BY <1>p, PoolFields
<1>4. q.idle[g] = t
  BY <1>2, <1>t
<1>5. OnlyGroup(p, q, g)
  <2>1. \A k \in Groups \ {g} : q.idle[k] = p.idle[k]
    BY <1>2, <1>t
  <2>2. /\ p.connecting_socket_count = p.connecting_socket_count - (p.jobs[g] - p.jobs[g])
        /\ p.handed_out_socket_count = p.handed_out_socket_count - (p.active[g] - p.active[g])
        /\ p.idle_socket_count + 1 = p.idle_socket_count - (Len(p.idle[g]) - Len(t))
    BY <1>3, <1>t, <1>l
  <2> QED
    BY <2>1, <2>2, <1>2, <1>4 DEF OnlyGroup
<1>6. /\ NumActiveSocketSlots(q, g) = p.active[g] + p.jobs[g] + Len(t)
      /\ NumActiveSocketSlots(p, g) = p.active[g] + p.jobs[g] + Len(p.idle[g])
  BY <1>2, <1>4 DEF NumActiveSocketSlots
<1>7. NumActiveSocketSlots(q, g) <= NumActiveSocketSlots(p, g) + 1
  BY <1>3, <1>6, <1>l
<1>8. \A i \in 1 .. Len(q.idle[g]) : q.idle[g][i].birth = p.generation
  <2> SUFFICES ASSUME NEW i \in 1 .. Len(p.idle[g]) + 1
               PROVE  t[i].birth = p.generation
    BY <1>4, <1>l
  <2>1. CASE i = Len(p.idle[g]) + 1
    BY <2>1, <1>l
  <2>2. CASE i # Len(p.idle[g]) + 1
    <3>1. i \in 1 .. Len(p.idle[g])
      BY <2>2, <1>l
    <3> QED
      BY <3>1, <1>l DEF PoolInv, GroupsInv, IdleBorn
  <2> QED
    BY <2>1, <2>2
<1>9. q.unassigned[g] <= q.jobs[g] /\ (q.backup_timer[g] => q.jobs[g] > 0)
  BY <1>2 DEF PoolInv, GroupsInv, JobsTracked
<1>10. GroupsInv(q)
  BY <1>p, <1>1, <1>5, <1>7, <1>8, <1>9, OnlyGroupInv DEF PoolInv
<1>11. HandlesInv(q, hd, x)
  BY <1>2, SameHandlesInv DEF PoolInv
<1> QED
  BY <1>1, <1>2, <1>10, <1>11 DEF PoolInv, q

\* The jobs of group g, the unassigned ones and the timer change together.
SetJobs(p, g, n, u, b) ==
  [p EXCEPT !.connecting_socket_count = @ - (p.jobs[g] - n),
            !.jobs[g] = n, !.unassigned[g] = u, !.backup_timer[g] = b]

JobsFit(p, g, n, u, b) ==
  /\ n \in Nat /\ u \in Nat /\ b \in BOOLEAN
  /\ n <= p.jobs[g] \/ (Room(p, g) /\ n <= p.jobs[g] + 1)
  /\ u <= n
  /\ b => n > 0

\* Any change of a group's ConnectJobs that fits the limits keeps the invariant.
LEMMA JobsInv ==
  ASSUME NEW p, NEW hd, NEW x, NEW g \in Groups, NEW n, NEW u, NEW b,
         PoolInv(p, hd, x), g \in p.group_map, JobsFit(p, g, n, u, b)
  PROVE  /\ PoolInv(SetJobs(p, g, n, u, b), hd, x)
         /\ SameHandles(p, SetJobs(p, g, n, u, b))
         /\ SetJobs(p, g, n, u, b).group_map = p.group_map
         /\ n < p.jobs[g] => Room(SetJobs(p, g, n, u, b), g)
<1> DEFINE q == SetJobs(p, g, n, u, b)
<1>f. /\ n \in Nat /\ u \in Nat /\ b \in BOOLEAN
      /\ n <= p.jobs[g] \/ (Room(p, g) /\ n <= p.jobs[g] + 1)
      /\ u <= n
      /\ b => n > 0
  BY DEF JobsFit
<1> USE <1>f
<1>p. p \in PoolType
  BY DEF PoolInv
<1>t. /\ p.jobs \in [Groups -> Nat] /\ p.unassigned \in [Groups -> Nat]
      /\ p.backup_timer \in [Groups -> BOOLEAN] /\ p.active \in [Groups -> Nat]
      /\ p.connecting_socket_count \in Nat /\ p.idle_socket_count \in Nat
      /\ p.handed_out_socket_count \in Nat
  BY <1>p, PoolFields
<1>l. p.jobs[g] <= p.connecting_socket_count /\ Len(p.idle[g]) \in Nat
  BY <1>p, <1>t, TotalBound, PoolCounts DEF PoolInv, GroupsInv, Counted
<1>1. q \in PoolType
  <2>1. /\ [p.jobs EXCEPT ![g] = n] \in [Groups -> Nat]
        /\ [p.unassigned EXCEPT ![g] = u] \in [Groups -> Nat]
        /\ [p.backup_timer EXCEPT ![g] = b] \in [Groups -> BOOLEAN]
    BY <1>t
  <2>2. p.connecting_socket_count - (p.jobs[g] - n) \in Nat
    <3>1. p.jobs[g] \in Nat
      BY <1>t
    <3> QED
      BY <3>1, <1>t, <1>l
  <2> QED
    BY <1>p, <2>1, <2>2 DEF PoolType, SetJobs
<1>2. /\ q.group_map = p.group_map
      /\ q.pending = p.pending
      /\ q.jobs = [p.jobs EXCEPT ![g] = n]
      /\ q.unassigned = [p.unassigned EXCEPT ![g] = u]
      /\ q.idle = p.idle
      /\ q.active = p.active
      /\ q.backup_timer = [p.backup_timer EXCEPT ![g] = b]
      /\ q.idle_socket_count = p.idle_socket_count
      /\ q.connecting_socket_count = p.connecting_socket_count - (p.jobs[g] - n)
      /\ q.handed_out_socket_count = p.handed_out_socket_count
      /\ q.generation = p.generation
      /\ SameHandles(p, q)
  BY <1>p DEF PoolType, SameHandles, SetJobs
<1> HIDE DEF q
<1>3. p.jobs[g] \in Nat /\ p.active[g] \in Nat
  BY <1>t
<1>4. q.jobs[g] = n /\ q.unassigned[g] = u /\ q.backup_timer[g] = b
  BY <1>2, <1>t
<1>5. OnlyGroup(p, q, g)
  <2>1. \A k \in Groups \ {g} : /\ q.jobs[k] = p.jobs[k]
                                /\ q.unassigned[k] = p.unassigned[k]
                                /\ q.backup_timer[k] = p.backup_timer[k]
    BY <1>2, <1>t
  <2>2. /\ p.idle_socket_count = p.idle_socket_count - (Len(p.idle[g]) - Len(p.idle[g]))
        /\ p.handed_out_socket_count = p.handed_out_socket_count - (p.active[g] - p.active[g])
    BY <1>3, <1>t, <1>l
  <2> QED
    BY <2>1, <2>2, <1>2, <1>4 DEF OnlyGroup
<1>6. /\ NumActiveSocketSlots(q, g) = p.active[g] + n + Len(p.idle[g])
      /\ NumActiveSocketSlots(p, g) = p.active[g] + p.jobs[g] + Len(p.idle[g])
  BY <1>2, <1>4 DEF NumActiveSocketSlots
<1>7. /\ n <= p.jobs[g] => NumActiveSocketSlots(q, g) <= NumActiveSocketSlots(p, g)
      /\ n <= p.jobs[g] + 1 => NumActiveSocketSlots(q, g) <= NumActiveSocketSlots(p, g) + 1
      /\ n < p.jobs[g] => NumActiveSocketSlots(q, g) < NumActiveSocketSlots(p, g)
  <2> DEFINE a == p.active[g]  j == p.jobs[g]  l == Len(p.idle[g])
  <2>1. a \in Nat /\ j \in Nat /\ l \in Nat
    BY <1>3, <1>l
  <2>2. NumActiveSocketSlots(q, g) = a + n + l /\ NumActiveSocketSlots(p, g) = a + j + l
    BY <1>6
  <2> HIDE DEF a, j, l
  <2>3. /\ n <= j => NumActiveSocketSlots(q, g) <= NumActiveSocketSlots(p, g)
        /\ n <= j + 1 => NumActiveSocketSlots(q, g) <= NumActiveSocketSlots(p, g) + 1
        /\ n < j => NumActiveSocketSlots(q, g) < NumActiveSocketSlots(p, g)
    BY <2>1, <2>2
  <2> QED
    BY <2>3 DEF j
<1>8. \A i \in 1 .. Len(q.idle[g]) : q.idle[g][i].birth = p.generation
  BY <1>2 DEF PoolInv, GroupsInv, IdleBorn
<1>9. \/ NumActiveSocketSlots(q, g) <= NumActiveSocketSlots(p, g)
      \/ Room(p, g) /\ NumActiveSocketSlots(q, g) <= NumActiveSocketSlots(p, g) + 1
  BY <1>7
<1>10. GroupsInv(q)
  <2>1. q.unassigned[g] <= q.jobs[g] /\ (q.backup_timer[g] => q.jobs[g] > 0)
    BY <1>4
  <2>2. GroupsInv(p)
    BY DEF PoolInv
  <2> QED
    BY <1>p, <1>1, <1>5, <1>8, <1>9, <2>1, <2>2, OnlyGroupInv
<1>11. HandlesInv(q, hd, x)
  BY <1>2, SameHandlesInv DEF PoolInv
<1>12. n < p.jobs[g] => Room(q, g)
  BY <1>p, <1>1, <1>5, <1>7, RoomAfterShrink DEF PoolInv
<1> QED
  BY <1>1, <1>2, <1>10, <1>11, <1>12 DEF PoolInv, q

\* RemoveConnectJob() keeps the invariant and makes room in its group.
LEMMA RemoveConnectJobInv ==
  ASSUME NEW p, NEW hd, NEW x, NEW g \in Groups, PoolInv(p, hd, x), p.jobs[g] > 0
  PROVE  /\ PoolInv(RemoveConnectJob(p, g), hd, x)
         /\ SameHandles(p, RemoveConnectJob(p, g))
         /\ RemoveConnectJob(p, g).group_map = p.group_map
         /\ g \in p.group_map
         /\ Room(RemoveConnectJob(p, g), g)
<1> DEFINE n == p.jobs[g] - 1
           u == IF n < p.unassigned[g] THEN n ELSE p.unassigned[g]
           b == p.backup_timer[g] /\ n # 0
<1>p. p \in PoolType
  BY DEF PoolInv
<1>t. /\ p.jobs[g] \in Nat /\ p.unassigned[g] \in Nat /\ p.backup_timer[g] \in BOOLEAN
      /\ p.connecting_socket_count \in Nat
  BY <1>p, PoolFields
<1>1. g \in p.group_map
  BY <1>t DEF PoolInv, GroupsInv, Mapped, IsEmpty
<1>2. n < p.jobs[g] /\ JobsFit(p, g, n, u, b)
  BY <1>t DEF JobsFit
<1>3. p.connecting_socket_count - 1 = p.connecting_socket_count - (p.jobs[g] - n)
  BY <1>t
<1>4. RemoveConnectJob(p, g) = SetJobs(p, g, n, u, b)
  BY <1>3, <1>p DEF RemoveConnectJob, SetJobs, PoolType
<1> HIDE DEF n, u, b
<1>5. /\ PoolInv(SetJobs(p, g, n, u, b), hd, x)
      /\ SameHandles(p, SetJobs(p, g, n, u, b))
      /\ SetJobs(p, g, n, u, b).group_map = p.group_map
      /\ n < p.jobs[g] => Room(SetJobs(p, g, n, u, b), g)
  BY <1>1, <1>2, JobsInv
<1> QED
  BY <1>1, <1>2, <1>4, <1>5

\* AddJob(), after the backup timer of the group was perhaps started.
LEMMA AddJobInv ==
  ASSUME NEW p, NEW hd, NEW x, NEW g \in Groups, NEW pre \in BOOLEAN, NEW b \in BOOLEAN,
         PoolInv(p, hd, x), g \in p.group_map, Room(p, g)
  PROVE  LET q == AddJob([p EXCEPT !.backup_timer[g] = b], g, pre)
         IN  PoolInv(q, hd, x) /\ SameHandles(p, q) /\ q.group_map = p.group_map
<1> DEFINE n == p.jobs[g] + 1
           u == IF pre THEN p.unassigned[g] + 1 ELSE p.unassigned[g]
           q == AddJob([p EXCEPT !.backup_timer[g] = b], g, pre)
<1>p. p \in PoolType
  BY DEF PoolInv
<1>t. /\ p.jobs[g] \in Nat /\ p.unassigned[g] \in Nat /\ p.backup_timer[g] \in BOOLEAN
      /\ p.connecting_socket_count \in Nat /\ p.unassigned[g] <= p.jobs[g]
  BY <1>p, PoolFields DEF PoolInv, GroupsInv, JobsTracked
<1>2. JobsFit(p, g, n, u, b)
  BY <1>t DEF JobsFit
<1>3. p.connecting_socket_count + 1 = p.connecting_socket_count - (p.jobs[g] - n)
  BY <1>t
<1>4. q = SetJobs(p, g, n, u, b)
  BY <1>3, <1>p DEF AddJob, SetJobs, PoolType
<1> HIDE DEF n, u, q
<1>5. PoolInv(q, hd, x) /\ SameHandles(p, q) /\ q.group_map = p.group_map
  BY <1>2, <1>4, JobsInv
<1> QED
  BY <1>5 DEF q

\* A request that adopts an unassigned job keeps the invariant.
LEMMA UseUnassignedInv ==
  ASSUME NEW p, NEW hd, NEW x, NEW g \in Groups,
         PoolInv(p, hd, x), g \in p.group_map, p.unassigned[g] > 0
  PROVE  LET q == [p EXCEPT !.unassigned[g] = @ - 1]
         IN  PoolInv(q, hd, x) /\ SameHandles(p, q) /\ q.group_map = p.group_map
<1> DEFINE n == p.jobs[g]
           u == p.unassigned[g] - 1
           b == p.backup_timer[g]
           q == [p EXCEPT !.unassigned[g] = @ - 1]
<1>p. p \in PoolType
  BY DEF PoolInv
<1>t. /\ p.jobs[g] \in Nat /\ p.unassigned[g] \in Nat /\ p.backup_timer[g] \in BOOLEAN
      /\ p.connecting_socket_count \in Nat /\ p.unassigned[g] <= p.jobs[g]
      /\ p.jobs \in [Groups -> Nat] /\ p.backup_timer \in [Groups -> BOOLEAN]
  BY <1>p, PoolFields DEF PoolInv, GroupsInv, JobsTracked
<1>2. b => n > 0
  BY DEF PoolInv, GroupsInv, JobsTracked
<1>3. JobsFit(p, g, n, u, b)
  BY <1>t, <1>2 DEF JobsFit
<1>4. q = SetJobs(p, g, n, u, b)
  <2>1. p.jobs = [p.jobs EXCEPT ![g] = n] /\ p.backup_timer = [p.backup_timer EXCEPT ![g] = b]
    BY <1>t
  <2>2. p.connecting_socket_count = p.connecting_socket_count - (p.jobs[g] - n)
    BY <1>t
  <2> QED
    BY <2>1, <2>2, <1>p DEF SetJobs, PoolType
<1> HIDE DEF n, u, b, q
<1>5. PoolInv(q, hd, x) /\ SameHandles(p, q) /\ q.group_map = p.group_map
  BY <1>3, <1>4, JobsInv
<1> QED
  BY <1>5 DEF q

(* The handles. *)

\* The exception made for h while its request is served can always be made...
LEMMA ExceptHandleInv ==
  ASSUME NEW p, NEW hd, NEW h, PoolInv(p, hd, NoHandle)
  PROVE  PoolInv(p, hd, h)
<1>1. Waiting(p, h)
  <2> SUFFICES ASSUME NEW g \in Groups, NEW i \in 1 .. Len(p.pending[g])
               PROVE  /\ p.socket[p.pending[g][i].handle] = NoSocket
                      /\ p.pending_callback_map[p.pending[g][i].handle] = NoResult
    BY DEF Waiting
  <2>1. p.pending[g][i].handle \in Handles
    BY DEF PoolInv, HandlesInv, Queued
  <2>2. p.pending[g][i].handle # NoHandle
    BY <2>1, HandlesAssumption
  <2> QED
    BY <2>2 DEF PoolInv, HandlesInv, Waiting
<1>2. Results(p, hd, h)
  BY HandlesAssumption DEF PoolInv, HandlesInv, Results
<1> QED
  BY <1>1, <1>2 DEF PoolInv, HandlesInv

\* ... and can be dropped when h still has neither a socket nor a result.
LEMMA NoExceptionInv ==
  ASSUME NEW p, NEW hd, NEW h, PoolInv(p, hd, h),
         h \in Handles => p.socket[h] = NoSocket /\ p.pending_callback_map[h] = NoResult
  PROVE  PoolInv(p, hd, NoHandle)
<1>1. Waiting(p, NoHandle)
  <2> SUFFICES ASSUME NEW g \in Groups, NEW i \in 1 .. Len(p.pending[g])
               PROVE  /\ p.socket[p.pending[g][i].handle] = NoSocket
                      /\ p.pending_callback_map[p.pending[g][i].handle] = NoResult
    BY DEF Waiting
  <2>1. p.pending[g][i].handle \in Handles
    BY DEF PoolInv, HandlesInv, Queued
  <2>2. CASE p.pending[g][i].handle = h
    BY <2>1, <2>2
  <2>3. CASE p.pending[g][i].handle # h
    BY <2>3 DEF PoolInv, HandlesInv, Waiting
  <2> QED
    BY <2>2, <2>3
<1>2. Results(p, hd, NoHandle)
  BY DEF PoolInv, HandlesInv, Results
<1> QED
  BY <1>1, <1>2 DEF PoolInv, HandlesInv

\* Finitely many handles hold sockets of a group.
LEMMA HoldersFinite ==
  ASSUME NEW p, NEW hd, NEW g
  PROVE  IsFiniteSet(HoldersOf(p, hd, g))
<1>1. HoldersOf(p, hd, g) \subseteq Handles
  BY DEF HoldersOf
<1> QED
  BY <1>1, HandlesAssumption, FS_Subset

\* HandOutSocket() keeps the invariant where there is room, for a handle that waits in
\* this group.
LEMMA HandOutSocketInv ==
  ASSUME NEW p, NEW hd \in HandleType, NEW g \in Groups, NEW h \in Handles, NEW s \in Socket,
         PoolInv(p, hd, h), g \in p.group_map, Room(p, g),
         p.socket[h] = NoSocket, s.birth = p.generation,
         hd[h] = WaitingIn(g)
  PROVE  /\ PoolInv(HandOutSocket(p, g, h, s), hd, h)
         /\ HandOutSocket(p, g, h, s).group_map = p.group_map
         /\ HandOutSocket(p, g, h, s).pending = p.pending
         /\ HandOutSocket(p, g, h, s).pending_callback_map = p.pending_callback_map
         /\ HandOutSocket(p, g, h, s).tasks = p.tasks
         /\ HandOutSocket(p, g, h, s).socket[h] # NoSocket
<1> DEFINE q == HandOutSocket(p, g, h, s)
<1>p. p \in PoolType
  BY DEF PoolInv
<1>t. /\ p.active \in [Groups -> Nat] /\ p.handed_out_socket_count \in Nat
      /\ p.socket \in [Handles -> Socket \cup {NoSocket}]
      /\ p.pool_id \in [Handles -> Nat \cup {-1}] /\ p.generation \in Nat
      /\ p.jobs \in [Groups -> Nat] /\ p.idle_socket_count \in Nat
      /\ p.connecting_socket_count \in Nat
  BY <1>p, PoolFields
<1>l. Len(p.idle[g]) \in Nat /\ p.active[g] \in Nat /\ p.jobs[g] \in Nat
  BY <1>p, <1>t, PoolCounts
<1>1. q \in PoolType
  <2>1. /\ [p.active EXCEPT ![g] = p.active[g] + 1] \in [Groups -> Nat]
        /\ [p.socket EXCEPT ![h] = s] \in [Handles -> Socket \cup {NoSocket}]
        /\ [p.pool_id EXCEPT ![h] = p.generation] \in [Handles -> Nat \cup {-1}]
        /\ p.handed_out_socket_count + 1 \in Nat
    BY <1>t
  <2> QED
    BY <1>p, <2>1 DEF PoolType, HandOutSocket
<1>2. /\ q.group_map = p.group_map
      /\ q.pending = p.pending
      /\ q.jobs = p.jobs
      /\ q.unassigned = p.unassigned
      /\ q.idle = p.idle
      /\ q.active = [p.active EXCEPT ![g] = p.active[g] + 1]
      /\ q.backup_timer = p.backup_timer
      /\ q.idle_socket_count = p.idle_socket_count
      /\ q.connecting_socket_count = p.connecting_socket_count
      /\ q.handed_out_socket_count = p.handed_out_socket_count + 1
      /\ q.generation = p.generation
      /\ q.pending_callback_map = p.pending_callback_map
      /\ q.socket = [p.socket EXCEPT ![h] = s]
      /\ q.pool_id = [p.pool_id EXCEPT ![h] = p.generation]
      /\ q.tasks = p.tasks
  BY <1>p DEF PoolType, HandOutSocket
<1> HIDE DEF q
<1>3. /\ q.active[g] = p.active[g] + 1 /\ q.socket[h] = s /\ q.pool_id[h] = p.generation
      /\ \A k \in Groups \ {g} : q.active[k] = p.active[k]
      /\ \A k \in Handles \ {h} : q.socket[k] = p.socket[k] /\ q.pool_id[k] = p.pool_id[k]
  BY <1>2, <1>t
<1>4. s # NoSocket
  BY NullsAssumption
<1>5. OnlyGroup(p, q, g)
  <2>1. /\ p.idle_socket_count = p.idle_socket_count - (Len(p.idle[g]) - Len(p.idle[g]))
        /\ p.connecting_socket_count = p.connecting_socket_count - (p.jobs[g] - p.jobs[g])
        /\ p.handed_out_socket_count + 1
             = p.handed_out_socket_count - (p.active[g] - (p.active[g] + 1))
    BY <1>t, <1>l
  <2> QED
    BY <2>1, <1>2, <1>3 DEF OnlyGroup
<1>6. NumActiveSocketSlots(q, g) <= NumActiveSocketSlots(p, g) + 1
  <2> DEFINE a == p.active[g]  j == p.jobs[g]  l == Len(p.idle[g])
  <2>1. NumActiveSocketSlots(q, g) = a + 1 + j + l /\ NumActiveSocketSlots(p, g) = a + j + l
    BY <1>2, <1>3 DEF NumActiveSocketSlots
  <2>2. a \in Nat /\ j \in Nat /\ l \in Nat
    BY <1>l
  <2> HIDE DEF a, j, l
  <2> QED
    BY <2>1, <2>2
<1>7. GroupsInv(q)
  <2>1. q.unassigned[g] <= q.jobs[g] /\ (q.backup_timer[g] => q.jobs[g] > 0)
    BY <1>2 DEF PoolInv, GroupsInv, JobsTracked
  <2>2. \A i \in 1 .. Len(q.idle[g]) : q.idle[g][i].birth = p.generation
    BY <1>2 DEF PoolInv, GroupsInv, IdleBorn
  <2>3. GroupsInv(p)
    BY DEF PoolInv
  <2> QED
    BY <1>p, <1>1, <1>5, <1>6, <2>1, <2>2, <2>3, OnlyGroupInv
<1>8. Owned(q, hd)
  <2> SUFFICES ASSUME NEW k \in Groups
               PROVE  q.active[k] = Cardinality(HoldersOf(q, hd, k))
    BY DEF Owned
  <2>1. p.active[k] = Cardinality(HoldersOf(p, hd, k))
    BY DEF PoolInv, HandlesInv, Owned
  <2>2. CASE k = g
    <3>1. HoldersOf(q, hd, g) = HoldersOf(p, hd, g) \cup {h} /\ h \notin HoldersOf(p, hd, g)
      BY <1>3, <1>4 DEF HoldersOf, WaitingIn
    <3>2. Cardinality(HoldersOf(p, hd, g) \cup {h}) = Cardinality(HoldersOf(p, hd, g)) + 1
      BY <3>1, HoldersFinite, FS_AddElement
    <3> QED
      BY <2>1, <2>2, <3>1, <3>2, <1>3
  <2>3. CASE k # g
    <3>1. HoldersOf(q, hd, k) = HoldersOf(p, hd, k)
      BY <2>3, <1>3, <1>4 DEF HoldersOf, WaitingIn
    <3> QED
      BY <2>1, <2>3, <3>1, <1>3
  <2> QED
    BY <2>2, <2>3
<1>9. HeldBorn(q)
  <2> SUFFICES ASSUME NEW k \in Handles, q.socket[k] # NoSocket
               PROVE  q.socket[k].birth = q.pool_id[k] /\ q.pool_id[k] <= q.generation
    BY DEF HeldBorn
  <2>1. CASE k = h
    BY <2>1, <1>2, <1>3, <1>t
  <2>2. CASE k # h
    BY <2>2, <1>2, <1>3 DEF PoolInv, HandlesInv, HeldBorn
  <2> QED
    BY <2>1, <2>2
<1>10. Queued(q.pending, hd)
  BY <1>2 DEF PoolInv, HandlesInv
<1>11. Waiting(q, h)
  BY <1>2, <1>3 DEF PoolInv, HandlesInv, Queued, Waiting
<1>12. Results(q, hd, h)
  <2> SUFFICES ASSUME NEW k \in Handles
               PROVE  /\ q.pending_callback_map[k] # NoResult =>
                           /\ hd[k].group_name # NoGroup
                           /\ ~hd[k].is_initialized
                           /\ q.tasks[k] > 0
                      /\ q.pending_callback_map[k] = "OK" => q.socket[k] # NoSocket
                      /\ hd[k].is_initialized => q.socket[k] # NoSocket /\ hd[k].group_name # NoGroup
                      /\ k # h /\ q.socket[k] # NoSocket =>
                           hd[k].is_initialized \/ q.pending_callback_map[k] # NoResult
    BY DEF Results
  <2>1. Results(p, hd, h)
    BY DEF PoolInv, HandlesInv
  <2>2. CASE k = h
    BY <2>1, <2>2, <1>2, <1>3, <1>4 DEF Results
  <2>3. CASE k # h
    BY <2>1, <2>3, <1>2, <1>3 DEF Results
  <2> QED
    BY <2>2, <2>3
<1> QED
  BY <1>1, <1>2, <1>3, <1>4, <1>7, <1>8, <1>9, <1>10, <1>11, <1>12 DEF PoolInv, HandlesInv, q

\* h has no request in a queue.
NotQueued(p, h) ==
  \A g \in Groups : \A i \in 1 .. Len(p.pending[g]) : p.pending[g][i].handle # h

\* RemovePendingRequest() keeps the invariant and takes its handle out of every queue.
LEMMA RemovePendingRequestInv ==
  ASSUME NEW p, NEW hd, NEW x, NEW g \in Groups, NEW i \in 1 .. Len(p.pending[g]),
         PoolInv(p, hd, x)
  PROVE  LET q == RemovePendingRequest(p, g, i)
         IN  /\ PoolInv(q, hd, x)
             /\ NotQueued(q, p.pending[g][i].handle)
             /\ q.group_map = p.group_map
             /\ q.jobs = p.jobs
             /\ q.socket = p.socket
             /\ q.pending_callback_map = p.pending_callback_map
             /\ q.generation = p.generation
             /\ Room(p, g) => Room(q, g)
<1> DEFINE q == RemovePendingRequest(p, g, i)
           b == p.backup_timer[g] /\ Len(p.pending[g]) > 1
           s == p.pending[g]
           t == RemoveAt(s, i)
<1>p. p \in PoolType
  BY DEF PoolInv
<1>t. p.pending \in [Groups -> Seq(Request)] /\ p.backup_timer \in [Groups -> BOOLEAN]
  BY <1>p, PoolFields
<1>s. /\ t \in Seq(Request) /\ Len(t) = Len(s) - 1 /\ Len(s) \in Nat
      /\ \A j \in 1 .. Len(s) - 1 : t[j] = s[IF j < i THEN j ELSE j + 1]
  <2>1. s \in Seq(Request)
    BY <1>t
  <2> QED
    BY <2>1, RemoveAtProperties, LenProperties
<1>1. q \in PoolType
  <2>1. /\ [p.pending EXCEPT ![g] = t] \in [Groups -> Seq(Request)]
        /\ [p.backup_timer EXCEPT ![g] = b] \in [Groups -> BOOLEAN]
    BY <1>t, <1>s
  <2> QED
    BY <1>p, <2>1 DEF PoolType, RemovePendingRequest
<1>2. /\ q.group_map = p.group_map
      /\ q.pending = [p.pending EXCEPT ![g] = t]
      /\ q.jobs = p.jobs
      /\ q.unassigned = p.unassigned
      /\ q.idle = p.idle
      /\ q.active = p.active
      /\ q.backup_timer = [p.backup_timer EXCEPT ![g] = b]
      /\ q.idle_socket_count = p.idle_socket_count
      /\ q.connecting_socket_count = p.connecting_socket_count
      /\ q.handed_out_socket_count = p.handed_out_socket_count
      /\ q.generation = p.generation
      /\ q.pending_callback_map = p.pending_callback_map
      /\ q.socket = p.socket
      /\ q.pool_id = p.pool_id
      /\ q.tasks = p.tasks
  BY <1>p DEF PoolType, RemovePendingRequest
<1>3. /\ q.pending[g] = t /\ q.backup_timer[g] = b
      /\ \A k \in Groups \ {g} : q.pending[k] = p.pending[k] /\ q.backup_timer[k] = p.backup_timer[k]
  BY <1>2, <1>t
<1> HIDE DEF q, t
<1>4. g \in p.group_map
  <2>1. p.pending[g] # <<>>
    BY <1>s
  <2> QED
    BY <2>1 DEF PoolInv, GroupsInv, Mapped, IsEmpty
<1>5. GroupsInv(q)
  <2>1. Counted(q)
    BY <1>2 DEF PoolInv, GroupsInv, Counted
  <2>2. JobsTracked(q)
    BY <1>2, <1>3 DEF PoolInv, GroupsInv, JobsTracked
  <2>3. Mapped(q)
    BY <1>2, <1>3, <1>4 DEF PoolInv, GroupsInv, Mapped, IsEmpty
  <2>4. IdleBorn(q)
    BY <1>2 DEF PoolInv, GroupsInv, IdleBorn
  <2>5. Limited(q)
    BY <1>2 DEF PoolInv, GroupsInv, Limited, NumActiveSocketSlots, TotalSockets
  <2> QED
    BY <2>1, <2>2, <2>3, <2>4, <2>5 DEF GroupsInv
\* Every request that is left was queued before, at a place of its own.
<1>6. \A k \in Groups : \A j \in 1 .. Len(q.pending[k]) :
        LET from == IF k = g /\ j >= i THEN j + 1 ELSE j
        IN  from \in 1 .. Len(p.pending[k]) /\ q.pending[k][j] = p.pending[k][from]
  <2> SUFFICES ASSUME NEW k \in Groups, NEW j \in 1 .. Len(q.pending[k])
               PROVE  LET from == IF k = g /\ j >= i THEN j + 1 ELSE j
                      IN  from \in 1 .. Len(p.pending[k]) /\ q.pending[k][j] = p.pending[k][from]
    OBVIOUS
  <2>1. CASE k = g
    BY <2>1, <1>3, <1>s
  <2>2. CASE k # g
    BY <2>2, <1>3
  <2> QED
    BY <2>1, <2>2
<1>7. Queued(p.pending, hd) /\ Waiting(p, x)
  BY DEF PoolInv, HandlesInv
<1>8. NotQueued(q, s[i].handle)
  <2> SUFFICES ASSUME NEW k \in Groups, NEW j \in 1 .. Len(q.pending[k]),
                      q.pending[k][j].handle = s[i].handle
               PROVE  FALSE
    BY DEF NotQueued
  <2>1. CASE k = g
    <3> DEFINE from == IF j >= i THEN j + 1 ELSE j
    <3>1. from \in 1 .. Len(s) /\ q.pending[k][j] = s[from] /\ from # i
      BY <2>1, <1>6
    <3> HIDE DEF from
    <3> QED
      BY <3>1, <1>7 DEF Queued
  <2>2. CASE k # g
    <3>1. hd[s[i].handle] = WaitingIn(g)
      BY <1>7 DEF Queued
    <3>2. j \in 1 .. Len(p.pending[k]) /\ q.pending[k][j] = p.pending[k][j]
      BY <2>2, <1>3
    <3>3. hd[p.pending[k][j].handle] = WaitingIn(k)
      BY <3>2, <1>7 DEF Queued
    <3> QED
      BY <2>2, <3>1, <3>2, <3>3 DEF WaitingIn
  <2> QED
    BY <2>1, <2>2
<1>9. Queued(q.pending, hd)
  <2> SUFFICES ASSUME NEW k \in Groups, NEW j \in 1 .. Len(q.pending[k])
               PROVE  /\ q.pending[k][j].handle \in Handles
                      /\ hd[q.pending[k][j].handle] = WaitingIn(k)
                      /\ q.pending[k][j].respect_limits \in RespectLimitsValues
                      /\ \A m \in 1 .. Len(q.pending[k]) :
                           q.pending[k][j].handle = q.pending[k][m].handle => j = m
    BY DEF Queued
  <2> DEFINE from(n) == IF k = g /\ n >= i THEN n + 1 ELSE n
  <2>1. \A n \in 1 .. Len(q.pending[k]) :
          from(n) \in 1 .. Len(p.pending[k]) /\ q.pending[k][n] = p.pending[k][from(n)]
    BY <1>6
  <2>2. Len(q.pending[k]) \in Nat /\ i \in Nat
    BY <1>1, PoolCounts
  <2>3. \A m, n \in 1 .. Len(q.pending[k]) : from(m) = from(n) => m = n
    BY <2>2
  <2> HIDE DEF from
  <2>4. \A n \in 1 .. Len(p.pending[k]) :
          /\ p.pending[k][n].handle \in Handles
          /\ hd[p.pending[k][n].handle] = WaitingIn(k)
          /\ p.pending[k][n].respect_limits \in RespectLimitsValues
          /\ \A m \in 1 .. Len(p.pending[k]) :
               p.pending[k][n].handle = p.pending[k][m].handle => n = m
    BY <1>7 DEF Queued
  <2>5. \A m \in 1 .. Len(q.pending[k]) :
          q.pending[k][j].handle = q.pending[k][m].handle => j = m
    <3> SUFFICES ASSUME NEW m \in 1 .. Len(q.pending[k]),
                        q.pending[k][j].handle = q.pending[k][m].handle
                 PROVE  j = m
      OBVIOUS
    <3>1. /\ from(j) \in 1 .. Len(p.pending[k]) /\ q.pending[k][j] = p.pending[k][from(j)]
          /\ from(m) \in 1 .. Len(p.pending[k]) /\ q.pending[k][m] = p.pending[k][from(m)]
      BY <2>1
    <3>2. from(j) = from(m)
      BY <3>1, <2>4
    <3> QED
      BY <3>2, <2>3
  <2> QED
    BY <2>1, <2>4, <2>5
<1>10. Waiting(q, x)
  <2> SUFFICES ASSUME NEW k \in Groups, NEW j \in 1 .. Len(q.pending[k]),
                      q.pending[k][j].handle # x
               PROVE  /\ q.socket[q.pending[k][j].handle] = NoSocket
                      /\ q.pending_callback_map[q.pending[k][j].handle] = NoResult
    BY DEF Waiting
  <2> DEFINE from == IF k = g /\ j >= i THEN j + 1 ELSE j
  <2>1. from \in 1 .. Len(p.pending[k]) /\ q.pending[k][j] = p.pending[k][from]
    BY <1>6
  <2> HIDE DEF from
  <2> QED
    BY <2>1, <1>2, <1>7 DEF Waiting
<1>11. Owned(q, hd) /\ HeldBorn(q) /\ Results(q, hd, x)
  BY <1>2 DEF PoolInv, HandlesInv, Owned, HoldersOf, HeldBorn, Results
<1>12. Room(p, g) => Room(q, g)
  BY <1>2 DEF Room, HasAvailableSocketSlot, NumActiveSocketSlots, ReachedMaxSocketsLimit, TotalSockets
<1> QED
  BY <1>1, <1>2, <1>5, <1>8, <1>9, <1>10, <1>11, <1>12 DEF PoolInv, HandlesInv, q

\* PopNextPendingRequest() keeps the invariant and takes out the first request.
LEMMA PopNextPendingRequestInv ==
  ASSUME NEW p, NEW hd, NEW x, NEW g \in Groups, NEW i \in 1 .. Len(p.pending[g]), i = 1,
         NEW h, p.pending[g][i].handle = h, PoolInv(p, hd, x)
  PROVE  /\ PoolInv(PopNextPendingRequest(p, g), hd, x)
         /\ NotQueued(PopNextPendingRequest(p, g), h)
         /\ PopNextPendingRequest(p, g).socket = p.socket
<1>1. /\ PoolInv(RemovePendingRequest(p, g, i), hd, x)
      /\ NotQueued(RemovePendingRequest(p, g, i), p.pending[g][i].handle)
  BY RemovePendingRequestInv, Zenon
<1>2. RemovePendingRequest(p, g, i).socket = p.socket
  <2>1. p \in PoolType
    BY DEF PoolInv
  <2> QED
    BY <2>1 DEF RemovePendingRequest, PoolType
<1> QED
  BY <1>1, <1>2 DEF PopNextPendingRequest

\* InvokeUserCallbackLater() for a request that is no longer queued ends its being
\* served: the invariant holds again without an exception.
LEMMA InvokeUserCallbackLaterInv ==
  ASSUME NEW p, NEW hd \in HandleType, NEW h \in Handles, NEW result \in CompletionResults,
         PoolInv(p, hd, h), NotQueued(p, h),
         hd[h].group_name # NoGroup, ~hd[h].is_initialized,
         result = "OK" => p.socket[h] # NoSocket
  PROVE  PoolInv(InvokeUserCallbackLater(p, h, result), hd, NoHandle)
<1> DEFINE q == InvokeUserCallbackLater(p, h, result)
<1>p. p \in PoolType
  BY DEF PoolInv
<1>t. /\ p.tasks \in [Handles -> Nat]
      /\ p.pending_callback_map \in [Handles -> CompletionResults \cup {NoResult}]
  BY <1>p, PoolFields
<1>1. q \in PoolType
  <2>1. /\ [p.tasks EXCEPT ![h] = p.tasks[h] + 1] \in [Handles -> Nat]
        /\ [p.pending_callback_map EXCEPT ![h] = result]
             \in [Handles -> CompletionResults \cup {NoResult}]
    BY <1>t
  <2> QED
    BY <1>p, <2>1 DEF PoolType, InvokeUserCallbackLater
<1>2. /\ q.group_map = p.group_map
      /\ q.pending = p.pending
      /\ q.jobs = p.jobs
      /\ q.unassigned = p.unassigned
      /\ q.idle = p.idle
      /\ q.active = p.active
      /\ q.backup_timer = p.backup_timer
      /\ q.idle_socket_count = p.idle_socket_count
      /\ q.connecting_socket_count = p.connecting_socket_count
      /\ q.handed_out_socket_count = p.handed_out_socket_count
      /\ q.generation = p.generation
      /\ q.pending_callback_map = [p.pending_callback_map EXCEPT ![h] = result]
      /\ q.socket = p.socket
      /\ q.pool_id = p.pool_id
      /\ q.tasks = [p.tasks EXCEPT ![h] = p.tasks[h] + 1]
  BY <1>p DEF PoolType, InvokeUserCallbackLater
<1> HIDE DEF q
<1>3. /\ q.pending_callback_map[h] = result /\ q.tasks[h] = p.tasks[h] + 1 /\ p.tasks[h] \in Nat
      /\ \A k \in Handles \ {h} : /\ q.pending_callback_map[k] = p.pending_callback_map[k]
                                  /\ q.tasks[k] = p.tasks[k]
  BY <1>2, <1>t
<1>4. result # NoResult
  BY NullsAssumption
<1>5. GroupsInv(q)
  BY <1>2 DEF PoolInv, GroupsInv, Counted, JobsTracked, Mapped, IsEmpty, IdleBorn, Limited,
              NumActiveSocketSlots, TotalSockets
<1>6. Owned(q, hd) /\ HeldBorn(q) /\ Queued(q.pending, hd)
  BY <1>2 DEF PoolInv, HandlesInv, Owned, HoldersOf, HeldBorn
<1>7. Waiting(q, NoHandle)
  <2> SUFFICES ASSUME NEW g \in Groups, NEW i \in 1 .. Len(p.pending[g])
               PROVE  /\ q.socket[p.pending[g][i].handle] = NoSocket
                      /\ q.pending_callback_map[p.pending[g][i].handle] = NoResult
    BY <1>2 DEF Waiting
  <2>1. p.pending[g][i].handle \in Handles \ {h}
    BY DEF NotQueued, PoolInv, HandlesInv, Queued
  <2>2. /\ p.socket[p.pending[g][i].handle] = NoSocket
        /\ p.pending_callback_map[p.pending[g][i].handle] = NoResult
    BY <2>1 DEF PoolInv, HandlesInv, Waiting
  <2> QED
    BY <2>1, <2>2, <1>2, <1>3
<1>8. Results(q, hd, NoHandle)
  <2> SUFFICES ASSUME NEW k \in Handles
               PROVE  /\ q.pending_callback_map[k] # NoResult =>
                           /\ hd[k].group_name # NoGroup
                           /\ ~hd[k].is_initialized
                           /\ q.tasks[k] > 0
                      /\ q.pending_callback_map[k] = "OK" => q.socket[k] # NoSocket
                      /\ hd[k].is_initialized => q.socket[k] # NoSocket /\ hd[k].group_name # NoGroup
                      /\ q.socket[k] # NoSocket =>
                           hd[k].is_initialized \/ q.pending_callback_map[k] # NoResult
    BY DEF Results
  <2>1. Results(p, hd, h)
    BY DEF PoolInv, HandlesInv
  <2>2. CASE k = h
    BY <2>1, <2>2, <1>2, <1>3, <1>4 DEF Results
  <2>3. CASE k # h
    BY <2>1, <2>3, <1>2, <1>3 DEF Results
  <2> QED
    BY <2>2, <2>3
<1> QED
  BY <1>1, <1>5, <1>6, <1>7, <1>8 DEF PoolInv, HandlesInv, q

\* A handle without socket and request begins or ends a request.
LEMMA FreeHandleInv ==
  ASSUME NEW p, NEW hd \in HandleType, NEW h \in Handles, NEW g \in Groups \cup {NoGroup},
         PoolInv(p, hd, NoHandle), NotQueued(p, h), p.socket[h] = NoSocket
  PROVE  LET q == [p EXCEPT !.pending_callback_map[h] = NoResult]
         IN  /\ PoolInv(q, [hd EXCEPT ![h] = WaitingIn(g)], NoHandle)
             /\ p.pending_callback_map[h] = NoResult => q = p
             /\ NotQueued(q, h) /\ q.socket[h] = NoSocket /\ q.pending_callback_map[h] = NoResult
<1> DEFINE q == [p EXCEPT !.pending_callback_map[h] = NoResult]
           hd2 == [hd EXCEPT ![h] = WaitingIn(g)]
<1>p. p \in PoolType
  BY DEF PoolInv
<1>t. p.pending_callback_map \in [Handles -> CompletionResults \cup {NoResult}]
  BY <1>p, PoolFields
<1>1. q \in PoolType
  <2>1. [p.pending_callback_map EXCEPT ![h] = NoResult]
          \in [Handles -> CompletionResults \cup {NoResult}]
    BY <1>t
  <2> QED
    BY <1>p, <2>1 DEF PoolType
<1>2. /\ q.group_map = p.group_map
      /\ q.pending = p.pending
      /\ q.jobs = p.jobs
      /\ q.unassigned = p.unassigned
      /\ q.idle = p.idle
      /\ q.active = p.active
      /\ q.backup_timer = p.backup_timer
      /\ q.idle_socket_count = p.idle_socket_count
      /\ q.connecting_socket_count = p.connecting_socket_count
      /\ q.handed_out_socket_count = p.handed_out_socket_count
      /\ q.generation = p.generation
      /\ q.pending_callback_map = [p.pending_callback_map EXCEPT ![h] = NoResult]
      /\ q.socket = p.socket
      /\ q.pool_id = p.pool_id
      /\ q.tasks = p.tasks
  BY <1>p DEF PoolType
<1>s. p.pending_callback_map[h] = NoResult => q = p
  BY <1>p, <1>t DEF PoolType
<1>3. /\ q.pending_callback_map[h] = NoResult
      /\ \A k \in Handles \ {h} : q.pending_callback_map[k] = p.pending_callback_map[k]
  BY <1>2, <1>t
<1>4. /\ hd2[h] = WaitingIn(g)
      /\ \A k \in Handles \ {h} : hd2[k] = hd[k]
  BY DEF HandleType
<1> HIDE DEF q, hd2
<1>5. GroupsInv(q)
  BY <1>2 DEF PoolInv, GroupsInv, Counted, JobsTracked, Mapped, IsEmpty, IdleBorn, Limited,
              NumActiveSocketSlots, TotalSockets
<1>6. Owned(q, hd2) /\ HeldBorn(q)
  <2>1. \A k \in Groups : HoldersOf(q, hd2, k) = HoldersOf(p, hd, k)
    BY <1>2, <1>4 DEF HoldersOf
  <2> QED
    BY <2>1, <1>2 DEF PoolInv, HandlesInv, Owned, HeldBorn
<1>7. \A k \in Groups : \A i \in 1 .. Len(p.pending[k]) : p.pending[k][i].handle \in Handles \ {h}
  BY DEF NotQueued, PoolInv, HandlesInv, Queued
<1>8. Queued(p.pending, hd2)
  <2> SUFFICES ASSUME NEW k \in Groups, NEW i \in 1 .. Len(p.pending[k])
               PROVE  /\ p.pending[k][i].handle \in Handles
                      /\ hd2[p.pending[k][i].handle] = WaitingIn(k)
                      /\ p.pending[k][i].respect_limits \in RespectLimitsValues
                      /\ \A j \in 1 .. Len(p.pending[k]) :
                           p.pending[k][i].handle = p.pending[k][j].handle => i = j
    BY DEF Queued
  <2>1. hd2[p.pending[k][i].handle] = hd[p.pending[k][i].handle]
    BY <1>4, <1>7
  <2> QED
    BY <2>1 DEF PoolInv, HandlesInv, Queued
<1>9. Waiting(q, NoHandle)
  BY <1>2, <1>3, <1>7 DEF PoolInv, HandlesInv, Waiting
<1>10. Results(q, hd2, NoHandle)
  <2> SUFFICES ASSUME NEW k \in Handles
               PROVE  /\ q.pending_callback_map[k] # NoResult =>
                           /\ hd2[k].group_name # NoGroup
                           /\ ~hd2[k].is_initialized
                           /\ q.tasks[k] > 0
                      /\ q.pending_callback_map[k] = "OK" => q.socket[k] # NoSocket
                      /\ hd2[k].is_initialized => q.socket[k] # NoSocket /\ hd2[k].group_name # NoGroup
                      /\ q.socket[k] # NoSocket =>
                           hd2[k].is_initialized \/ q.pending_callback_map[k] # NoResult
    BY DEF Results
  <2>1. Results(p, hd, NoHandle)
    BY DEF PoolInv, HandlesInv
  <2>2. CASE k = h
    BY <2>2, <1>2, <1>3, <1>4, NullsAssumption DEF CompletionResults, WaitingIn
  <2>3. CASE k # h
    BY <2>1, <2>3, <1>2, <1>3, <1>4, HandlesAssumption DEF Results
  <2> QED
    BY <2>2, <2>3
<1> QED
  BY <1>1, <1>2, <1>s, <1>3, <1>5, <1>6, <1>8, <1>9, <1>10 DEF PoolInv, HandlesInv, NotQueued, q, hd2

\* InsertPendingRequest() of a waiting handle that is not queued keeps the invariant.
LEMMA InsertPendingRequestInv ==
  ASSUME NEW p, NEW hd \in HandleType, NEW h \in Handles, NEW g \in Groups, NEW r \in Request,
         PoolInv(p, hd, NoHandle), g \in p.group_map, NotQueued(p, h),
         r.handle = h, r.respect_limits \in RespectLimitsValues,
         p.socket[h] = NoSocket, p.pending_callback_map[h] = NoResult,
         hd[h] = WaitingIn(g)
  PROVE  PoolInv(InsertPendingRequest(p, g, r), hd, NoHandle)
<1> DEFINE q == InsertPendingRequest(p, g, r)
           s == p.pending[g]
           before == {i \in 1 .. Len(s) : s[i].priority >= r.priority}
           pos == IF r.respect_limits = "DISABLED" THEN 1 ELSE 1 + Cardinality(before)
           t == InsertAt(s, pos, r)
<1>p. p \in PoolType
  BY DEF PoolInv
<1>t. p.pending \in [Groups -> Seq(Request)]
  BY <1>p, PoolFields
<1>s. s \in Seq(Request) /\ Len(s) \in Nat
  BY <1>t, LenProperties
<1>pos. pos \in 1 .. Len(s) + 1
  <2>1. IsFiniteSet(1 .. Len(s)) /\ Cardinality(1 .. Len(s)) = Len(s)
    BY <1>s, IntervalCardinality
  <2>2. before \subseteq 1 .. Len(s)
    OBVIOUS
  <2> HIDE DEF before
  <2>3. IsFiniteSet(before) /\ Cardinality(before) <= Len(s) /\ Cardinality(before) \in Nat
    BY <2>1, <2>2, FS_Subset, FS_CardinalityType
  <2> QED
    BY <2>3, <1>s
<1> HIDE DEF pos
<1>i. /\ t \in Seq(Request) /\ Len(t) = Len(s) + 1
      /\ \A j \in 1 .. Len(s) + 1 :
           t[j] = IF j < pos THEN s[j] ELSE IF j = pos THEN r ELSE s[j - 1]
  <2> HIDE DEF s
  <2> QED
    BY <1>s, <1>pos, InsertAtProperties
<1>1. q \in PoolType
  <2>1. [p.pending EXCEPT ![g] = t] \in [Groups -> Seq(Request)]
    BY <1>t, <1>i
  <2> QED
    BY <1>p, <2>1 DEF PoolType, InsertPendingRequest, pos
<1>2. /\ q.group_map = p.group_map
      /\ q.pending = [p.pending EXCEPT ![g] = t]
      /\ q.jobs = p.jobs
      /\ q.unassigned = p.unassigned
      /\ q.idle = p.idle
      /\ q.active = p.active
      /\ q.backup_timer = p.backup_timer
      /\ q.idle_socket_count = p.idle_socket_count
      /\ q.connecting_socket_count = p.connecting_socket_count
      /\ q.handed_out_socket_count = p.handed_out_socket_count
      /\ q.generation = p.generation
      /\ q.pending_callback_map = p.pending_callback_map
      /\ q.socket = p.socket
      /\ q.pool_id = p.pool_id
      /\ q.tasks = p.tasks
  BY <1>p DEF PoolType, InsertPendingRequest, pos
<1>3. /\ q.pending[g] = t
      /\ \A k \in Groups \ {g} : q.pending[k] = p.pending[k]
  BY <1>2, <1>t
<1> HIDE DEF q, t
<1>4. GroupsInv(q)
  <2>1. Counted(q)
    BY <1>2 DEF PoolInv, GroupsInv, Counted
  <2>2. JobsTracked(q)
    BY <1>2 DEF PoolInv, GroupsInv, JobsTracked
  <2>3. Mapped(q)
    BY <1>2, <1>3 DEF PoolInv, GroupsInv, Mapped, IsEmpty
  <2>4. IdleBorn(q)
    BY <1>2 DEF PoolInv, GroupsInv, IdleBorn
  <2>5. Limited(q)
    BY <1>2 DEF PoolInv, GroupsInv, Limited, NumActiveSocketSlots, TotalSockets
  <2> QED
    BY <2>1, <2>2, <2>3, <2>4, <2>5 DEF GroupsInv
\* Every other request was queued before, at a place of its own.
<1>5. \A k \in Groups : \A j \in 1 .. Len(q.pending[k]) :
        LET from == IF k = g /\ j > pos THEN j - 1 ELSE j
        IN  IF k = g /\ j = pos THEN q.pending[k][j] = r
            ELSE from \in 1 .. Len(p.pending[k]) /\ q.pending[k][j] = p.pending[k][from]
  <2> SUFFICES ASSUME NEW k \in Groups, NEW j \in 1 .. Len(q.pending[k])
               PROVE  LET from == IF k = g /\ j > pos THEN j - 1 ELSE j
                      IN  IF k = g /\ j = pos THEN q.pending[k][j] = r
                          ELSE from \in 1 .. Len(p.pending[k]) /\ q.pending[k][j] = p.pending[k][from]
    OBVIOUS
  <2>1. CASE k = g
    BY <2>1, <1>3, <1>s, <1>i, <1>pos
  <2>2. CASE k # g
    BY <2>2, <1>3
  <2> QED
    BY <2>1, <2>2
<1>6. \A k \in Groups : \A n \in 1 .. Len(p.pending[k]) :
        /\ p.pending[k][n].handle \in Handles \ {h}
        /\ hd[p.pending[k][n].handle] = WaitingIn(k)
        /\ p.pending[k][n].respect_limits \in RespectLimitsValues
        /\ \A m \in 1 .. Len(p.pending[k]) :
             p.pending[k][n].handle = p.pending[k][m].handle => n = m
  BY DEF PoolInv, HandlesInv, Queued, NotQueued
<1>7. Queued(q.pending, hd)
  <2> SUFFICES ASSUME NEW k \in Groups, NEW j \in 1 .. Len(q.pending[k])
               PROVE  /\ q.pending[k][j].handle \in Handles
                      /\ hd[q.pending[k][j].handle] = WaitingIn(k)
                      /\ q.pending[k][j].respect_limits \in RespectLimitsValues
                      /\ \A m \in 1 .. Len(q.pending[k]) :
                           q.pending[k][j].handle = q.pending[k][m].handle => j = m
    BY DEF Queued
  <2> DEFINE from(n) == IF k = g /\ n > pos THEN n - 1 ELSE n
             new(n) == k = g /\ n = pos
  <2>1. \A n \in 1 .. Len(q.pending[k]) :
          IF new(n) THEN q.pending[k][n] = r
          ELSE from(n) \in 1 .. Len(p.pending[k]) /\ q.pending[k][n] = p.pending[k][from(n)]
    BY <1>5
  <2>2. Len(q.pending[k]) \in Nat /\ pos \in Nat
    BY <1>1, <1>pos, <1>s, PoolCounts
  <2>3. \A m, n \in 1 .. Len(q.pending[k]) :
          /\ new(m) /\ new(n) => m = n
          /\ ~new(m) /\ ~new(n) /\ from(m) = from(n) => m = n
          /\ new(m) => k = g
    BY <2>2
  <2> HIDE DEF from, new
  <2>a. \A n \in 1 .. Len(p.pending[k]) : p.pending[k][n].handle # h
    BY DEF NotQueued
  <2>b. \A m, n \in 1 .. Len(p.pending[k]) :
          p.pending[k][n].handle = p.pending[k][m].handle => n = m
    BY <1>6
  <2>4. \A m \in 1 .. Len(q.pending[k]) : (q.pending[k][m].handle = h) <=> new(m)
    <3> SUFFICES ASSUME NEW m \in 1 .. Len(q.pending[k])
                 PROVE  (q.pending[k][m].handle = h) <=> new(m)
      OBVIOUS
    <3>1. CASE new(m)
      BY <3>1, <2>1
    <3>2. CASE ~new(m)
      BY <3>2, <2>1, <2>a
    <3> QED
      BY <3>1, <3>2
  <2>5. \A m \in 1 .. Len(q.pending[k]) :
          q.pending[k][j].handle = q.pending[k][m].handle => j = m
    <3> SUFFICES ASSUME NEW m \in 1 .. Len(q.pending[k]),
                        q.pending[k][j].handle = q.pending[k][m].handle
                 PROVE  j = m
      OBVIOUS
    <3>1. CASE new(j)
      BY <3>1, <2>3, <2>4
    <3>2. CASE ~new(j)
      <4>1. ~new(m)
        BY <3>2, <2>4
      <4>2. /\ from(j) \in 1 .. Len(p.pending[k]) /\ q.pending[k][j] = p.pending[k][from(j)]
            /\ from(m) \in 1 .. Len(p.pending[k]) /\ q.pending[k][m] = p.pending[k][from(m)]
        BY <3>2, <4>1, <2>1
      <4>3. from(j) = from(m)
        BY <4>2, <2>b
      <4> QED
        BY <3>2, <4>1, <4>3, <2>3
    <3> QED
      BY <3>1, <3>2
  <2>6. CASE new(j)
    BY <2>1, <2>3, <2>5, <2>6
  <2>7. CASE ~new(j)
    BY <2>1, <2>5, <2>7, <1>6
  <2> QED
    BY <2>6, <2>7
<1>8. Waiting(q, NoHandle)
  <2> SUFFICES ASSUME NEW k \in Groups, NEW j \in 1 .. Len(q.pending[k])
               PROVE  /\ q.socket[q.pending[k][j].handle] = NoSocket
                      /\ q.pending_callback_map[q.pending[k][j].handle] = NoResult
    BY DEF Waiting
  <2>1. CASE k = g /\ j = pos
    BY <2>1, <1>2, <1>5
  <2>2. CASE ~(k = g /\ j = pos)
    <3> DEFINE from == IF k = g /\ j > pos THEN j - 1 ELSE j
    <3>1. from \in 1 .. Len(p.pending[k]) /\ q.pending[k][j] = p.pending[k][from]
      BY <2>2, <1>5
    <3> HIDE DEF from
    <3>2. p.pending[k][from].handle # NoHandle
      <4>1. p.pending[k][from].handle \in Handles
        BY <3>1 DEF PoolInv, HandlesInv, Queued
      <4> QED
        BY <4>1, HandlesAssumption
    <3> QED
      BY <3>1, <3>2, <1>2 DEF PoolInv, HandlesInv, Waiting
  <2> QED
    BY <2>1, <2>2
<1>9. Owned(q, hd) /\ HeldBorn(q) /\ Results(q, hd, NoHandle)
  BY <1>2 DEF PoolInv, HandlesInv, Owned, HoldersOf, HeldBorn, Results
<1> QED
  BY <1>1, <1>4, <1>7, <1>8, <1>9 DEF PoolInv, HandlesInv, q

\* Handle h gives up its socket of group g, and its result if it has one.
Dropped(p, g, h) ==
  [p EXCEPT !.socket[h] = NoSocket, !.pool_id[h] = -1, !.pending_callback_map[h] = NoResult,
            !.handed_out_socket_count = @ - 1, !.active[g] = @ - 1]

Freed(hd, h) == [hd EXCEPT ![h] = WaitingIn(NoGroup)]

\* Taking the socket from a handle that is reset keeps the invariant and makes room.
LEMMA DroppedInv ==
  ASSUME NEW p, NEW hd \in HandleType, NEW h \in Handles, NEW g \in Groups,
         PoolInv(p, hd, NoHandle), p.socket[h] # NoSocket, hd[h].group_name = g
  PROVE  LET q == Dropped(p, g, h)
         IN  /\ PoolInv(q, Freed(hd, h), NoHandle)
             /\ q.group_map = p.group_map /\ g \in p.group_map
             /\ q.generation = p.generation
             /\ q.socket[h] = NoSocket
             /\ NotQueued(q, h)
             /\ Room(q, g)
<1> DEFINE q == Dropped(p, g, h)
           hd2 == Freed(hd, h)
<1>p. p \in PoolType
  BY DEF PoolInv
<1>t. /\ p.active \in [Groups -> Nat] /\ p.handed_out_socket_count \in Nat
      /\ p.socket \in [Handles -> Socket \cup {NoSocket}]
      /\ p.pool_id \in [Handles -> Nat \cup {-1}]
      /\ p.pending_callback_map \in [Handles -> CompletionResults \cup {NoResult}]
      /\ p.jobs \in [Groups -> Nat] /\ p.idle_socket_count \in Nat
      /\ p.connecting_socket_count \in Nat
  BY <1>p, PoolFields
<1>l. Len(p.idle[g]) \in Nat /\ p.active[g] \in Nat /\ p.jobs[g] \in Nat
  BY <1>p, <1>t, PoolCounts
<1>a. p.active[g] > 0 /\ p.handed_out_socket_count > 0
  <2>1. p.active[g] = Cardinality(HoldersOf(p, hd, g))
    BY DEF PoolInv, HandlesInv, Owned
  <2>2. h \in HoldersOf(p, hd, g)
    BY DEF HoldersOf
  <2>3. Cardinality(HoldersOf(p, hd, g)) # 0
    BY <2>2, HoldersFinite, FS_EmptySet
  <2>4. p.active[g] <= Total(p.active)
    BY <1>t, TotalBound
  <2>5. p.active[g] > 0
    BY <2>1, <2>3, <1>l
  <2> QED
    BY <2>4, <2>5, <1>l, <1>t DEF PoolInv, GroupsInv, Counted
<1>1. q \in PoolType
  <2>1. /\ [p.active EXCEPT ![g] = p.active[g] - 1] \in [Groups -> Nat]
        /\ [p.socket EXCEPT ![h] = NoSocket] \in [Handles -> Socket \cup {NoSocket}]
        /\ [p.pool_id EXCEPT ![h] = -1] \in [Handles -> Nat \cup {-1}]
        /\ [p.pending_callback_map EXCEPT ![h] = NoResult]
             \in [Handles -> CompletionResults \cup {NoResult}]
        /\ p.handed_out_socket_count - 1 \in Nat
    BY <1>t, <1>a, <1>l
  <2> QED
    BY <1>p, <2>1 DEF PoolType, Dropped
<1>2. /\ q.group_map = p.group_map
      /\ q.pending = p.pending
      /\ q.jobs = p.jobs
      /\ q.unassigned = p.unassigned
      /\ q.idle = p.idle
      /\ q.active = [p.active EXCEPT ![g] = p.active[g] - 1]
      /\ q.backup_timer = p.backup_timer
      /\ q.idle_socket_count = p.idle_socket_count
      /\ q.connecting_socket_count = p.connecting_socket_count
      /\ q.handed_out_socket_count = p.handed_out_socket_count - 1
      /\ q.generation = p.generation
      /\ q.pending_callback_map = [p.pending_callback_map EXCEPT ![h] = NoResult]
      /\ q.socket = [p.socket EXCEPT ![h] = NoSocket]
      /\ q.pool_id = [p.pool_id EXCEPT ![h] = -1]
      /\ q.tasks = p.tasks
  BY <1>p DEF PoolType, Dropped
<1>h. /\ hd2[h] = WaitingIn(NoGroup)
      /\ \A k \in Handles \ {h} : hd2[k] = hd[k]
  BY DEF HandleType, Freed
<1> HIDE DEF q, hd2
<1>3. /\ q.active[g] = p.active[g] - 1
      /\ q.socket[h] = NoSocket /\ q.pending_callback_map[h] = NoResult
      /\ \A k \in Groups \ {g} : q.active[k] = p.active[k]
      /\ \A k \in Handles \ {h} : /\ q.socket[k] = p.socket[k]
                                  /\ q.pool_id[k] = p.pool_id[k]
                                  /\ q.pending_callback_map[k] = p.pending_callback_map[k]
  BY <1>2, <1>t
<1>4. g \in p.group_map
  BY <1>a, <1>l DEF PoolInv, GroupsInv, Mapped, IsEmpty
<1>5. OnlyGroup(p, q, g)
  <2>1. /\ p.idle_socket_count = p.idle_socket_count - (Len(p.idle[g]) - Len(p.idle[g]))
        /\ p.connecting_socket_count = p.connecting_socket_count - (p.jobs[g] - p.jobs[g])
        /\ p.handed_out_socket_count - 1
             = p.handed_out_socket_count - (p.active[g] - (p.active[g] - 1))
    BY <1>t, <1>l
  <2> QED
    BY <2>1, <1>2, <1>3 DEF OnlyGroup
<1>6. /\ NumActiveSocketSlots(q, g) < NumActiveSocketSlots(p, g)
      /\ NumActiveSocketSlots(q, g) <= NumActiveSocketSlots(p, g)
  <2> DEFINE a == p.active[g]  j == p.jobs[g]  l == Len(p.idle[g])
  <2>1. NumActiveSocketSlots(q, g) = a - 1 + j + l /\ NumActiveSocketSlots(p, g) = a + j + l
    BY <1>2, <1>3 DEF NumActiveSocketSlots
  <2>2. a \in Nat /\ j \in Nat /\ l \in Nat
    BY <1>l
  <2> HIDE DEF a, j, l
  <2> QED
    BY <2>1, <2>2
<1>g. GroupsInv(p)
  BY DEF PoolInv
<1>7. GroupsInv(q)
  <2>1. q.unassigned[g] <= q.jobs[g] /\ (q.backup_timer[g] => q.jobs[g] > 0)
    BY <1>2 DEF PoolInv, GroupsInv, JobsTracked
  <2>2. \A i \in 1 .. Len(q.idle[g]) : q.idle[g][i].birth = p.generation
    BY <1>2 DEF PoolInv, GroupsInv, IdleBorn
  <2> QED
    BY <1>p, <1>1, <1>4, <1>5, <1>6, <1>g, <2>1, <2>2, OnlyGroupInv
<1>8. Room(q, g)
  BY <1>p, <1>1, <1>5, <1>6, <1>g, RoomAfterShrink
<1>9. Owned(q, hd2)
  <2> SUFFICES ASSUME NEW k \in Groups
               PROVE  q.active[k] = Cardinality(HoldersOf(q, hd2, k))
    BY DEF Owned
  <2>1. p.active[k] = Cardinality(HoldersOf(p, hd, k))
    BY DEF PoolInv, HandlesInv, Owned
  <2>2. CASE k = g
    <3>1. HoldersOf(q, hd2, g) = HoldersOf(p, hd, g) \ {h} /\ h \in HoldersOf(p, hd, g)
      BY <1>3, <1>h DEF HoldersOf
    <3>2. Cardinality(HoldersOf(p, hd, g) \ {h}) = Cardinality(HoldersOf(p, hd, g)) - 1
      BY <3>1, HoldersFinite, FS_RemoveElement
    <3> QED
      BY <2>1, <2>2, <3>1, <3>2, <1>3
  <2>3. CASE k # g
    <3>1. HoldersOf(q, hd2, k) = HoldersOf(p, hd, k)
      BY <2>3, <1>3, <1>h DEF HoldersOf
    <3> QED
      BY <2>1, <2>3, <3>1, <1>3
  <2> QED
    BY <2>2, <2>3
<1>10. HeldBorn(q)
  <2> SUFFICES ASSUME NEW k \in Handles, q.socket[k] # NoSocket
               PROVE  q.socket[k].birth = q.pool_id[k] /\ q.pool_id[k] <= q.generation
    BY DEF HeldBorn
  <2>1. k # h
    BY <1>3
  <2> QED
    BY <2>1, <1>2, <1>3 DEF PoolInv, HandlesInv, HeldBorn
<1>11. \A k \in Groups : \A i \in 1 .. Len(p.pending[k]) :
         /\ p.pending[k][i].handle \in Handles \ {h}
         /\ p.socket[p.pending[k][i].handle] = NoSocket
         /\ p.pending_callback_map[p.pending[k][i].handle] = NoResult
  <2> SUFFICES ASSUME NEW k \in Groups, NEW i \in 1 .. Len(p.pending[k])
               PROVE  /\ p.pending[k][i].handle \in Handles \ {h}
                      /\ p.socket[p.pending[k][i].handle] = NoSocket
                      /\ p.pending_callback_map[p.pending[k][i].handle] = NoResult
    OBVIOUS
  <2>1. p.pending[k][i].handle \in Handles
    BY DEF PoolInv, HandlesInv, Queued
  <2>2. p.pending[k][i].handle # NoHandle
    BY <2>1, HandlesAssumption
  <2>3. /\ p.socket[p.pending[k][i].handle] = NoSocket
        /\ p.pending_callback_map[p.pending[k][i].handle] = NoResult
    BY <2>2 DEF PoolInv, HandlesInv, Waiting
  <2> QED
    BY <2>1, <2>3
<1>12. Queued(p.pending, hd2)
  <2> SUFFICES ASSUME NEW k \in Groups, NEW i \in 1 .. Len(p.pending[k])
               PROVE  /\ p.pending[k][i].handle \in Handles
                      /\ hd2[p.pending[k][i].handle] = WaitingIn(k)
                      /\ p.pending[k][i].respect_limits \in RespectLimitsValues
                      /\ \A j \in 1 .. Len(p.pending[k]) :
                           p.pending[k][i].handle = p.pending[k][j].handle => i = j
    BY DEF Queued
  <2>1. hd2[p.pending[k][i].handle] = hd[p.pending[k][i].handle]
    BY <1>h, <1>11
  <2> QED
    BY <2>1 DEF PoolInv, HandlesInv, Queued
<1>13. Waiting(q, NoHandle)
  BY <1>2, <1>3, <1>11 DEF Waiting
<1>14. Results(q, hd2, NoHandle)
  <2> SUFFICES ASSUME NEW k \in Handles
               PROVE  /\ q.pending_callback_map[k] # NoResult =>
                           /\ hd2[k].group_name # NoGroup
                           /\ ~hd2[k].is_initialized
                           /\ q.tasks[k] > 0
                      /\ q.pending_callback_map[k] = "OK" => q.socket[k] # NoSocket
                      /\ hd2[k].is_initialized => q.socket[k] # NoSocket /\ hd2[k].group_name # NoGroup
                      /\ q.socket[k] # NoSocket =>
                           hd2[k].is_initialized \/ q.pending_callback_map[k] # NoResult
    BY DEF Results
  <2>1. Results(p, hd, NoHandle)
    BY DEF PoolInv, HandlesInv
  <2>2. CASE k = h
    BY <2>2, <1>3, <1>h, NullsAssumption DEF CompletionResults, WaitingIn
  <2>3. CASE k # h
    BY <2>1, <2>3, <1>2, <1>3, <1>h, HandlesAssumption DEF Results
  <2> QED
    BY <2>2, <2>3
<1>15. NotQueued(q, h)
  BY <1>2, <1>11 DEF NotQueued
<1> QED
  BY <1>1, <1>2, <1>3, <1>4, <1>7, <1>8, <1>9, <1>10, <1>12, <1>13, <1>14, <1>15
     DEF PoolInv, HandlesInv, q, hd2

-------------------------------------------------------------------------------
(* The methods that choose among idle sockets. *)

\* The totals of p and q, where q has one socket less, in a group not in except.
OneLess(p, q, except) ==
  /\ q.idle_socket_count = p.idle_socket_count - 1
  /\ q.connecting_socket_count = p.connecting_socket_count
  /\ q.handed_out_socket_count = p.handed_out_socket_count
  /\ \A m \in except : /\ q.idle[m] = p.idle[m]
                       /\ m \in p.group_map => m \in q.group_map

\* CloseOneIdleSocketExceptInGroup() keeps the invariant; it closes exactly one socket
\* of another group unless none is idle.
LEMMA CloseOneIdleSocketExceptInGroupInv ==
  ASSUME NEW p, NEW hd, NEW x, NEW except \in SUBSET Groups, PoolInv(p, hd, x),
         NEW q \in CloseOneIdleSocketExceptInGroup(p, except)
  PROVE  /\ PoolInv(q, hd, x)
         /\ SameHandles(p, q)
         /\ q.jobs = p.jobs
         /\ q.unassigned = p.unassigned
         /\ \/ q = p /\ \A k \in Groups \ except : p.idle[k] = <<>>
            \/ OneLess(p, q, except)
<1> DEFINE candidates == {g \in p.group_map \ except : p.idle[g] # <<>>}
<1>p. p \in PoolType /\ Mapped(p)
  BY DEF PoolInv, GroupsInv
<1>t. p.idle \in [Groups -> Seq(Socket)] /\ p.group_map \subseteq Groups /\ p.idle_socket_count \in Nat
  BY <1>p, PoolFields
<1>1. CASE candidates = {}
  <2>1. q = p
    BY <1>1 DEF CloseOneIdleSocketExceptInGroup
  <2>2. \A k \in Groups \ except : p.idle[k] = <<>>
    BY <1>1, <1>p DEF Mapped, IsEmpty
  <2> QED
    BY <2>1, <2>2 DEF SameHandles
<1>2. CASE candidates # {}
  <2>1. PICK g \in candidates :
          q = RemoveGroupIfEmpty([p EXCEPT !.idle[g] = Tail(@), !.idle_socket_count = @ - 1], g)
    BY <1>2 DEF CloseOneIdleSocketExceptInGroup
  <2> DEFINE s == p.idle[g]
             t == Tail(s)
             c == CutIdle(p, g, t)
  <2>2. g \in Groups /\ g \in p.group_map /\ g \notin except /\ s \in Seq(Socket) /\ s # <<>>
    BY <1>t
  <2>3. /\ t \in Seq(Socket) /\ Len(t) = Len(s) - 1 /\ Len(s) \in Nat \ {0}
        /\ \A i \in 1 .. Len(t) : t[i] = s[i + 1]
    BY <2>2, HeadTailProperties, LenProperties, EmptySeq
  <2>4. CutFits(p.idle[g], t)
    BY <2>3 DEF CutFits
  <2>6. c = [p EXCEPT !.idle[g] = Tail(@), !.idle_socket_count = @ - 1]
    <3>1. p.idle_socket_count - 1 = p.idle_socket_count - (Len(s) - Len(t))
      BY <2>3, <1>t
    <3> QED
      BY <3>1 DEF CutIdle
  <2> HIDE DEF c, t
  <2>7. /\ PoolInv(c, hd, x) /\ SameHandles(p, c) /\ c.group_map = p.group_map
        /\ c.unassigned = p.unassigned /\ c.jobs = p.jobs
        /\ \A k \in Groups \ {g} : c.idle[k] = p.idle[k]
    <3>1. PoolInv(c, hd, x) /\ SameHandles(p, c) /\ c.group_map = p.group_map
      BY <2>2, <2>4, CutIdleInv DEF c
    <3>2. /\ c.unassigned = p.unassigned /\ c.jobs = p.jobs
          /\ \A k \in Groups \ {g} : c.idle[k] = p.idle[k]
      BY <1>p, <2>2, CutIdleFields DEF c
    <3> QED
      BY <3>1, <3>2
  <2>8. /\ c.idle_socket_count = p.idle_socket_count - 1
        /\ c.connecting_socket_count = p.connecting_socket_count
        /\ c.handed_out_socket_count = p.handed_out_socket_count
        /\ \A m \in Groups \ {g} : c.idle[m] = p.idle[m]
    BY <2>6, <2>7, <1>p, <1>t DEF PoolType
  <2>9. PoolInv(RemoveGroupIfEmpty(c, g), hd, x)
    BY <2>2, <2>7, GroupMapOperatorsInv
  <2>10. q = RemoveGroupIfEmpty(c, g)
    BY <2>1, <2>6
  <2>11. /\ SameHandles(c, q) /\ q.jobs = c.jobs /\ q.unassigned = c.unassigned /\ q.idle = c.idle
         /\ q.idle_socket_count = c.idle_socket_count
         /\ q.connecting_socket_count = c.connecting_socket_count
         /\ q.handed_out_socket_count = c.handed_out_socket_count
         /\ \A m \in Groups \ {g} : m \in c.group_map => m \in q.group_map
    <3>1. c \in PoolType
      BY <2>7 DEF PoolInv
    <3> QED
      BY <2>10, <3>1 DEF RemoveGroupIfEmpty, SameHandles, PoolType
  <2>12. OneLess(p, q, except)
    BY <2>2, <2>7, <2>8, <2>11 DEF OneLess
  <2> QED
    BY <2>7, <2>9, <2>10, <2>11, <2>12 DEF SameHandles
<1> QED
  BY <1>1, <1>2

\* CloseOneIdleSocket() keeps the invariant.
LEMMA CloseOneIdleSocketInv ==
  ASSUME NEW p, NEW hd, NEW x, PoolInv(p, hd, x), NEW q \in CloseOneIdleSocket(p)
  PROVE  PoolInv(q, hd, x)
<1>1. CASE p.idle_socket_count = 0
  BY <1>1 DEF CloseOneIdleSocket
<1>2. CASE p.idle_socket_count # 0
  <2>1. q \in CloseOneIdleSocketExceptInGroup(p, {}) /\ {} \in SUBSET Groups
    BY <1>2 DEF CloseOneIdleSocket
  <2> QED
    BY <2>1, CloseOneIdleSocketExceptInGroupInv
<1> QED
  BY <1>1, <1>2

\* Less in every group is less in total.
LEMMA TotalMonotonic ==
  ASSUME NEW m \in [Groups -> Nat], NEW n \in [Groups -> Nat], \A g \in Groups : m[g] <= n[g]
  PROVE  Total(m) <= Total(n)
<1>1. Slots(m) \subseteq Slots(n)
  BY DEF Slots
<1> QED
  BY <1>1, SlotsFinite, FS_Subset DEF Total

\* Keeping some of the idle sockets of every group keeps the invariant.
LEMMA KeepIdleSocketsInv ==
  ASSUME NEW p, NEW hd, NEW x, NEW idle, PoolInv(p, hd, x),
         idle \in [Groups -> Seq(Socket)], \A g \in Groups : CutFits(p.idle[g], idle[g])
  PROVE  PoolInv(KeepIdleSockets(p, idle), hd, x) /\ SameHandles(p, KeepIdleSockets(p, idle))
<1> DEFINE m == IdleCounts(idle)
           n == IdleCounts(p.idle)
           q == [p EXCEPT !.idle = idle, !.idle_socket_count = @ - (Total(n) - Total(m))]
<1>p. p \in PoolType
  BY DEF PoolInv
<1>1. n \in [Groups -> Nat] /\ \A g \in Groups : n[g] = Len(p.idle[g]) /\ n[g] \in Nat
  BY <1>p, PoolCounts DEF IdleCounts
<1>2. m \in [Groups -> Nat] /\ \A g \in Groups : m[g] = Len(idle[g]) /\ m[g] \in Nat
  BY LenProperties DEF IdleCounts
<1>3. \A g \in Groups : m[g] <= n[g]
  BY <1>1, <1>2 DEF CutFits
<1>4. Total(m) <= Total(n) /\ Total(m) \in Nat /\ Total(n) \in Nat /\ p.idle_socket_count = Total(n)
  <2>1. p.idle_socket_count = Total(n)
    BY DEF PoolInv, GroupsInv, Counted
  <2> HIDE DEF m, n
  <2> QED
    BY <2>1, <1>1, <1>2, <1>3, TotalMonotonic, SlotsFinite
<1>5. p.idle_socket_count - (Total(n) - Total(m)) = Total(m)
  BY <1>4
<1>6. q \in PoolType
  BY <1>p, <1>4, <1>5 DEF PoolType
<1>7. /\ q.group_map = p.group_map
      /\ q.pending = p.pending
      /\ q.jobs = p.jobs
      /\ q.unassigned = p.unassigned
      /\ q.idle = idle
      /\ q.active = p.active
      /\ q.backup_timer = p.backup_timer
      /\ q.idle_socket_count = Total(m)
      /\ q.connecting_socket_count = p.connecting_socket_count
      /\ q.handed_out_socket_count = p.handed_out_socket_count
      /\ q.generation = p.generation
      /\ SameHandles(p, q)
  BY <1>p, <1>5 DEF PoolType, SameHandles
<1>8. KeepIdleSockets(p, idle) = RemoveEmptyGroups(q)
  BY DEF KeepIdleSockets
<1> HIDE DEF q
<1>9. Counted(q)
  BY <1>7 DEF PoolInv, GroupsInv, Counted
<1>10. JobsTracked(q)
  BY <1>7 DEF PoolInv, GroupsInv, JobsTracked
<1>11. Mapped(q)
  <2> SUFFICES ASSUME NEW g \in Groups, g \notin p.group_map
               PROVE  IsEmpty(q, g)
    BY <1>7 DEF Mapped
  <2>1. IsEmpty(p, g)
    BY DEF PoolInv, GroupsInv, Mapped
  <2>2. Len(p.idle[g]) = 0
    BY <2>1 DEF IsEmpty
  <2>3. Len(idle[g]) = 0 /\ idle[g] \in Seq(Socket)
    BY <2>2, <1>1, <1>2, <1>3
  <2>4. idle[g] = <<>>
    BY <2>3
  <2> QED
    BY <2>1, <2>4, <1>7 DEF IsEmpty
<1>12. IdleBorn(q)
  <2> SUFFICES ASSUME NEW g \in Groups, NEW i \in 1 .. Len(idle[g])
               PROVE  idle[g][i].birth = p.generation
    BY <1>7 DEF IdleBorn
  <2>1. PICK j \in 1 .. Len(p.idle[g]) : idle[g][i] = p.idle[g][j]
    BY DEF CutFits
  <2> QED
    BY <2>1 DEF PoolInv, GroupsInv, IdleBorn
<1>13. Limited(q)
  <2> SUFFICES ASSUME RespectLimitsValues = {"ENABLED"}
               PROVE  /\ \A k \in Groups : NumActiveSocketSlots(q, k) <= max_sockets_per_group
                      /\ TotalSockets(q) <= max_sockets
    BY DEF Limited
  <2>1. /\ \A k \in Groups : NumActiveSocketSlots(p, k) <= max_sockets_per_group
        /\ TotalSockets(p) <= max_sockets
    BY DEF PoolInv, GroupsInv, Limited
  <2>2. TotalSockets(q) <= max_sockets
    <3>1. /\ p.handed_out_socket_count \in Nat /\ p.connecting_socket_count \in Nat
      BY <1>p, PoolFields
    <3> QED
      BY <3>1, <2>1, <1>4, <1>7, LimitsAssumption DEF TotalSockets
  <2>3. ASSUME NEW k \in Groups
        PROVE  NumActiveSocketSlots(q, k) <= max_sockets_per_group
    <3> DEFINE a == p.active[k]  j == p.jobs[k]  l == Len(p.idle[k])  ll == Len(idle[k])
    <3>1. a \in Nat /\ j \in Nat
      BY <1>p, PoolFields
    <3>2. l \in Nat /\ ll \in Nat /\ ll <= l
      BY <1>1, <1>2, <1>3
    <3>3. NumActiveSocketSlots(q, k) = a + j + ll /\ NumActiveSocketSlots(p, k) = a + j + l
      BY <1>7 DEF NumActiveSocketSlots
    <3>4. NumActiveSocketSlots(p, k) <= max_sockets_per_group
      BY <2>1
    <3> HIDE DEF a, j, l, ll
    <3> QED
      BY <3>1, <3>2, <3>3, <3>4, LimitsAssumption
  <2> QED
    BY <2>2, <2>3
<1>14. HandlesInv(q, hd, x)
  BY <1>7, SameHandlesInv DEF PoolInv
<1>15. PoolInv(q, hd, x)
  BY <1>6, <1>9, <1>10, <1>11, <1>12, <1>13, <1>14 DEF PoolInv, GroupsInv
<1>16. PICK g \in Groups : TRUE
  BY GroupsAssumption
<1>17. PoolInv(RemoveEmptyGroups(q), hd, x)
  BY <1>15, <1>16, GroupMapOperatorsInv
<1>18. SameHandles(q, RemoveEmptyGroups(q))
  BY <1>6 DEF RemoveEmptyGroups, SameHandles, PoolType
<1> QED
  BY <1>7, <1>8, <1>17, <1>18 DEF SameHandles

\* CleanupIdleSockets() keeps the invariant, forced or not.
LEMMA CleanupIdleSocketsInv ==
  ASSUME NEW p, NEW hd, NEW x, NEW force \in BOOLEAN, PoolInv(p, hd, x),
         NEW q \in CleanupIdleSockets(p, force)
  PROVE  PoolInv(q, hd, x) /\ SameHandles(p, q)
<1>p. p.idle \in [Groups -> Seq(Socket)]
  BY PoolFields DEF PoolInv
<1>1. CASE p.idle_socket_count = 0
  BY <1>1 DEF CleanupIdleSockets, SameHandles
<1>2. CASE p.idle_socket_count # 0 /\ force
  <2> DEFINE none == [g \in Groups |-> <<>>]
  <2>1. q = KeepIdleSockets(p, none)
    BY <1>2 DEF CleanupIdleSockets
  <2>2. none \in [Groups -> Seq(Socket)]
    OBVIOUS
  <2>3. \A g \in Groups : CutFits(p.idle[g], none[g])
    <3> SUFFICES ASSUME NEW g \in Groups
                 PROVE  CutFits(p.idle[g], <<>>)
      OBVIOUS
    <3>1. Len(p.idle[g]) \in Nat
      BY <1>p, LenProperties
    <3> QED
      BY <3>1 DEF CutFits
  <2> HIDE DEF none
  <2> QED
    BY <2>1, <2>2, <2>3, KeepIdleSocketsInv
<1>3. CASE p.idle_socket_count # 0 /\ ~force
  <2>1. PICK idle : /\ \A g \in Groups : idle[g] \in Survivors(p.idle[g])
                    /\ idle \in [Groups -> UNION {Survivors(p.idle[g]) : g \in Groups}]
                    /\ q = KeepIdleSockets(p, idle)
    BY <1>3 DEF CleanupIdleSockets
  <2>2. ASSUME NEW g \in Groups
        PROVE  CutFits(p.idle[g], idle[g])
    <3>1. p.idle[g] \in Seq(Socket) /\ idle[g] \in Survivors(p.idle[g])
      BY <1>p, <2>1
    <3> QED
      BY <3>1, SurvivorsProperties DEF CutFits
  <2>3. idle \in [Groups -> Seq(Socket)]
    BY <2>1, <2>2 DEF CutFits
  <2> QED
    BY <2>1, <2>2, <2>3, KeepIdleSocketsInv
<1> QED
  BY <1>1, <1>2, <1>3

===============================================================================
