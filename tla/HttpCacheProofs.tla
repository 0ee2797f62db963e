-------------------------- MODULE HttpCacheProofs ---------------------------
(***************************************************************************)
(* The events of HttpCacheTransaction preserve the invariant of            *)
(* HttpCacheInvariant, and what follows from it: the entries are managed   *)
(* as the code assumes, pointers and queues agree, and the lock implements *)
(* EntryLock.                                                              *)
(***************************************************************************)
EXTENDS HttpCacheInvariant

-----------------------------------------------------------------------------
(* Leaving a queue. *)

\* An element that occurs once is removed where it is.
LEMMA FirstOccurrence ==
  ASSUME NEW n \in Nat, NEW i \in 1 .. n, NEW I, I = {i}
  PROVE  I # {} /\ Min(I) = i
  BY DEF Min

\* Removing the first occurrence of what occurs once at i removes position i.
LEMMA RemoveFirstOnce ==
  ASSUME NEW S, NEW q \in Seq(S), NEW t, NEW i \in 1 .. Len(q), q[i] = t,
         \A j \in 1 .. Len(q) : q[j] = t => j = i
  PROVE  RemoveFirst(q, t) = RemoveAt(q, i)
<1> DEFINE I == {j \in 1 .. Len(q) : q[j] = t}
<1>1. I = {i} /\ Len(q) \in Nat
  OBVIOUS
<1>2. I # {} /\ Min(I) = i
  BY <1>1, FirstOccurrence
<1>3. SelectInSeq(q, LAMBDA v : v = t) = i
  BY <1>2 DEF SelectInSeq
<1> QED
  BY <1>3 DEF RemoveFirst

\* Removing what does not occur removes nothing.
LEMMA RemoveFirstAbsent ==
  ASSUME NEW S, NEW q \in Seq(S), NEW t, \A j \in 1 .. Len(q) : q[j] # t
  PROVE  RemoveFirst(q, t) = q
  BY DEF RemoveFirst

\* What is left when the i-th element is removed from q.
Without(q, i, r) ==
  /\ DOMAIN q = 1 .. Len(q) /\ Len(q) \in Nat /\ i \in DOMAIN q
  /\ DOMAIN r = 1 .. Len(q) - 1
  /\ \A j \in DOMAIN r : r[j] = q[IF j < i THEN j ELSE j + 1]

\* RemoveAt() leaves the other positions in their order.
LEMMA RemoveAtWithout ==
  ASSUME NEW S, NEW q \in Seq(S), NEW i \in 1 .. Len(q)
  PROVE  RemoveAt(q, i) \in Seq(S) /\ Without(q, i, RemoveAt(q, i))
<1> DEFINE a == SubSeq(q, 1, i - 1)
           b == SubSeq(q, i + 1, Len(q))
<1>0. Len(q) \in Nat /\ i \in Nat /\ \A j \in 1 .. Len(q) : q[j] \in S
  BY ElementOfSeq
<1>1. a \in Seq(S) /\ Len(a) = i - 1 /\ \A j \in 1 .. i - 1 : a[j] = q[j]
  BY <1>0
<1>2. b \in Seq(S) /\ Len(b) = Len(q) - i /\ \A j \in 1 .. Len(q) - i : b[j] = q[i + j]
  BY <1>0
<1> HIDE DEF a, b
<1>3. /\ a \o b \in Seq(S) /\ Len(a \o b) = Len(a) + Len(b)
      /\ \A j \in 1 .. Len(a) + Len(b) :
           (a \o b)[j] = IF j <= Len(a) THEN a[j] ELSE b[j - Len(a)]
  BY <1>1, <1>2, ConcatProperties
<1>4. Len(a) + Len(b) = Len(q) - 1
  BY <1>0, <1>1, <1>2
<1>5. \A j \in 1 .. Len(q) - 1 : (a \o b)[j] = q[IF j < i THEN j ELSE j + 1]
  <2> TAKE j \in 1 .. Len(q) - 1
  <2>1. (a \o b)[j] = IF j <= Len(a) THEN a[j] ELSE b[j - Len(a)]
    BY <1>3, <1>4
  <2>2. CASE j < i
    <3>1. j <= Len(a) /\ j \in 1 .. i - 1
      BY <2>2, <1>0, <1>1
    <3> QED
      BY <3>1, <2>1, <2>2, <1>1
  <2>3. CASE ~(j < i)
    <3>1. /\ j - (i - 1) \in 1 .. Len(q) - i /\ i + (j - (i - 1)) = j + 1
          /\ ~(j <= Len(a)) /\ j - Len(a) = j - (i - 1)
      BY <2>3, <1>0, <1>1
    <3>2. b[j - (i - 1)] = q[i + (j - (i - 1))]
      BY <3>1, <1>2
    <3> QED
      BY <2>1, <2>3, <3>1, <3>2
  <2> QED
    BY <2>2, <2>3
<1>6. RemoveAt(q, i) = a \o b
  BY DEF RemoveAt, a, b
<1> HIDE DEF a, b
<1>7. DOMAIN RemoveAt(q, i) = 1 .. Len(q) - 1 /\ RemoveAt(q, i) \in Seq(S)
  <2> DEFINE r == RemoveAt(q, i)
  <2>1. r \in Seq(S) /\ Len(r) = Len(q) - 1
    BY <1>3, <1>4, <1>6
  <2> HIDE DEF r
  <2>2. DOMAIN r = 1 .. Len(r)
    BY <2>1
  <2> QED
    BY <2>1, <2>2 DEF r
<1>8. \A j \in 1 .. Len(q) - 1 : RemoveAt(q, i)[j] = q[IF j < i THEN j ELSE j + 1]
  BY <1>5, <1>6
<1>9. DOMAIN q = 1 .. Len(q)
  OBVIOUS
<1> QED
  BY <1>0, <1>7, <1>8, <1>9 DEF Without

\* Tail() is the removal of the first element.
LEMMA TailWithout ==
  ASSUME NEW S, NEW q \in Seq(S), q # <<>>
  PROVE  Tail(q) \in Seq(S) /\ Without(q, 1, Tail(q)) /\ Head(q) = q[1]
<1>1. Len(q) \in Nat /\ Len(q) # 0 /\ DOMAIN q = 1 .. Len(q)
  OBVIOUS
<1>2. /\ Tail(q) \in Seq(S) /\ Len(Tail(q)) = Len(q) - 1
      /\ \A j \in 1 .. Len(q) - 1 : Tail(q)[j] = q[j + 1]
  BY <1>1
<1>3. \A j \in 1 .. Len(q) - 1 : ~(j < 1)
  BY <1>1
<1> QED
  BY <1>1, <1>2, <1>3 DEF Without

\* In a queue where everyone stands once the one who leaves is the only one
\* that is missing.
LEMMA WithoutMembers ==
  ASSUME NEW q, NEW i, NEW r, Without(q, i, r)
  PROVE  /\ \A j \in DOMAIN r : \E k \in DOMAIN q : k # i /\ r[j] = q[k] /\ k >= j
         /\ \A k \in DOMAIN q : k # i => \E j \in DOMAIN r : r[j] = q[k]
         /\ \A j, k \in DOMAIN r :
              \E a, b \in DOMAIN q : /\ r[j] = q[a] /\ r[k] = q[b]
                                     /\ a # i /\ b # i /\ (a = b => j = k)
<1> USE DEF Without
<1>1. \A j \in DOMAIN r : LET k == IF j < i THEN j ELSE j + 1
                          IN k \in DOMAIN q /\ k # i /\ k >= j /\ r[j] = q[k]
  OBVIOUS
<1>2. \A k \in DOMAIN q : k # i => LET j == IF k < i THEN k ELSE k - 1
                                   IN j \in DOMAIN r /\ r[j] = q[k]
  <2> TAKE k \in DOMAIN q
  <2>1. CASE k < i
    BY <2>1
  <2>2. CASE k > i
    BY <2>2
  <2> QED
    BY <2>1, <2>2
<1>3. ASSUME NEW j \in DOMAIN r, NEW k \in DOMAIN r
      PROVE \E a, b \in DOMAIN q : /\ r[j] = q[a] /\ r[k] = q[b]
                                   /\ a # i /\ b # i /\ (a = b => j = k)
  <2> DEFINE a == IF j < i THEN j ELSE j + 1
             b == IF k < i THEN k ELSE k + 1
  <2>1. a = b => j = k
    BY <1>3
  <2>2. a \in DOMAIN q /\ a # i /\ r[j] = q[a]
    BY <1>1
  <2>3. b \in DOMAIN q /\ b # i /\ r[k] = q[b]
    BY <1>1
  <2> HIDE DEF a, b
  <2> QED
    BY <2>1, <2>2, <2>3
<1> QED
  BY <1>1, <1>2, <1>3

\* Those of M leave the queue of the backend.
BackendLeft(s, s2, M) ==
  /\ s2 \in StateRecords
  /\ s2.tr = s.tr /\ s2.entry = s.entry /\ s2.active = s.active
  /\ s2.doomed = s.doomed /\ s2.stored = s.stored /\ s2.pending_op = s.pending_op
  /\ \A j \in DOMAIN s2.backend_op : j > 1 => s2.backend_op[j] # None
  /\ \A j, k \in DOMAIN s2.backend_op : s2.backend_op[j] = s2.backend_op[k] => j = k
  /\ \A u \in Trans : (\E j \in DOMAIN s2.backend_op : s2.backend_op[j] = u)
                        <=> u \notin M /\ \E i \in DOMAIN s.backend_op : s.backend_op[i] = u
  /\ \A u \in M : u \in Trans /\ \E i \in DOMAIN s.backend_op : s.backend_op[i] = u

\* Those who leave the queue of the backend creation are in limbo.
LEMMA BackendLeftGood ==
  ASSUME NEW s, NEW s2, NEW L, NEW o, NEW M, Good(s, L, o), BackendLeft(s, s2, M)
  PROVE  Good(s2, L \cup M, o) /\ \A u \in M : s.tr[u].entry = None
<1> USE DEF BackendLeft
<1>1. \A u \in M : u \in Trans /\ u \notin L /\ s.tr[u].st = "GET_BACKEND"
  BY DEF Good, BackendQueue
<1>2. \A u \in M : s.tr[u].st \notin WorkItemStates /\ s.tr[u].st # "ADD_TO_ENTRY"
                   /\ s.tr[u].entry = None
  <2>1. \A u \in M : Role(s.tr[u])
    BY <1>1 DEF Good, Roles
  <2> QED
    BY <1>1, <2>1 DEF WorkItemStates, Role, WaitStates
<1>3. Linked(s2) /\ ModesMatch(s2) /\ Exclusive(s2) /\ OnlyLive(s2)
  BY DEF Good, Linked, ModesMatch, Exclusive, OnlyLive, Live
<1>4. Attended(s2, o) /\ OpOrEntry(s2) /\ Roles(s2, L \cup M)
  BY DEF Good, Attended, OpOrEntry, Live, Roles
<1>5. BackendQueue(s2, L \cup M)
  BY <1>1 DEF Good, BackendQueue
<1>6. WorkQueue(s2, L \cup M) /\ LockQueue(s2, L \cup M)
  BY <1>2 DEF Good, WorkQueue, LockQueue
<1> QED
  BY <1>2, <1>3, <1>4, <1>5, <1>6 DEF Good

\* Those of M leave the queue of the disk cache.
WorkLeft(s, s2, M) ==
  /\ s2 \in StateRecords
  /\ s2.tr = s.tr /\ s2.entry = s.entry /\ s2.active = s.active
  /\ s2.doomed = s.doomed /\ s2.stored = s.stored /\ s2.backend_op = s.backend_op
  /\ s.pending_op # <<>>
  /\ \A j \in DOMAIN s2.pending_op :
       IF s2.pending_op[j].trans = None
       THEN j > 1 => s2.pending_op[j].operation = "DOOM_ENTRY"
       ELSE s.tr[s2.pending_op[j].trans].st = s2.pending_op[j].operation
  /\ \A j, k \in DOMAIN s2.pending_op :
       s2.pending_op[j].trans = s2.pending_op[k].trans
         => j = k \/ s2.pending_op[j].trans = None
  /\ \A u \in Trans : (\E j \in DOMAIN s2.pending_op : s2.pending_op[j].trans = u)
                        <=> u \notin M /\ \E i \in DOMAIN s.pending_op :
                                            s.pending_op[i].trans = u
  /\ \A u \in M : u \in Trans /\ \E i \in DOMAIN s.pending_op : s.pending_op[i].trans = u

\* Those who leave the work items are in limbo.
LEMMA WorkLeftGood ==
  ASSUME NEW s, NEW s2, NEW L, NEW o, NEW M, Good(s, L, o), WorkLeft(s, s2, M)
  PROVE  Good(s2, L \cup M, o) /\ \A u \in M : s.tr[u].entry = None
<1> USE DEF WorkLeft
<1>1. \A u \in M : u \in Trans /\ u \notin L /\ s.tr[u].st \in WorkItemStates
  BY DEF Good, WorkQueue
<1>2. \A u \in M : s.tr[u].st # "GET_BACKEND" /\ s.tr[u].st # "ADD_TO_ENTRY"
                   /\ s.tr[u].entry = None
  <2>1. \A u \in M : Role(s.tr[u])
    BY <1>1 DEF Good, Roles
  <2> QED
    BY <1>1, <2>1 DEF WorkItemStates, Role, WaitStates
<1>3. Linked(s2) /\ ModesMatch(s2) /\ Exclusive(s2) /\ OnlyLive(s2)
  BY DEF Good, Linked, ModesMatch, Exclusive, OnlyLive, Live
<1>4. Attended(s2, o) /\ OpOrEntry(s2) /\ Roles(s2, L \cup M)
  BY DEF Good, Attended, OpOrEntry, Live, Roles
<1>5. BackendQueue(s2, L \cup M) /\ LockQueue(s2, L \cup M)
  BY <1>2 DEF Good, BackendQueue, LockQueue
<1>6. WorkQueue(s2, L \cup M)
  BY <1>1 DEF Good, WorkQueue
<1> QED
  BY <1>2, <1>3, <1>4, <1>5, <1>6 DEF Good

\* t leaves the queue of the entry e, from its i-th place. The task of the
\* entry may be over with this.
LockLeft(s, s2, e, i, t) ==
  /\ s2 \in StateRecords
  /\ s2.tr = s.tr /\ s2.active = s.active /\ s2.doomed = s.doomed
  /\ s2.stored = s.stored
  /\ s2.backend_op = s.backend_op /\ s2.pending_op = s.pending_op
  /\ e \in Ids /\ t \in Trans
  /\ s.entry[e].pending_queue[i] = t
  /\ Without(s.entry[e].pending_queue, i, s2.entry[e].pending_queue)
  /\ s2.entry[e].writer = s.entry[e].writer
  /\ s2.entry[e].readers = s.entry[e].readers
  /\ s2.entry[e].will_process => s.entry[e].will_process
  /\ \A f \in Ids : f # e => s2.entry[f] = s.entry[f]

\* Whoever leaves the queue of an entry is in limbo.
LEMMA LockLeftGood ==
  ASSUME NEW s, NEW s2, NEW L, NEW o, NEW e, NEW i, NEW t, Good(s, L, o),
         LockLeft(s, s2, e, i, t)
  PROVE  /\ e \in Live(s) /\ Asks(s2, L \cup {t}, t)
         /\ \/ s2.entry[e].will_process = s.entry[e].will_process
            \/ o = e
            => Good(s2, L \cup {t}, o)
<1> USE DEF LockLeft
<1> DEFINE q == s.entry[e].pending_queue
           r == s2.entry[e].pending_queue
<1>1. i \in DOMAIN q /\ t \notin L /\ s.tr[t].st = "ADD_TO_ENTRY"
  BY DEF Good, LockQueue, Without
<1>2. /\ s.tr[t].st \notin WorkItemStates /\ s.tr[t].st # "GET_BACKEND"
      /\ s.tr[t].entry = None /\ s.tr[t].mode # "NONE" /\ s.tr[t].resume = FALSE
  <2>1. Role(s.tr[t])
    BY <1>1 DEF Good, Roles
  <2> QED
    BY <1>1, <2>1 DEF WorkItemStates, Role, WaitStates
<1>3. Asks(s2, L \cup {t}, t)
  BY <1>2 DEF Asks
<1>4. e \in Live(s) /\ Live(s2) = Live(s)
  <2>1. s.entry[e] # FreeEntry
    BY <1>1 DEF FreeEntry
  <2> QED
    BY <2>1 DEF Good, OnlyLive, Live
<1>5. Linked(s2) /\ ModesMatch(s2)
  BY DEF Good, Linked, ModesMatch
<1>6. Exclusive(s2)
  BY DEF Good, Exclusive
<1>7. OnlyLive(s2)
  BY <1>4 DEF Good, OnlyLive
<1>8. ASSUME s2.entry[e].will_process = s.entry[e].will_process \/ o = e
      PROVE  Attended(s2, o)
  BY <1>4, <1>8, LiveIds DEF Good, Attended
<1>9. OpOrEntry(s2) /\ Roles(s2, L \cup {t})
  BY DEF Good, OpOrEntry, Roles
<1>10. BackendQueue(s2, L \cup {t}) /\ WorkQueue(s2, L \cup {t})
  BY <1>2 DEF Good, BackendQueue, WorkQueue
<1>11. LockQueue(s2, L \cup {t})
  <2> DEFINE Q(f) == s.entry[f].pending_queue
             R(f) == s2.entry[f].pending_queue
  <2>1. /\ \A f \in Ids : f # e => R(f) = Q(f)
        /\ Q(e)[i] = t /\ i \in DOMAIN Q(e)
    BY <1>1
  <2>2. /\ \A f, g \in Ids : \A j \in DOMAIN Q(f), k \in DOMAIN Q(g) :
             Q(f)[j] = Q(g)[k] => f = g /\ j = k
        /\ \A u \in Trans : (\E f \in Ids : \E j \in DOMAIN Q(f) : Q(f)[j] = u)
                              <=> u \notin L /\ s.tr[u].st = "ADD_TO_ENTRY"
    BY DEF Good, LockQueue
  <2>3. /\ \A j \in DOMAIN R(e) : \E k \in DOMAIN Q(e) : k # i /\ R(e)[j] = Q(e)[k]
        /\ \A k \in DOMAIN Q(e) : k # i => \E j \in DOMAIN R(e) : R(e)[j] = Q(e)[k]
        /\ \A j, k \in DOMAIN R(e) :
             \E a, b \in DOMAIN Q(e) : /\ R(e)[j] = Q(e)[a] /\ R(e)[k] = Q(e)[b]
                                       /\ (a = b => j = k)
    <3>1. Without(Q(e), i, R(e))
      OBVIOUS
    <3> HIDE DEF Q, R
    <3> QED
      BY <3>1, WithoutMembers
  <2> HIDE DEF Q, R
  <2>4. ASSUME NEW f \in Ids, NEW g \in Ids, NEW j \in DOMAIN R(f),
               NEW k \in DOMAIN R(g), R(f)[j] = R(g)[k]
        PROVE  f = g /\ j = k
    <3>1. CASE f = e /\ g = e
      <4>1. PICK a, b \in DOMAIN Q(e) : /\ R(e)[j] = Q(e)[a] /\ R(e)[k] = Q(e)[b]
                                        /\ (a = b => j = k)
        <5>1. j \in DOMAIN R(e) /\ k \in DOMAIN R(e)
          BY <3>1
        <5> QED
          BY <5>1, <2>3
      <4>2. a = b
        <5>1. Q(e)[a] = Q(e)[b]
          BY <4>1, <2>4, <3>1
        <5>2. e \in Ids
          BY <3>1
        <5> QED
          BY <5>1, <5>2, <4>1, <2>2
      <4> QED
        BY <4>1, <4>2, <3>1
    <3>2. CASE f # e \/ g # e
      BY <2>1, <2>2, <2>3, <2>4, <3>2
    <3> QED
      BY <3>1, <3>2
  <2>5. ASSUME NEW u \in Trans
        PROVE (\E f \in Ids : \E j \in DOMAIN R(f) : R(f)[j] = u)
                <=> u # t /\ \E f \in Ids : \E j \in DOMAIN Q(f) : Q(f)[j] = u
    <3>1. ASSUME NEW f \in Ids, NEW j \in DOMAIN R(f), R(f)[j] = u
          PROVE  u # t /\ \E g \in Ids : \E k \in DOMAIN Q(g) : Q(g)[k] = u
      <4>1. CASE f = e
        BY <4>1, <3>1, <2>1, <2>2, <2>3
      <4>2. CASE f # e
        BY <4>2, <3>1, <2>1, <2>2
      <4> QED
        BY <4>1, <4>2
    <3>2. ASSUME NEW f \in Ids, NEW j \in DOMAIN Q(f), Q(f)[j] = u, u # t
          PROVE  \E g \in Ids : \E k \in DOMAIN R(g) : R(g)[k] = u
      <4>1. CASE f = e
        BY <4>1, <3>2, <2>1, <2>3
      <4>2. CASE f # e
        BY <4>2, <3>2, <2>1
      <4> QED
        BY <4>1, <4>2
    <3> QED
      BY <3>1, <3>2
  <2>6. \A u \in Trans : (\E f \in Ids : \E j \in DOMAIN R(f) : R(f)[j] = u)
                           <=> u \notin L \cup {t} /\ s2.tr[u].st = "ADD_TO_ENTRY"
    BY <2>2, <2>5
  <2> QED
    BY <2>4, <2>6 DEF LockQueue, R
<1> QED
  BY <1>3, <1>4, <1>5, <1>6, <1>7, <1>8, <1>9, <1>10, <1>11 DEF Good

\* What is kept when a transaction leaves a queue: the lock, but for the queues.
SameUse(s, s2) ==
  /\ s2.tr = s.tr /\ s2.active = s.active /\ s2.doomed = s.doomed
  /\ \A f \in Ids : /\ s2.entry[f].writer = s.entry[f].writer
                    /\ s2.entry[f].readers = s.entry[f].readers
                    /\ s2.entry[f].will_process = s.entry[f].will_process

\* The lock is used as before when nobody's use changed.
LEMMA SinceSameUse ==
  ASSUME NEW s0, NEW s, NEW s2, NEW a, s \in StateRecords, Since(s0, s, a),
         SameUse(s, s2)
  PROVE  Since(s0, s2, a)
<1>1. Live(s2) = Live(s) /\ Live(s) \subseteq Ids
  BY LiveIds DEF Live, SameUse
<1> QED
  BY <1>1 DEF Since, SameUse, Released

\* RemovePendingTransaction() finds the transaction in the queue of its entry,
LEMMA RemoveFromLock ==
  ASSUME NEW s, NEW t, Good(s, {}, None), t \in Trans, s.tr[t].st = "ADD_TO_ENTRY"
  PROVE  LET s2 == RemovePendingTransaction(s, t)
         IN Good(s2, {t}, None) /\ SameUse(s, s2)
<1> DEFINE s2 == RemovePendingTransaction(s, t)
           N(f) == [s.entry[f] EXCEPT !.pending_queue = RemoveFirst(@, t)]
           Q(f) == s.entry[f].pending_queue
<1>1. s2 = [s EXCEPT !.entry = [f \in Ids |-> N(f)]]
  BY DEF RemovePendingTransaction, WorkItemStates
<1>2. s \in StateRecords /\ s.entry \in [Ids -> EntryRecords]
  BY DEF Good, StateRecords
<1>3. PICK e \in Ids : \E i \in DOMAIN Q(e) : Q(e)[i] = t
  BY DEF Good, LockQueue
<1>4. PICK i \in DOMAIN Q(e) : Q(e)[i] = t
  BY <1>3
<1>5. \A f \in Ids : \A j \in DOMAIN Q(f) : Q(f)[j] = t => f = e /\ j = i
  BY <1>4 DEF Good, LockQueue
<1>6. \A f \in Ids : Q(f) \in Seq(Trans) /\ DOMAIN Q(f) = 1 .. Len(Q(f)) /\ Len(Q(f)) \in Nat
  <2> TAKE f \in Ids
  <2>1. s.entry[f] \in EntryRecords
    BY <1>2
  <2> QED
    BY <2>1 DEF EntryRecords
<1>7. \A f \in Ids : f # e => RemoveFirst(Q(f), t) = Q(f)
  BY <1>5, <1>6, RemoveFirstAbsent
<1>8. RemoveFirst(Q(e), t) = RemoveAt(Q(e), i)
  BY <1>4, <1>5, <1>6, RemoveFirstOnce
<1>9. RemoveAt(Q(e), i) \in Seq(Trans) /\ Without(Q(e), i, RemoveAt(Q(e), i))
  BY <1>4, <1>6, RemoveAtWithout
<1>10. \A f \in Ids : RemoveFirst(Q(f), t) \in Seq(Trans)
  <2> HIDE DEF Q
  <2> QED
    BY <1>6, <1>7, <1>8, <1>9
<1>11. \A f \in Ids : /\ N(f) \in EntryRecords /\ N(f).writer = s.entry[f].writer
                      /\ N(f).readers = s.entry[f].readers
                      /\ N(f).will_process = s.entry[f].will_process
                      /\ N(f).pending_queue = RemoveFirst(Q(f), t)
  <2> TAKE f \in Ids
  <2>1. s.entry[f] \in EntryRecords
    BY <1>2
  <2>2. RemoveFirst(Q(f), t) \in Seq(Trans)
    BY <1>10
  <2> QED
    BY <2>1, <2>2 DEF EntryRecords
<1>12. \A f \in Ids : f # e => N(f) = s.entry[f]
  <2> TAKE f \in Ids
  <2>1. s.entry[f] \in EntryRecords
    BY <1>2
  <2> QED
    BY <2>1, <1>7 DEF EntryRecords
<1> HIDE DEF N
<1>13. /\ s2 \in StateRecords
       /\ s2.tr = s.tr /\ s2.active = s.active /\ s2.doomed = s.doomed
       /\ s2.stored = s.stored /\ s2.backend_op = s.backend_op
       /\ s2.pending_op = s.pending_op /\ s2.entry = [f \in Ids |-> N(f)]
  <2>1. [f \in Ids |-> N(f)] \in [Ids -> EntryRecords]
    BY <1>11
  <2> QED
    BY <1>1, <1>2, <2>1 DEF StateRecords
<1> HIDE DEF s2
<1>14. \A f \in Ids : s2.entry[f] = N(f)
  BY <1>13
<1>15. LockLeft(s, s2, e, i, t)
  BY <1>4, <1>8, <1>9, <1>11, <1>12, <1>13, <1>14 DEF LockLeft
<1>16. SameUse(s, s2)
  BY <1>11, <1>13, <1>14 DEF SameUse
<1>17. Good(s2, {} \cup {t}, None)
  BY <1>15, <1>16, LockLeftGood DEF SameUse
<1>18. {} \cup {t} = {t}
  OBVIOUS
<1> QED
  BY <1>16, <1>17, <1>18 DEF s2

\* in the queue of the backend creation,
LEMMA RemoveFromBackend ==
  ASSUME NEW s, NEW t, Good(s, {}, None), t \in Trans, s.tr[t].st = "GET_BACKEND"
  PROVE  LET s2 == RemovePendingTransaction(s, t)
         IN Good(s2, {t}, None) /\ SameUse(s, s2)
<1> DEFINE s2 == RemovePendingTransaction(s, t)
           q == s.backend_op
           r == IF Head(q) = t THEN [q EXCEPT ![1] = None] ELSE RemoveFirst(q, t)
<1>1. s2 = [s EXCEPT !.backend_op = r]
  BY DEF RemovePendingTransaction, WorkItemStates
<1>2. /\ s \in StateRecords /\ q \in Seq(Trans \cup {None}) /\ None \notin Trans
      /\ DOMAIN q = 1 .. Len(q) /\ Len(q) \in Nat
  BY HttpCacheAssumption DEF Good, StateRecords
<1>3. PICK i \in DOMAIN q : q[i] = t
  BY DEF Good, BackendQueue
<1>4. /\ \A j, k \in DOMAIN q : q[j] = q[k] => j = k
      /\ \A j \in DOMAIN q : j > 1 => q[j] # None
  BY DEF Good, BackendQueue
<1>5. q # <<>> /\ Head(q) = q[1] /\ 1 \in DOMAIN q
  BY <1>2, <1>3
<1> DEFINE Left == /\ r \in Seq(Trans \cup {None})
                   /\ \A j \in DOMAIN r : j > 1 => r[j] # None
                   /\ \A j, k \in DOMAIN r : r[j] = r[k] => j = k
                   /\ \A u \in Trans : (\E j \in DOMAIN r : r[j] = u)
                                         <=> u # t /\ \E j \in DOMAIN q : q[j] = u
<1>6. Left
  <2>1. CASE q[1] = t
    <3>1. r = [q EXCEPT ![1] = None] /\ DOMAIN r = DOMAIN q
      BY <2>1, <1>5
    <3>2. r \in Seq(Trans \cup {None})
      BY <3>1, <1>2, <1>5
    <3>3. r[1] = None /\ \A j \in DOMAIN q : j # 1 => r[j] = q[j]
      BY <3>1, <1>5
    <3> HIDE DEF q, r
    <3>4. \A j \in DOMAIN q : j # 1 => r[j] # None
      BY <3>3, <1>2, <1>4
    <3> QED
      BY <3>1, <3>2, <3>3, <3>4, <1>2, <1>4, <1>5, <2>1
  <2>2. CASE q[1] # t
    <3>1. r = RemoveAt(q, i)
      <4>1. \A j \in 1 .. Len(q) : q[j] = t => j = i
        BY <1>2, <1>3, <1>4
      <4>2. RemoveFirst(q, t) = RemoveAt(q, i)
        BY <4>1, <1>2, <1>3, RemoveFirstOnce
      <4> QED
        BY <4>2, <2>2, <1>5
    <3>2. r \in Seq(Trans \cup {None}) /\ Without(q, i, r)
      BY <3>1, <1>2, <1>3, RemoveAtWithout
    <3> HIDE DEF q, r
    <3>3. /\ \A j \in DOMAIN r : \E k \in DOMAIN q : k # i /\ r[j] = q[k] /\ k >= j
          /\ \A k \in DOMAIN q : k # i => \E j \in DOMAIN r : r[j] = q[k]
          /\ \A j, k \in DOMAIN r :
               \E a, b \in DOMAIN q : /\ r[j] = q[a] /\ r[k] = q[b]
                                      /\ a # i /\ b # i /\ (a = b => j = k)
      BY <3>2, WithoutMembers
    <3>4. ASSUME NEW j \in DOMAIN r, j > 1 PROVE r[j] # None
      <4>1. PICK k \in DOMAIN q : k # i /\ r[j] = q[k] /\ k >= j
        BY <3>3
      <4>2. j \in Int /\ k \in Int
        BY <3>2, <1>2 DEF Without
      <4>3. k > 1
        BY <4>1, <4>2, <3>4
      <4> QED
        BY <4>1, <4>3, <1>4
    <3>5. ASSUME NEW j \in DOMAIN r, NEW k \in DOMAIN r, r[j] = r[k] PROVE j = k
      <4>1. PICK a, b \in DOMAIN q : r[j] = q[a] /\ r[k] = q[b] /\ (a = b => j = k)
        BY <3>3
      <4> QED
        BY <4>1, <3>5, <1>4
    <3>6. \A u \in Trans : (\E j \in DOMAIN r : r[j] = u)
                             <=> u # t /\ \E j \in DOMAIN q : q[j] = u
      BY <3>3, <1>3, <1>4
    <3> QED
      BY <3>2, <3>4, <3>5, <3>6
  <2> QED
    BY <2>1, <2>2
<1> HIDE DEF r
<1>7. /\ s2 \in StateRecords
      /\ s2.tr = s.tr /\ s2.active = s.active /\ s2.doomed = s.doomed
      /\ s2.stored = s.stored /\ s2.backend_op = r
      /\ s2.pending_op = s.pending_op /\ s2.entry = s.entry
  BY <1>1, <1>2, <1>6 DEF StateRecords
<1> HIDE DEF s2
<1>8. BackendLeft(s, s2, {t})
  BY <1>3, <1>6, <1>7 DEF BackendLeft
<1>9. Good(s2, {} \cup {t}, None)
  BY <1>8, BackendLeftGood
<1>10. {} \cup {t} = {t} /\ SameUse(s, s2)
  BY <1>7 DEF SameUse
<1> QED
  BY <1>9, <1>10 DEF s2

\* or among the work items.
LEMMA RemoveFromWork ==
  ASSUME NEW s, NEW t, Good(s, {}, None), t \in Trans, s.tr[t].st \in WorkItemStates
  PROVE  LET s2 == RemovePendingTransaction(s, t)
         IN Good(s2, {t}, None) /\ SameUse(s, s2)
<1> DEFINE s2 == RemovePendingTransaction(s, t)
           q == s.pending_op
           M(item) == item.trans = t
           r == IF Head(q).trans = t THEN [q EXCEPT ![1].trans = None]
                ELSE RemoveFirstMatch(q, M)
<1>1. s2 = [s EXCEPT !.pending_op = r]
  <2>1. CASE Head(q).trans = t
    BY <2>1 DEF RemovePendingTransaction, WorkItemStates
  <2>2. CASE Head(q).trans # t
    BY <2>2 DEF RemovePendingTransaction, WorkItemStates
  <2> QED
    BY <2>1, <2>2
<1>2. /\ s \in StateRecords /\ q \in Seq(WorkItems) /\ None \notin Trans
      /\ DOMAIN q = 1 .. Len(q) /\ Len(q) \in Nat
  BY HttpCacheAssumption DEF Good, StateRecords
<1>3. PICK i \in DOMAIN q : q[i].trans = t
  BY DEF Good, WorkQueue
<1>4. /\ \A j, k \in DOMAIN q : q[j].trans = q[k].trans => j = k \/ q[j].trans = None
      /\ \A j \in DOMAIN q : IF q[j].trans = None
                             THEN j > 1 => q[j].operation = "DOOM_ENTRY"
                             ELSE s.tr[q[j].trans].st = q[j].operation
  BY DEF Good, WorkQueue
<1>5. q # <<>> /\ Head(q) = q[1] /\ 1 \in DOMAIN q
  BY <1>2, <1>3
<1> DEFINE Left == /\ r \in Seq(WorkItems)
                   /\ \A j \in DOMAIN r :
                        IF r[j].trans = None
                        THEN j > 1 => r[j].operation = "DOOM_ENTRY"
                        ELSE s.tr[r[j].trans].st = r[j].operation
                   /\ \A j, k \in DOMAIN r :
                        r[j].trans = r[k].trans => j = k \/ r[j].trans = None
                   /\ \A u \in Trans : (\E j \in DOMAIN r : r[j].trans = u)
                                         <=> u # t /\ \E j \in DOMAIN q : q[j].trans = u
<1>6. Left
  <2>1. CASE q[1].trans = t
    <3>1. r = [q EXCEPT ![1].trans = None] /\ DOMAIN r = DOMAIN q
      BY <2>1, <1>5
    <3>2. q[1] \in WorkItems
      BY <1>2, <1>5
    <3>3. [q[1] EXCEPT !.trans = None] \in WorkItems
      BY <3>2 DEF WorkItems
    <3>4. r \in Seq(WorkItems)
      BY <3>1, <3>3, <1>2, <1>5
    <3>5. r[1].trans = None /\ \A j \in DOMAIN q : j # 1 => r[j] = q[j]
      BY <3>1, <3>2, <1>5 DEF WorkItems
    <3> HIDE DEF q, r
    <3>6. \A j \in DOMAIN r :
            IF r[j].trans = None THEN j > 1 => r[j].operation = "DOOM_ENTRY"
            ELSE s.tr[r[j].trans].st = r[j].operation
      <4> TAKE j \in DOMAIN r
      <4>1. CASE j = 1
        BY <4>1, <3>5
      <4>2. CASE j # 1
        BY <4>2, <3>1, <3>5, <1>4
      <4> QED
        BY <4>1, <4>2
    <3>7. \A j, k \in DOMAIN r : r[j].trans = r[k].trans => j = k \/ r[j].trans = None
      BY <3>1, <3>5, <1>4
    <3>8. \A u \in Trans : (\E j \in DOMAIN r : r[j].trans = u)
                             <=> u # t /\ \E j \in DOMAIN q : q[j].trans = u
      BY <3>1, <3>5, <1>2, <1>4, <1>5, <2>1
    <3> QED
      BY <3>4, <3>6, <3>7, <3>8
  <2>2. CASE q[1].trans # t
    <3>1. r = RemoveAt(q, i)
      <4>1. {j \in 1 .. Len(q) : M(q[j])} = {i}
        BY <1>2, <1>3, <1>4
      <4> DEFINE I == {j \in 1 .. Len(q) : M(q[j])}
      <4>2. I # {} /\ Min(I) = i
        BY <4>1, <1>2, <1>3, FirstOccurrence
      <4>3. SelectInSeq(q, M) = i
        BY <4>2 DEF SelectInSeq
      <4>4. RemoveFirstMatch(q, M) = RemoveAt(q, i)
        BY <4>2, <4>3 DEF RemoveFirstMatch
      <4> QED
        BY <4>4, <2>2, <1>5
    <3>2. r \in Seq(WorkItems) /\ Without(q, i, r)
      BY <3>1, <1>2, <1>3, RemoveAtWithout
    <3> HIDE DEF q, r
    <3>3. /\ \A j \in DOMAIN r : \E k \in DOMAIN q : k # i /\ r[j] = q[k] /\ k >= j
          /\ \A k \in DOMAIN q : k # i => \E j \in DOMAIN r : r[j] = q[k]
          /\ \A j, k \in DOMAIN r :
               \E a, b \in DOMAIN q : /\ r[j] = q[a] /\ r[k] = q[b]
                                      /\ a # i /\ b # i /\ (a = b => j = k)
      BY <3>2, WithoutMembers
    <3>4. ASSUME NEW j \in DOMAIN r
          PROVE  IF r[j].trans = None THEN j > 1 => r[j].operation = "DOOM_ENTRY"
                 ELSE s.tr[r[j].trans].st = r[j].operation
      <4>1. PICK k \in DOMAIN q : k # i /\ r[j] = q[k] /\ k >= j
        BY <3>3
      <4>2. j \in Int /\ k \in Int
        BY <3>2, <1>2 DEF Without
      <4>3. j > 1 => k > 1
        BY <4>1, <4>2
      <4> QED
        BY <4>1, <4>3, <1>4
    <3>5. ASSUME NEW j \in DOMAIN r, NEW k \in DOMAIN r, r[j].trans = r[k].trans
          PROVE  j = k \/ r[j].trans = None
      <4>1. PICK a, b \in DOMAIN q : r[j] = q[a] /\ r[k] = q[b] /\ (a = b => j = k)
        BY <3>3
      <4> QED
        BY <4>1, <3>5, <1>4
    <3>6. ASSUME NEW u \in Trans
          PROVE  (\E j \in DOMAIN r : r[j].trans = u)
                   <=> u # t /\ \E j \in DOMAIN q : q[j].trans = u
      <4>1. ASSUME NEW j \in DOMAIN r, r[j].trans = u
            PROVE  u # t /\ \E k \in DOMAIN q : q[k].trans = u
        <5>1. PICK k \in DOMAIN q : k # i /\ r[j] = q[k]
          BY <3>3
        <5> QED
          BY <5>1, <4>1, <1>2, <1>3, <1>4
      <4>2. ASSUME NEW k \in DOMAIN q, q[k].trans = u, u # t
            PROVE  \E j \in DOMAIN r : r[j].trans = u
        <5>1. PICK j \in DOMAIN r : r[j] = q[k]
          BY <4>2, <3>3, <1>3
        <5> QED
          BY <5>1, <4>2
      <4> QED
        BY <4>1, <4>2
    <3> QED
      BY <3>2, <3>4, <3>5, <3>6
  <2> QED
    BY <2>1, <2>2
<1> HIDE DEF r
<1>7. /\ s2 \in StateRecords
      /\ s2.tr = s.tr /\ s2.active = s.active /\ s2.doomed = s.doomed
      /\ s2.stored = s.stored /\ s2.pending_op = r
      /\ s2.backend_op = s.backend_op /\ s2.entry = s.entry
  BY <1>1, <1>2, <1>6 DEF StateRecords
<1> HIDE DEF s2
<1>8. WorkLeft(s, s2, {t})
  BY <1>3, <1>5, <1>6, <1>7 DEF WorkLeft
<1>9. Good(s2, {} \cup {t}, None)
  BY <1>8, WorkLeftGood
<1>10. {} \cup {t} = {t} /\ SameUse(s, s2)
  BY <1>7 DEF SameUse
<1> QED
  BY <1>9, <1>10 DEF s2

\* RemovePendingTransaction() finds the transaction wherever it waits.
LEMMA RemovePendingTransactionGood ==
  ASSUME NEW s, NEW t, Good(s, {}, None), t \in Trans, s.tr[t].st \in WaitStates
  PROVE  LET s2 == RemovePendingTransaction(s, t)
         IN Good(s2, {t}, None) /\ SameUse(s, s2) /\ s2.tr[t].entry = None
<1>1. s.tr[t].entry = None
  BY DEF Good, Roles, Role
<1>2. Good(RemovePendingTransaction(s, t), {t}, None)
        /\ SameUse(s, RemovePendingTransaction(s, t))
  <2>1. CASE s.tr[t].st = "ADD_TO_ENTRY"
    BY <1>1, <2>1, RemoveFromLock
  <2>2. CASE s.tr[t].st = "GET_BACKEND"
    BY <1>1, <2>2, RemoveFromBackend
  <2>3. CASE s.tr[t].st \in WorkItemStates
    BY <1>1, <2>3, RemoveFromWork
  <2> QED
    BY <2>1, <2>2, <2>3 DEF WaitStates
<1> QED
  BY <1>1, <1>2 DEF SameUse

-----------------------------------------------------------------------------
(* The tasks of the cache. *)

\* OnProcessPendingQueue() closes an entry that nobody uses and nobody waits
\* for, or gives it to the first in the queue, or leaves it to its readers.
LEMMA OnProcessPendingQueueGood ==
  ASSUME NEW s, NEW e, Good(s, {}, None), e \in Ids, s.entry[e].will_process
  PROVE  LET s2 == OnProcessPendingQueue(s, e)
         IN Good(s2, {}, None) /\ Since(s, s2, None)
<1> DEFINE N == [s.entry[e] EXCEPT !.will_process = FALSE]
           s1 == [s EXCEPT !.entry[e].will_process = FALSE]
           q == s.entry[e].pending_queue
           next == Head(q)
           s3 == [s1 EXCEPT !.entry[e].pending_queue = Tail(@)]
<1>1. /\ s \in StateRecords /\ s.entry \in [Ids -> EntryRecords]
      /\ s.entry[e] \in EntryRecords
  BY DEF Good, StateRecords
<1>2. /\ N \in EntryRecords /\ N.writer = s.entry[e].writer
      /\ N.readers = s.entry[e].readers /\ N.pending_queue = q /\ N.will_process = FALSE
  BY <1>1 DEF EntryRecords
<1>3. s.entry[e].writer = None /\ e \in Live(s)
  BY <1>1 DEF Good, Exclusive, OnlyLive, FreeEntry
<1>4. /\ s1 \in StateRecords /\ s1.entry = [s.entry EXCEPT ![e] = N]
      /\ s1.tr = s.tr /\ s1.active = s.active /\ s1.doomed = s.doomed
      /\ s1.stored = s.stored /\ s1.backend_op = s.backend_op
      /\ s1.pending_op = s.pending_op
  <2>1. s1 = [s EXCEPT !.entry = [s.entry EXCEPT ![e] = N]]
    BY <1>1 DEF StateRecords
  <2>2. [s.entry EXCEPT ![e] = N] \in [Ids -> EntryRecords]
    BY <1>1, <1>2
  <2> HIDE DEF N, s1
  <2> QED
    BY <1>1, <2>1, <2>2 DEF StateRecords
<1>5. s1.entry[e] = N /\ \A f \in Ids : f # e => s1.entry[f] = s.entry[f]
  <2> HIDE DEF N, s1
  <2> QED
    BY <1>1, <1>4
<1>6. q \in Seq(Trans)
  BY <1>1 DEF EntryRecords
<1>7. OnProcessPendingQueue(s, e) =
        CASE N.writer = None /\ N.readers = {} /\ q = <<>> -> DestroyEntry(s1, e)
          [] q = <<>> /\ (N.writer # None \/ N.readers # {}) -> s1
          [] q # <<>> /\ Writes(s1.tr[next].mode) /\ N.readers # {} -> s1
          [] OTHER -> AddTransactionToEntry(s3, e, next)
  BY <1>2, <1>5 DEF OnProcessPendingQueue
<1>8. Live(s1) = Live(s)
  BY <1>4 DEF Live
<1> HIDE DEF s1
<1>9. s3 = [s1 EXCEPT !.entry[e].pending_queue = Tail(@)]
  OBVIOUS
<1> HIDE DEF N, s3
<1>10. Good(s1, {}, e) /\ (N.readers # {} => Good(s1, {}, None))
  <2>1. Linked(s1) /\ ModesMatch(s1) /\ Exclusive(s1)
    BY <1>2, <1>4, <1>5 DEF Good, Linked, ModesMatch, Exclusive
  <2>2. OnlyLive(s1) /\ Attended(s1, e) /\ (N.readers # {} => Attended(s1, None))
    <3>1. OnlyLive(s1)
      BY <1>3, <1>5, <1>8 DEF Good, OnlyLive
    <3>2. \A f \in Live(s) : f \in Ids /\ f # None
      BY <1>1, LiveIds, HttpCacheAssumption DEF Ids
    <3>3. Attended(s1, e)
      BY <3>2, <1>5, <1>8 DEF Good, Attended
    <3>4. N.readers # {} => Attended(s1, None)
      BY <3>2, <1>5, <1>8 DEF Good, Attended
    <3> QED
      BY <3>1, <3>3, <3>4
  <2>3. OpOrEntry(s1) /\ Roles(s1, {}) /\ BackendQueue(s1, {}) /\ WorkQueue(s1, {})
    BY <1>4 DEF Good, OpOrEntry, Roles, BackendQueue, WorkQueue
  <2>4. LockQueue(s1, {})
    <3>1. \A f \in Ids : s1.entry[f].pending_queue = s.entry[f].pending_queue
      BY <1>2, <1>5
    <3> QED
      BY <3>1, <1>4 DEF Good, LockQueue
  <2> QED
    BY <2>1, <2>2, <2>3, <2>4, <1>4 DEF Good
<1>11. Since(s, s1, None)
  <2>1. \A u \in Trans : Moves(s, s.tr[u], s1.tr[u])
    BY <1>4 DEF Moves
  <2>2. \A f \in Live(s1) : Released(s.entry[f], s1.entry[f])
    BY <1>1, <1>2, <1>3, <1>5, <1>8, LiveIds DEF Released
  <2> QED
    BY <2>1, <2>2 DEF Since
<1>12. CASE N.readers = {} /\ q = <<>>
  <2> DEFINE s2 == DestroyEntry(s1, e)
  <2>1. OnProcessPendingQueue(s, e) = s2
    BY <1>2, <1>3, <1>7, <1>12
  <2>2. /\ s1.entry[e].writer = None /\ s1.entry[e].readers = {} /\ e \in Live(s1)
        /\ Queued(s1, e) = {} /\ {} \cup Queued(s1, e) = {}
    BY <1>2, <1>3, <1>5, <1>8, <1>12 DEF Queued
  <2>3. /\ Good(s2, {} \cup Queued(s1, e), None)
        /\ s2.tr = s1.tr /\ Live(s2) = Live(s1) \ {e}
        /\ \A f \in Ids : f # e => s2.entry[f] = s1.entry[f]
    <3>1. /\ e \in Live(s1) /\ s1.entry[e].writer = None /\ s1.entry[e].readers = {}
          /\ e \in {e, None} /\ Good(s1, {}, e)
      BY <2>2, <1>10
    <3>2. LET s5 == DestroyEntry(s1, e)
          IN /\ Good(s5, {} \cup Queued(s1, e), None)
             /\ s5.tr = s1.tr /\ Live(s5) = Live(s1) \ {e}
             /\ s5.active \in {s1.active, None}
             /\ \A f \in Ids : f # e => s5.entry[f] = s1.entry[f]
             /\ \A u \in Queued(s1, e) : Asks(s5, {} \cup Queued(s1, e), u)
      <4> HIDE DEF s2
      <4> QED
        BY <3>1, DestroyEntryGood
    <3> QED
      BY <3>2
  <2> HIDE DEF s2
  <2>4. Since(s, s2, None)
    BY <2>3, <1>11, <1>4, LiveIds DEF Since
  <2> QED
    BY <2>1, <2>2, <2>3, <2>4
<1>13. CASE N.readers # {} /\ (q = <<>> \/ Writes(s1.tr[next].mode))
  <2>1. OnProcessPendingQueue(s, e) = s1
    BY <1>2, <1>3, <1>7, <1>13
  <2> QED
    BY <2>1, <1>10, <1>11, <1>13
<1>14. CASE q # <<>> /\ ~(N.readers # {} /\ Writes(s1.tr[next].mode))
  <2> DEFINE s2 == AddTransactionToEntry(s3, e, next)
             P == [N EXCEPT !.pending_queue = Tail(q)]
  <2>1. OnProcessPendingQueue(s, e) = s2
    BY <1>2, <1>3, <1>7, <1>14
  <2>2. Tail(q) \in Seq(Trans) /\ Without(q, 1, Tail(q)) /\ next = q[1] /\ next \in Trans
    <3>1. Tail(q) \in Seq(Trans) /\ Without(q, 1, Tail(q)) /\ Head(q) = q[1]
      BY <1>6, <1>14, TailWithout
    <3>2. next \in Trans
      BY <1>6, <1>14
    <3> QED
      BY <3>1, <3>2
  <2>3. /\ P \in EntryRecords /\ P.writer = N.writer /\ P.readers = N.readers
        /\ P.will_process = FALSE /\ P.pending_queue = Tail(q)
    BY <1>2, <2>2 DEF EntryRecords
  <2>4. s3 = [s1 EXCEPT !.entry = [s1.entry EXCEPT ![e] = P]]
    BY <1>1, <1>2, <1>4, <1>5, <1>9 DEF StateRecords
  <2> HIDE DEF P, next
  <2>5. /\ s3 \in StateRecords /\ s3.entry = [s1.entry EXCEPT ![e] = P]
        /\ s3.tr = s1.tr /\ s3.active = s1.active /\ s3.doomed = s1.doomed
        /\ s3.stored = s1.stored /\ s3.backend_op = s1.backend_op
        /\ s3.pending_op = s1.pending_op
    <3>1. s1.entry \in [Ids -> EntryRecords]
      BY <1>4 DEF StateRecords
    <3>2. [s1.entry EXCEPT ![e] = P] \in [Ids -> EntryRecords]
      BY <3>1, <2>3
    <3> QED
      BY <1>4, <2>4, <3>2 DEF StateRecords
  <2>6. s3.entry[e] = P /\ \A f \in Ids : f # e => s3.entry[f] = s1.entry[f]
    <3>1. s1.entry \in [Ids -> EntryRecords]
      BY <1>4 DEF StateRecords
    <3> QED
      BY <3>1, <2>5
  <2>7. LockLeft(s1, s3, e, 1, next)
    BY <1>2, <1>5, <2>2, <2>3, <2>5, <2>6 DEF LockLeft
  <2>8. Good(s3, {} \cup {next}, e) /\ Asks(s3, {} \cup {next}, next)
    BY <2>7, <1>10, LockLeftGood
  <2>9. Since(s, s3, None) /\ Live(s3) = Live(s)
    <3>1. Live(s3) = Live(s1)
      BY <2>5 DEF Live
    <3>2. \A f \in Live(s3) : Released(s.entry[f], s3.entry[f])
      <4> TAKE f \in Live(s3)
      <4>1. Released(s.entry[f], s1.entry[f]) /\ f \in Ids
        BY <3>1, <1>4, <1>11, LiveIds DEF Since
      <4> QED
        BY <4>1, <2>3, <2>6, <1>2, <1>5 DEF Released
    <3>3. \A u \in Trans : u # None => Moves(s, s.tr[u], s3.tr[u])
      BY <2>5, <1>11 DEF Since
    <3> QED
      BY <3>1, <3>2, <3>3, <1>8 DEF Since
  <2>10. /\ Good(s2, ({} \cup {next}) \ {next}, None) /\ Told(s3, s2, e, next)
    BY <2>8, <2>9, <1>3, AddTransactionToEntryGood
  <2> HIDE DEF s2
  <2>11. Since(s, s2, None)
    BY <2>5, <2>8, <2>9, <2>10, SinceTold DEF Asks
  <2>12. ({} \cup {next}) \ {next} = {}
    OBVIOUS
  <2> QED
    BY <2>1, <2>10, <2>11, <2>12
<1> QED
  BY <1>12, <1>13, <1>14

\* The queued items are told in turn: the function by which OnIOComplete() is
\* defined exists.
TellNext(acc, op, ok, item) ==
  LET r == QueuedResult(op, ok, acc.s.active # None, acc.fail, item)
  IN [s |-> Notify(acc.s, item.trans, r.result), fail |-> r.fail]

Tells(f, first, op, ok, queue) ==
  f = [n \in 0 .. Len(queue) |->
         IF n = 0 THEN first ELSE TellNext(f[n - 1], op, ok, queue[n])]

\* The fold that tells a queue its result is a function of the position.
LEMMA TellsExist ==
  ASSUME NEW first, NEW op, NEW ok, NEW queue, Len(queue) \in Nat
  PROVE  \E f : Tells(f, first, op, ok, queue)
<1> DEFINE Up(f, m) == f = [n \in 0 .. m |->
                              IF n = 0 THEN first
                              ELSE TellNext(f[n - 1], op, ok, queue[n])]
           S == {m \in Nat : \E f : Up(f, m)}
<1>1. 0 \in S
  <2>1. Up([n \in 0 .. 0 |-> first], 0)
    OBVIOUS
  <2> HIDE DEF Up
  <2> QED
    BY <2>1
<1>2. ASSUME NEW m \in 0 .. Len(queue), m < Len(queue), m \in S
      PROVE  m + 1 \in S
  <2>1. PICK f : Up(f, m)
    BY <1>2
  <2> DEFINE g == [n \in 0 .. m + 1 |->
                     IF n = m + 1 THEN TellNext(f[m], op, ok, queue[m + 1]) ELSE f[n]]
  <2>2. m \in Nat /\ m + 1 \in Nat
    OBVIOUS
  <2>3. \A n \in 0 .. m : f[n] = IF n = 0 THEN first
                                 ELSE TellNext(f[n - 1], op, ok, queue[n])
    <3> DEFINE F == [n \in 0 .. m |-> IF n = 0 THEN first
                                      ELSE TellNext(f[n - 1], op, ok, queue[n])]
    <3>1. f = F
      BY <2>1
    <3>2. \A n \in 0 .. m : F[n] = IF n = 0 THEN first
                                   ELSE TellNext(f[n - 1], op, ok, queue[n])
      OBVIOUS
    <3> QED
      BY <3>1, <3>2
  <2>4. \A n \in 0 .. m + 1 :
          g[n] = IF n = 0 THEN first ELSE TellNext(g[n - 1], op, ok, queue[n])
    <3> TAKE n \in 0 .. m + 1
    <3>1. CASE n = m + 1
      <4>1. g[n] = TellNext(f[m], op, ok, queue[n]) /\ g[n - 1] = f[m] /\ n # 0
        BY <3>1, <2>2
      <4> QED
        BY <4>1
    <3>2. CASE n # m + 1
      <4>1. n \in 0 .. m /\ g[n] = f[n]
        BY <3>2, <2>2
      <4>2. n # 0 => g[n - 1] = f[n - 1]
        BY <3>2, <2>2
      <4> QED
        BY <4>1, <4>2, <2>3
    <3> QED
      BY <3>1, <3>2
  <2>5. g = [n \in 0 .. m + 1 |-> g[n]]
    OBVIOUS
  <2> HIDE DEF g
  <2>6. Up(g, m + 1)
    BY <2>4, <2>5
  <2> HIDE DEF Up
  <2> QED
    BY <2>6, <2>2
<1> HIDE DEF S
<1>3. Len(queue) \in S
  <2>1. \A k \in 0 .. Len(queue) : k \in S
    BY <1>1, <1>2, UpTo
  <2> QED
    BY <2>1
<1> QED
  BY <1>3 DEF S, Tells

\* The disk cache has answered: no item is left, those of L are to be told,
\* and a is the entry that was opened or created, if any.
Answered(s, s1, L, a) ==
  /\ s1 \in StateRecords
  /\ s1.tr = s.tr /\ s1.entry = s.entry /\ s1.doomed = s.doomed
  /\ s1.backend_op = s.backend_op /\ s1.pending_op = <<>>
  /\ s1.active = a /\ a \in Ids \cup {None} /\ a \notin s.doomed
  /\ s1.stored \notin s.doomed
  /\ s.active = None
  /\ L = {u \in Trans : \E i \in DOMAIN s.pending_op : s.pending_op[i].trans = u}

\* The answer of the backend puts everyone who asked in limbo.
LEMMA AnsweredGood ==
  ASSUME NEW s, NEW s1, NEW L, NEW a, Good(s, {}, None), Answered(s, s1, L, a)
  PROVE  /\ Good(s1, L, a) /\ Since(s, s1, None)
         /\ \A u \in L : Asks(s1, L, u)
<1> USE DEF Answered
<1>0. /\ s \in StateRecords /\ None \notin Ids /\ None \notin Trans
      /\ Live(s) = s.doomed /\ Live(s1) = s.doomed \cup ({a} \ {None})
      /\ s.doomed \subseteq Ids /\ Live(s1) \subseteq Ids
  BY LiveIds, HttpCacheAssumption DEF Good, Live, Ids, StateRecords
<1>1. \A u \in L : u \in Trans /\ s.tr[u].st \in WorkItemStates
  BY DEF Good, WorkQueue
<1>2. \A u \in L : s.tr[u].st # "GET_BACKEND" /\ s.tr[u].st # "ADD_TO_ENTRY"
                   /\ s.tr[u].entry = None /\ s.tr[u].mode # "NONE" /\ s.tr[u].resume = FALSE
  <2>1. \A u \in L : Role(s.tr[u])
    BY <1>1 DEF Good, Roles
  <2> QED
    BY <1>1, <2>1 DEF WorkItemStates, Role, WaitStates
<1>3. Linked(s1) /\ ModesMatch(s1) /\ Exclusive(s1)
  BY DEF Good, Linked, ModesMatch, Exclusive
<1>4. OnlyLive(s1)
  BY <1>0 DEF Good, OnlyLive
<1>5. Attended(s1, a)
  BY <1>0 DEF Good, Attended
<1>6. OpOrEntry(s1) /\ Roles(s1, L)
  BY DEF Good, OpOrEntry, Roles
<1>7. BackendQueue(s1, L) /\ LockQueue(s1, L)
  BY <1>2 DEF Good, BackendQueue, LockQueue
<1>8. WorkQueue(s1, L)
  <2>1. DOMAIN s1.pending_op = {}
    OBVIOUS
  <2>2. \A u \in Trans : s.tr[u].st \in WorkItemStates => u \in L
    BY DEF Good, WorkQueue
  <2> QED
    BY <2>1, <2>2 DEF WorkQueue
<1>9. Since(s, s1, None)
  <2>1. \A u \in Trans : Moves(s, s.tr[u], s1.tr[u])
    BY DEF Moves
  <2>2. \A f \in Live(s1) : Released(s.entry[f], s1.entry[f])
    BY DEF Released
  <2> QED
    BY <2>1, <2>2 DEF Since
<1>10. \A u \in L : Asks(s1, L, u)
  BY <1>1, <1>2 DEF Asks
<1> QED
  BY <1>3, <1>4, <1>5, <1>6, <1>7, <1>8, <1>9, <1>10 DEF Good

\* An item of the queue is told what became of it; nobody is told "OK" unless
\* there is an active entry.
MayTell(s0, acc, L, item) ==
  /\ Good(acc.s, L, None) /\ Since(s0, acc.s, None) /\ acc.fail \in BOOLEAN
  /\ L \subseteq Trans /\ item \in WorkItems
  /\ item.trans # None => Asks(acc.s, L, item.trans)

ToldItem(s0, s, L, acc, item) ==
  /\ Good(acc.s, L \ {item.trans}, None) /\ Since(s0, acc.s, None)
  /\ \A u \in Trans : u # item.trans => acc.s.tr[u] = s.tr[u]
  /\ acc.fail \in BOOLEAN

\* Each of the queued transactions is told in turn.
LEMMA TellNextGood ==
  ASSUME NEW s0, NEW acc, NEW L, NEW op, NEW ok, NEW item, ok \in BOOLEAN,
         MayTell(s0, acc, L, item)
  PROVE  ToldItem(s0, acc.s, L, TellNext(acc, op, ok, item), item)
<1> USE DEF MayTell, ToldItem
<1> DEFINE r == QueuedResult(op, ok, acc.s.active # None, acc.fail, item)
           m == acc.s
           t == item.trans
           next == TellNext(acc, op, ok, item)
<1>1. /\ r.fail \in BOOLEAN
      /\ r.result = "OK" => acc.s.active # None
  BY DEF QueuedResult
<1>2. next.s = Notify(m, t, r.result) /\ next.fail = r.fail
  BY DEF TellNext
<1> HIDE DEF r
<1>3. CASE t = None
  <2>1. next.s = m
    BY <1>2, <1>3 DEF Notify
  <2>2. L \ {t} = L
    BY <1>3, HttpCacheAssumption
  <2> QED
    BY <2>1, <2>2, <1>1, <1>2, <1>3
<1>4. CASE t # None
  <2>1. Asks(m, L, t)
    BY <1>4
  <2>2. /\ Good(Notify(m, t, r.result), L \ {t}, None)
        /\ Told(m, Notify(m, t, r.result), m.active, t)
    BY <2>1, <1>1, NotifyGood
  <2>3. Since(s0, Notify(m, t, r.result), None)
    BY <2>1, <2>2, SinceTold DEF Asks, Good
  <2> QED
    BY <2>2, <2>3, <1>1, <1>2 DEF Told
<1> QED
  BY <1>3, <1>4

\* The disk cache answers the first item; an item that has lost its transaction
\* activates nothing.
Answer(s, op, ok, valid, id) ==
  [s EXCEPT
     !.pending_op = <<>>,
     !.active = CASE valid /\ op = "OPEN_ENTRY" -> s.stored
                  [] valid /\ op = "CREATE_ENTRY" -> id
                  [] OTHER -> None,
     !.stored = CASE op = "DOOM_ENTRY" /\ ok -> None
                  [] op = "CREATE_ENTRY" /\ valid -> id
                  [] OTHER -> @,
     !.data = [e \in Ids |-> IF op = "DOOM_ENTRY" /\ ok /\ e = s.stored
                             THEN NoData ELSE @[e]]]

\* What the disk cache may answer: it opens and dooms what it has, and creates
\* an entry of its own.
MayAnswer(s, op, ok, id) ==
  /\ ok \in BOOLEAN
  /\ op = "CREATE_ENTRY" => (ok => id \in Ids \ Live(s))
  /\ op # "CREATE_ENTRY" => ok = (s.stored # None)

\* What OnIOComplete() does first answers the work item.
LEMMA AnswerIsAnswered ==
  ASSUME NEW s, NEW op, NEW ok, NEW valid, NEW id, NEW L,
         Good(s, {}, None), s.pending_op # <<>>, MayAnswer(s, op, ok, id),
         valid \in BOOLEAN, valid => ok /\ op # "DOOM_ENTRY", op \in WorkItemStates,
         L = {u \in Trans : \E i \in DOMAIN s.pending_op : s.pending_op[i].trans = u}
  PROVE  LET s1 == Answer(s, op, ok, valid, id)
         IN Answered(s, s1, L, s1.active) /\ (s1.active # None <=> valid)
<1> DEFINE s1 == Answer(s, op, ok, valid, id)
           A == CASE valid /\ op = "OPEN_ENTRY" -> s.stored
                  [] valid /\ op = "CREATE_ENTRY" -> id
                  [] OTHER -> None
           B == CASE op = "DOOM_ENTRY" /\ ok -> None
                  [] op = "CREATE_ENTRY" /\ valid -> id
                  [] OTHER -> s.stored
           D == [e \in Ids |-> IF op = "DOOM_ENTRY" /\ ok /\ e = s.stored
                               THEN NoData ELSE s.data[e]]
<1>1. /\ s \in StateRecords /\ s.active = None /\ s.stored \notin s.doomed
      /\ None \notin Ids /\ s.stored \in Ids \cup {None} /\ s.doomed \subseteq Ids
      /\ s.data \in [Ids -> DataRecords]
  BY HttpCacheAssumption DEF Good, OpOrEntry, StateRecords, Ids
<1>2. /\ A \in Ids \cup {None} /\ A \notin s.doomed /\ (A # None <=> valid)
  BY <1>1 DEF MayAnswer, WorkItemStates, Live
<1>3. B \in Ids \cup {None} /\ B \notin s.doomed
  BY <1>1 DEF MayAnswer, WorkItemStates, Live
<1>4. D \in [Ids -> DataRecords]
  BY <1>1 DEF DataRecords, NoData, Bodies
<1>5. s1 = [s EXCEPT !.pending_op = <<>>, !.active = A, !.stored = B, !.data = D]
  BY <1>1 DEF Answer, StateRecords
<1> HIDE DEF s1, A, B, D
<1>6. /\ s1 \in StateRecords
      /\ s1.tr = s.tr /\ s1.entry = s.entry /\ s1.doomed = s.doomed
      /\ s1.backend_op = s.backend_op /\ s1.pending_op = <<>>
      /\ s1.active = A /\ s1.stored = B
  <2>1. <<>> \in Seq(WorkItems)
    OBVIOUS
  <2> QED
    BY <2>1, <1>1, <1>2, <1>3, <1>4, <1>5 DEF StateRecords
<1>7. Answered(s, s1, L, s1.active) /\ (s1.active # None <=> valid)
  BY <1>1, <1>2, <1>3, <1>6 DEF Answered
<1> QED
  BY <1>7 DEF s1

\* The first item is told: if it opened or created an entry, that entry is used
\* or waited for from now on.
TellFirst(s, ok, item) ==
  [s |-> Notify(s, item.trans, IF ok THEN "OK" ELSE "FAILED"),
   fail |-> ok /\ ~(ok /\ item.operation # "DOOM_ENTRY" /\ item.trans # None)]

MayTellFirst(s, s1, L, ok, item) ==
  /\ Good(s, {}, None) /\ Answered(s, s1, L, s1.active) /\ ok \in BOOLEAN
  /\ s1.active # None <=> ok /\ item.operation # "DOOM_ENTRY" /\ item.trans # None
  /\ item.trans # None => item.trans \in L /\ s.tr[item.trans].st = item.operation

\* The transaction whose item it was is told first.
LEMMA FirstTold ==
  ASSUME NEW s, NEW s1, NEW L, NEW item, NEW ok, MayTellFirst(s, s1, L, ok, item)
  PROVE  ToldItem(s, s, L, TellFirst(s1, ok, item), item)
<1> USE DEF MayTellFirst
<1> SUFFICES LET m == Notify(s1, item.trans, IF ok THEN "OK" ELSE "FAILED")
             IN /\ Good(m, L \ {item.trans}, None) /\ Since(s, m, None)
                /\ \A u \in Trans : u # item.trans => m.tr[u] = s.tr[u]
  BY DEF ToldItem, TellFirst
<1> DEFINE t == item.trans
           result == IF ok THEN "OK" ELSE "FAILED"
           m == Notify(s1, t, result)
<1>1. /\ Good(s1, L, s1.active) /\ Since(s, s1, None)
      /\ \A u \in L : Asks(s1, L, u)
  BY AnsweredGood
<1>2. s1.tr = s.tr /\ L \subseteq Trans
  BY DEF Answered
<1>3. CASE t = None
  <2>1. m = s1 /\ s1.active = None
    BY <1>3 DEF Notify
  <2>2. L \ {t} = L
    BY <1>2, <1>3, HttpCacheAssumption
  <2> QED
    BY <2>1, <2>2, <1>1, <1>2, <1>3
<1>4. CASE t # None
  <2>1. Asks(s1, L, t) /\ s1.tr[t].st = item.operation /\ t \in Trans /\ s1.tr[t].entry = None
    BY <1>1, <1>2, <1>4 DEF Asks
  <2>2. result = "OK" /\ s1.tr[t].st # "DOOM_ENTRY" <=> s1.active # None
    BY <2>1, <1>4
  <2> HIDE DEF result
  <2>3. /\ Good(m, L \ {t}, s1.active) /\ Told(s1, m, s1.active, t)
        /\ result = "OK" /\ s1.tr[t].st # "DOOM_ENTRY" /\ s1.active = s1.active
             => Good(m, L \ {t}, None)
    BY <2>1, <2>2, <1>1, NotifyGood
  <2>4. Good(m, L \ {t}, None)
    BY <2>2, <2>3
  <2>5. Since(s, m, None)
    <3>1. s1 \in StateRecords
      BY DEF Answered
    <3> QED
      BY <3>1, <2>1, <2>3, <1>1, SinceTold
  <2> QED
    BY <2>3, <2>4, <2>5, <1>2 DEF Told, result
<1> QED
  BY <1>3, <1>4

\* OnIOComplete() answers an item and tells everyone who waited behind it.
LEMMA OnIOCompleteGood ==
  ASSUME NEW s, NEW ok, NEW id, Good(s, {}, None), s.pending_op # <<>>,
         MayAnswer(s, Head(s.pending_op).operation, ok, id)
  PROVE  LET s2 == OnIOComplete(s, ok, id)
         IN Good(s2, {}, None) /\ Since(s, s2, None)
<1> DEFINE p == s.pending_op
           item == Head(p)
           op == item.operation
           valid == ok /\ op # "DOOM_ENTRY" /\ item.trans # None
           s1 == Answer(s, op, ok, valid, id)
           first == TellFirst(s1, ok, item)
           q == Tail(p)
           F(f) == Tells(f, first, op, ok, q)
           f0 == CHOOSE f : F(f)
           L == {u \in Trans : \E i \in DOMAIN p : p[i].trans = u}
           Rest(n) == {u \in Trans : \E i \in n + 1 .. Len(q) : q[i].trans = u}
           P(n) == /\ Good(f0[n].s, Rest(n), None) /\ Since(s, f0[n].s, None)
                   /\ f0[n].fail \in BOOLEAN
                   /\ \A u \in Rest(n) : f0[n].s.tr[u] = s.tr[u]
           S == {n \in 0 .. Len(q) : P(n)}
<1>0. /\ s \in StateRecords /\ p \in Seq(WorkItems) /\ p # <<>>
      /\ None \notin Trans /\ ok \in BOOLEAN
  BY HttpCacheAssumption DEF Good, StateRecords, MayAnswer
<1>1. /\ item \in WorkItems /\ item = p[1] /\ q \in Seq(WorkItems)
      /\ Len(p) \in Nat /\ Len(p) > 0 /\ Len(q) = Len(p) - 1 /\ Len(q) \in Nat
      /\ DOMAIN p = 1 .. Len(p) /\ DOMAIN q = 1 .. Len(q)
      /\ \A i \in 1 .. Len(q) : q[i] = p[i + 1] /\ i + 1 \in 1 .. Len(p) /\ q[i] \in WorkItems
  <2> HIDE DEF p
  <2> QED
    BY <1>0
<1>2. /\ op \in WorkItemStates
      /\ \A i \in 1 .. Len(p) : p[i].trans # None => p[i].trans \in Trans
                                 /\ s.tr[p[i].trans].st = p[i].operation
      /\ \A i, j \in 1 .. Len(p) : p[i].trans = p[j].trans => i = j \/ p[i].trans = None
  <2>1. op \in WorkItemStates
    BY <1>1 DEF WorkItems
  <2>2. \A i \in 1 .. Len(p) : p[i] \in WorkItems
    BY <1>0, <1>1
  <2>3. \A i \in 1 .. Len(p) : p[i].trans # None => p[i].trans \in Trans
    BY <2>2 DEF WorkItems
  <2> QED
    BY <2>1, <2>3, <1>1 DEF Good, WorkQueue
<1>3. OnIOComplete(s, ok, id) = f0[Len(q)].s
  BY DEF OnIOComplete, Tells, TellNext, TellFirst, Answer
<1>4. Tells(f0, first, op, ok, q)
  <2>1. \E f : F(f)
    BY <1>1, TellsExist
  <2> HIDE DEF F
  <2>2. F(f0)
    BY <2>1
  <2> QED
    BY <2>2 DEF F
<1> HIDE DEF f0, F
<1>5. Answered(s, s1, L, s1.active) /\ (s1.active # None <=> valid)
  <2>1. MayAnswer(s, op, ok, id) /\ valid \in BOOLEAN /\ (valid => ok /\ op # "DOOM_ENTRY")
    OBVIOUS
  <2>2. s.pending_op # <<>> /\ Good(s, {}, None)
    OBVIOUS
  <2>3. L = {u \in Trans : \E i \in DOMAIN s.pending_op : s.pending_op[i].trans = u}
    OBVIOUS
  <2> HIDE DEF L, p, valid, op
  <2> QED
    BY <2>1, <2>2, <2>3, <1>2, AnswerIsAnswered
<1> HIDE DEF s1
<1>6. ToldItem(s, s, L, first, item)
  <2>1. MayTellFirst(s, s1, L, ok, item)
    BY <1>0, <1>1, <1>2, <1>5 DEF MayTellFirst
  <2> HIDE DEF L, p, item
  <2> QED
    BY <2>1, FirstTold
<1> HIDE DEF first
<1>7. f0[0] = first /\ \A k \in 0 .. Len(q) :
                          k < Len(q) => f0[k + 1] = TellNext(f0[k], op, ok, q[k + 1])
  <2> DEFINE G == [n \in 0 .. Len(q) |->
                     IF n = 0 THEN first ELSE TellNext(f0[n - 1], op, ok, q[n])]
  <2> HIDE DEF q
  <2>1. f0 = G
    BY <1>4 DEF Tells
  <2>2. G[0] = first
    BY <1>1
  <2>3. ASSUME NEW k \in 0 .. Len(q), k < Len(q)
        PROVE  G[k + 1] = TellNext(f0[k], op, ok, q[k + 1])
    <3>1. k + 1 \in 0 .. Len(q) /\ k + 1 # 0 /\ (k + 1) - 1 = k
      BY <1>1, <2>3
    <3> QED
      BY <3>1
  <2> HIDE DEF G
  <2> QED
    BY <2>1, <2>2, <2>3
<1>8. Rest(0) = L \ {item.trans} /\ Rest(Len(q)) = {}
  <2> HIDE DEF p, q, item
  <2>1. \A i \in 1 .. Len(p) : i = 1 \/ (i - 1 \in 1 .. Len(q) /\ p[i] = q[i - 1])
    BY <1>1
  <2>2. ASSUME NEW u \in Trans
        PROVE  (\E i \in DOMAIN p : p[i].trans = u) /\ u # item.trans
                 <=> \E i \in 0 + 1 .. Len(q) : q[i].trans = u
    <3>1. ASSUME NEW i \in DOMAIN p, p[i].trans = u, u # item.trans
          PROVE  \E j \in 0 + 1 .. Len(q) : q[j].trans = u
      <4>1. i # 1
        BY <3>1, <1>1
      <4>2. i - 1 \in 0 + 1 .. Len(q) /\ q[i - 1].trans = u
        BY <4>1, <3>1, <2>1, <1>1
      <4> QED
        BY <4>2
    <3>2. ASSUME NEW j \in 0 + 1 .. Len(q), q[j].trans = u
          PROVE  (\E i \in DOMAIN p : p[i].trans = u) /\ u # item.trans
      <4>1. j + 1 \in 1 .. Len(p) /\ p[j + 1].trans = u /\ j + 1 # 1 /\ 1 \in 1 .. Len(p)
        BY <3>2, <1>1
      <4>2. u # None
        BY <1>0
      <4>3. p[1].trans # u
        BY <4>1, <4>2, <1>2
      <4> QED
        BY <4>1, <4>3, <1>1
    <3> QED
      BY <3>1, <3>2
  <2>3. Rest(0) = L \ {item.trans}
    BY <2>2
  <2>4. Len(q) + 1 .. Len(q) = {}
    BY <1>1
  <2> QED
    BY <2>3, <2>4
<1>9. 0 \in S
  <2>1. 0 \in 0 .. Len(q)
    BY <1>1
  <2>2. \A u \in L \ {item.trans} : u \in Trans /\ u # item.trans
    OBVIOUS
  <2> HIDE DEF Rest, q, L, item
  <2>3. P(0)
    BY <2>2, <1>6, <1>7, <1>8 DEF ToldItem
  <2> QED
    BY <2>1, <2>3
<1>10. ASSUME NEW k \in 0 .. Len(q), k < Len(q), k \in S PROVE k + 1 \in S
  <2> DEFINE it == q[k + 1]
             acc == f0[k]
             LK == Rest(k)
  <2>1. k + 1 \in 1 .. Len(q) /\ k + 1 \in 0 .. Len(q) /\ k \in Nat
    BY <1>1, <1>10
  <2>2. it \in WorkItems /\ (it.trans # None => it.trans \in Trans)
    BY <2>1, <1>1 DEF WorkItems
  <2>3. it.trans # None => it.trans \in LK /\ s.tr[it.trans].st = it.operation
    <3>1. k + 1 \in k + 1 .. Len(q)
      BY <2>1, <1>1
    <3>2. it = p[(k + 1) + 1] /\ (k + 1) + 1 \in 1 .. Len(p)
      BY <2>1, <1>1
    <3> HIDE DEF p, q
    <3> QED
      BY <3>1, <3>2, <2>2, <1>2
  <2>4. Rest(k + 1) = LK \ {it.trans}
    <3> HIDE DEF p, q
    <3>1. \A i \in k + 1 .. Len(q) : i = k + 1 \/ i \in (k + 1) + 1 .. Len(q)
      BY <2>1, <1>1
    <3>2. \A i \in (k + 1) + 1 .. Len(q) : i \in k + 1 .. Len(q) /\ i \in 1 .. Len(q) /\ i # k + 1
      BY <2>1, <1>1
    <3>3. \A i \in 1 .. Len(q) : i # k + 1 /\ q[i].trans # None => q[i].trans # it.trans
      <4> TAKE i \in 1 .. Len(q)
      <4>1. /\ q[i] = p[i + 1] /\ i + 1 \in 1 .. Len(p)
            /\ q[k + 1] = p[(k + 1) + 1] /\ (k + 1) + 1 \in 1 .. Len(p)
            /\ (i # k + 1 => i + 1 # (k + 1) + 1)
        BY <2>1, <1>1
      <4> QED
        BY <4>1, <1>2
    <3>4. \A u \in Trans : u # None
      BY <1>0
    <3>5. ASSUME NEW u \in Trans
          PROVE  (\E i \in (k + 1) + 1 .. Len(q) : q[i].trans = u)
                   <=> (\E i \in k + 1 .. Len(q) : q[i].trans = u) /\ u # it.trans
      BY <3>1, <3>2, <3>3, <3>4
    <3> HIDE DEF it
    <3> QED
      BY <3>5
  <2>5. /\ Good(acc.s, LK, None) /\ Since(s, acc.s, None) /\ acc.fail \in BOOLEAN
        /\ \A u \in LK : acc.s.tr[u] = s.tr[u]
    BY <1>10
  <2>6. LK \subseteq Trans
    OBVIOUS
  <2>7. \A u \in LK : s.tr[u].st \in WorkItemStates
    <3>1. \A u \in LK : \E i \in 1 .. Len(q) : q[i].trans = u
      BY <2>1, <1>1
    <3>2. \A u \in LK : \E i \in 1 .. Len(p) : p[i].trans = u
      BY <3>1, <1>1
    <3> HIDE DEF LK
    <3> QED
      BY <3>2, <2>6, <1>1 DEF Good, WorkQueue
  <2>8. f0[k + 1] = TellNext(acc, op, ok, it)
    BY <1>7, <1>10
  <2> HIDE DEF P, Rest, acc, q, LK, it
  <2>9. it.trans # None => Asks(acc.s, LK, it.trans)
    <3> SUFFICES ASSUME it.trans # None PROVE Asks(acc.s, LK, it.trans)
      OBVIOUS
    <3>1. it.trans \in LK /\ it.trans \in Trans /\ s.tr[it.trans].st \in WorkItemStates
          /\ acc.s.tr[it.trans] = s.tr[it.trans]
      BY <2>2, <2>3, <2>5, <2>7
    <3>2. Role(s.tr[it.trans])
      BY <3>1 DEF Good, Roles
    <3> QED
      BY <3>1, <3>2 DEF Asks, Role, WaitStates, WorkItemStates
  <2>10. ToldItem(s, acc.s, LK, TellNext(acc, op, ok, it), it)
    <3>1. MayTell(s, acc, LK, it)
      BY <2>2, <2>5, <2>6, <2>9 DEF MayTell
    <3> HIDE DEF op
    <3> QED
      BY <3>1, <1>0, TellNextGood
  <2>11. \A u \in LK \ {it.trans} : f0[k + 1].s.tr[u] = s.tr[u]
    BY <2>5, <2>6, <2>8, <2>10 DEF ToldItem
  <2>12. P(k + 1)
    BY <2>4, <2>8, <2>10, <2>11 DEF P, ToldItem
  <2> QED
    BY <2>1, <2>12
<1> HIDE DEF P, Rest
<1>11. Len(q) \in S
  <2> HIDE DEF S, q
  <2>1. \A k \in 0 .. Len(q) : k \in S
    BY <1>1, <1>9, <1>10, UpTo
  <2> QED
    BY <2>1, <1>1
<1> QED
  BY <1>3, <1>8, <1>11 DEF P

-----------------------------------------------------------------------------
(* One event, of which t is the actor: its method runs in the states that    *)
(* follow s0, and at the end of the event the transaction waits for somebody *)
(* else again.                                                               *)

Running(s0, s, t) == t \in Trans /\ Good(s, {t}, None) /\ Since(s0, s, t)

\* The actor has kept what it held, has given it up or reads it from now on.
Keeps(T, U) ==
  \/ U.entry = None
  \/ U.entry = T.entry /\ (T.mode = "READ" => U.mode = "READ")

Step(s0, s2, a) ==
  /\ Good(s2, {}, None) /\ Since(s0, s2, a)
  /\ a \in Trans => Acted(s0, s0.tr[a], s2.tr[a])

\* Nothing has happened since a state in that state.
LEMMA SinceItself ==
  ASSUME NEW s, NEW a
  PROVE  Since(s, s, a)
  BY DEF Since, Moves, Released

\* A transaction that waits for nobody may run.
LEMMA Begin ==
  ASSUME NEW s, NEW t, Good(s, {}, None), t \in Trans, s.tr[t].st \notin WaitStates
  PROVE  Running(s, s, t) /\ Keeps(s.tr[t], s.tr[t])
<1>1. Good(s, {} \cup {t}, None)
  BY Limbo
<1>2. {} \cup {t} = {t}
  OBVIOUS
<1> QED
  BY <1>1, <1>2, SinceItself DEF Running, Keeps

\* The state of a transaction that is about its own business.
Typed(s, t) ==
  /\ s \in StateRecords /\ s.tr \in [Trans -> TransRecords]
  /\ s.entry \in [Ids -> EntryRecords] /\ s.data \in [Ids -> DataRecords]
  /\ t \in Trans /\ s.tr[t] \in TransRecords
  /\ s.tr[t].entry # None => s.tr[t].entry \in Ids
  /\ None \notin Ids

\* The fields of every transaction agree with its mode and state.
LEMMA GoodTyped ==
  ASSUME NEW s, NEW L, NEW o, NEW t, Good(s, L, o), t \in Trans
  PROVE  Typed(s, t) /\ (t \notin L => Role(s.tr[t]))
<1>1. s \in StateRecords
  BY DEF Good
<1>2. /\ s.tr \in [Trans -> TransRecords] /\ s.entry \in [Ids -> EntryRecords]
      /\ s.data \in [Ids -> DataRecords]
  BY <1>1 DEF StateRecords
<1>3. s.tr[t] \in TransRecords
  BY <1>2
<1>4. s.tr[t].entry # None => s.tr[t].entry \in Ids
  BY <1>3 DEF TransRecords
<1>5. None \notin Ids
  BY HttpCacheAssumption DEF Ids
<1>6. t \notin L => Role(s.tr[t])
  BY DEF Good, Roles
<1> QED
  BY <1>1, <1>2, <1>3, <1>4, <1>5, <1>6 DEF Typed

\* The running transaction may change what concerns only itself.
LEMMA RunPut ==
  ASSUME NEW s0, NEW s, NEW t, NEW T, Running(s0, s, t), T \in TransRecords,
         SameHold(s.tr[t], T)
  PROVE  /\ Running(s0, Put(s, t, T), t) /\ Put(s, t, T).tr[t] = T
         /\ OnlyTrans(s, Put(s, t, T), t)
<1>1. t \in {t} /\ t \in Trans /\ Good(s, {t}, None) /\ Since(s0, s, t)
  BY DEF Running
<1>2. /\ Good(Put(s, t, T), {t}, None) /\ Put(s, t, T).tr[t] = T
      /\ OnlyTrans(s, Put(s, t, T), t)
  BY <1>1, Adjust
<1>3. Since(s0, Put(s, t, T), t)
  BY <1>1, <1>2, SinceAdjust
<1> QED
  BY <1>1, <1>2, <1>3 DEF Running

\* It may change what is on disk,
LEMMA RunStore ==
  ASSUME NEW s0, NEW s, NEW t, NEW d, Running(s0, s, t), d \in [Ids -> DataRecords]
  PROVE  /\ Running(s0, Store(s, d), t) /\ Store(s, d).tr = s.tr
         /\ Store(s, d).data = d
<1>1. LET s2 == Store(s, d)
      IN /\ Good(s2, {t}, None)
         /\ s2.tr = s.tr /\ s2.entry = s.entry /\ s2.active = s.active
         /\ s2.doomed = s.doomed /\ s2.data = d
  BY DataChange DEF Running
<1>2. SameLock(s, Store(s, d))
  BY <1>1 DEF SameLock, Live
<1> QED
  BY <1>1, <1>2, SinceSame DEF Running

\* and doom entries.
LEMMA RunDoom ==
  ASSUME NEW s0, NEW s, NEW t, Running(s0, s, t)
  PROVE  /\ Running(s0, DoomActiveEntry(s), t) /\ DoomActiveEntry(s).tr = s.tr
         /\ DoomActiveEntry(s).active = None /\ DoomActiveEntry(s).data = s.data
         /\ Running(s0, DoomEntry(s), t) /\ DoomEntry(s).tr = s.tr
         /\ DoomEntry(s).active = None /\ DoomEntry(s).data = s.data
<1>1. /\ Good(DoomActiveEntry(s), {t}, None)
      /\ DoomActiveEntry(s).tr = s.tr /\ DoomActiveEntry(s).entry = s.entry
      /\ DoomActiveEntry(s).active = None /\ DoomActiveEntry(s).data = s.data
      /\ Live(DoomActiveEntry(s)) = Live(s)
  BY DoomActiveEntryGood DEF Running
<1>2. LET s2 == DoomEntry(s)
      IN /\ Good(s2, {t}, None)
         /\ s2.tr = s.tr /\ s2.entry = s.entry /\ s2.active = None
         /\ s2.data = s.data /\ Live(s2) = Live(s)
  BY DoomEntryGood DEF Running
<1>3. SameLock(s, DoomActiveEntry(s)) /\ SameLock(s, DoomEntry(s))
  BY <1>1, <1>2 DEF SameLock
<1> QED
  BY <1>1, <1>2, <1>3, SinceSame DEF Running

\* DoomMainEntryForUrl() does one of these, or nothing.
LEMMA RunDoomMain ==
  ASSUME NEW s0, NEW s, NEW t, Running(s0, s, t)
  PROVE  Running(s0, DoomMainEntry(s), t) /\ DoomMainEntry(s).tr = s.tr
  BY RunDoom DEF DoomMainEntry

WroteLast(s0, s, s2, t) ==
  /\ Running(s0, s2, t) /\ s2.tr[t].entry = None
  /\ s.tr[t].entry # None => s2.tr[t].mode = "NONE"
  /\ s.tr[t].entry = None => s2 = s
  /\ s2.tr[t].mode # "READ"

\* DoneWritingToEntry() releases the writer and its successors.
LEMMA RunDoneWriting ==
  ASSUME NEW s0, NEW s, NEW t, Running(s0, s, t), s.tr[t].mode # "READ"
  PROVE  /\ WroteLast(s0, s, DoneWritingToEntry(s, t, TRUE), t)
         /\ WroteLast(s0, s, DoneWritingToEntry(s, t, FALSE), t)
<1>1. /\ t \in {t} /\ {t} \subseteq Trans /\ Good(s, {t}, None) /\ Since(s0, s, t)
      /\ s.tr[t].entry # None => s.tr[t].mode # "READ"
  BY DEF Running
<1>2. ASSUME NEW success \in BOOLEAN
      PROVE  WroteLast(s0, s, DoneWritingToEntry(s, t, success), t)
  <2>1. LET s2 == DoneWritingToEntry(s, t, success)
        IN /\ Good(s2, {t}, None) /\ Since(s0, s2, t)
           /\ s2.tr[t].entry = None /\ s2.active \in {s.active, None}
           /\ s.tr[t].entry # None => s2.tr[t].mode = "NONE"
           /\ s.tr[t].entry = None => s2 = s
    BY <1>1, DoneWritingToEntryGood
  <2> QED
    BY <1>1, <2>1 DEF Running, WroteLast
<1>3. TRUE \in BOOLEAN /\ FALSE \in BOOLEAN
  OBVIOUS
<1> QED
  BY <1>2, <1>3, Zenon

\* DoneReadingFromEntry() releases a reader.
LEMMA RunDoneReading ==
  ASSUME NEW s0, NEW s, NEW t, Running(s0, s, t), s.tr[t].mode = "READ",
         s.tr[t].entry # None
  PROVE  LET s2 == DoneReadingFromEntry(s, t)
         IN Running(s0, s2, t) /\ s2.tr[t].entry = None
<1>1. t \in {t} /\ {t} \subseteq Trans /\ Good(s, {t}, None) /\ Since(s0, s, t)
  BY DEF Running
<1>2. LET s2 == DoneReadingFromEntry(s, t)
      IN /\ Good(s2, {t}, None) /\ Since(s0, s2, t)
         /\ s2.tr[t].entry = None /\ s2.active = s.active
  BY <1>1, DoneReadingFromEntryGood
<1> QED
  BY <1>1, <1>2 DEF Running

\* DoneWithEntry() releases whatever the transaction was.
LEMMA RunDoneWith ==
  ASSUME NEW s0, NEW s, NEW t, NEW cancel, NEW flag, Running(s0, s, t),
         s.tr[t].entry # None, cancel \in BOOLEAN, flag \in FlagResults
  PROVE  LET s2 == DoneWithEntry(s, t, cancel, flag)
         IN /\ Running(s0, s2, t) /\ s2.tr[t].entry = None
            /\ s2.active \in {s.active, None}
<1>1. t \in {t} /\ {t} \subseteq Trans /\ Good(s, {t}, None) /\ Since(s0, s, t)
  BY DEF Running
<1>2. LET s2 == DoneWithEntry(s, t, cancel, flag)
      IN /\ Good(s2, {t}, None) /\ Since(s0, s2, t)
         /\ s2.tr[t].entry = None /\ s2.active \in {s.active, None}
  BY <1>1, DoneWithEntryGood
<1> QED
  BY <1>1, <1>2 DEF Running

\* A run ends when the transaction is in a consistent state again.
LEMMA Settle ==
  ASSUME NEW s0, NEW s, NEW t, NEW T, Running(s0, s, t), T \in TransRecords,
         SameHold(s.tr[t], T), Keeps(s0.tr[t], s.tr[t]), Role(T),
         T.st \notin WaitStates
  PROVE  Step(s0, Put(s, t, T), t)
<1> DEFINE s2 == Put(s, t, T)
<1>1. Running(s0, s2, t) /\ s2.tr[t] = T
  BY RunPut
<1> HIDE DEF s2
<1>2. Good(s2, {t} \ {t}, None)
  <2>1. Good(s2, {t}, None) /\ t \in {t} /\ t \in Trans
    BY <1>1 DEF Running
  <2> QED
    BY <2>1, <1>1, Land
<1>3. {t} \ {t} = {}
  OBVIOUS
<1>4. Acted(s0, s0.tr[t], s2.tr[t])
  BY <1>1 DEF Acted, Keeps, SameHold
<1>5. Step(s0, s2, t)
  BY <1>1, <1>2, <1>3, <1>4 DEF Step, Running
<1> QED
  BY <1>5 DEF s2

\* It may end with the request done,
LEMMA EndFinish ==
  ASSUME NEW s0, NEW s, NEW t, Running(s0, s, t), Keeps(s0.tr[t], s.tr[t]),
         MayFinish(s.tr[t])
  PROVE  Step(s0, Finish(s, t), t)
<1>1. Typed(s, t) /\ Good(s, {t}, None) /\ t \in {t} /\ t \in Trans /\ Since(s0, s, t)
  BY GoodTyped DEF Running
<1>2. /\ Good(Finish(s, t), {t} \ {t}, None)
      /\ Finish(s, t).tr[t].entry = s.tr[t].entry
      /\ Finish(s, t).tr[t].mode = s.tr[t].mode
      /\ OnlyTrans(s, Finish(s, t), t)
  BY <1>1, FinishGood
<1>3. Since(s0, Finish(s, t), t)
  BY <1>1, <1>2, SinceAdjust
<1>4. {t} \ {t} = {}
  OBVIOUS
<1> QED
  BY <1>1, <1>2, <1>3, <1>4 DEF Step, Acted, Keeps

\* The actor is told how to go on.
LEMMA EndTold ==
  ASSUME NEW s0, NEW s, NEW s2, NEW t, NEW e, Running(s0, s, t),
         s.tr[t].entry = None, Good(s2, {t} \ {t}, None), Told(s, s2, e, t),
         s0.tr[t].entry = None \/ s2.tr[t].entry = None
  PROVE  Step(s0, s2, t)
<1>1. t \in Trans /\ s \in StateRecords /\ Since(s0, s, t)
  BY DEF Running, Good
<1>2. /\ Since(s0, s2, t)
      /\ s0.tr[t].entry = None => Acted(s0, s0.tr[t], s2.tr[t])
  BY <1>1, SinceTold
<1>3. s2.tr[t].entry = None => Acted(s0, s0.tr[t], s2.tr[t])
  BY DEF Acted
<1>4. {t} \ {t} = {}
  OBVIOUS
<1> QED
  BY <1>2, <1>3, <1>4 DEF Step

\* with the network and no cache,
LEMMA EndPassThrough ==
  ASSUME NEW s0, NEW s, NEW t, Running(s0, s, t), s.tr[t].entry = None,
         s.tr[t].resume = FALSE
  PROVE  Step(s0, PassThrough(s, t), t)
<1>1. t \in {t} /\ t \in Trans /\ Good(s, {t}, None)
  BY DEF Running
<1>2. /\ Good(PassThrough(s, t), {t} \ {t}, None)
      /\ Told(s, PassThrough(s, t), None, t)
      /\ PassThrough(s, t).tr[t].entry = None
  <2> DEFINE L == {t}
  <2>1. t \in L /\ t \in Trans /\ Good(s, L, None)
    BY <1>1
  <2> HIDE DEF L
  <2>2. /\ Good(PassThrough(s, t), L \ {t}, None)
        /\ Told(s, PassThrough(s, t), None, t)
        /\ PassThrough(s, t).tr[t].entry = None
    BY <2>1, PassThroughGood
  <2> QED
    BY <2>2 DEF L
<1> QED
  BY <1>2, EndTold

\* The actor is done with the entry that it wrote, or had none.
LEMMA EndWriting ==
  ASSUME NEW s0, NEW s, NEW t, Running(s0, s, t), s.tr[t].mode # "READ"
  PROVE  /\ Step(s0, Finish(DoneWritingToEntry(s, t, TRUE), t), t)
         /\ Step(s0, Finish(DoneWritingToEntry(s, t, FALSE), t), t)
<1>1. ASSUME NEW s2, WroteLast(s0, s, s2, t)
      PROVE  Step(s0, Finish(s2, t), t)
  <2>1. Running(s0, s2, t) /\ Keeps(s0.tr[t], s2.tr[t]) /\ MayFinish(s2.tr[t])
    BY <1>1 DEF WroteLast, Keeps, MayFinish
  <2> QED
    BY <2>1, EndFinish
<1> QED
  BY <1>1, RunDoneWriting

\* with the last read of the body,
LEMMA EndReading ==
  ASSUME NEW s0, NEW s, NEW t, Running(s0, s, t), s.tr[t].entry # None,
         s.tr[t].mode = "READ", s.tr[t].resume = FALSE
  PROVE  Step(s0, Finish(DoneReadingFromEntry(s, t), t), t)
<1> DEFINE s2 == DoneReadingFromEntry(s, t)
<1>1. Running(s0, s2, t) /\ s2.tr[t].entry = None
  BY RunDoneReading
<1>2. s2.tr[t].resume = FALSE
  <2>1. Typed(s, t)
    BY GoodTyped DEF Running
  <2> QED
    BY <2>1 DEF DoneReadingFromEntry, ProcessPendingQueue, Typed, StateRecords, TransRecords
<1> HIDE DEF s2
<1>3. Step(s0, Finish(s2, t), t)
  BY <1>1, <1>2, EndFinish DEF Keeps, MayFinish
<1> QED
  BY <1>3 DEF s2

\* The actor reads what it was about to write.
LEMMA EndConvert ==
  ASSUME NEW s0, NEW s, NEW t, Running(s0, s, t), Keeps(s0.tr[t], s.tr[t]),
         s.tr[t].entry # None, s.tr[t].mode # "READ", s.tr[t].resume = FALSE
  PROVE  Step(s0, [ConvertWriterToReader(s, t) EXCEPT !.tr[t].st = "HEADERS"], t)
<1> DEFINE s2 == ConvertWriterToReader(s, t)
           T == [s2.tr[t] EXCEPT !.st = "HEADERS"]
<1>0. /\ t \in {t} /\ {t} \subseteq Trans /\ Good(s, {t}, None) /\ Since(s0, s, t)
      /\ Typed(s, t) /\ t \in Trans
  BY GoodTyped DEF Running
<1>1. /\ Good(s2, {t}, None) /\ Since(s0, s2, t)
      /\ s2.tr[t].entry = s.tr[t].entry /\ s2.tr[t].mode = "READ"
  BY <1>0, ConvertWriterToReaderGood
<1>2. s2.tr[t].resume = FALSE
  BY <1>0 DEF ConvertWriterToReader, ProcessPendingQueue, Typed, StateRecords, TransRecords
<1> HIDE DEF s2
<1>3. Running(s0, s2, t) /\ Typed(s2, t)
  BY <1>0, <1>1, GoodTyped DEF Running
<1>4. /\ T \in TransRecords /\ T.entry = s2.tr[t].entry /\ T.mode = "READ"
      /\ T.resume = FALSE /\ T.st = "HEADERS"
  BY <1>1, <1>2, <1>3 DEF Typed, TransRecords, States
<1>5. [s2 EXCEPT !.tr[t].st = "HEADERS"] = Put(s2, t, T)
  BY <1>3 DEF Typed, Put, StateRecords
<1> HIDE DEF T
<1>6. SameHold(s2.tr[t], T) /\ Keeps(s0.tr[t], s2.tr[t]) /\ T.st \notin WaitStates
  BY <1>1, <1>4 DEF SameHold, Keeps, WaitStates, WorkItemStates
<1>7. Role(T)
  BY <1>1, <1>4 DEF Role, WaitStates, WorkItemStates, UsingStates, NetworkStates,
     FirstStates, ReaderStates
<1>8. Step(s0, Put(s2, t, T), t)
  BY <1>3, <1>4, <1>6, <1>7, Settle
<1> QED
  BY <1>5, <1>8 DEF s2

\* The actor keeps its entry and waits for the network or the disk cache.
Continues(T, U) ==
  /\ U \in TransRecords /\ U.entry # None /\ U.entry = T.entry
  /\ U.mode = "READ" <=> T.mode = "READ"
  /\ U.mode = "READ" => U.st \in ReaderStates /\ U.resume = FALSE
  /\ U.st \in NetworkStates \cup UsingStates
  /\ U.st \in FirstStates => U.mode # "WRITE" /\ U.resume = FALSE
  /\ U.st = "CACHE_READ_DATA" => U.mode = "READ" \/ U.resume # FALSE

\* or in a later state of the same role.
LEMMA EndWith ==
  ASSUME NEW s0, NEW s, NEW t, NEW T, Running(s0, s, t), Keeps(s0.tr[t], s.tr[t]),
         Continues(s.tr[t], T)
  PROVE  Step(s0, Put(s, t, T), t)
<1>1. SameHold(s.tr[t], T) /\ T.st \notin WaitStates \cup {"IDLE", "GONE"}
  BY DEF Continues, SameHold, WaitStates, WorkItemStates, NetworkStates, UsingStates
<1>2. Role(T) /\ T \in TransRecords
  BY <1>1 DEF Continues, Role
<1>3. T.st \notin WaitStates /\ SameHold(s.tr[t], T)
  BY <1>1
<1> QED
  BY <1>2, <1>3, Settle

\* DoCacheDispatchValidation() of a transaction that has read the headers.
LEMMA DispatchValidationStep ==
  ASSUME NEW s0, NEW s, NEW t, NEW valid, NEW conditional, Running(s0, s, t),
         Keeps(s0.tr[t], s.tr[t]), s.tr[t].entry # None, s.tr[t].mode # "WRITE",
         s.tr[t].resume = FALSE, valid \in BOOLEAN, conditional \in BOOLEAN
  PROVE  Step(s0, DispatchValidation(s, t, valid, conditional), t)
<1> DEFINE T == s.tr[t]
           usable == valid /\ ~T.truncated
           resume == T.truncated /\ T.kind # "head"
           H == [T EXCEPT !.st = "HEADERS"]
           C(c) == [T EXCEPT !.st = "SEND_REQUEST", !.conditional = c]
           Q == [T EXCEPT !.st = "CACHE_QUERY_DATA", !.resume = TRUE]
           N == [T EXCEPT !.mode = "NONE", !.st = "SEND_REQUEST"]
           Go(st) == [s EXCEPT !.tr[t].st = st]
           Ask(c) == [Go("SEND_REQUEST") EXCEPT !.tr[t].conditional = c]
<1>0. /\ Typed(s, t) /\ T \in TransRecords /\ t \in Trans
      /\ s \in StateRecords /\ s.tr \in [Trans -> TransRecords]
  BY GoodTyped DEF Running, Typed
<1>1. /\ H \in TransRecords /\ H.entry = T.entry /\ H.mode = T.mode
      /\ H.st = "HEADERS" /\ H.resume = FALSE
  BY <1>0 DEF TransRecords, States
<1>2. ASSUME NEW c \in BOOLEAN
      PROVE  /\ C(c) \in TransRecords /\ C(c).entry = T.entry /\ C(c).mode = T.mode
             /\ C(c).st = "SEND_REQUEST" /\ C(c).resume = FALSE
             /\ Ask(c) = Put(s, t, C(c))
  <2>1. /\ C(c) \in TransRecords /\ C(c).entry = T.entry /\ C(c).mode = T.mode
        /\ C(c).st = "SEND_REQUEST" /\ C(c).resume = FALSE
    BY <1>0 DEF TransRecords, States
  <2>2. Ask(c) = Put(s, t, C(c))
    <3>1. [s EXCEPT !.tr[t].st = "SEND_REQUEST"] = Put(s, t, [T EXCEPT !.st = "SEND_REQUEST"])
      BY <1>0 DEF Put, StateRecords
    <3>2. [Put(s, t, [T EXCEPT !.st = "SEND_REQUEST"]) EXCEPT !.tr[t].conditional = c]
             = Put(s, t, C(c))
      BY <1>0 DEF Put, StateRecords, TransRecords
    <3> QED
      BY <3>1, <3>2
  <2> QED
    BY <2>1, <2>2
<1>3. /\ Q \in TransRecords /\ Q.entry = T.entry /\ Q.mode = T.mode
      /\ Q.st = "CACHE_QUERY_DATA"
      /\ [Go("CACHE_QUERY_DATA") EXCEPT !.tr[t].resume = TRUE] = Put(s, t, Q)
  <2>1. /\ Q \in TransRecords /\ Q.entry = T.entry /\ Q.mode = T.mode
        /\ Q.st = "CACHE_QUERY_DATA"
    BY <1>0 DEF TransRecords, States
  <2>2. Go("CACHE_QUERY_DATA") = Put(s, t, [T EXCEPT !.st = "CACHE_QUERY_DATA"])
    BY <1>0 DEF Put, StateRecords
  <2>3. [Put(s, t, [T EXCEPT !.st = "CACHE_QUERY_DATA"]) EXCEPT !.tr[t].resume = TRUE]
          = Put(s, t, Q)
    BY <1>0 DEF Put, StateRecords, TransRecords
  <2> QED
    BY <2>1, <2>2, <2>3
<1>4. /\ N \in TransRecords /\ N.entry = T.entry /\ N.mode = "NONE"
      /\ N.st = "SEND_REQUEST"
      /\ PassThrough(s, t) = Put(s, t, N)
  <2>1. /\ N \in TransRecords /\ N.entry = T.entry /\ N.mode = "NONE"
        /\ N.st = "SEND_REQUEST"
    BY <1>0 DEF TransRecords, States, Modes
  <2>2. PassThrough(s, t) = Put(s, t, N)
    BY <1>0 DEF PassThrough, Put, StateRecords, TransRecords
  <2> QED
    BY <2>1, <2>2
<1>5. Go("HEADERS") = Put(s, t, H) /\ Go("DONE") = Finish(s, t)
  BY <1>0 DEF Typed, Put, StateRecords, Finish
<1>6. MayFinish(s.tr[t])
  BY DEF MayFinish
<1>7. T.mode \in {"READ", "UPDATE", "READ_WRITE", "NONE"}
  BY <1>0 DEF TransRecords, Modes
<1> HIDE DEF T, H, C, Q, N
<1>8. /\ Continues(T, H)
      /\ T.mode # "READ" => /\ Continues(T, Q) /\ Continues(T, N)
                            /\ \A c \in BOOLEAN : Continues(T, C(c))
  <2>1. T.entry # None
    BY DEF T
  <2> QED
    BY <2>1, <1>1, <1>2, <1>3, <1>4
    DEF Continues, NetworkStates, UsingStates, FirstStates, ReaderStates
<1>11. s.tr[t] = T
  BY DEF T
<1>9. CASE T.mode = "READ"
  <2>1. DispatchValidation(s, t, valid, conditional) =
          IF usable THEN Put(s, t, H) ELSE Finish(s, t)
    BY <1>9, <1>5 DEF DispatchValidation, T
  <2>2. Step(s0, Put(s, t, H), t)
    BY <1>8, <1>11, EndWith
  <2>3. Step(s0, Finish(s, t), t)
    BY <1>6, EndFinish
  <2> QED
    BY <2>1, <2>2, <2>3
<1>10. CASE T.mode # "READ"
  <2>1. /\ Step(s0, Put(s, t, Q), t) /\ Step(s0, Put(s, t, N), t)
        /\ Step(s0, Finish(s, t), t)
    <3>1. Continues(s.tr[t], Q) /\ Continues(s.tr[t], N)
      BY <1>8, <1>10, <1>11
    <3> QED
      BY <3>1, <1>6, EndWith, EndFinish
  <2>2. ASSUME NEW c \in BOOLEAN PROVE Step(s0, Ask(c), t)
    <3>1. Continues(s.tr[t], C(c)) /\ Ask(c) = Put(s, t, C(c))
      BY <1>2, <1>8, <1>10, <1>11
    <3> HIDE DEF Ask
    <3> QED
      BY <3>1, EndWith
  <2>3. Step(s0, [ConvertWriterToReader(s, t) EXCEPT !.tr[t].st = "HEADERS"], t)
    BY <1>10, <1>11, EndConvert
  <2>4. CASE T.mode = "UPDATE"
    <3> DEFINE w == DoneWritingToEntry(s, t, TRUE)
    <3>1. DispatchValidation(s, t, valid, conditional) =
            IF usable THEN Ask(TRUE) ELSE PassThrough(w, t)
      BY <2>4 DEF DispatchValidation, T
    <3>2. Running(s0, w, t) /\ w.tr[t].entry = None
      <4>1. WroteLast(s0, s, w, t)
        BY <1>10, <1>11, RunDoneWriting
      <4> HIDE DEF w
      <4> QED
        BY <4>1 DEF WroteLast
    <3>3. w.tr[t].resume = FALSE
      <4>1. w = ProcessPendingQueue([s EXCEPT !.tr[t].entry = None, !.tr[t].mode = "NONE",
                                              !.entry[s.tr[t].entry].writer = None],
                                    s.tr[t].entry)
        BY DEF DoneWritingToEntry
      <4>2. w.tr = [s.tr EXCEPT ![t].entry = None, ![t].mode = "NONE"]
        <5> HIDE DEF w
        <5> QED
          BY <4>1, <1>0 DEF ProcessPendingQueue, StateRecords
      <4>3. w.tr[t] = [T EXCEPT !.entry = None, !.mode = "NONE"]
        <5> HIDE DEF w
        <5> QED
          BY <4>2, <1>0, <1>11
      <4> HIDE DEF w
      <4> QED
        BY <4>3, <1>0, <1>11 DEF TransRecords
    <3> HIDE DEF w
    <3>4. Step(s0, PassThrough(w, t), t)
      BY <3>2, <3>3, EndPassThrough
    <3> QED
      BY <3>1, <3>4, <2>2
  <2>5. CASE T.mode = "NONE"
    <3>1. DispatchValidation(s, t, valid, conditional) = Finish(s, t)
      BY <2>5, <1>5 DEF DispatchValidation, T
    <3> QED
      BY <3>1, <2>1
  <2>6. CASE T.mode = "READ_WRITE"
    <3>1. DispatchValidation(s, t, valid, conditional) =
            CASE resume -> Put(s, t, Q)
              [] T.kind = "put" /\ ~resume -> Ask(FALSE)
              [] T.kind # "put" /\ ~resume /\ valid ->
                   [ConvertWriterToReader(s, t) EXCEPT !.tr[t].st = "HEADERS"]
              [] T.kind # "put" /\ ~resume /\ ~valid ->
                   IF T.truncated THEN Put(s, t, N) ELSE Ask(conditional)
      BY <2>6, <1>3, <1>4 DEF DispatchValidation, T
    <3> HIDE DEF Ask, resume
    <3> QED
      BY <3>1, <2>1, <2>2, <2>3
  <2> QED
    BY <2>4, <2>5, <2>6, <1>7, <1>10
<1> QED
  BY <1>9, <1>10

\* DoomPartialEntry() leaves the actor without an entry.
LEMMA DoomPartialEntryRuns ==
  ASSUME NEW s0, NEW s, NEW t, Running(s0, s, t), s.tr[t].entry # None
  PROVE  LET s2 == DoomPartialEntry(s, t)
         IN /\ Running(s0, s2, t) /\ s2.tr[t].entry = None
            /\ s2.tr[t].mode = "NONE" /\ s2.tr[t].resume = FALSE
<1> DEFINE m == DoomEntry(s)
           s1 == DoneWithEntry(m, t, FALSE, "refused")
           T == [s1.tr[t] EXCEPT !.entry = None, !.mode = "NONE", !.resume = FALSE,
                                 !.truncated = FALSE]
<1>1. Running(s0, m, t) /\ m.tr = s.tr
  BY RunDoom
<1> HIDE DEF m
<1>2. Running(s0, s1, t) /\ s1.tr[t].entry = None
  <2>1. m.tr[t].entry # None
    BY <1>1
  <2>2. ASSUME NEW cancel \in BOOLEAN, NEW flag \in FlagResults
        PROVE  LET s3 == DoneWithEntry(m, t, cancel, flag)
               IN Running(s0, s3, t) /\ s3.tr[t].entry = None
    BY <1>1, <2>1, RunDoneWith
  <2>3. FALSE \in BOOLEAN /\ "refused" \in FlagResults
    BY DEF FlagResults
  <2> QED
    BY <2>2, <2>3, Zenon
<1>3. DoomPartialEntry(s, t) = [s1 EXCEPT !.tr[t].entry = None, !.tr[t].mode = "NONE",
                                          !.tr[t].resume = FALSE,
                                          !.tr[t].truncated = FALSE]
  BY DEF DoomPartialEntry, m
<1> HIDE DEF s1
<1>4. /\ s1 \in StateRecords /\ s1.tr \in [Trans -> TransRecords]
      /\ s1.tr[t] \in TransRecords /\ t \in Trans
  BY <1>2, GoodTyped DEF Running, Typed
<1>5. /\ T \in TransRecords /\ T.entry = None /\ T.mode = "NONE" /\ T.resume = FALSE
  BY <1>4 DEF TransRecords, Modes
<1>6. DoomPartialEntry(s, t) = Put(s1, t, T)
  <2> DEFINE U == [s1.tr[t] EXCEPT !.entry = None, !.mode = "NONE"]
             m1 == [s1 EXCEPT !.tr[t].entry = None, !.tr[t].mode = "NONE"]
  <2>1. m1 = Put(s1, t, U) /\ U \in TransRecords
    BY <1>4 DEF Put, StateRecords, TransRecords, Modes
  <2>2. T = [U EXCEPT !.resume = FALSE, !.truncated = FALSE]
    OBVIOUS
  <2>3. DoomPartialEntry(s, t) = [m1 EXCEPT !.tr[t].resume = FALSE,
                                            !.tr[t].truncated = FALSE]
    BY <1>3
  <2> HIDE DEF U, T, m1
  <2>4. Put(s1, t, U) \in StateRecords /\ Put(s1, t, U).tr = [s1.tr EXCEPT ![t] = U]
    BY <1>4, <2>1 DEF Put, StateRecords
  <2>5. [Put(s1, t, U) EXCEPT !.tr[t].resume = FALSE, !.tr[t].truncated = FALSE]
           = Put(s1, t, [U EXCEPT !.resume = FALSE, !.truncated = FALSE])
    BY <1>4, <2>1, <2>4 DEF Put, StateRecords, TransRecords
  <2> QED
    BY <2>1, <2>2, <2>3, <2>5
<1> HIDE DEF T
<1>7. SameHold(s1.tr[t], T)
  BY <1>2, <1>5 DEF SameHold
<1>8. Running(s0, Put(s1, t, T), t) /\ Put(s1, t, T).tr[t] = T
  BY <1>2, <1>5, <1>7, RunPut
<1> QED
  BY <1>5, <1>6, <1>8

\* OnCacheReadError() with restart: the entry is given up for good.
LEMMA RestartAfterReadErrorStep ==
  ASSUME NEW s0, NEW s, NEW t, Running(s0, s, t), s.tr[t].entry # None
  PROVE  Step(s0, RestartAfterReadError(s, t), t)
<1> DEFINE m == DoomActiveEntry(s)
           s1 == DoneWithEntry(m, t, FALSE, "refused")
           s2 == GetBackendComplete(s1, t)
<1>1. Running(s0, m, t) /\ m.tr = s.tr /\ m.active = None
  BY RunDoom
<1> HIDE DEF m
<1>2. Running(s0, s1, t) /\ s1.tr[t].entry = None /\ s1.active = None
  <2>1. m.tr[t].entry # None
    BY <1>1
  <2>2. ASSUME NEW cancel \in BOOLEAN, NEW flag \in FlagResults
        PROVE  LET s3 == DoneWithEntry(m, t, cancel, flag)
               IN /\ Running(s0, s3, t) /\ s3.tr[t].entry = None
                  /\ s3.active \in {m.active, None}
    BY <1>1, <2>1, RunDoneWith
  <2>3. FALSE \in BOOLEAN /\ "refused" \in FlagResults
    BY DEF FlagResults
  <2>4. Running(s0, s1, t) /\ s1.tr[t].entry = None /\ s1.active \in {m.active, None}
    BY <2>2, <2>3, Zenon
  <2> QED
    BY <1>1, <2>4
<1>3. RestartAfterReadError(s, t) = s2
  BY DEF RestartAfterReadError, m
<1> HIDE DEF s1
<1>4. /\ Good(s2, {t} \ {t}, None) /\ Told(s1, s2, s1.active, t)
      /\ s1.active = None => s2.tr[t].entry = None
  <2> DEFINE L == {t}
  <2>1. Good(s1, L, None) /\ t \in L /\ t \in Trans
    BY <1>2 DEF Running
  <2> HIDE DEF L
  <2>2. LET s3 == GetBackendComplete(s1, t)
        IN /\ Good(s3, L \ {t}, None) /\ Told(s1, s3, s1.active, t)
           /\ s1.active = None => s3.tr[t].entry = None
    BY <2>1, <1>2, GetBackendCompleteGood
  <2> QED
    BY <2>2 DEF L
<1> HIDE DEF s2
<1> QED
  BY <1>2, <1>3, <1>4, EndTold

\* DoRestartPartialRequest().
LEMMA RestartPartialRequestStep ==
  ASSUME NEW s0, NEW s, NEW t, Running(s0, s, t), s.tr[t].entry # None
  PROVE  Step(s0, RestartPartialRequest(s, t), t)
<1> DEFINE s1 == DoomPartialEntry(s, t)
           T == [s1.tr[t] EXCEPT !.mode = "WRITE"]
           m == Put(s1, t, T)
           s2 == CreateEntry(m, t)
<1>1. /\ Running(s0, s1, t) /\ s1.tr[t].entry = None /\ s1.tr[t].resume = FALSE
  BY DoomPartialEntryRuns
<1>2. RestartPartialRequest(s, t) = CreateEntry([s1 EXCEPT !.tr[t].mode = "WRITE"], t)
  BY DEF RestartPartialRequest
<1> HIDE DEF s1
<1>3. /\ s1 \in StateRecords /\ s1.tr \in [Trans -> TransRecords]
      /\ s1.tr[t] \in TransRecords /\ t \in Trans
  BY <1>1, GoodTyped DEF Running, Typed
<1>4. /\ T \in TransRecords /\ T.entry = None /\ T.mode = "WRITE" /\ T.resume = FALSE
  BY <1>1, <1>3 DEF TransRecords, Modes
<1>5. [s1 EXCEPT !.tr[t].mode = "WRITE"] = m
  BY <1>3 DEF Put, StateRecords
<1> HIDE DEF T
<1>6. Running(s0, m, t) /\ m.tr[t] = T
  BY <1>1, <1>4, RunPut DEF SameHold
<1> HIDE DEF m
<1>7. RestartPartialRequest(s, t) = s2
  BY <1>2, <1>5
<1>8. Good(s2, {t} \ {t}, None) /\ Told(m, s2, None, t) /\ Waits(s2.tr[t])
  <2> DEFINE L == {t}
  <2>1. Good(m, L, None) /\ Asks(m, L, t)
    BY <1>4, <1>6 DEF Running, Asks
  <2> HIDE DEF L
  <2>2. /\ Good(CreateEntry(m, t), L \ {t}, None) /\ Told(m, CreateEntry(m, t), None, t)
        /\ Waits(CreateEntry(m, t).tr[t])
    BY <2>1, CreateEntryGood
  <2> QED
    BY <2>2 DEF L
<1> HIDE DEF s2
<1>9. s2.tr[t].entry = None /\ m.tr[t].entry = None
  BY <1>4, <1>6, <1>8 DEF Waits
<1> QED
  BY <1>6, <1>7, <1>8, <1>9, EndTold

\* DoUpdateCachedResponseComplete().
LEMMA UpdateCompleteStep ==
  ASSUME NEW s0, NEW s, NEW t, Running(s0, s, t), Keeps(s0.tr[t], s.tr[t]),
         s.tr[t].entry # None, s.tr[t].mode # "READ"
  PROVE  Step(s0, UpdateCachedResponseComplete(s, t), t)
<1>0. /\ s \in StateRecords /\ s.tr \in [Trans -> TransRecords]
      /\ s.tr[t] \in TransRecords /\ t \in Trans
  BY GoodTyped DEF Running, Typed
<1>1. CASE s.tr[t].mode = "UPDATE"
  <2>1. UpdateCachedResponseComplete(s, t) = Finish(DoneWritingToEntry(s, t, TRUE), t)
    BY <1>1 DEF UpdateCachedResponseComplete
  <2> QED
    BY <2>1, EndWriting
<1>2. CASE s.tr[t].mode # "UPDATE" /\ ~s.tr[t].resume
  <2>1. UpdateCachedResponseComplete(s, t) =
          [ConvertWriterToReader(s, t) EXCEPT !.tr[t].st = "HEADERS"]
    BY <1>2 DEF UpdateCachedResponseComplete
  <2>2. s.tr[t].resume = FALSE
    BY <1>0, <1>2 DEF TransRecords
  <2>3. Step(s0, [ConvertWriterToReader(s, t) EXCEPT !.tr[t].st = "HEADERS"], t)
    BY <2>2, EndConvert
  <2> QED
    BY <2>1, <2>3
<1>3. CASE s.tr[t].mode # "UPDATE" /\ s.tr[t].resume
  <2> DEFINE st == IF s.tr[t].reading THEN "NETWORK_READ" ELSE "HEADERS"
             T == [s.tr[t] EXCEPT !.st = st]
  <2>1. UpdateCachedResponseComplete(s, t) = [s EXCEPT !.tr[t].st = st]
    <3>1. s.tr[t].mode # "UPDATE" /\ s.tr[t].resume = TRUE
      BY <1>0, <1>3 DEF TransRecords
    <3> QED
      BY <3>1 DEF UpdateCachedResponseComplete
  <2>2. st \in {"NETWORK_READ", "HEADERS"}
    OBVIOUS
  <2> HIDE DEF st
  <2>3. [s EXCEPT !.tr[t].st = st] = Put(s, t, T)
    BY <1>0 DEF Put, StateRecords
  <2>4. /\ T \in TransRecords /\ T.entry = s.tr[t].entry /\ T.mode = s.tr[t].mode
        /\ T.st = st
    BY <1>0, <2>2 DEF TransRecords, States
  <2> HIDE DEF T
  <2>5. Continues(s.tr[t], T)
    BY <2>2, <2>4 DEF Continues, NetworkStates, UsingStates, FirstStates
  <2> QED
    BY <2>1, <2>3, <2>5, EndWith
<1> QED
  BY <1>1, <1>2, <1>3

\* DoUpdateCachedResponse().
LEMMA UpdateCachedResponseStep ==
  ASSUME NEW s0, NEW s, NEW t, NEW no_store, no_store \in BOOLEAN,
         Running(s0, s, t), Keeps(s0.tr[t], s.tr[t]),
         s.tr[t].entry # None, s.tr[t].mode # "READ"
  PROVE  Step(s0, UpdateCachedResponse(s, t, no_store), t)
<1> DEFINE e == s.tr[t].entry
           updated == [s.data[e] EXCEPT !.body = Unflagged(@), !.stale = FALSE,
                                        !.unused = s.tr[t].kind = "prefetch"]
<1>0. Typed(s, t) /\ t \in Trans /\ e \in Ids
  BY GoodTyped DEF Running, Typed
<1>1. CASE no_store
  <2> DEFINE m == IF e \in s.doomed THEN s ELSE DoomActiveEntry(s)
  <2>1. UpdateCachedResponse(s, t, no_store) = UpdateCachedResponseComplete(m, t)
    BY <1>1 DEF UpdateCachedResponse
  <2>2. Running(s0, m, t) /\ m.tr = s.tr
    BY RunDoom
  <2> HIDE DEF m
  <2>3. Step(s0, UpdateCachedResponseComplete(m, t), t)
    <3>1. Keeps(s0.tr[t], m.tr[t]) /\ m.tr[t].entry # None /\ m.tr[t].mode # "READ"
      BY <2>2
    <3> QED
      BY <2>2, <3>1, UpdateCompleteStep
  <2> QED
    BY <2>1, <2>3
<1>2. CASE ~no_store /\ s.tr[t].reading
  <2>1. UpdateCachedResponse(s, t, no_store) = UpdateCachedResponseComplete(s, t)
    BY <1>2 DEF UpdateCachedResponse
  <2> QED
    BY <2>1, UpdateCompleteStep
<1>3. CASE ~no_store /\ ~s.tr[t].reading
  <2> DEFINE d == [s.data EXCEPT ![e] = updated]
             T == [s.tr[t] EXCEPT !.st = "CACHE_WRITE_UPDATED_RESPONSE"]
  <2>1. UpdateCachedResponse(s, t, no_store) =
          [s EXCEPT !.data[e] = updated, !.tr[t].st = "CACHE_WRITE_UPDATED_RESPONSE"]
    BY <1>3 DEF UpdateCachedResponse
  <2>2. updated \in DataRecords
    <3>1. s.data[e] \in DataRecords
      BY <1>0 DEF Typed
    <3> QED
      BY <3>1 DEF DataRecords, Unflagged, Bodies
  <2> HIDE DEF updated
  <2>3. d \in [Ids -> DataRecords]
    BY <1>0, <2>2 DEF Typed
  <2>4. [s EXCEPT !.data[e] = updated, !.tr[t].st = "CACHE_WRITE_UPDATED_RESPONSE"]
           = Put(Store(s, d), t, T)
    BY <1>0 DEF Typed, Put, Store, StateRecords
  <2>5. /\ T \in TransRecords /\ T.entry = s.tr[t].entry /\ T.mode = s.tr[t].mode
        /\ T.st = "CACHE_WRITE_UPDATED_RESPONSE"
    BY <1>0 DEF Typed, TransRecords, States
  <2> HIDE DEF T, d
  <2>6. Continues(s.tr[t], T)
    BY <2>5 DEF Continues, NetworkStates, UsingStates, FirstStates
  <2>7. Running(s0, Store(s, d), t) /\ Store(s, d).tr = s.tr
    BY <2>3, RunStore
  <2>8. Step(s0, Put(Store(s, d), t, T), t)
    <3>1. Keeps(s0.tr[t], Store(s, d).tr[t]) /\ Continues(Store(s, d).tr[t], T)
      BY <2>6, <2>7
    <3> QED
      BY <2>7, <3>1, EndWith
  <2> QED
    BY <2>1, <2>4, <2>8
<1> QED
  BY <1>1, <1>2, <1>3

\* DoOverwriteCachedResponse().
LEMMA OverwriteCachedResponseStep ==
  ASSUME NEW s0, NEW s, NEW t, NEW no_store, no_store \in BOOLEAN,
         Running(s0, s, t), Keeps(s0.tr[t], s.tr[t]),
         s.tr[t].entry # None, s.tr[t].mode # "READ"
  PROVE  Step(s0, OverwriteCachedResponse(s, t, no_store), t)
<1> DEFINE e == s.tr[t].entry
           fresh == [NoData EXCEPT !.body = "headers",
                                   !.unused = s.tr[t].kind = "prefetch"]
           d == [s.data EXCEPT ![e] = fresh]
           T == [s.tr[t] EXCEPT !.resume = FALSE, !.st = "CACHE_WRITE_RESPONSE"]
<1>0. Typed(s, t) /\ t \in Trans /\ e \in Ids
  BY GoodTyped DEF Running, Typed
<1>1. CASE s.tr[t].kind = "head" \/ no_store
  <2>1. OverwriteCachedResponse(s, t, no_store) = Finish(DoneWritingToEntry(s, t, FALSE), t)
    BY <1>1 DEF OverwriteCachedResponse
  <2> QED
    BY <2>1, EndWriting
<1>2. CASE ~(s.tr[t].kind = "head" \/ no_store)
  <2>1. OverwriteCachedResponse(s, t, no_store) =
          [s EXCEPT !.data[e] = fresh, !.tr[t].resume = FALSE,
                    !.tr[t].st = "CACHE_WRITE_RESPONSE"]
    BY <1>2 DEF OverwriteCachedResponse
  <2>2. fresh \in DataRecords
    BY DEF DataRecords, Bodies, NoData
  <2> HIDE DEF fresh
  <2>3. d \in [Ids -> DataRecords]
    BY <1>0, <2>2 DEF Typed
  <2>4. [s EXCEPT !.data[e] = fresh, !.tr[t].resume = FALSE,
                  !.tr[t].st = "CACHE_WRITE_RESPONSE"] = Put(Store(s, d), t, T)
    BY <1>0 DEF Typed, Put, Store, StateRecords, TransRecords
  <2>5. /\ T \in TransRecords /\ T.entry = s.tr[t].entry /\ T.mode = s.tr[t].mode
        /\ T.st = "CACHE_WRITE_RESPONSE"
    BY <1>0 DEF Typed, TransRecords, States
  <2> HIDE DEF T, d
  <2>6. Continues(s.tr[t], T)
    BY <2>5 DEF Continues, NetworkStates, UsingStates, FirstStates
  <2>7. Running(s0, Store(s, d), t) /\ Store(s, d).tr = s.tr
    BY <2>3, RunStore
  <2>8. Step(s0, Put(Store(s, d), t, T), t)
    <3>1. Keeps(s0.tr[t], Store(s, d).tr[t]) /\ Continues(Store(s, d).tr[t], T)
      BY <2>6, <2>7
    <3> QED
      BY <2>7, <3>1, EndWith
  <2> QED
    BY <2>1, <2>4, <2>8
<1> QED
  BY <1>1, <1>2

-----------------------------------------------------------------------------
(* The events. *)

\* The variables take the value of the record the handlers compute.
LEMMA Becomes ==
  ASSUME NEW s2, NEW a, Step(State, s2, a), Become(s2)
  PROVE  Step(State, State', a)
<1>1. s2 \in StateRecords
  BY DEF Step, Good
<1>2. State' = s2
  BY <1>1 DEF State, Become, StateRecords
<1> QED
  BY <1>2

\* What is known of the actor when the event happens.
Actor(t) ==
  /\ t \in Trans /\ State.tr = tr /\ State.data = data
  /\ Good(State, {}, None) /\ Typed(State, t) /\ State \in StateRecords
  /\ tr \in [Trans -> TransRecords] /\ data \in [Ids -> DataRecords]
  /\ tr[t] \in TransRecords /\ Role(tr[t])
  /\ tr[t].entry # None => tr[t].entry \in Ids
  /\ tr[t].st \notin WaitStates =>
       Running(State, State, t) /\ Keeps(State.tr[t], State.tr[t])

\* The invariant holds of the record of the variables.
LEMMA ActorKnown ==
  ASSUME IInv, NEW t \in Trans
  PROVE  Actor(t)
<1>1. Good(State, {}, None) /\ State.tr = tr /\ State.data = data
  BY DEF IInv, State
<1>2. Typed(State, t) /\ (t \notin {} => Role(State.tr[t]))
  BY <1>1, GoodTyped
<1>3. State.tr[t].st \notin WaitStates =>
        Running(State, State, t) /\ Keeps(State.tr[t], State.tr[t])
  BY <1>1, Begin
<1> QED
  BY <1>1, <1>2, <1>3 DEF Actor, Typed

\* RestartNetworkRequest(): the answer to an authentication challenge.
LEMMA RestartRequestStep ==
  ASSUME IInv, NEW t \in Trans, RestartRequest(t)
  PROVE  Step(State, State', t)
<1> DEFINE T == [tr[t] EXCEPT !.st = "SEND_REQUEST"]
<1>1. Actor(t) /\ tr[t].st = "AUTH"
  BY ActorKnown DEF RestartRequest
<1>2. /\ T \in TransRecords /\ T.entry = tr[t].entry /\ T.mode = tr[t].mode
      /\ T.resume = tr[t].resume /\ T.st = "SEND_REQUEST"
  BY <1>1 DEF Actor, TransRecords, States
<1>3. [State EXCEPT !.tr[t].st = "SEND_REQUEST"] = Put(State, t, T)
  BY <1>1 DEF Actor, Put, StateRecords
<1>4. Become(Put(State, t, T))
  BY <1>3 DEF RestartRequest
<1> HIDE DEF T
<1>5. /\ Role(T) /\ T.st \notin WaitStates /\ SameHold(State.tr[t], T)
      /\ Running(State, State, t) /\ Keeps(State.tr[t], State.tr[t])
  BY <1>1, <1>2 DEF Actor, Role, SameHold, WaitStates, WorkItemStates, UsingStates,
     NetworkStates, FirstStates, ReaderStates
<1>6. Step(State, Put(State, t, T), t)
  BY <1>2, <1>5, Settle
<1> QED
  BY <1>4, <1>6, Becomes

\* The client reads, from the network or from the cache.
LEMMA ReadStep ==
  ASSUME IInv, NEW t \in Trans, Read(t)
  PROVE  Step(State, State', t)
<1> DEFINE R == [tr[t] EXCEPT !.reading = TRUE]
           s == Put(State, t, R)
           cached == tr[t].mode = "READ" \/ tr[t].resume
           st == IF cached THEN "CACHE_READ_DATA" ELSE "NETWORK_READ"
           T == [R EXCEPT !.st = st]
<1>0. Actor(t)
  BY ActorKnown
<1>1. /\ R \in TransRecords /\ R.entry = tr[t].entry /\ R.mode = tr[t].mode
      /\ R.resume = tr[t].resume
  BY <1>0 DEF Actor, TransRecords
<1>2. [State EXCEPT !.tr[t].reading = TRUE] = s
  BY <1>0 DEF Actor, Put, StateRecords
<1> HIDE DEF R
<1>3. tr[t].st \notin WaitStates =>
        Running(State, s, t) /\ s.tr[t] = R /\ Keeps(State.tr[t], s.tr[t])
  <2> SUFFICES ASSUME tr[t].st \notin WaitStates
               PROVE  Running(State, s, t) /\ s.tr[t] = R /\ Keeps(State.tr[t], s.tr[t])
    OBVIOUS
  <2>1. Running(State, State, t) /\ SameHold(State.tr[t], R)
    BY <1>0, <1>1 DEF Actor, SameHold
  <2>2. Running(State, s, t) /\ s.tr[t] = R
    BY <2>1, <1>1, RunPut
  <2> QED
    BY <2>2, <1>0, <1>1 DEF Keeps, Actor
<1>4. CASE /\ tr[t].st = "AUTH"
           /\ Become(Finish(IF tr[t].mode = "NONE" THEN s
                            ELSE DoneWritingToEntry(s, t, tr[t].mode = "READ_WRITE"), t))
  <2>1. tr[t].st \notin WaitStates /\ tr[t].mode # "READ"
    BY <1>0, <1>4 DEF Actor, Role, WaitStates, WorkItemStates, FirstStates, ReaderStates
  <2>2. /\ Running(State, s, t) /\ s.tr[t].mode # "READ"
        /\ Keeps(State.tr[t], s.tr[t]) /\ MayFinish(s.tr[t])
    BY <2>1, <1>1, <1>3 DEF MayFinish
  <2> HIDE DEF s
  <2>3. /\ Step(State, Finish(DoneWritingToEntry(s, t, TRUE), t), t)
        /\ Step(State, Finish(DoneWritingToEntry(s, t, FALSE), t), t)
        /\ Step(State, Finish(s, t), t)
    BY <2>2, EndWriting, EndFinish
  <2>4. CASE tr[t].mode = "READ_WRITE"
    <3>1. (tr[t].mode = "READ_WRITE") = TRUE /\ tr[t].mode # "NONE"
      BY <2>4
    <3>2. Become(Finish(DoneWritingToEntry(s, t, TRUE), t))
      BY <3>1, <1>4, Zenon
    <3> QED
      BY <3>2, <2>3, Becomes
  <2>5. CASE tr[t].mode \notin {"READ_WRITE", "NONE"}
    <3>1. (tr[t].mode = "READ_WRITE") = FALSE /\ tr[t].mode # "NONE"
      BY <2>5
    <3>2. Become(Finish(DoneWritingToEntry(s, t, FALSE), t))
      BY <3>1, <1>4, Zenon
    <3> QED
      BY <3>2, <2>3, Becomes
  <2>6. CASE tr[t].mode = "NONE"
    <3>1. Become(Finish(s, t))
      BY <2>6, <1>4
    <3> QED
      BY <3>1, <2>3, Becomes
  <2> QED
    BY <2>4, <2>5, <2>6
<1>5. CASE tr[t].st = "HEADERS" /\ Become([s EXCEPT !.tr[t].st = st])
  <2>1. tr[t].st \notin WaitStates
    BY <1>5 DEF WaitStates, WorkItemStates
  <2>2. Running(State, s, t) /\ s.tr[t] = R /\ Keeps(State.tr[t], s.tr[t]) /\ Typed(s, t)
    BY <2>1, <1>3, GoodTyped DEF Running
  <2> HIDE DEF s
  <2>3. st \in {"CACHE_READ_DATA", "NETWORK_READ"}
    OBVIOUS
  <2>4. /\ st = "CACHE_READ_DATA" => tr[t].mode = "READ" \/ tr[t].resume # FALSE
        /\ st = "NETWORK_READ" => tr[t].mode # "READ"
    BY <1>0 DEF Actor, TransRecords
  <2> HIDE DEF st
  <2>5. [s EXCEPT !.tr[t].st = st] = Put(s, t, T)
    BY <2>2 DEF Typed, Put, StateRecords
  <2>6. /\ T \in TransRecords /\ T.entry = R.entry /\ T.mode = R.mode
        /\ T.resume = R.resume /\ T.st = st
    BY <2>3, <1>1 DEF TransRecords, States
  <2> HIDE DEF T
  <2>7. Role(T) /\ T.st \notin WaitStates /\ SameHold(s.tr[t], T)
    BY <1>0, <1>1, <1>5, <2>2, <2>3, <2>4, <2>6
    DEF Actor, Role, SameHold, WaitStates, WorkItemStates, UsingStates,
        NetworkStates, FirstStates, ReaderStates
  <2>8. Step(State, Put(s, t, T), t)
    BY <2>2, <2>6, <2>7, Settle
  <2> QED
    BY <2>5, <2>8, <1>5, Becomes
<1> QED
  BY <1>2, <1>4, <1>5 DEF Read

\* The actor waits in another state for the network or the disk cache.
Go(s, t, st) == [s EXCEPT !.tr[t].st = st]

MayGo(T, st) ==
  /\ st \in NetworkStates \cup UsingStates
  /\ st \in UsingStates => T.entry # None
  /\ st \in NetworkStates /\ (T.mode # "NONE" \/ T.resume # FALSE) => T.entry # None
  /\ st \in FirstStates => T.mode # "WRITE" /\ T.resume = FALSE
  /\ st = "CACHE_READ_DATA" => T.mode = "READ" \/ T.resume # FALSE
  /\ T.mode = "READ" => st \in ReaderStates /\ T.resume = FALSE

\* A run may end in the next state of the same mode.
LEMMA EndGo ==
  ASSUME NEW s0, NEW s, NEW t, NEW st, Running(s0, s, t), Keeps(s0.tr[t], s.tr[t]),
         MayGo(s.tr[t], st)
  PROVE  Step(s0, Go(s, t, st), t)
<1> DEFINE T == [s.tr[t] EXCEPT !.st = st]
<1>0. /\ s \in StateRecords /\ s.tr \in [Trans -> TransRecords]
      /\ s.tr[t] \in TransRecords /\ t \in Trans
  BY GoodTyped DEF Running, Typed
<1>1. st \in States /\ st \notin WaitStates \cup {"IDLE", "GONE"}
  BY DEF MayGo, NetworkStates, UsingStates, States, WaitStates, WorkItemStates
<1>2. /\ T \in TransRecords /\ T.entry = s.tr[t].entry /\ T.mode = s.tr[t].mode
      /\ T.resume = s.tr[t].resume /\ T.st = st
  BY <1>0, <1>1 DEF TransRecords
<1>3. Go(s, t, st) = Put(s, t, T)
  BY <1>0 DEF Go, Put, StateRecords
<1> HIDE DEF T
<1>4. Role(T) /\ T.st \notin WaitStates /\ SameHold(s.tr[t], T)
  BY <1>1, <1>2 DEF MayGo, Role, SameHold
<1>5. Step(s0, Put(s, t, T), t)
  BY <1>2, <1>4, Settle
<1> QED
  BY <1>3, <1>5

\* The actor writes to its entry.
Wrote(s, e, body) == [s EXCEPT !.data[e].body = body]

\* What an entry holds is not the lock's business.
LEMMA RunEntryData ==
  ASSUME NEW s0, NEW s, NEW t, NEW D, Running(s0, s, t), s.tr[t].entry # None,
         D \in DataRecords
  PROVE  LET s2 == [s EXCEPT !.data[s.tr[t].entry] = D]
         IN Running(s0, s2, t) /\ s2.tr = s.tr
<1> DEFINE e == s.tr[t].entry
           d == [s.data EXCEPT ![e] = D]
<1>1. s \in StateRecords /\ e \in Ids /\ s.data \in [Ids -> DataRecords]
  BY GoodTyped DEF Running, Typed
<1>2. d \in [Ids -> DataRecords]
  BY <1>1
<1>3. [s EXCEPT !.data[e] = D] = Store(s, d)
  BY <1>1 DEF Store, StateRecords
<1> HIDE DEF d
<1>4. Running(s0, Store(s, d), t) /\ Store(s, d).tr = s.tr
  BY <1>2, RunStore
<1> QED
  BY <1>3, <1>4

\* The writer of an entry stores data.
LEMMA RunWrote ==
  ASSUME NEW s0, NEW s, NEW t, NEW body, Running(s0, s, t), s.tr[t].entry # None,
         body \in Bodies
  PROVE  LET s2 == Wrote(s, s.tr[t].entry, body)
         IN Running(s0, s2, t) /\ s2.tr = s.tr
<1> DEFINE e == s.tr[t].entry
           d == [s.data EXCEPT ![e].body = body]
<1>0. Typed(s, t) /\ s.data \in [Ids -> DataRecords] /\ s \in StateRecords /\ e \in Ids
  BY GoodTyped DEF Running, Typed
<1>1. d \in [Ids -> DataRecords]
  <2>1. [s.data[e] EXCEPT !.body = body] \in DataRecords
    <3>1. s.data[e] \in DataRecords
      BY <1>0
    <3> QED
      BY <3>1 DEF DataRecords
  <2>2. d = [s.data EXCEPT ![e] = [s.data[e] EXCEPT !.body = body]]
    BY <1>0
  <2> QED
    BY <1>0, <2>1, <2>2
<1>2. Wrote(s, e, body) = Store(s, d)
  BY <1>0 DEF Wrote, Store, StateRecords
<1> HIDE DEF d
<1>3. Running(s0, Store(s, d), t) /\ Store(s, d).tr = s.tr
  BY <1>1, RunStore
<1> QED
  BY <1>2, <1>3

\* The actor of an event that ends a wait for the network or the disk cache.
LEMMA ActorRuns ==
  ASSUME IInv, NEW t \in Trans, tr[t].st \in NetworkStates \cup UsingStates
  PROVE  /\ Actor(t) /\ Running(State, State, t) /\ Keeps(State.tr[t], State.tr[t])
         /\ State.tr = tr /\ State.data = data /\ tr[t] \in TransRecords
         /\ tr[t].st \in UsingStates => tr[t].entry # None
         /\ tr[t].mode # "NONE" \/ tr[t].resume # FALSE => tr[t].entry # None
         /\ tr[t].st \in FirstStates => tr[t].mode # "WRITE" /\ tr[t].resume = FALSE
         /\ tr[t].st = "CACHE_READ_DATA" => tr[t].mode = "READ" \/ tr[t].resume # FALSE
         /\ tr[t].mode = "READ" => tr[t].st \in ReaderStates /\ tr[t].resume = FALSE
<1>1. Actor(t)
  BY ActorKnown
<1>2. tr[t].st \notin WaitStates
  BY DEF NetworkStates, UsingStates, WaitStates, WorkItemStates
<1> QED
  BY <1>1, <1>2 DEF Actor, Role

\* DoneReading() before the first Read().
LEMMA DoneReadingStep ==
  ASSUME IInv, NEW t \in Trans, DoneReading(t)
  PROVE  Step(State, State', t)
<1> DEFINE whole == Wrote(State, tr[t].entry, "full")
<1>1. tr[t].st = "HEADERS" /\ tr[t].st \in NetworkStates \cup UsingStates
  BY DEF DoneReading, NetworkStates
<1>2. /\ Running(State, State, t) /\ Keeps(State.tr[t], State.tr[t]) /\ State.tr = tr
      /\ tr[t] \in TransRecords
      /\ tr[t].mode # "NONE" => tr[t].entry # None
      /\ tr[t].mode = "READ" => tr[t].resume = FALSE
  BY <1>1, ActorRuns
<1>3. Become(CASE tr[t].mode = "WRITE" -> Finish(DoneWritingToEntry(whole, t, TRUE), t)
               [] tr[t].mode = "READ" -> Finish(DoneReadingFromEntry(State, t), t)
               [] OTHER -> Finish(State, t))
  BY DEF DoneReading, Wrote
<1>4. CASE tr[t].mode = "WRITE"
  <2>1. Running(State, whole, t) /\ whole.tr = tr
    <3>1. State.tr[t].entry # None /\ "full" \in Bodies
      BY <1>2, <1>4 DEF Bodies
    <3>2. LET s2 == Wrote(State, State.tr[t].entry, "full")
          IN Running(State, s2, t) /\ s2.tr = State.tr
      BY <1>2, <3>1, RunWrote
    <3> QED
      BY <3>2, <1>2
  <2> HIDE DEF whole
  <2>2. Step(State, Finish(DoneWritingToEntry(whole, t, TRUE), t), t)
    <3>1. whole.tr[t].mode # "READ"
      BY <2>1, <1>4
    <3> QED
      BY <2>1, <3>1, EndWriting
  <2> QED
    BY <1>3, <1>4, <2>2, Becomes
<1>5. CASE tr[t].mode = "READ"
  <2>1. /\ State.tr[t].entry # None /\ State.tr[t].mode = "READ"
        /\ State.tr[t].resume = FALSE
    BY <1>2, <1>5
  <2>2. Step(State, Finish(DoneReadingFromEntry(State, t), t), t)
    BY <1>2, <2>1, EndReading
  <2> QED
    BY <1>3, <1>5, <2>2, Becomes
<1>6. CASE tr[t].mode \notin {"READ", "WRITE"}
  <2>1. MayFinish(State.tr[t])
    BY <1>2, <1>6 DEF MayFinish
  <2>2. Step(State, Finish(State, t), t)
    BY <1>2, <2>1, EndFinish
  <2> QED
    BY <1>3, <1>6, <2>2, Becomes
<1> QED
  BY <1>4, <1>5, <1>6

\* StopCaching(): the writer stores no more, and keeps its lock.
LEMMA StopCachingStep ==
  ASSUME IInv, NEW t \in Trans, StopCaching(t)
  PROVE  Step(State, State', t)
<1> DEFINE T == [tr[t] EXCEPT !.mode = "NONE"]
<1>1. tr[t].st \in {"HEADERS", "NETWORK_READ"} /\ tr[t].mode # "READ"
  BY DEF StopCaching, Writes
<1>2. tr[t].st \in NetworkStates \cup UsingStates
  BY <1>1 DEF NetworkStates
<1>3. /\ Actor(t) /\ Running(State, State, t) /\ Keeps(State.tr[t], State.tr[t])
      /\ State.tr = tr
      /\ tr[t].mode # "NONE" \/ tr[t].resume # FALSE => tr[t].entry # None
  BY <1>2, ActorRuns
<1>4. /\ T \in TransRecords /\ T.entry = tr[t].entry /\ T.mode = "NONE"
      /\ T.resume = tr[t].resume /\ T.st = tr[t].st
  BY <1>3 DEF Actor, TransRecords, Modes
<1>5. [State EXCEPT !.tr[t].mode = "NONE"] = Put(State, t, T)
  BY <1>3 DEF Actor, Put, StateRecords
<1>6. Become(Put(State, t, T))
  BY <1>5 DEF StopCaching
<1> HIDE DEF T
<1>7. Role(T) /\ T.st \notin WaitStates /\ SameHold(State.tr[t], T)
  BY <1>1, <1>3, <1>4 DEF Role, SameHold, WaitStates, WorkItemStates, UsingStates,
     NetworkStates, FirstStates
<1>8. Step(State, Put(State, t, T), t)
  BY <1>3, <1>4, <1>7, Settle
<1> QED
  BY <1>6, <1>8, Becomes

\* The headers are on disk.
LEMMA ResponseWrittenStep ==
  ASSUME IInv, NEW t \in Trans, ResponseWritten(t)
  PROVE  Step(State, State', t)
<1>1. tr[t].st = "CACHE_WRITE_RESPONSE" /\ tr[t].st \in NetworkStates \cup UsingStates
  BY DEF ResponseWritten, UsingStates
<1>2. /\ Running(State, State, t) /\ Keeps(State.tr[t], State.tr[t]) /\ State.tr = tr
      /\ tr[t].entry # None /\ tr[t].mode # "READ"
  <2>1. "CACHE_WRITE_RESPONSE" \in UsingStates /\ "CACHE_WRITE_RESPONSE" \notin ReaderStates
    BY DEF UsingStates, ReaderStates, WaitStates, WorkItemStates, FirstStates
  <2> QED
    BY <1>1, <2>1, ActorRuns
<1>3. CASE Become(Go(State, t, "HEADERS"))
  <2>1. MayGo(State.tr[t], "HEADERS")
    BY <1>2 DEF MayGo, NetworkStates, UsingStates, FirstStates
  <2>2. Step(State, Go(State, t, "HEADERS"), t)
    BY <1>2, <2>1, EndGo
  <2> QED
    BY <1>3, <2>2, Becomes
<1>4. CASE Become(Finish(DoneWritingToEntry(State, t, FALSE), t))
  <2>1. Step(State, Finish(DoneWritingToEntry(State, t, FALSE), t), t)
    BY <1>2, EndWriting
  <2> QED
    BY <1>4, <2>1, Becomes
<1> QED
  BY <1>3, <1>4 DEF ResponseWritten, Go

\* The updated headers are on disk: the writer becomes a reader, or ends.
LEMMA UpdatedResponseWrittenStep ==
  ASSUME IInv, NEW t \in Trans, UpdatedResponseWritten(t)
  PROVE  Step(State, State', t)
<1>1. /\ tr[t].st = "CACHE_WRITE_UPDATED_RESPONSE"
      /\ tr[t].st \in NetworkStates \cup UsingStates
  BY DEF UpdatedResponseWritten, UsingStates
<1>2. /\ Running(State, State, t) /\ Keeps(State.tr[t], State.tr[t])
      /\ State.tr[t].entry # None /\ State.tr[t].mode # "READ"
  <2>1. /\ "CACHE_WRITE_UPDATED_RESPONSE" \in UsingStates
        /\ "CACHE_WRITE_UPDATED_RESPONSE" \notin ReaderStates
    BY DEF UsingStates, ReaderStates, WaitStates, WorkItemStates, FirstStates
  <2> QED
    BY <1>1, <2>1, ActorRuns
<1>3. CASE Become(UpdateCachedResponseComplete(State, t))
  <2>1. Step(State, UpdateCachedResponseComplete(State, t), t)
    BY <1>2, UpdateCompleteStep
  <2> QED
    BY <1>3, <2>1, Becomes
<1>4. CASE Become(Finish(DoneWritingToEntry(State, t, FALSE), t))
  <2>1. Step(State, Finish(DoneWritingToEntry(State, t, FALSE), t), t)
    BY <1>2, EndWriting
  <2> QED
    BY <1>4, <2>1, Becomes
<1> QED
  BY <1>3, <1>4 DEF UpdatedResponseWritten

\* A part of the body is on disk, or could not be stored.
LEMMA DataWrittenStep ==
  ASSUME IInv, NEW t \in Trans, DataWritten(t)
  PROVE  Step(State, State', t)
<1>1. tr[t].st = "CACHE_WRITE_DATA" /\ tr[t].st \in NetworkStates \cup UsingStates
  BY DEF DataWritten, UsingStates
<1>2. /\ Running(State, State, t) /\ Keeps(State.tr[t], State.tr[t]) /\ State.tr = tr
      /\ State.tr[t].entry # None /\ State.tr[t].mode # "READ" /\ Actor(t)
  <2>1. "CACHE_WRITE_DATA" \in UsingStates /\ "CACHE_WRITE_DATA" \notin ReaderStates
    BY DEF UsingStates, ReaderStates, WaitStates, WorkItemStates, FirstStates
  <2> QED
    BY <1>1, <2>1, ActorRuns
<1>3. ASSUME NEW body \in {"part", "full"},
             Become([State EXCEPT !.data[tr[t].entry].body = body,
                                  !.tr[t].st = "NETWORK_READ"])
      PROVE  Step(State, State', t)
  <2> DEFINE s == Wrote(State, State.tr[t].entry, body)
  <2>1. body \in Bodies
    BY DEF Bodies
  <2>2. Running(State, s, t) /\ s.tr = State.tr
    BY <1>2, <2>1, RunWrote
  <2>3. [State EXCEPT !.data[tr[t].entry].body = body, !.tr[t].st = "NETWORK_READ"]
          = Go(s, t, "NETWORK_READ")
    BY <1>2 DEF Go, Wrote, Actor, StateRecords
  <2> HIDE DEF s
  <2>4. MayGo(s.tr[t], "NETWORK_READ") /\ Keeps(State.tr[t], s.tr[t])
    BY <1>2, <2>2 DEF MayGo, NetworkStates, UsingStates, FirstStates
  <2>5. Step(State, Go(s, t, "NETWORK_READ"), t)
    BY <2>2, <2>4, EndGo
  <2> QED
    BY <1>3, <2>3, <2>5, Becomes
<1>4. CASE Become(Finish(DoneWritingToEntry(State, t, FALSE), t))
  <2>1. Step(State, Finish(DoneWritingToEntry(State, t, FALSE), t), t)
    BY <1>2, EndWriting
  <2> QED
    BY <1>4, <2>1, Becomes
<1> QED
  BY <1>3, <1>4 DEF DataWritten

\* A part of the body was read from disk, or could not be read.
LEMMA DataReadStep ==
  ASSUME IInv, NEW t \in Trans, DataRead(t)
  PROVE  Step(State, State', t)
<1>1. tr[t].st = "CACHE_READ_DATA" /\ tr[t].st \in NetworkStates \cup UsingStates
  BY DEF DataRead, UsingStates
<1>2. /\ Running(State, State, t) /\ Keeps(State.tr[t], State.tr[t]) /\ State.tr = tr
      /\ tr[t].entry # None /\ (tr[t].mode = "READ" \/ tr[t].resume # FALSE)
      /\ tr[t].mode = "READ" => tr[t].resume = FALSE
      /\ tr[t] \in TransRecords
  <2>1. "CACHE_READ_DATA" \in UsingStates
    BY DEF UsingStates
  <2> QED
    BY <1>1, <2>1, ActorRuns
<1>3. tr[t].resume \in BOOLEAN
  BY <1>2 DEF TransRecords
<1>4. CASE tr[t].resume /\ Become(Go(State, t, "SEND_REQUEST"))
  <2>1. MayGo(State.tr[t], "SEND_REQUEST")
    BY <1>2, <1>3, <1>4 DEF MayGo, NetworkStates, UsingStates, FirstStates
  <2>2. Step(State, Go(State, t, "SEND_REQUEST"), t)
    BY <1>2, <2>1, EndGo
  <2> QED
    BY <1>4, <2>2, Becomes
<1>5. CASE ~tr[t].resume /\ Become(Finish(DoneReadingFromEntry(State, t), t))
  <2>1. /\ State.tr[t].entry # None /\ State.tr[t].mode = "READ"
        /\ State.tr[t].resume = FALSE
    BY <1>2, <1>3, <1>5
  <2>2. Step(State, Finish(DoneReadingFromEntry(State, t), t), t)
    BY <1>2, <2>1, EndReading
  <2> QED
    BY <1>5, <2>2, Becomes
<1>6. CASE Become(Finish(DoomActiveEntry(State), t))
  <2> DEFINE s == DoomActiveEntry(State)
  <2>1. Running(State, s, t) /\ s.tr = State.tr
    BY <1>2, RunDoom
  <2> HIDE DEF s
  <2>2. Keeps(State.tr[t], s.tr[t]) /\ MayFinish(s.tr[t])
    BY <1>2, <2>1 DEF MayFinish
  <2>3. Step(State, Finish(s, t), t)
    BY <2>1, <2>2, EndFinish
  <2> QED
    BY <1>6, <2>3, Becomes DEF s
<1> QED
  BY <1>4, <1>5, <1>6 DEF DataRead, Go

\* A part of the body came from the network.
LEMMA NetworkReadCompleteStep ==
  ASSUME IInv, NEW t \in Trans, NetworkReadComplete(t)
  PROVE  Step(State, State', t)
<1>1. tr[t].st = "NETWORK_READ" /\ tr[t].st \in NetworkStates \cup UsingStates
  BY DEF NetworkReadComplete, NetworkStates
<1>2. /\ Running(State, State, t) /\ Keeps(State.tr[t], State.tr[t]) /\ State.tr = tr
      /\ tr[t].mode # "NONE" => tr[t].entry # None
      /\ tr[t].mode # "READ" /\ Actor(t)
  <2>1. "NETWORK_READ" \notin ReaderStates
    BY DEF ReaderStates, WaitStates, WorkItemStates, FirstStates
  <2> QED
    BY <1>1, <2>1, ActorRuns
<1>3. CASE tr[t].mode # "NONE" /\ Become(Go(State, t, "CACHE_WRITE_DATA"))
  <2>1. MayGo(State.tr[t], "CACHE_WRITE_DATA")
    BY <1>2, <1>3 DEF MayGo, NetworkStates, UsingStates, FirstStates
  <2>2. Step(State, Go(State, t, "CACHE_WRITE_DATA"), t)
    BY <1>2, <2>1, EndGo
  <2> QED
    BY <1>3, <2>2, Becomes
<1> DEFINE Ended(body) ==
             [State EXCEPT !.data[tr[t].entry] =
                [@ EXCEPT !.body = body, !.unmarked = body # "full"]]
<1>4. ASSUME tr[t].mode # "NONE", NEW body,
             body \in {"full"} \cup (IF "short_eof" \in Faults
                                     THEN {data[tr[t].entry].body} ELSE {}),
             Become(Finish(DoneWritingToEntry(Ended(body), t, TRUE), t))
      PROVE  Step(State, State', t)
  <2> DEFINE D == [State.data[State.tr[t].entry] EXCEPT !.body = body,
                                                        !.unmarked = body # "full"]
             s == [State EXCEPT !.data[State.tr[t].entry] = D]
  <2>1. D \in DataRecords /\ State.tr[t].entry # None
    <3>1. data[tr[t].entry] \in DataRecords /\ State.data = data
      BY <1>2, <1>4 DEF Actor
    <3>2. body \in Bodies
      BY <3>1, <1>4 DEF Bodies, DataRecords
    <3> QED
      BY <3>1, <3>2, <1>2, <1>4 DEF DataRecords
  <2>4. Ended(body) = s
    BY <1>2
  <2> HIDE DEF D
  <2>2. Running(State, s, t) /\ s.tr = State.tr
    BY <1>2, <2>1, RunEntryData
  <2> HIDE DEF Ended
  <2>3. Become(Finish(DoneWritingToEntry(s, t, TRUE), t))
    BY <2>4, <1>4
  <2> HIDE DEF s
  <2>5. s.tr[t].mode # "READ"
    BY <1>2, <2>2
  <2>6. Step(State, Finish(DoneWritingToEntry(s, t, TRUE), t), t)
    BY <2>2, <2>5, EndWriting
  <2> QED
    BY <2>3, <2>6, Becomes
<1>5. CASE Become(Finish(State, t))
  <2>1. MayFinish(State.tr[t])
    BY <1>2 DEF MayFinish
  <2>2. Step(State, Finish(State, t), t)
    BY <1>2, <2>1, EndFinish
  <2> QED
    BY <1>5, <2>2, Becomes
<1> QED
  BY <1>3, <1>4, <1>5 DEF NetworkReadComplete, Go

\* The server refuses to resume a truncated entry, which is doomed.
LEMMA PartialRejectedStep ==
  ASSUME IInv, NEW t \in Trans, PartialRejected(t)
  PROVE  Step(State, State', t)
<1> DEFINE s == DoomPartialEntry(State, t)
<1>1. /\ tr[t].st \in NetworkStates \cup UsingStates /\ tr[t].resume
      /\ Become(IF tr[t].reading THEN Finish(s, t) ELSE PassThrough(s, t))
  BY DEF PartialRejected, NetworkStates
<1>2. Running(State, State, t) /\ State.tr[t].entry # None
  <2>1. tr[t].resume # FALSE
    BY <1>1
  <2> QED
    BY <1>1, <2>1, ActorRuns
<1>3. /\ Running(State, s, t) /\ s.tr[t].entry = None
      /\ s.tr[t].mode = "NONE" /\ s.tr[t].resume = FALSE
  BY <1>2, DoomPartialEntryRuns
<1> HIDE DEF s
<1>4. Step(State, PassThrough(s, t), t)
  BY <1>3, EndPassThrough
<1>5. Step(State, Finish(s, t), t)
  BY <1>3, EndFinish DEF Keeps, MayFinish
<1> QED
  BY <1>1, <1>4, <1>5, Becomes

\* The rest of a truncated entry is asked for, or the request starts anew.
LEMMA QueryDataCompleteStep ==
  ASSUME IInv, NEW t \in Trans, QueryDataComplete(t)
  PROVE  Step(State, State', t)
<1> DEFINE T == [tr[t] EXCEPT !.conditional = TRUE, !.st = "SEND_REQUEST"]
<1>1. tr[t].st = "CACHE_QUERY_DATA" /\ tr[t].st \in NetworkStates \cup UsingStates
  BY DEF QueryDataComplete, UsingStates
<1>2. /\ Running(State, State, t) /\ Keeps(State.tr[t], State.tr[t]) /\ State.tr = tr
      /\ State.tr[t].entry # None /\ tr[t].mode # "READ" /\ Actor(t)
  <2>1. "CACHE_QUERY_DATA" \in UsingStates /\ "CACHE_QUERY_DATA" \notin ReaderStates
    BY DEF UsingStates, ReaderStates, WaitStates, WorkItemStates, FirstStates
  <2> QED
    BY <1>1, <2>1, ActorRuns
<1>3. CASE Become([State EXCEPT !.tr[t].conditional = TRUE, !.tr[t].st = "SEND_REQUEST"])
  <2>1. /\ T \in TransRecords /\ T.entry = tr[t].entry /\ T.mode = tr[t].mode
        /\ T.st = "SEND_REQUEST"
    BY <1>2 DEF Actor, TransRecords, States
  <2>2. [State EXCEPT !.tr[t].conditional = TRUE, !.tr[t].st = "SEND_REQUEST"]
           = Put(State, t, T)
    BY <1>2 DEF Actor, Put, StateRecords, TransRecords
  <2> HIDE DEF T
  <2>3. Continues(State.tr[t], T)
    BY <1>2, <2>1 DEF Continues, NetworkStates, UsingStates, FirstStates
  <2>4. Step(State, Put(State, t, T), t)
    BY <1>2, <2>3, EndWith
  <2> QED
    BY <1>3, <2>2, <2>4, Becomes
<1>4. CASE Become(RestartPartialRequest(State, t))
  <2>1. Step(State, RestartPartialRequest(State, t), t)
    BY <1>2, RestartPartialRequestStep
  <2> QED
    BY <1>4, <2>1, Becomes
<1> QED
  BY <1>3, <1>4 DEF QueryDataComplete

\* The write of a reader that toggles unused_since_prefetch is not lost: see
\* the module's run on "toggle_write".
LEMMA ToggleCompleteStep ==
  ASSUME IInv, "toggle_write" \notin Faults, NEW t \in Trans, ToggleComplete(t)
  PROVE  Step(State, State', t)
<1>1. tr[t].st = "TOGGLE_UNUSED" /\ tr[t].st \in NetworkStates \cup UsingStates
  BY DEF ToggleComplete, UsingStates
<1>2. /\ Running(State, State, t) /\ Keeps(State.tr[t], State.tr[t])
      /\ State.tr[t].entry # None /\ State.tr[t].mode # "WRITE"
      /\ State.tr[t].resume = FALSE /\ State.tr = tr
  <2>1. "TOGGLE_UNUSED" \in UsingStates /\ "TOGGLE_UNUSED" \in FirstStates
    BY DEF UsingStates, FirstStates
  <2> QED
    BY <1>1, <2>1, ActorRuns
<1>3. ASSUME NEW valid \in BOOLEAN, NEW conditional \in BOOLEAN,
             Become(DispatchValidation(State, t, valid, conditional))
      PROVE  Step(State, State', t)
  <2>1. Step(State, DispatchValidation(State, t, valid, conditional), t)
    BY <1>2, DispatchValidationStep
  <2> QED
    BY <1>3, <2>1, Becomes
<1>4. CASE /\ tr[t].mode # "READ"
           /\ Become(DispatchValidation(DoneWritingToEntry(State, t, FALSE), t,
                                        FALSE, FALSE))
  <2> DEFINE w == DoneWritingToEntry(State, t, FALSE)
  <2>1. WroteLast(State, State, w, t)
    BY <1>2, <1>4, RunDoneWriting
  <2>2. Step(State, Finish(w, t), t)
    BY <1>2, <1>4, EndWriting
  <2>3. Become(DispatchValidation(w, t, FALSE, FALSE))
    BY <1>4
  <2> HIDE DEF w
  <2>4. w.tr[t].mode = "NONE"
    BY <2>1, <1>2 DEF WroteLast
  <2>5. DispatchValidation(w, t, FALSE, FALSE) = Finish(w, t)
    BY <2>4 DEF DispatchValidation, Finish
  <2> QED
    BY <2>2, <2>3, <2>5, Becomes
<1> QED
  BY <1>3, <1>4 DEF ToggleComplete

\* The stored headers decide whether to serve, validate, or doom the entry.
LEMMA ReadResponseCompleteStep ==
  ASSUME IInv, NEW t \in Trans, ReadResponseComplete(t)
  PROVE  Step(State, State', t)
<1> DEFINE e == tr[t].entry
           R == [tr[t] EXCEPT !.truncated = data[e].body = "truncated",
                              !.was_cached = TRUE]
           s == Put(State, t, R)
<1>1. tr[t].st = "CACHE_READ_RESPONSE" /\ tr[t].st \in NetworkStates \cup UsingStates
  BY DEF ReadResponseComplete, UsingStates
<1>2. /\ Running(State, State, t) /\ Keeps(State.tr[t], State.tr[t]) /\ State.tr = tr
      /\ tr[t].entry # None /\ tr[t].mode # "WRITE" /\ tr[t].resume = FALSE
      /\ Actor(t) /\ State.data = data
  <2>1. "CACHE_READ_RESPONSE" \in UsingStates /\ "CACHE_READ_RESPONSE" \in FirstStates
    BY DEF UsingStates, FirstStates
  <2> QED
    BY <1>1, <2>1, ActorRuns
<1>3. /\ R \in TransRecords /\ R.entry = e /\ R.mode = tr[t].mode /\ R.resume = FALSE
  BY <1>2 DEF Actor, TransRecords
<1>4. [State EXCEPT !.tr[t].truncated = data[e].body = "truncated",
                    !.tr[t].was_cached = TRUE] = s
  BY <1>2 DEF Actor, Put, StateRecords, TransRecords
<1> HIDE DEF R
<1>5. Running(State, s, t) /\ s.tr[t] = R /\ Keeps(State.tr[t], s.tr[t]) /\ s.data = data
  <2>1. SameHold(State.tr[t], R)
    BY <1>2, <1>3 DEF SameHold
  <2>2. Running(State, s, t) /\ s.tr[t] = R /\ OnlyTrans(State, s, t)
    BY <1>2, <1>3, <2>1, RunPut
  <2> QED
    BY <1>2, <1>3, <2>2 DEF Keeps, OnlyTrans
<1> HIDE DEF s
<1>6. CASE Become(RestartAfterReadError(State, t))
  <2>1. State.tr[t].entry # None
    BY <1>2
  <2>2. Step(State, RestartAfterReadError(State, t), t)
    BY <1>2, <2>1, RestartAfterReadErrorStep
  <2> QED
    BY <1>6, <2>2, Becomes
<1>7. CASE Become([s EXCEPT !.data[e] = Toggled(@), !.tr[t].st = "TOGGLE_UNUSED"])
  <2> DEFINE D == Toggled(data[e])
             m == [s EXCEPT !.data[s.tr[t].entry] = D]
  <2>1. data[e] \in DataRecords /\ s.tr[t].entry = e /\ e # None
    BY <1>2, <1>3, <1>5 DEF Actor
  <2>2. Unflagged(data[e].body) \in Bodies /\ (~data[e].unused) \in BOOLEAN
    BY <2>1 DEF DataRecords, Unflagged, Bodies
  <2>3. D \in DataRecords
    BY <2>1, <2>2 DEF DataRecords, Toggled
  <2>4. [s EXCEPT !.data[e] = Toggled(@)] = m
    BY <1>5, <2>1
  <2>7. [s EXCEPT !.data[e] = Toggled(@), !.tr[t].st = "TOGGLE_UNUSED"]
           = Go(m, t, "TOGGLE_UNUSED")
    BY <2>4 DEF Go
  <2> HIDE DEF D
  <2>8. Running(State, m, t) /\ m.tr = s.tr
    BY <1>5, <2>1, <2>3, RunEntryData
  <2> HIDE DEF m
  <2>9. MayGo(m.tr[t], "TOGGLE_UNUSED") /\ Keeps(State.tr[t], m.tr[t])
    BY <1>2, <1>3, <1>5, <2>8 DEF MayGo, UsingStates, FirstStates, NetworkStates, ReaderStates
  <2>10. Step(State, Go(m, t, "TOGGLE_UNUSED"), t)
    BY <2>8, <2>9, EndGo
  <2> QED
    BY <1>7, <2>7, <2>10, Becomes
<1>8. ASSUME NEW valid \in BOOLEAN, NEW conditional \in BOOLEAN,
             Become(DispatchValidation(s, t, valid, conditional))
      PROVE  Step(State, State', t)
  <2>1. s.tr[t].entry # None /\ s.tr[t].mode # "WRITE" /\ s.tr[t].resume = FALSE
    BY <1>2, <1>3, <1>5
  <2>2. Step(State, DispatchValidation(s, t, valid, conditional), t)
    BY <1>5, <2>1, DispatchValidationStep
  <2> QED
    BY <1>8, <2>2, Becomes
<1> QED
  BY <1>4, <1>6, <1>7, <1>8 DEF ReadResponseComplete

\* DoSendRequestComplete() may turn a request into a plain write.
RespondedTo(s, t) ==
  /\ Running(State, s, t) /\ Keeps(State.tr[t], s.tr[t]) /\ Actor(t)
  /\ s.tr[t].entry = tr[t].entry /\ s.tr[t].mode # "READ"
  /\ s.tr[t].resume = tr[t].resume
  /\ s.tr[t].mode # "NONE" \/ s.tr[t].resume # FALSE => s.tr[t].entry # None
  /\ tr[t].mode # "READ" /\ State.tr = tr

\* The transaction whose response came may run.
LEMMA RespondedRuns ==
  ASSUME IInv, NEW t \in Trans, tr[t].st = "SEND_REQUEST"
  PROVE  RespondedTo(Responded(t), t) /\ RespondedTo(State, t)
<1> DEFINE mode == IF tr[t].mode = "READ_WRITE" /\ ~tr[t].conditional THEN "WRITE"
                   ELSE tr[t].mode
           T == [tr[t] EXCEPT !.mode = mode]
<1>1. tr[t].st \in NetworkStates \cup UsingStates
  BY DEF NetworkStates
<1>2. /\ Running(State, State, t) /\ Keeps(State.tr[t], State.tr[t]) /\ State.tr = tr
      /\ tr[t].mode # "NONE" \/ tr[t].resume # FALSE => tr[t].entry # None
      /\ tr[t].mode # "READ" /\ Actor(t)
  <2>1. "SEND_REQUEST" \notin ReaderStates
    BY DEF ReaderStates, WaitStates, WorkItemStates, FirstStates
  <2> QED
    BY <1>1, <2>1, ActorRuns
<1>3. /\ mode \in Modes /\ mode # "READ" /\ (mode # "NONE" => tr[t].mode # "NONE")
  BY <1>2 DEF Actor, TransRecords, Modes
<1>4. Responded(t) = [State EXCEPT !.tr[t].mode = mode]
  BY <1>2 DEF Responded
<1> HIDE DEF mode
<1>5. /\ T \in TransRecords /\ T.entry = tr[t].entry /\ T.mode = mode
      /\ T.resume = tr[t].resume
  BY <1>2, <1>3 DEF Actor, TransRecords
<1>6. Responded(t) = Put(State, t, T)
  BY <1>2, <1>4 DEF Actor, Put, StateRecords
<1> HIDE DEF T
<1>7. SameHold(State.tr[t], T)
  BY <1>2, <1>3, <1>5 DEF SameHold
<1>8. Running(State, Put(State, t, T), t) /\ Put(State, t, T).tr[t] = T
  BY <1>2, <1>5, <1>7, RunPut
<1>9. Keeps(State.tr[t], T)
  BY <1>2, <1>5 DEF Keeps
<1>10. RespondedTo(Put(State, t, T), t)
  BY <1>2, <1>3, <1>5, <1>8, <1>9 DEF RespondedTo
<1>11. RespondedTo(State, t)
  BY <1>2 DEF RespondedTo
<1> QED
  BY <1>6, <1>10, <1>11

\* A POST or PUT makes what is stored out of date.
LEMMA RunOutdate ==
  ASSUME NEW s0, NEW s, NEW t, Running(s0, s, t)
  PROVE  Running(s0, Outdate(s), t) /\ Outdate(s).tr = s.tr
<1> DEFINE d == [e \in Ids |-> [s.data[e] EXCEPT !.stale = s.data[e].body # "empty"]]
<1>1. s.data \in [Ids -> DataRecords] /\ s \in StateRecords
  BY GoodTyped DEF Running, Typed
<1>2. d \in [Ids -> DataRecords]
  <2>1. ASSUME NEW e \in Ids
        PROVE  [s.data[e] EXCEPT !.stale = s.data[e].body # "empty"] \in DataRecords
    <3>1. s.data[e] \in DataRecords
      BY <1>1
    <3> QED
      BY <3>1 DEF DataRecords
  <2> QED
    BY <2>1
<1>3. Outdate(s) = Store(s, d)
  BY <1>1 DEF Outdate, Store, StateRecords
<1> HIDE DEF d
<1>4. Running(s0, Store(s, d), t) /\ Store(s, d).tr = s.tr
  BY <1>2, RunStore
<1> QED
  BY <1>3, <1>4

\* The network fails before the headers.
LEMMA SendFailsStep ==
  ASSUME IInv, NEW t \in Trans, SendFails(t)
  PROVE  Step(State, State', t)
<1> DEFINE s == Responded(t)
           r == LeftAsIs(s, t)
<1>1. /\ tr[t].st = "SEND_REQUEST"
      /\ Become(Finish(IF tr[t].was_cached THEN DoneWritingToEntry(r, t, TRUE) ELSE s, t))
  BY DEF SendFails
<1>2. RespondedTo(s, t)
  BY <1>1, RespondedRuns
<1> HIDE DEF s
<1>3. Running(State, s, t) /\ s.tr[t].mode # "READ" /\ Keeps(State.tr[t], s.tr[t])
      /\ MayFinish(s.tr[t])
  BY <1>2 DEF RespondedTo, MayFinish
<1>4. Running(State, r, t) /\ r.tr = s.tr
  <2>1. CASE s.tr[t].entry # None
    <3> DEFINE D == [s.data[s.tr[t].entry] EXCEPT !.unmarked = TRUE]
    <3>1. s.data[s.tr[t].entry] \in DataRecords
      BY <1>3, <2>1, GoodTyped DEF Running, Typed
    <3>2. D \in DataRecords
      BY <3>1 DEF DataRecords
    <3>3. r = s \/ r = [s EXCEPT !.data[s.tr[t].entry] = D]
      BY DEF LeftAsIs
    <3> HIDE DEF D, r
    <3>4. LET s2 == [s EXCEPT !.data[s.tr[t].entry] = D]
          IN Running(State, s2, t) /\ s2.tr = s.tr
      BY <3>2, <2>1, <1>3, RunEntryData
    <3> QED
      BY <3>3, <3>4, <1>3
  <2>2. CASE s.tr[t].entry = None
    BY <2>2, <1>3 DEF LeftAsIs
  <2> QED
    BY <2>1, <2>2
<1> HIDE DEF r
<1>5. Step(State, Finish(DoneWritingToEntry(r, t, TRUE), t), t)
  <2>1. r.tr[t].mode # "READ"
    BY <1>3, <1>4
  <2> QED
    BY <1>4, <2>1, EndWriting
<1>6. Step(State, Finish(s, t), t)
  BY <1>3, EndFinish
<1> QED
  BY <1>1, <1>5, <1>6, Becomes

\* The server asks for credentials.
LEMMA AuthRequiredStep ==
  ASSUME IInv, NEW t \in Trans, AuthRequired(t)
  PROVE  Step(State, State', t)
<1> DEFINE s == Responded(t)
<1>1. tr[t].st = "SEND_REQUEST" /\ Become(Go(s, t, "AUTH"))
  BY DEF AuthRequired, Go
<1>2. RespondedTo(s, t)
  BY <1>1, RespondedRuns
<1> HIDE DEF s
<1>3. Running(State, s, t) /\ Keeps(State.tr[t], s.tr[t]) /\ MayGo(s.tr[t], "AUTH")
  BY <1>2 DEF RespondedTo, MayGo, NetworkStates, UsingStates, FirstStates
<1>4. Step(State, Go(s, t, "AUTH"), t)
  BY <1>3, EndGo
<1> QED
  BY <1>1, <1>4, Becomes

\* A response of a transaction that does not use the cache.
LEMMA PassThroughResponseStep ==
  ASSUME IInv, NEW t \in Trans, PassThroughResponse(t)
  PROVE  Step(State, State', t)
<1> DEFINE o == Outdate(State)
           d == DoomMainEntry(o)
<1>1. /\ tr[t].st = "SEND_REQUEST"
      /\ Become(Finish(State, t)) \/ Become(Finish(d, t)) \/ Become(Finish(o, t))
  BY DEF PassThroughResponse
<1>2. RespondedTo(State, t)
  BY <1>1, RespondedRuns
<1>3. Running(State, State, t) /\ Keeps(State.tr[t], State.tr[t]) /\ MayFinish(State.tr[t])
  BY <1>2 DEF RespondedTo, MayFinish
<1>4. Running(State, o, t) /\ o.tr = State.tr
  BY <1>3, RunOutdate
<1> HIDE DEF o
<1>5. Running(State, d, t) /\ d.tr = State.tr
  BY <1>4, RunDoomMain
<1> HIDE DEF d
<1>6. Step(State, Finish(State, t), t)
  BY <1>3, EndFinish
<1>7. Step(State, Finish(o, t), t)
  <2>1. Keeps(State.tr[t], o.tr[t]) /\ MayFinish(o.tr[t])
    BY <1>3, <1>4
  <2> QED
    BY <1>4, <2>1, EndFinish
<1>8. Step(State, Finish(d, t), t)
  <2>1. Keeps(State.tr[t], d.tr[t]) /\ MayFinish(d.tr[t])
    BY <1>3, <1>5
  <2> QED
    BY <1>5, <2>1, EndFinish
<1> QED
  BY <1>1, <1>6, <1>7, <1>8, Becomes

\* The response of a PUT, POST or DELETE, which dooms the entry.
LEMMA PutResponseStep ==
  ASSUME IInv, NEW t \in Trans, PutResponse(t)
  PROVE  Step(State, State', t)
<1> DEFINE s == Responded(t)
           o == Outdate(s)
           d == DoomEntry(o)
<1>1. /\ tr[t].st = "SEND_REQUEST"
      /\ \/ Become(Finish(DoneWritingToEntry(s, t, TRUE), t))
         \/ Become(Finish(DoneWritingToEntry(d, t, TRUE), t))
  BY DEF PutResponse
<1>2. RespondedTo(s, t)
  BY <1>1, RespondedRuns
<1> HIDE DEF s
<1>3. Running(State, s, t) /\ s.tr[t].mode # "READ"
  BY <1>2 DEF RespondedTo
<1>4. Running(State, o, t) /\ o.tr = s.tr
  BY <1>3, RunOutdate
<1> HIDE DEF o
<1>5. Running(State, d, t) /\ d.tr = s.tr
  BY <1>4, RunDoom
<1> HIDE DEF d
<1>6. Step(State, Finish(DoneWritingToEntry(s, t, TRUE), t), t)
  BY <1>3, EndWriting
<1>7. Step(State, Finish(DoneWritingToEntry(d, t, TRUE), t), t)
  <2>1. d.tr[t].mode # "READ"
    BY <1>3, <1>5
  <2> QED
    BY <1>5, <2>1, EndWriting
<1> QED
  BY <1>1, <1>6, <1>7, Becomes

\* The server confirms the stored response.
LEMMA NotModifiedStep ==
  ASSUME IInv, NEW t \in Trans, NotModified(t)
  PROVE  Step(State, State', t)
<1> DEFINE s == Responded(t)
<1>1. tr[t].st = "SEND_REQUEST" /\ tr[t].entry # None
  BY DEF NotModified
<1>2. PICK no_store \in BOOLEAN : Become(UpdateCachedResponse(s, t, no_store))
  BY DEF NotModified
<1>3. RespondedTo(s, t)
  BY <1>1, RespondedRuns
<1> HIDE DEF s
<1>4. /\ Running(State, s, t) /\ Keeps(State.tr[t], s.tr[t])
      /\ s.tr[t].entry # None /\ s.tr[t].mode # "READ"
  BY <1>1, <1>3 DEF RespondedTo
<1>5. Step(State, UpdateCachedResponse(s, t, no_store), t)
  BY <1>4, UpdateCachedResponseStep
<1> QED
  BY <1>2, <1>5, Becomes

\* The server sends a response to be stored.
LEMMA ModifiedStep ==
  ASSUME IInv, NEW t \in Trans, Modified(t)
  PROVE  Step(State, State', t)
<1> DEFINE s == Responded(t)
           mode == IF s.tr[t].mode = "NONE" THEN "NONE" ELSE "WRITE"
           T == [s.tr[t] EXCEPT !.mode = mode]
           m == Put(s, t, T)
<1>1. tr[t].st = "SEND_REQUEST" /\ tr[t].entry # None
  BY DEF Modified
<1>2. RespondedTo(s, t)
  BY <1>1, RespondedRuns
<1>3. /\ Running(State, s, t) /\ Keeps(State.tr[t], s.tr[t])
      /\ s.tr[t].entry # None /\ s.tr[t].mode # "READ"
      /\ State.tr[t].mode # "READ" /\ s.tr[t].entry = State.tr[t].entry
  <2> HIDE DEF s
  <2> QED
    BY <1>1, <1>2 DEF RespondedTo
<1>4. /\ s \in StateRecords /\ s.tr \in [Trans -> TransRecords]
      /\ s.tr[t] \in TransRecords
  <2> HIDE DEF s
  <2> QED
    BY <1>3, GoodTyped DEF Running, Typed
<1>5. PICK no_store \in BOOLEAN :
        Become(OverwriteCachedResponse(
                 [s EXCEPT !.tr[t].mode = IF @ = "NONE" THEN @ ELSE "WRITE"],
                 t, no_store))
  BY DEF Modified
<1> HIDE DEF s
<1>6. [s EXCEPT !.tr[t].mode = IF @ = "NONE" THEN @ ELSE "WRITE"] = m
  BY <1>4 DEF Put, StateRecords
<1>7. mode \in Modes /\ mode # "READ"
  BY DEF Modes
<1> HIDE DEF mode
<1>8. /\ T \in TransRecords /\ T.entry = s.tr[t].entry /\ T.mode = mode
  BY <1>4, <1>7 DEF TransRecords
<1> HIDE DEF T
<1>9. Running(State, m, t) /\ m.tr[t] = T
  <2>1. SameHold(s.tr[t], T)
    BY <1>3, <1>7, <1>8 DEF SameHold
  <2> QED
    BY <1>3, <1>8, <2>1, RunPut
<1> HIDE DEF m
<1>10. /\ Keeps(State.tr[t], m.tr[t]) /\ m.tr[t].entry # None /\ m.tr[t].mode # "READ"
  BY <1>3, <1>7, <1>8, <1>9 DEF Keeps
<1>11. Step(State, OverwriteCachedResponse(m, t, no_store), t)
  BY <1>9, <1>10, OverwriteCachedResponseStep
<1> QED
  BY <1>5, <1>6, <1>11, Becomes

\* The wait for an entry times out.
LEMMA AddToEntryTimeoutStep ==
  ASSUME IInv, NEW t \in Trans, AddToEntryTimeout(t)
  PROVE  Step(State, State', t)
<1> DEFINE s == RemovePendingTransaction(State, t)
<1>1. /\ tr[t].st = "ADD_TO_ENTRY" /\ tr[t].st \in WaitStates
      /\ Become(IF tr[t].mode = "READ" THEN Finish(s, t) ELSE PassThrough(s, t))
  BY DEF AddToEntryTimeout, WaitStates
<1>2. /\ Good(State, {}, None) /\ State \in StateRecords /\ State.tr = tr
      /\ tr[t].resume = FALSE
  BY <1>1, ActorKnown DEF Actor, Role
<1>3. Good(s, {t}, None) /\ SameUse(State, s) /\ s.tr[t].entry = None
  BY <1>1, <1>2, RemovePendingTransactionGood
<1> HIDE DEF s
<1>4. Running(State, s, t) /\ s.tr[t].resume = FALSE
  <2>1. Since(State, s, t)
    BY <1>2, <1>3, SinceItself, SinceSameUse
  <2> QED
    BY <1>2, <1>3, <2>1 DEF Running, SameUse
<1>5. Step(State, PassThrough(s, t), t)
  BY <1>3, <1>4, EndPassThrough
<1>6. Step(State, Finish(s, t), t)
  BY <1>3, <1>4, EndFinish DEF Keeps, MayFinish
<1> QED
  BY <1>1, <1>5, <1>6, Becomes

\* A transaction is destroyed wherever it is.
LEMMA DestroyStep ==
  ASSUME IInv, NEW t \in Trans, Destroy(t)
  PROVE  Step(State, State', t)
<1>1. PICK cancel \in BOOLEAN, flag \in FlagResults :
        LET s == CASE tr[t].entry # None -> DoneWithEntry(State, t, cancel, flag)
                   [] tr[t].st \in WaitStates -> RemovePendingTransaction(State, t)
                   [] OTHER -> State
        IN Become([s EXCEPT !.tr[t] = [Idle EXCEPT !.kind = tr[t].kind,
                                                   !.st = "GONE"]])
  BY DEF Destroy
<1> DEFINE s == CASE tr[t].entry # None -> DoneWithEntry(State, t, cancel, flag)
                  [] tr[t].st \in WaitStates -> RemovePendingTransaction(State, t)
                  [] OTHER -> State
           G == [Idle EXCEPT !.kind = tr[t].kind, !.st = "GONE"]
<1>2. Become(Put(s, t, G))
  BY <1>1 DEF Put
<1>3. Actor(t)
  BY ActorKnown
<1>4. /\ G \in TransRecords /\ G.entry = None /\ G.st = "GONE" /\ G.mode = "NONE"
      /\ G.resume = FALSE
  <2>1. tr[t].kind \in Kinds \cup {None}
    BY <1>3 DEF Actor, TransRecords
  <2> QED
    BY <2>1 DEF Idle, TransRecords, States, Modes
<1> HIDE DEF G
<1>6. /\ State \in StateRecords /\ State.tr = tr /\ Good(State, {}, None)
      /\ tr[t].st \in WaitStates => tr[t].entry = None
      /\ tr[t].st \notin WaitStates => Running(State, State, t)
  BY <1>3 DEF Actor, Role
<1>7. Running(State, s, t) /\ s.tr[t].entry = None
  <2>1. CASE tr[t].entry # None
    <3>1. s = DoneWithEntry(State, t, cancel, flag)
      <4>1. tr[t].st \notin WaitStates
        BY <1>6, <2>1
      <4> QED
        BY <2>1, <4>1
    <3>2. Running(State, State, t) /\ State.tr[t].entry # None
      BY <1>6, <2>1
    <3>3. LET s2 == DoneWithEntry(State, t, cancel, flag)
          IN Running(State, s2, t) /\ s2.tr[t].entry = None
      BY <3>2, RunDoneWith
    <3> QED
      BY <3>1, <3>3
  <2>2. CASE tr[t].entry = None /\ tr[t].st \in WaitStates
    <3> DEFINE r == RemovePendingTransaction(State, t)
    <3>1. s = r
      BY <2>2
    <3>2. Good(r, {t}, None) /\ SameUse(State, r) /\ r.tr[t].entry = None
      BY <1>6, <2>2, RemovePendingTransactionGood
    <3> HIDE DEF r
    <3>3. Since(State, r, t)
      BY <1>6, <3>2, SinceItself, SinceSameUse
    <3> QED
      BY <3>1, <3>2, <3>3 DEF Running
  <2>3. CASE tr[t].entry = None /\ tr[t].st \notin WaitStates
    <3>1. s = State
      BY <2>3
    <3> QED
      BY <3>1, <1>6, <2>3
  <2> QED
    BY <2>1, <2>2, <2>3
<1> HIDE DEF s
<1>8. /\ SameHold(s.tr[t], G) /\ Keeps(State.tr[t], s.tr[t]) /\ Role(G)
      /\ G.st \notin WaitStates
  BY <1>4, <1>7 DEF SameHold, Keeps, Role, WaitStates, WorkItemStates, UsingStates,
     NetworkStates, FirstStates
<1>9. Step(State, Put(s, t, G), t)
  BY <1>4, <1>7, <1>8, Settle
<1> QED
  BY <1>2, <1>9, Becomes

\* The disk cache drops the entry on its own.
LEMMA EvictStep ==
  ASSUME IInv, Evict
  PROVE  Step(State, State', None)
<1> DEFINE s1 == [State EXCEPT !.stored = None]
           D == IF stored \in Live(State) THEN data[stored] ELSE NoData
           d == [data EXCEPT ![stored] = D]
<1>1. Good(State, {}, None) /\ State \in StateRecords /\ None \notin Trans
  BY HttpCacheAssumption DEF IInv, Good
<1>2. /\ stored \in Ids /\ data \in [Ids -> DataRecords] /\ State.data = data
      /\ State.stored = stored
  BY <1>1 DEF State, StateRecords, Evict
<1>3. Good(s1, {}, None)
  BY <1>1, StoredForgotten
<1>4. SameLock(State, s1) /\ s1 \in StateRecords /\ s1.data = data
  BY <1>1, <1>2 DEF SameLock, Live, StateRecords
<1>5. D \in DataRecords
  BY <1>2 DEF NoData, DataRecords, Bodies
<1>6. [State EXCEPT !.stored = None,
                    !.data[stored] = IF stored \in Live(State) THEN @ ELSE NoData]
        = Store(s1, d)
  BY <1>1, <1>2 DEF Store, StateRecords
<1>7. Become(Store(s1, d))
  BY <1>6 DEF Evict
<1> HIDE DEF D
<1>8. d \in [Ids -> DataRecords]
  BY <1>2, <1>5
<1> HIDE DEF d, s1
<1>9. LET s2 == Store(s1, d)
      IN /\ Good(s2, {}, None)
         /\ s2.tr = s1.tr /\ s2.entry = s1.entry /\ s2.active = s1.active
         /\ s2.doomed = s1.doomed
  BY <1>3, <1>8, DataChange
<1>10. SameLock(State, Store(s1, d))
  BY <1>4, <1>9 DEF SameLock, Live
<1>11. Step(State, Store(s1, d), None)
  BY <1>1, <1>9, <1>10, SinceItself, SinceSame DEF Step
<1> QED
  BY <1>7, <1>11, Becomes

\* The posted task of an entry lets its queue in.
LEMMA ProcessQueueStep ==
  ASSUME IInv, NEW e \in Ids, ProcessQueue(e)
  PROVE  Step(State, State', None)
<1>1. /\ Good(State, {}, None) /\ State.entry[e].will_process /\ None \notin Trans
      /\ Become(OnProcessPendingQueue(State, e))
  BY HttpCacheAssumption DEF IInv, ProcessQueue, State
<1>2. LET s2 == OnProcessPendingQueue(State, e)
      IN Good(s2, {}, None) /\ Since(State, s2, None)
  BY <1>1, OnProcessPendingQueueGood
<1>3. Step(State, OnProcessPendingQueue(State, e), None)
  BY <1>1, <1>2 DEF Step
<1> QED
  BY <1>1, <1>3, Becomes

\* A set of numbers that is not empty has a least one.
LEMMA Least ==
  ASSUME NEW S, S \subseteq Nat, S # {}
  PROVE  \E x \in S : \A y \in S : x <= y
<1> DEFINE R == {ss \in Nat \X Nat : ss[1] < ss[2]}
<1>1. IsWellFoundedOn(R, Nat)
  BY NatLessThanWellFounded DEF OpToRel
<1>2. PICK x \in S : \A y \in S : ~(<<y, x>> \in R)
  <2> HIDE DEF R
  <2> QED
    BY <1>1, WFMin
<1>3. ASSUME NEW y \in S PROVE x <= y
  <2>1. x \in Nat /\ y \in Nat /\ <<y, x>> \notin R
    BY <1>2
  <2>2. ~(y < x)
    BY <2>1
  <2> QED
    BY <2>1, <2>2
<1> QED
  BY <1>3

\* The backend completes the operation of the first work item.
LEMMA PendingOpCompleteStep ==
  ASSUME IInv, NEW ok \in BOOLEAN, PendingOpComplete(ok)
  PROVE  Step(State, State', None)
<1> DEFINE op == Head(pending_op).operation
           free == Ids \ (Live(State) \cup {stored})
           id == IF op = "CREATE_ENTRY" /\ ok
                 THEN CHOOSE e \in free : \A f \in free : e <= f ELSE None
<1>1. /\ pending_op # <<>>
      /\ IF op = "CREATE_ENTRY" THEN ok => stored = None /\ free # {}
         ELSE ok = (stored # None)
      /\ Become(OnIOComplete(State, ok, id))
  BY DEF PendingOpComplete
<1>2. /\ Good(State, {}, None) /\ State.pending_op = pending_op
      /\ State.stored = stored /\ None \notin Trans
  BY HttpCacheAssumption DEF IInv, State
<1>3. op = "CREATE_ENTRY" /\ ok => id \in Ids \ Live(State)
  <2> SUFFICES ASSUME op = "CREATE_ENTRY", ok PROVE id \in Ids \ Live(State)
    OBVIOUS
  <2>1. free \subseteq Nat /\ free # {}
    BY <1>1 DEF Ids
  <2>2. \E e \in free : \A f \in free : e <= f
    <3> HIDE DEF free
    <3> QED
      BY <2>1, Least
  <2>3. (CHOOSE e \in free : \A f \in free : e <= f) \in free
    BY <2>2
  <2> QED
    BY <2>3
<1> HIDE DEF id
<1>4. MayAnswer(State, Head(State.pending_op).operation, ok, id)
  BY <1>1, <1>2, <1>3 DEF MayAnswer
<1>5. LET s2 == OnIOComplete(State, ok, id)
      IN Good(s2, {}, None) /\ Since(State, s2, None)
  <2>1. State.pending_op # <<>>
    BY <1>1, <1>2
  <2> QED
    BY <1>2, <1>4, <2>1, OnIOCompleteGood
<1>6. Step(State, OnIOComplete(State, ok, id), None)
  BY <1>2, <1>5 DEF Step
<1> QED
  BY <1>1, <1>6, Becomes

\* OnBackendCreated() takes the first of those who wait for the backend.
LEMMA BackendCreatedStep ==
  ASSUME IInv, NEW ok \in BOOLEAN, BackendCreated(ok)
  PROVE  Step(State, State', None)
<1> DEFINE q == backend_op
           h == Head(q)
           up == IF disk_cache # "none" THEN disk_cache
                 ELSE IF ok THEN "up" ELSE "failed"
           s == [State EXCEPT !.disk_cache = up, !.backend_op = Tail(q)]
           M == {u \in Trans : u = h}
<1>1. /\ q # <<>>
      /\ Become(IF h = None THEN s ELSE GetBackendComplete(s, h))
  BY DEF BackendCreated, State
<1>2. /\ Good(State, {}, None) /\ State \in StateRecords /\ State.backend_op = q
      /\ q \in Seq(Trans \cup {None}) /\ None \notin Trans
      /\ disk_cache \in {"none", "up", "failed"}
  BY HttpCacheAssumption DEF IInv, Good, State, StateRecords
<1>3. /\ \A j, k \in DOMAIN q : q[j] = q[k] => j = k
      /\ \A j \in DOMAIN q : j > 1 => q[j] # None
  BY <1>2 DEF Good, BackendQueue
<1>4. /\ Tail(q) \in Seq(Trans \cup {None}) /\ Without(q, 1, Tail(q)) /\ h = q[1]
      /\ DOMAIN q = 1 .. Len(q) /\ 1 \in DOMAIN q /\ Len(q) \in Nat
  BY <1>1, <1>2, TailWithout
<1> DEFINE r == Tail(q)
<1>5. /\ \A j \in DOMAIN r : \E k \in DOMAIN q : k # 1 /\ r[j] = q[k] /\ k >= j
      /\ \A k \in DOMAIN q : k # 1 => \E j \in DOMAIN r : r[j] = q[k]
      /\ \A j, k \in DOMAIN r :
           \E a, b \in DOMAIN q : /\ r[j] = q[a] /\ r[k] = q[b]
                                  /\ a # 1 /\ b # 1 /\ (a = b => j = k)
  <2>1. Without(q, 1, r)
    BY <1>4
  <2> HIDE DEF r, q
  <2> QED
    BY <2>1, WithoutMembers
<1>6. /\ s \in StateRecords /\ s.tr = State.tr /\ s.entry = State.entry
      /\ s.active = State.active /\ s.doomed = State.doomed
      /\ s.stored = State.stored /\ s.pending_op = State.pending_op
      /\ s.backend_op = r
  <2>1. up \in {"none", "up", "failed"}
    BY <1>2
  <2> HIDE DEF up
  <2> QED
    BY <1>2, <1>4, <2>1 DEF StateRecords
<1>7. BackendLeft(State, s, M)
  <2> HIDE DEF s, r, q, h
  <2>1. ASSUME NEW j \in DOMAIN r, j > 1 PROVE r[j] # None
    <3>1. PICK k \in DOMAIN q : k # 1 /\ r[j] = q[k] /\ k >= j
      BY <1>5
    <3>2. k \in Int /\ j \in Int
      BY <1>4 DEF Without
    <3>3. k > 1
      BY <2>1, <3>1, <3>2
    <3> QED
      BY <3>1, <3>3, <1>3
  <2>2. ASSUME NEW j \in DOMAIN r, NEW k \in DOMAIN r, r[j] = r[k] PROVE j = k
    <3>1. PICK a, b \in DOMAIN q : r[j] = q[a] /\ r[k] = q[b] /\ (a = b => j = k)
      BY <1>5
    <3> QED
      BY <2>2, <3>1, <1>3
  <2>3. \A u \in Trans : (\E j \in DOMAIN r : r[j] = u)
                           <=> u \notin M /\ \E j \in DOMAIN q : q[j] = u
    BY <1>3, <1>4, <1>5
  <2>4. \A u \in M : u \in Trans /\ \E j \in DOMAIN q : q[j] = u
    BY <1>4
  <2> QED
    BY <1>2, <1>6, <2>1, <2>2, <2>3, <2>4 DEF BackendLeft
<1> HIDE DEF s
<1>8. Good(s, M, None) /\ \A u \in M : s.tr[u].entry = None
  <2>1. Good(s, {} \cup M, None)
    <3> HIDE DEF M
    <3> QED
      BY <1>2, <1>7, BackendLeftGood
  <2>2. {} \cup M = M
    OBVIOUS
  <2>3. \A u \in M : State.tr[u].st = "GET_BACKEND"
    BY <1>2, <1>4 DEF Good, BackendQueue
  <2>4. \A u \in M : State.tr[u].entry = None
    BY <1>2, <2>3 DEF Good, Roles, Role, WaitStates
  <2> QED
    BY <2>1, <2>2, <2>4, <1>6
<1>9. Since(State, s, None)
  <2>1. SameLock(State, s)
    BY <1>6 DEF SameLock, Live
  <2> QED
    BY <2>1, SinceItself, SinceSame
<1>10. CASE h = None
  <2>1. M = {} /\ Become(s)
    BY <1>1, <1>2, <1>10
  <2> HIDE DEF M
  <2>2. Step(State, s, None)
    BY <2>1, <1>2, <1>8, <1>9 DEF Step
  <2> QED
    BY <2>1, <2>2, Becomes
<1>11. CASE h # None
  <2> DEFINE s2 == GetBackendComplete(s, h)
  <2>0. h \in Trans /\ h \in M
    BY <1>2, <1>4, <1>11
  <2>1. M \ {h} = {}
    OBVIOUS
  <2> HIDE DEF M, h
  <2>2. Good(s2, M \ {h}, None) /\ Told(s, s2, s.active, h)
    <3>1. s.tr[h].entry = None
      BY <1>8, <2>0
    <3> QED
      BY <1>8, <2>0, <3>1, GetBackendCompleteGood
  <2>3. Become(s2)
    BY <1>1, <1>11
  <2> HIDE DEF s2
  <2>4. Since(State, s2, None)
    BY <1>6, <1>8, <1>9, <2>0, <2>2, SinceTold
  <2>5. Step(State, s2, None)
    BY <1>2, <2>1, <2>2, <2>4 DEF Step
  <2> QED
    BY <2>3, <2>5, Becomes
<1> QED
  BY <1>10, <1>11

\* A transaction in limbo joins those who wait for the backend.
Joins(s, q, t) ==
  /\ q \in Seq(Trans \cup {None})
  /\ \A i \in DOMAIN q : i > 1 => q[i] # None
  /\ \A i, j \in DOMAIN q : q[i] = q[j] => i = j
  /\ \A u \in Trans : (\E i \in DOMAIN q : q[i] = u)
                        <=> u = t \/ \E i \in DOMAIN s.backend_op : s.backend_op[i] = u

\* A transaction may wait for the backend to be created.
LEMMA JoinBackend ==
  ASSUME NEW s0, NEW s, NEW s2, NEW q, NEW t, Running(s0, s, t),
         s.tr[t].st = "GET_BACKEND", Role(s.tr[t]), Joins(s, q, t),
         s2 = [s EXCEPT !.backend_op = q]
  PROVE  Step(s0, s2, t)
<1>1. Good(s, {t}, None) /\ Since(s0, s, t) /\ t \in Trans /\ s \in StateRecords
  BY DEF Running, Good
<1>2. /\ s2 \in StateRecords /\ s2.tr = s.tr /\ s2.entry = s.entry
      /\ s2.active = s.active /\ s2.doomed = s.doomed /\ s2.stored = s.stored
      /\ s2.pending_op = s.pending_op /\ s2.backend_op = q
  BY <1>1 DEF Joins, StateRecords
<1>3. Linked(s2) /\ ModesMatch(s2) /\ Exclusive(s2) /\ OnlyLive(s2)
  BY <1>1, <1>2 DEF Good, Linked, ModesMatch, Exclusive, OnlyLive, Live
<1>4. Attended(s2, None) /\ OpOrEntry(s2) /\ Roles(s2, {})
  BY <1>1, <1>2 DEF Good, Attended, OpOrEntry, Live, Roles
<1>5. BackendQueue(s2, {})
  BY <1>1, <1>2 DEF Good, BackendQueue, Joins
<1>6. WorkQueue(s2, {}) /\ LockQueue(s2, {})
  <2>1. s.tr[t].st \notin WorkItemStates /\ s.tr[t].st # "ADD_TO_ENTRY"
    BY DEF WorkItemStates
  <2> QED
    BY <1>1, <1>2, <2>1 DEF Good, WorkQueue, LockQueue
<1>7. Good(s2, {}, None)
  BY <1>2, <1>3, <1>4, <1>5, <1>6 DEF Good
<1>8. Since(s0, s2, t)
  <2>1. SameLock(s, s2)
    BY <1>2 DEF SameLock, Live
  <2> QED
    BY <1>1, <2>1, SinceSame
<1>9. s2.tr[t].entry = None
  BY <1>2 DEF Role, WaitStates
<1> QED
  BY <1>7, <1>8, <1>9 DEF Step, Acted

\* A request starts.
LEMMA StartStep ==
  ASSUME IInv, NEW t \in Trans, NEW kind \in Kinds, Start(t, kind)
  PROVE  Step(State, State', t)
<1> DEFINE K == [tr[t] EXCEPT !.kind = kind]
           s == Put(State, t, K)
           T == [K EXCEPT !.st = "GET_BACKEND"]
           m == Put(State, t, T)
           q == IF backend_op = <<>> THEN <<None, t>> ELSE Append(backend_op, t)
<1>1. /\ Actor(t) /\ tr[t].st = "IDLE" /\ tr[t].st \notin WaitStates
  BY ActorKnown DEF Start, WaitStates, WorkItemStates
<1>2. /\ Running(State, State, t) /\ State.tr = tr /\ tr[t].entry = None
      /\ tr[t].resume = FALSE /\ tr[t].mode # "READ" /\ State \in StateRecords
      /\ State.backend_op = backend_op /\ backend_op \in Seq(Trans \cup {None})
      /\ Good(State, {}, None) /\ None \notin Trans
  <2>1. "IDLE" \notin ReaderStates
    BY DEF ReaderStates, WaitStates, WorkItemStates, FirstStates
  <2> QED
    BY <1>1, <2>1, HttpCacheAssumption DEF Actor, Role, State, StateRecords
<1>3. /\ K \in TransRecords /\ K.entry = None /\ K.mode = tr[t].mode /\ K.resume = FALSE
      /\ T \in TransRecords /\ T.entry = None /\ T.mode = tr[t].mode /\ T.resume = FALSE
      /\ T.st = "GET_BACKEND"
  <2>1. /\ K \in TransRecords /\ K.entry = None /\ K.mode = tr[t].mode
        /\ K.resume = FALSE
    BY <1>1, <1>2 DEF Actor, TransRecords
  <2>2. "GET_BACKEND" \in States
    BY DEF States, WaitStates
  <2> HIDE DEF K
  <2> QED
    BY <2>1, <2>2 DEF TransRecords
<1>4. [State EXCEPT !.tr[t].kind = kind] = s
  BY <1>1 DEF Actor, Put, StateRecords
<1>5. SameHold(State.tr[t], K) /\ SameHold(State.tr[t], T)
  <2> HIDE DEF K, T
  <2> QED
    BY <1>2, <1>3 DEF SameHold
<1>6. \/ Become(GetBackendComplete(s, t))
      \/ Become([s EXCEPT !.backend_op = q, !.tr[t].st = "GET_BACKEND"])
  BY <1>2, <1>4 DEF Start, State
<1>7. CASE Become(GetBackendComplete(s, t))
  <2> HIDE DEF K
  <2>1. Running(State, s, t) /\ s.tr[t] = K
    BY <1>2, <1>3, <1>5, RunPut
  <2> HIDE DEF s
  <2> DEFINE s2 == GetBackendComplete(s, t)
  <2>2. Good(s2, {t} \ {t}, None) /\ Told(s, s2, s.active, t)
    <3> DEFINE L == {t}
    <3>1. Good(s, L, None) /\ t \in L /\ t \in Trans /\ s.tr[t].entry = None
      BY <1>3, <2>1 DEF Running
    <3> HIDE DEF L
    <3>2. Good(s2, L \ {t}, None) /\ Told(s, s2, s.active, t)
      BY <3>1, GetBackendCompleteGood
    <3> QED
      BY <3>2 DEF L
  <2> HIDE DEF s2
  <2>3. s.tr[t].entry = None /\ State.tr[t].entry = None
    BY <1>2, <1>3, <2>1
  <2>4. Step(State, s2, t)
    BY <2>1, <2>2, <2>3, EndTold
  <2> QED
    BY <1>7, <2>4, Becomes DEF s2
<1>8. CASE Become([s EXCEPT !.backend_op = q, !.tr[t].st = "GET_BACKEND"])
  <2>1. [s EXCEPT !.backend_op = q, !.tr[t].st = "GET_BACKEND"]
          = [m EXCEPT !.backend_op = q]
    <3> HIDE DEF K, q
    <3> QED
      BY <1>1, <1>2 DEF Actor, Put, StateRecords
  <2>2. Running(State, m, t) /\ m.tr[t] = T /\ OnlyTrans(State, m, t)
    <3> HIDE DEF T
    <3> QED
      BY <1>2, <1>3, <1>5, RunPut
  <2> HIDE DEF T, K, m
  <2>3. Role(T)
    BY <1>2, <1>3 DEF Role, WaitStates, WorkItemStates, UsingStates, NetworkStates,
       FirstStates, ReaderStates
  <2>4. Joins(m, q, t)
    <3>1. m.backend_op = backend_op
      BY <1>2, <2>2 DEF OnlyTrans
    <3>2. /\ \A i \in DOMAIN backend_op : i > 1 => backend_op[i] # None
          /\ \A i, j \in DOMAIN backend_op : backend_op[i] = backend_op[j] => i = j
          /\ \A i \in DOMAIN backend_op : backend_op[i] # t
      BY <1>1, <1>2 DEF Good, BackendQueue
    <3>3. CASE backend_op = <<>>
      <4>1. q = <<None, t>> /\ q \in Seq(Trans \cup {None}) /\ DOMAIN q = {1, 2}
            /\ q[1] = None /\ q[2] = t
        BY <3>3
      <4>2. DOMAIN backend_op = {}
        BY <3>3
      <4> HIDE DEF q
      <4> QED
        BY <4>1, <4>2, <3>1, <1>2 DEF Joins
    <3>4. CASE backend_op # <<>>
      <4>1. /\ q = Append(backend_op, t) /\ q \in Seq(Trans \cup {None})
            /\ DOMAIN backend_op = 1 .. Len(backend_op) /\ Len(backend_op) \in Nat
            /\ DOMAIN q = 1 .. Len(backend_op) + 1
            /\ q[Len(backend_op) + 1] = t
            /\ \A i \in 1 .. Len(backend_op) : q[i] = backend_op[i]
        BY <3>4, <1>2
      <4> HIDE DEF q
      <4>2. ASSUME NEW i \in DOMAIN q
            PROVE  \/ i = Len(backend_op) + 1
                   \/ i \in DOMAIN backend_op /\ q[i] = backend_op[i]
        <5>1. i \in 1 .. Len(backend_op) + 1
          BY <4>1
        <5>2. i = Len(backend_op) + 1 \/ i \in 1 .. Len(backend_op)
          BY <4>1, <5>1
        <5> QED
          BY <4>1, <5>2
      <4>3. \A i \in DOMAIN backend_op : i \in DOMAIN q /\ q[i] = backend_op[i]
        BY <4>1
      <4>4. Len(backend_op) + 1 \in DOMAIN q
        BY <4>1
      <4>5. \A i \in DOMAIN q : i > 1 => q[i] # None
        BY <4>1, <4>2, <3>2, <1>2
      <4>6. \A i, j \in DOMAIN q : q[i] = q[j] => i = j
        BY <4>1, <4>2, <3>2
      <4>7. \A u \in Trans : (\E i \in DOMAIN q : q[i] = u)
                        <=> u = t \/ \E i \in DOMAIN backend_op : backend_op[i] = u
        BY <4>1, <4>2, <4>3, <4>4
      <4> QED
        BY <4>1, <4>5, <4>6, <4>7, <3>1 DEF Joins
    <3> QED
      BY <3>3, <3>4
  <2> HIDE DEF q
  <2>5. Step(State, [m EXCEPT !.backend_op = q], t)
    <3> DEFINE s2 == [m EXCEPT !.backend_op = q]
    <3>1. s2 = [m EXCEPT !.backend_op = q] /\ Role(m.tr[t]) /\ m.tr[t].st = "GET_BACKEND"
      BY <1>3, <2>2, <2>3
    <3> HIDE DEF s2
    <3>2. Step(State, s2, t)
      BY <2>2, <2>4, <3>1, JoinBackend
    <3> QED
      BY <3>1, <3>2
  <2> QED
    BY <1>8, <2>1, <2>5, Becomes
<1> QED
  BY <1>6, <1>7, <1>8

-----------------------------------------------------------------------------
(* The theorems.  The one failure that they exclude is "toggle_write": a     *)
(* reader that cannot write the toggled headers back gives up the entry as   *)
(* if it were its writer.                                                    *)

\* An empty cache satisfies the invariant.
LEMMA InitGood ==
  ASSUME Init
  PROVE  IInv
<1>0. None \notin Trans /\ None \notin Ids /\ 1 \in Ids
  BY HttpCacheAssumption DEF Ids
<1>1. /\ State.tr = tr /\ State.entry = entry /\ State.active = None
      /\ State.doomed = {} /\ State.pending_op = <<>> /\ State.backend_op = <<>>
      /\ State.stored = stored /\ State.data = data /\ State.disk_cache = "none"
  BY DEF State, Init
<1>2. /\ tr = [t \in Trans |-> Idle] /\ entry = [e \in Ids |-> FreeEntry]
      /\ stored \in Ids \cup {None}
  BY <1>0 DEF Init
<1>3. data \in [Ids -> DataRecords]
  <2>1. NoData \in DataRecords
    BY DEF NoData, DataRecords, Bodies
  <2>2. /\ [NoData EXCEPT !.body = "full"] \in DataRecords
        /\ [NoData EXCEPT !.body = "full", !.unused = TRUE] \in DataRecords
        /\ [NoData EXCEPT !.body = "truncated"] \in DataRecords
    BY DEF NoData, DataRecords, Bodies
  <2> QED
    BY <2>1, <2>2 DEF Init
<1>4. Idle \in TransRecords /\ Role(Idle) /\ Idle.entry = None /\ Idle.st = "IDLE"
  BY DEF Idle, TransRecords, States, Modes, Role, WaitStates, WorkItemStates,
     UsingStates, NetworkStates, FirstStates
<1>5. /\ FreeEntry \in EntryRecords /\ FreeEntry.writer = None
      /\ FreeEntry.readers = {} /\ FreeEntry.pending_queue = <<>>
  BY DEF FreeEntry, EntryRecords
<1>6. State \in StateRecords
  BY <1>1, <1>2, <1>3, <1>4, <1>5, <1>0 DEF State, StateRecords, Init
<1>7. Live(State) = {}
  BY <1>1 DEF Live
<1>8. Linked(State) /\ ModesMatch(State) /\ Exclusive(State)
  BY <1>0, <1>1, <1>2, <1>4, <1>5 DEF Linked, ModesMatch, Exclusive
<1>9. OnlyLive(State) /\ Attended(State, None) /\ OpOrEntry(State)
  BY <1>1, <1>2, <1>7 DEF OnlyLive, Attended, OpOrEntry
<1>10. BackendQueue(State, {}) /\ WorkQueue(State, {}) /\ LockQueue(State, {})
  <2>1. "IDLE" \notin WorkItemStates
    BY DEF WorkItemStates
  <2> QED
    BY <2>1, <1>1, <1>2, <1>4, <1>5 DEF BackendQueue, WorkQueue, LockQueue
<1>11. Roles(State, {})
  BY <1>1, <1>2, <1>4 DEF Roles
<1> QED
  BY <1>6, <1>8, <1>9, <1>10, <1>11 DEF IInv, Good

\* Every event leaves the lock as Step() says.
LEMMA NextStep ==
  ASSUME IInv, "toggle_write" \notin Faults, Next
  PROVE  \E a : Step(State, State', a)
<1>1. CASE CacheProgress
  <2>1. ASSUME NEW ok \in BOOLEAN, BackendCreated(ok) PROVE Step(State, State', None)
    BY <2>1, BackendCreatedStep
  <2>2. ASSUME NEW ok \in BOOLEAN, PendingOpComplete(ok) PROVE Step(State, State', None)
    BY <2>2, PendingOpCompleteStep
  <2>3. ASSUME NEW e \in Ids, ProcessQueue(e) PROVE Step(State, State', None)
    BY <2>3, ProcessQueueStep
  <2>4. Step(State, State', None)
    BY <1>1, <2>1, <2>2, <2>3 DEF CacheProgress
  <2> QED
    BY <2>4
<1>2. CASE Evict
  BY <1>2, EvictStep
<1>3. ASSUME NEW t \in Trans,
             \/ \E kind \in Kinds : Start(t, kind)
             \/ Progress(t)
             \/ AuthRequired(t) \/ RestartRequest(t)
             \/ Read(t) \/ DoneReading(t) \/ StopCaching(t)
             \/ AddToEntryTimeout(t) \/ Destroy(t)
      PROVE  Step(State, State', t)
  <2>1. ASSUME NEW kind \in Kinds, Start(t, kind) PROVE Step(State, State', t)
    BY <2>1, StartStep
  <2>2. CASE Progress(t)
    <3>1. CASE ReadResponseComplete(t) \/ ToggleComplete(t) \/ QueryDataComplete(t)
      BY <3>1, ReadResponseCompleteStep, ToggleCompleteStep, QueryDataCompleteStep
    <3>2. CASE SendFails(t) \/ PassThroughResponse(t) \/ PutResponse(t)
      BY <3>2, SendFailsStep, PassThroughResponseStep, PutResponseStep
    <3>3. CASE NotModified(t) \/ Modified(t) \/ PartialRejected(t)
      BY <3>3, NotModifiedStep, ModifiedStep, PartialRejectedStep
    <3>4. CASE NetworkReadComplete(t) \/ UpdatedResponseWritten(t) \/ ResponseWritten(t)
      BY <3>4, NetworkReadCompleteStep, UpdatedResponseWrittenStep, ResponseWrittenStep
    <3>5. CASE DataWritten(t) \/ DataRead(t)
      BY <3>5, DataWrittenStep, DataReadStep
    <3> QED
      BY <2>2, <3>1, <3>2, <3>3, <3>4, <3>5 DEF Progress
  <2>3. CASE AuthRequired(t) \/ RestartRequest(t) \/ Read(t)
    BY <2>3, AuthRequiredStep, RestartRequestStep, ReadStep
  <2>4. CASE DoneReading(t) \/ StopCaching(t)
    BY <2>4, DoneReadingStep, StopCachingStep
  <2>5. CASE AddToEntryTimeout(t) \/ Destroy(t)
    BY <2>5, AddToEntryTimeoutStep, DestroyStep
  <2> QED
    BY <1>3, <2>1, <2>2, <2>3, <2>4, <2>5
<1> QED
  BY <1>1, <1>2, <1>3 DEF Next

\* No step breaks the invariant.
LEMMA IInvPreserved ==
  ASSUME IInv, "toggle_write" \notin Faults, [Next]_vars
  PROVE  IInv'
<1>1. CASE Next
  BY <1>1, NextStep DEF Step, IInv
<1>2. CASE UNCHANGED vars
  BY <1>2 DEF vars, State, IInv
<1> QED
  BY <1>1, <1>2

\* The conjunctions of Good() hold in every reachable state.
THEOREM CacheInvariant ==
  ASSUME "toggle_write" \notin Faults
  PROVE  Spec => []IInv
<1>1. Init => IInv
  BY InitGood
<1>2. IInv /\ [Next]_vars => IInv'
  BY IInvPreserved
<1> QED
  BY <1>1, <1>2, PTL DEF Spec

\* EntriesManaged holds for any number of transactions and disk entries: every
\* entry without a user has its task posted (ProcessPendingQueue()), the key has
\* an active entry or an operation in flight, never both, and a doomed entry is
\* never found again.
THEOREM EntriesAlwaysManaged ==
  ASSUME "toggle_write" \notin Faults
  PROVE  Spec => []EntriesManaged
<1>1. IInv => EntriesManaged
  <2> SUFFICES ASSUME IInv PROVE EntriesManaged
    OBVIOUS
  <2>1. /\ State \in StateRecords /\ Attended(State, None) /\ OpOrEntry(State)
        /\ BackendQueue(State, {}) /\ WorkQueue(State, {})
    BY DEF IInv, Good
  <2>2. /\ State.tr = tr /\ State.entry = entry /\ State.active = active
        /\ State.doomed = doomed /\ State.pending_op = pending_op
        /\ State.backend_op = backend_op /\ State.stored = stored
        /\ State.data = data /\ State.disk_cache = disk_cache
    BY DEF State
  <2>3. TypeOK
    <3>1. /\ \A i \in DOMAIN backend_op : i > 1 => backend_op[i] # None
          /\ \A i \in DOMAIN pending_op :
               i > 1 /\ pending_op[i].trans = None =>
                 pending_op[i].operation = "DOOM_ENTRY"
      BY <2>1, <2>2 DEF BackendQueue, WorkQueue
    <3>2. /\ disk_cache \in {"none", "up", "failed"}
          /\ backend_op \in Seq(Trans \cup {None})
          /\ active \in Ids \cup {None} /\ doomed \subseteq Ids
          /\ entry \in [Ids -> EntryRecords] /\ pending_op \in Seq(WorkItems)
          /\ stored \in Ids \cup {None} /\ data \in [Ids -> DataRecords]
          /\ tr \in [Trans -> TransRecords]
      BY <2>1, <2>2 DEF StateRecords
    <3> QED
      BY <3>1, <3>2 DEF TypeOK, EntryRecords, WorkItems, DataRecords, TransRecords
  <2>4. NoOrphanEntry
    <3>1. None \notin Live(State)
      BY <2>1, LiveIds, HttpCacheAssumption DEF Ids
    <3> QED
      BY <2>1, <2>2, <3>1 DEF Attended, NoOrphanEntry
  <2>5. OneOpOrEntry
    BY <2>1, <2>2 DEF OpOrEntry, OneOpOrEntry
  <2> QED
    BY <2>3, <2>4, <2>5 DEF EntriesManaged
<1>2. Spec => []IInv
  BY CacheInvariant
<1> QED
  BY <1>1, <1>2, PTL

\* HoldersKnown holds for any number of transactions and disk entries: no
\* transaction keeps a pointer to a destroyed ActiveEntry, and no ActiveEntry
\* one to a transaction that has left it.
THEOREM HoldersAlwaysKnown ==
  ASSUME "toggle_write" \notin Faults
  PROVE  Spec => []HoldersKnown
<1>1. IInv => HoldersKnown
  <2> SUFFICES ASSUME IInv, NEW e \in Ids
               PROVE  /\ entry[e] # FreeEntry => e \in Live(State)
                      /\ {t \in Trans : tr[t].entry = e} =
                           entry[e].readers \cup ({entry[e].writer} \ {None})
    BY DEF HoldersKnown
  <2>1. /\ State \in StateRecords /\ Linked(State) /\ OnlyLive(State)
        /\ State.tr = tr /\ State.entry = entry
    BY DEF IInv, Good, State
  <2>2. entry[e] \in EntryRecords
    BY <2>1 DEF StateRecords
  <2>3. entry[e].readers \subseteq Trans /\ entry[e].writer \in Trans \cup {None}
    BY <2>2 DEF EntryRecords
  <2>4. \A t \in Trans : tr[t].entry = e <=>
                           t \in entry[e].readers \/ t = entry[e].writer
    BY <2>1 DEF Linked
  <2>5. None \notin Trans
    BY HttpCacheAssumption
  <2>6. {t \in Trans : tr[t].entry = e} =
           entry[e].readers \cup ({entry[e].writer} \ {None})
    BY <2>3, <2>4, <2>5
  <2> QED
    BY <2>1, <2>6 DEF OnlyLive
<1>2. Spec => []IInv
  BY CacheInvariant
<1> QED
  BY <1>1, <1>2, PTL

\* WaitersQueuedOnce holds for any number of transactions: whoever waits for the
\* backend, the disk cache or the lock stands in one queue, once, and nobody
\* else is called back.
THEOREM WaitersAlwaysQueuedOnce ==
  ASSUME "toggle_write" \notin Faults
  PROVE  Spec => []WaitersQueuedOnce
<1>1. ASSUME IInv, NEW t \in Trans
      PROVE  LET P == Places(t)
                 here == <<Cardinality(P.backend), Cardinality(P.work),
                           Cardinality(P.lock)>>
             IN /\ here = CASE tr[t].st = "GET_BACKEND" -> <<1, 0, 0>>
                            [] tr[t].st \in WorkItemStates -> <<0, 1, 0>>
                            [] tr[t].st = "ADD_TO_ENTRY" -> <<0, 0, 1>>
                            [] OTHER -> <<0, 0, 0>>
                /\ \A i \in P.work : pending_op[i].operation = tr[t].st
  <2> DEFINE B == {i \in DOMAIN backend_op : backend_op[i] = t}
             W == {i \in DOMAIN pending_op : pending_op[i].trans = t}
             Q == UNION {{<<e, i>> : i \in {j \in DOMAIN entry[e].pending_queue :
                                              entry[e].pending_queue[j] = t}} : e \in Ids}
             st == tr[t].st
  <2>1. Places(t).backend = B /\ Places(t).work = W /\ Places(t).lock = Q
    BY DEF Places
  <2>2. /\ State.tr = tr /\ State.entry = entry /\ State.pending_op = pending_op
        /\ State.backend_op = backend_op /\ BackendQueue(State, {})
        /\ WorkQueue(State, {}) /\ LockQueue(State, {})
    BY <1>1 DEF State, IInv, Good
  <2>3. None \notin Trans
    BY HttpCacheAssumption
  <2>4. /\ B # {} <=> st = "GET_BACKEND"
        /\ \A i, j \in B : i = j
    BY <2>2 DEF BackendQueue
  <2>5. /\ W # {} <=> st \in WorkItemStates
        /\ \A i, j \in W : i = j
        /\ \A i \in W : pending_op[i].operation = st
    <3>1. W # {} <=> st \in WorkItemStates
      BY <2>2 DEF WorkQueue
    <3>2. \A i, j \in W : i = j
      BY <2>2, <2>3 DEF WorkQueue
    <3>3. \A i \in W : pending_op[i].operation = st
      BY <2>2, <2>3 DEF WorkQueue
    <3> QED
      BY <3>1, <3>2, <3>3
  <2>6. /\ Q # {} <=> st = "ADD_TO_ENTRY"
        /\ \A p, r \in Q : p = r
    <3>1. \A p \in Q : \E e \in Ids : \E i \in DOMAIN entry[e].pending_queue :
                         p = <<e, i>> /\ entry[e].pending_queue[i] = t
      OBVIOUS
    <3>2. \A e \in Ids : \A i \in DOMAIN entry[e].pending_queue :
            entry[e].pending_queue[i] = t => <<e, i>> \in Q
      OBVIOUS
    <3> HIDE DEF Q
    <3>3. Q # {} <=> st = "ADD_TO_ENTRY"
      <4>1. Q # {} <=> \E e \in Ids : \E i \in DOMAIN entry[e].pending_queue :
                         entry[e].pending_queue[i] = t
        BY <3>1, <3>2
      <4>2. (\E e \in Ids : \E i \in DOMAIN entry[e].pending_queue :
               entry[e].pending_queue[i] = t) <=> st = "ADD_TO_ENTRY"
        BY <2>2 DEF LockQueue
      <4> QED
        BY <4>1, <4>2
    <3>4. ASSUME NEW p \in Q, NEW r \in Q PROVE p = r
      <4>1. PICK e \in Ids : \E i \in DOMAIN entry[e].pending_queue :
                         p = <<e, i>> /\ entry[e].pending_queue[i] = t
        BY <3>1
      <4>2. PICK i \in DOMAIN entry[e].pending_queue :
                         p = <<e, i>> /\ entry[e].pending_queue[i] = t
        BY <4>1
      <4>3. PICK f \in Ids : \E j \in DOMAIN entry[f].pending_queue :
                         r = <<f, j>> /\ entry[f].pending_queue[j] = t
        BY <3>1
      <4>4. PICK j \in DOMAIN entry[f].pending_queue :
                         r = <<f, j>> /\ entry[f].pending_queue[j] = t
        BY <4>3
      <4>5. e = f /\ i = j
        BY <2>2, <4>2, <4>4 DEF LockQueue
      <4> QED
        BY <4>2, <4>4, <4>5
    <3> QED
      BY <3>3, <3>4
  <2> HIDE DEF B, W, Q, st
  <2>7. ASSUME NEW S, \A x, y \in S : x = y
        PROVE  Cardinality(S) = IF S = {} THEN 0 ELSE 1
    <3>1. CASE S = {}
      BY <3>1, FS_EmptySet
    <3>2. CASE S # {}
      <4>1. PICK x \in S : TRUE
        BY <3>2
      <4>2. S = {x}
        BY <2>7, <4>1
      <4> QED
        BY <4>2, FS_Singleton
    <3> QED
      BY <3>1, <3>2
  <2>8. /\ Cardinality(B) = IF B = {} THEN 0 ELSE 1
        /\ Cardinality(W) = IF W = {} THEN 0 ELSE 1
        /\ Cardinality(Q) = IF Q = {} THEN 0 ELSE 1
    BY <2>4, <2>5, <2>6, <2>7
  <2>9. st \in WorkItemStates => st # "GET_BACKEND" /\ st # "ADD_TO_ENTRY"
    BY DEF WorkItemStates
  <2>10. <<Cardinality(B), Cardinality(W), Cardinality(Q)>> =
           CASE st = "GET_BACKEND" -> <<1, 0, 0>>
             [] st \in WorkItemStates -> <<0, 1, 0>>
             [] st = "ADD_TO_ENTRY" -> <<0, 0, 1>>
             [] OTHER -> <<0, 0, 0>>
    BY <2>4, <2>5, <2>6, <2>8, <2>9
  <2> QED
    BY <2>1, <2>5, <2>10 DEF st
<1>2. IInv => WaitersQueuedOnce
  BY <1>1 DEF WaitersQueuedOnce
<1>3. Spec => []IInv
  BY CacheInvariant
<1> QED
  BY <1>2, <1>3, PTL

-----------------------------------------------------------------------------
(* The refinement of EntryLock. *)

\* What the lock shows of a transaction is in the transaction itself.
Shown(T) ==
  IF T.st \in WaitStates THEN "waiting"
  ELSE IF T.entry = None THEN "outside"
  ELSE IF T.mode = "READ" THEN "reading" ELSE "writing"

Visible ==
  /\ tr \in [Trans -> TransRecords]
  /\ \A t \in Trans : /\ Phase(t) = Shown(tr[t])
                      /\ tr[t].st \in WaitStates => tr[t].entry = None

\* The phase EntryLock sees can be told from the transaction alone.
LEMMA PhaseShown == IInv => Visible
<1> SUFFICES ASSUME IInv PROVE Visible
  OBVIOUS
<1>1. /\ State \in StateRecords /\ Linked(State) /\ ModesMatch(State)
      /\ State.tr = tr /\ State.entry = entry /\ Roles(State, {})
  BY DEF IInv, Good, State
<1>2. tr \in [Trans -> TransRecords]
  BY <1>1 DEF StateRecords
<1>3. ASSUME NEW t \in Trans
      PROVE  /\ Phase(t) = Shown(tr[t])
             /\ tr[t].st \in WaitStates => tr[t].entry = None
  <2>1. tr[t].st \in WaitStates => tr[t].entry = None
    BY <1>1 DEF Roles, Role
  <2>2. tr[t].entry \in Ids \cup {None}
    BY <1>2 DEF TransRecords
  <2>3. tr[t].entry # None =>
          /\ tr[t].mode = "READ" => entry[tr[t].entry].writer # t
                                    /\ t \in entry[tr[t].entry].readers
          /\ tr[t].mode # "READ" => entry[tr[t].entry].writer = t
                                    /\ t \notin entry[tr[t].entry].readers
    BY <1>1, <2>2 DEF Linked, ModesMatch
  <2>4. Phase(t) = Shown(tr[t])
    <3>1. CASE tr[t].st \in WaitStates
      BY <3>1, <2>1 DEF Phase, Shown
    <3>2. CASE tr[t].st \notin WaitStates /\ tr[t].entry = None
      BY <3>2 DEF Phase, Shown
    <3>3. CASE tr[t].st \notin WaitStates /\ tr[t].entry # None /\ tr[t].mode = "READ"
      BY <3>3, <2>3 DEF Phase, Shown
    <3>4. CASE tr[t].st \notin WaitStates /\ tr[t].entry # None /\ tr[t].mode # "READ"
      BY <3>4, <2>3 DEF Phase, Shown
    <3> QED
      BY <3>1, <3>2, <3>3, <3>4
  <2> QED
    BY <2>1, <2>4
<1> QED
  BY <1>2, <1>3 DEF Visible

\* What is given to somebody is free, or read and wanted for reading; a writer
\* is alone.
Excluded ==
  /\ \A c, d \in Trans :
       tr[c].entry # None /\ tr[c].entry = tr[d].entry /\ tr[c].mode # "READ" => c = d
  /\ \A e \in Ids : entry[e].writer = None =>
       /\ \A c \in Trans : tr[c].entry = e => tr[c].mode = "READ"
       /\ entry[e].readers = {} => \A c \in Trans : tr[c].entry # e

\* A writer is alone with its entry.
LEMMA Exclusion == IInv => Excluded
<1> SUFFICES ASSUME IInv PROVE Excluded
  OBVIOUS
<1>1. /\ State \in StateRecords /\ Linked(State) /\ ModesMatch(State)
      /\ Exclusive(State) /\ State.tr = tr /\ State.entry = entry
  BY DEF IInv, Good, State
<1>2. \A t \in Trans : tr[t].entry \in Ids \cup {None}
  BY <1>1 DEF StateRecords, TransRecords
<1>0. None \notin Trans
  BY HttpCacheAssumption
<1>3. ASSUME NEW c \in Trans, NEW d \in Trans, tr[c].entry # None,
             tr[c].entry = tr[d].entry, tr[c].mode # "READ"
      PROVE  c = d
  <2> DEFINE e == tr[c].entry
  <2>1. e \in Ids /\ tr[d].entry = e
    BY <1>2, <1>3
  <2>2. c = entry[e].writer
    BY <1>1, <1>3, <2>1 DEF Linked, ModesMatch
  <2>3. entry[e].readers = {}
    BY <1>0, <1>1, <2>1, <2>2 DEF Exclusive
  <2>4. d = entry[e].writer
    BY <1>1, <2>1, <2>3 DEF Linked
  <2> QED
    BY <2>2, <2>4
<1>4. ASSUME NEW e \in Ids, entry[e].writer = None
      PROVE  /\ \A c \in Trans : tr[c].entry = e => tr[c].mode = "READ"
             /\ entry[e].readers = {} => \A c \in Trans : tr[c].entry # e
  BY <1>0, <1>1, <1>4 DEF Linked, ModesMatch
<1> QED
  BY <1>3, <1>4 DEF Excluded

\* One client takes a step of the lock.
Advances(c) ==
  Lock!Given(c) \/ Lock!Downgraded(c) \/ Lock!Left(c) \/ Lock!Unchanged(c)

\* A step of the code takes no client of the lock further than EntryLock allows.
LEMMA ClientAdvances ==
  ASSUME NEW a, NEW c \in Trans, Visible, Visible', Excluded,
         Step(State, State', a)
  PROVE  Advances(c)
<1> DEFINE T == tr[c]
           U == tr'[c]
<1>0. /\ State.tr = tr /\ State'.tr = tr' /\ State.entry = entry /\ None \notin Ids
  BY HttpCacheAssumption DEF State, Ids
<1>1. /\ Phase(c) = Shown(T) /\ Phase(c)' = Shown(U)
      /\ T.st \in WaitStates => T.entry = None
      /\ U.st \in WaitStates => U.entry = None
  BY DEF Visible, Shown
<1>2. T.entry \in Ids \cup {None} /\ U.entry \in Ids \cup {None}
  <2>1. T \in TransRecords /\ U \in TransRecords
    BY DEF Visible
  <2> QED
    BY <2>1 DEF TransRecords
<1>3. Acted(State, T, U)
  <2>1. c # a => Moves(State, T, U)
    BY <1>0 DEF Step, Since
  <2>2. c = a => Acted(State, T, U)
    BY <1>0 DEF Step
  <2> QED
    BY <2>1, <2>2 DEF Moves, Acted
<1>4. CASE U.entry = None
  <2>1. Phase(c)' \in {"outside", "waiting"}
    BY <1>1, <1>4 DEF Shown
  <2>2. Lock!Left(c)
    BY <2>1, <1>4 DEF Lock!Left
  <2> QED
    BY <2>2 DEF Advances
<1>5. CASE U.entry # None /\ U.entry = T.entry /\ (T.mode = "READ" => U.mode = "READ")
  <2>1. CASE T.mode = "READ" <=> U.mode = "READ"
    <3>1. Phase(c)' = Phase(c)
      BY <1>1, <1>5, <2>1 DEF Shown
    <3>2. Lock!Unchanged(c)
      BY <3>1, <1>5 DEF Lock!Unchanged
    <3> QED
      BY <3>2 DEF Advances
  <2>2. CASE T.mode # "READ" /\ U.mode = "READ"
    <3>1. Phase(c) = "writing" /\ Phase(c)' = "reading"
      BY <1>1, <1>5, <2>2 DEF Shown
    <3>2. Lock!Downgraded(c)
      BY <3>1, <1>5 DEF Lock!Downgraded
    <3> QED
      BY <3>2 DEF Advances
  <2> QED
    BY <1>5, <2>1, <2>2
<1>6. CASE U.entry # None /\ T.entry = None /\ Given(State, U)
  <2> DEFINE o == U.entry
  <2>1. /\ o \in Ids /\ entry[o].writer = None
        /\ U.mode # "READ" => entry[o].readers = {}
    BY <1>0, <1>6 DEF Given
  <2>2. Phase(c) \in {"outside", "waiting"}
    BY <1>1, <1>6 DEF Shown
  <2>3. CASE U.mode = "READ"
    <3>1. Phase(c)' = "reading"
      BY <1>1, <1>6, <2>3 DEF Shown
    <3>2. Lock!Writing(o) = {}
      <4>1. \A d \in Trans : tr[d].entry = o => tr[d].mode = "READ"
        BY <2>1 DEF Excluded
      <4>2. \A d \in Trans : tr[d].entry = o => Phase(d) # "writing"
        BY <4>1 DEF Visible, Shown
      <4> HIDE DEF o
      <4> QED
        BY <4>2 DEF Lock!Writing
    <3>3. Lock!Given(c)
      BY <2>1, <2>2, <3>1, <3>2 DEF Lock!Given
    <3> QED
      BY <3>3 DEF Advances
  <2>4. CASE U.mode # "READ"
    <3>1. Phase(c)' = "writing"
      BY <1>1, <1>6, <2>4 DEF Shown
    <3>2. Lock!Holders(o) = {}
      <4>1. \A d \in Trans : tr[d].entry # o
        BY <2>1, <2>4 DEF Excluded
      <4> HIDE DEF o
      <4> QED
        BY <4>1 DEF Lock!Holders, Lock!Holds
    <3>3. Lock!Given(c)
      BY <2>1, <2>2, <3>1, <3>2 DEF Lock!Given
    <3> QED
      BY <3>3 DEF Advances
  <2> QED
    BY <2>3, <2>4
<1> QED
  BY <1>3, <1>4, <1>5, <1>6 DEF Acted

\* Taken together, the clients take a step of EntryLock, or none.
LEMMA LockAdvances ==
  ASSUME NEW a, Visible, Visible', Excluded, Excluded', Step(State, State', a)
  PROVE  Lock!Next
<1>1. \A c \in Trans : Advances(c)
  BY ClientAdvances
<1>2. [t \in Trans |-> Phase(t)]' \in
        [Trans -> {"outside", "waiting", "writing", "reading"}]
  BY DEF Visible, Shown
<1>3. [t \in Trans |-> tr[t].entry]' \in [Trans -> Ids \cup {None}]
  BY DEF Visible, TransRecords
<1>4. ASSUME NEW o \in Ids, Lock!Writing(o)' # {}
      PROVE  \E c \in Trans : Lock!Holders(o)' = {c}
  <2>1. PICK c \in Trans : Phase(c)' = "writing" /\ tr'[c].entry = o
    BY <1>4 DEF Lock!Writing
  <2>2. tr'[c].mode # "READ" /\ tr'[c].entry # None
    BY <2>1 DEF Visible, Shown
  <2>3. \A d \in Trans : tr'[d].entry = o => d = c
    BY <2>1, <2>2 DEF Excluded
  <2>4. Lock!Holders(o)' = {c}
    BY <2>1, <2>3 DEF Lock!Holders, Lock!Holds
  <2> QED
    BY <2>4
<1> QED
  BY <1>1, <1>2, <1>3, <1>4 DEF Lock!Next, Advances

\* LockSafety holds for any number of transactions and disk entries: the
\* ActiveEntry with its queue, its posted task, its doomed entries and its
\* restarts implements a reader/writer lock that is never handed from one
\* holder to the next in one event.
THEOREM LockImplemented ==
  ASSUME "toggle_write" \notin Faults
  PROVE  Spec => LockSafety
<1>1. Init => Lock!Init
  <2> SUFFICES ASSUME Init PROVE Lock!Init
    OBVIOUS
  <2>1. \A t \in Trans : tr[t] = Idle
    BY DEF Init
  <2>2. \A t \in Trans : tr[t].st = "IDLE" /\ tr[t].entry = None
    BY <2>1 DEF Idle
  <2>3. \A t \in Trans : Phase(t) = "outside"
    BY <2>2 DEF Phase, WaitStates, WorkItemStates
  <2> QED
    BY <2>2, <2>3 DEF Lock!Init
<1>2. /\ IInv => Visible /\ Excluded
      /\ IInv' => Visible' /\ Excluded'
  BY PhaseShown, Exclusion, PTL
<1>3. IInv /\ IInv' /\ [Next]_vars =>
        [Lock!Next]_<<[t \in Trans |-> Phase(t)], [t \in Trans |-> tr[t].entry]>>
  <2> SUFFICES ASSUME IInv, IInv', [Next]_vars
               PROVE  [Lock!Next]_<<[t \in Trans |-> Phase(t)],
                                    [t \in Trans |-> tr[t].entry]>>
    OBVIOUS
  <2>1. CASE Next
    <3>1. PICK a : Step(State, State', a)
      BY <2>1, NextStep
    <3>2. Lock!Next
      BY <1>2, <3>1, LockAdvances
    <3> QED
      BY <3>2
  <2>2. CASE UNCHANGED vars
    <3>1. tr' = tr /\ entry' = entry
      BY <2>2 DEF vars
    <3>2. [t \in Trans |-> Phase(t)]' = [t \in Trans |-> Phase(t)]
      BY <3>1 DEF Phase
    <3>3. [t \in Trans |-> tr[t].entry]' = [t \in Trans |-> tr[t].entry]
      BY <3>1
    <3> QED
      BY <3>2, <3>3
  <2> QED
    BY <2>1, <2>2
<1>4. Spec => []IInv
  BY CacheInvariant
<1> QED
  BY <1>1, <1>3, <1>4, PTL DEF Spec, LockSafety, Lock!Safety
=============================================================================
