------------------------ MODULE ClientSocketPoolQueues ------------------------
(***************************************************************************)
(* What ClientSocketPool does for the requests that wait: they are queued  *)
(* in the order of their urgency, each exactly as long as it waits.        *)
(***************************************************************************)
EXTENDS ClientSocketPoolProofs

(***************************************************************************)
(* The queues.  x is the handle whose request has left the queue and whose *)
(* result is not known yet.                                                *)
(***************************************************************************)

InOrder(s) ==
  /\ \A i, j \in 1 .. Len(s) : i < j => Urgency(s[i]) >= Urgency(s[j])
  /\ \A i \in 1 .. Len(s) :
       s[i].respect_limits = "DISABLED" => s[i].priority = MAXIMUM_PRIORITY

Has(s, h) == \E i \in 1 .. Len(s) : s[i].handle = h

Listed(p, hd, x) ==
  \A h \in Handles, g \in Groups :
    h # x /\ hd[h] = WaitingIn(g) /\ p.pending_callback_map[h] = NoResult =>
      Has(p.pending[g], h)

QueueInv(p, hd, x) == (\A g \in Groups : InOrder(p.pending[g])) /\ Listed(p, hd, x)

\* Whatever leaves queues and results alone leaves the invariant alone.
LEMMA SameQueues ==
  ASSUME NEW p, NEW q, NEW hd, NEW x, QueueInv(p, hd, x),
         q.pending = p.pending, q.pending_callback_map = p.pending_callback_map
  PROVE  QueueInv(q, hd, x)
  BY DEF QueueInv, Listed

\* A handle that has a result, or waits for nothing, need not be queued.
LEMMA NotListed ==
  ASSUME NEW p, NEW q, NEW hd, NEW hd2, NEW h, NEW x, x \in {h, NoHandle},
         QueueInv(p, hd, x), q.pending = p.pending,
         \A k \in Handles \ {h} : /\ hd2[k] = hd[k]
                                  /\ q.pending_callback_map[k] = p.pending_callback_map[k],
         \/ q.pending_callback_map[h] # NoResult
         \/ \A g \in Groups : hd2[h] # WaitingIn(g)
  PROVE  QueueInv(q, hd2, NoHandle)
<1> SUFFICES ASSUME NEW k \in Handles, NEW g \in Groups, hd2[k] = WaitingIn(g),
                    q.pending_callback_map[k] = NoResult
             PROVE  Has(q.pending[g], k)
  BY DEF QueueInv, Listed
<1>1. k # h
  OBVIOUS
<1>2. k # x
  BY <1>1, HandlesAssumption
<1> QED
  BY <1>1, <1>2 DEF QueueInv, Listed

\* The request at i leaves the queue s.
LEMMA RemoveKeepsOrder ==
  ASSUME NEW s \in Seq(Request), NEW i \in 1 .. Len(s), InOrder(s)
  PROVE  /\ InOrder(RemoveAt(s, i))
         /\ \A h : Has(s, h) /\ h # s[i].handle => Has(RemoveAt(s, i), h)
<1> DEFINE t == RemoveAt(s, i)
           from(j) == IF j < i THEN j ELSE j + 1
<1>1. /\ Len(t) = Len(s) - 1 /\ Len(s) \in Nat /\ i \in Nat
      /\ \A j \in 1 .. Len(t) : t[j] = s[from(j)]
  <2>1. Len(s) \in Nat
    BY LenProperties
  <2> QED
    BY <2>1, RemoveAtProperties
<1> HIDE DEF t
<1>2. /\ \A j \in 1 .. Len(t) : from(j) \in 1 .. Len(s)
      /\ \A j, k \in 1 .. Len(t) : j < k => from(j) < from(k)
  BY <1>1
<1>3. \A n \in 1 .. Len(s) : n # i => \E j \in 1 .. Len(t) : from(j) = n
  <2> TAKE n \in 1 .. Len(s)
  <2>1. CASE n < i
    <3>1. n \in 1 .. Len(t) /\ from(n) = n
      BY <2>1, <1>1
    <3> QED
      BY <3>1
  <2>2. CASE n > i
    <3>1. n - 1 \in 1 .. Len(t) /\ from(n - 1) = n
      BY <2>2, <1>1
    <3> QED
      BY <3>1
  <2> QED
    BY <2>1, <2>2, <1>1
<1> HIDE DEF from
<1>4. InOrder(t)
  BY <1>1, <1>2 DEF InOrder
<1>5. \A h : Has(s, h) /\ h # s[i].handle => Has(t, h)
  BY <1>1, <1>3 DEF Has
<1> QED
  BY <1>4, <1>5 DEF t

\* RemovePendingRequest() takes one request out; everyone else stays queued, in order.
LEMMA RemovePendingRequestQueue ==
  ASSUME NEW p \in PoolType, NEW hd, NEW h, NEW x, x \in {h, NoHandle}, NEW g \in Groups,
         NEW i \in 1 .. Len(p.pending[g]), p.pending[g][i].handle = h, QueueInv(p, hd, x)
  PROVE  /\ QueueInv(RemovePendingRequest(p, g, i), hd, h)
         /\ RemovePendingRequest(p, g, i).pending_callback_map = p.pending_callback_map
<1> DEFINE q == RemovePendingRequest(p, g, i)
<1>1. p.pending \in [Groups -> Seq(Request)]
  BY PoolFields
<1>2. /\ q.pending = [p.pending EXCEPT ![g] = RemoveAt(p.pending[g], i)]
      /\ q.pending_callback_map = p.pending_callback_map
  BY DEF RemovePendingRequest, PoolType
<1> HIDE DEF q
<1>3. /\ q.pending[g] = RemoveAt(p.pending[g], i)
      /\ \A k \in Groups \ {g} : q.pending[k] = p.pending[k]
  BY <1>1, <1>2
<1>4. p.pending[g] \in Seq(Request) /\ InOrder(p.pending[g])
  BY <1>1 DEF QueueInv
<1>5. /\ InOrder(q.pending[g])
      /\ \A k : Has(p.pending[g], k) /\ k # h => Has(q.pending[g], k)
  BY <1>3, <1>4, RemoveKeepsOrder
<1>6. \A k \in Groups : InOrder(q.pending[k])
  BY <1>3, <1>5 DEF QueueInv
<1>7. Listed(q, hd, h)
  <2> SUFFICES ASSUME NEW k \in Handles, NEW m \in Groups, k # h, hd[k] = WaitingIn(m),
                      q.pending_callback_map[k] = NoResult
               PROVE  Has(q.pending[m], k)
    BY DEF Listed
  <2>1. Has(p.pending[m], k)
    BY <1>2, HandlesAssumption DEF QueueInv, Listed
  <2> QED
    BY <2>1, <1>3, <1>5
<1> QED
  BY <1>2, <1>6, <1>7 DEF QueueInv, q

\* A set of positions that reaches down to the first is a prefix, as long as it
\* has members.
LEMMA PrefixLength ==
  ASSUME NEW n \in Nat, NEW B \in SUBSET (1 .. n),
         \A i \in B : \A j \in 1 .. n : j < i => j \in B
  PROVE  Cardinality(B) \in 0 .. n /\ B = 1 .. Cardinality(B)
<1> DEFINE out == {j \in 1 .. n + 1 : j \notin B}
<1>1. n + 1 \in out /\ out \in SUBSET Nat
  OBVIOUS
<1>2. PICK m \in out : \A j \in out : m <= j
  <2> HIDE DEF out
  <2> QED
    BY <1>1, LeastNatural
<1>3. m \in 1 .. n + 1 /\ m \notin B
  OBVIOUS
<1>4. B = 1 .. m - 1
  <2>1. ASSUME NEW i \in B
        PROVE  i \in 1 .. m - 1
    <3>1. i \in 1 .. n /\ i # m
      BY <1>3
    <3>2. ~(m < i)
      BY <1>3, <3>1
    <3> QED
      BY <1>3, <3>1, <3>2
  <2>2. ASSUME NEW i \in 1 .. m - 1
        PROVE  i \in B
    BY <1>2, <1>3
  <2> QED
    BY <2>1, <2>2
<1>5. m - 1 \in Nat
  BY <1>3
<1>6. Cardinality(1 .. m - 1) = m - 1
  BY <1>5, IntervalCardinality
<1> QED
  BY <1>3, <1>4, <1>6

\* Priorities are numbers up to MAXIMUM_PRIORITY, and decide before the flag does.
LEMMA UrgencyType ==
  ASSUME NEW r \in Request
  PROVE  /\ r.priority \in Int /\ MAXIMUM_PRIORITY \in Int /\ r.priority <= MAXIMUM_PRIORITY
         /\ Urgency(r) \in Int
         /\ r.respect_limits = "DISABLED" => Urgency(r) = 2 * r.priority + 1
         /\ r.respect_limits # "DISABLED" => Urgency(r) = 2 * r.priority
<1>1. r.priority \in Int /\ MAXIMUM_PRIORITY \in Int /\ r.priority <= MAXIMUM_PRIORITY
  BY LimitsAssumption DEF Request, Priority, MAXIMUM_PRIORITY
<1>2. CASE r.respect_limits = "DISABLED"
  <2>1. Urgency(r) = 2 * r.priority + 1
    BY <1>2 DEF Urgency
  <2> QED
    BY <1>1, <1>2, <2>1
<1>3. CASE r.respect_limits # "DISABLED"
  <2>1. Urgency(r) = 2 * r.priority + 0
    BY <1>3 DEF Urgency
  <2> QED
    BY <1>1, <1>3, <2>1
<1> QED
  BY <1>2, <1>3

\* The place where InsertPendingRequest() puts r: whoever is before it is at least
\* as urgent, whoever is behind it at most.
Fits(s, r, pos) ==
  /\ pos \in 1 .. Len(s) + 1
  /\ \A i \in 1 .. Len(s) : /\ i < pos => Urgency(s[i]) >= Urgency(r)
                            /\ i >= pos => Urgency(r) >= Urgency(s[i])

\* The position InsertPendingRequest() computes is such a place.
LEMMA InsertPosition ==
  ASSUME NEW s \in Seq(Request), NEW r \in Request, InOrder(s),
         r.respect_limits = "DISABLED" => r.priority = MAXIMUM_PRIORITY
  PROVE  Fits(s, r, IF r.respect_limits = "DISABLED" THEN 1
                    ELSE 1 + Cardinality({i \in 1 .. Len(s) : s[i].priority >= r.priority}))
<1> DEFINE B == {i \in 1 .. Len(s) : s[i].priority >= r.priority}
           c == Cardinality(B)
           u(i) == Urgency(s[i])
           a(i) == s[i].priority
           U == Urgency(r)
           M == MAXIMUM_PRIORITY
<1>1. Len(s) \in Nat
  BY LenProperties
<1>2. \A i \in 1 .. Len(s) : /\ a(i) \in Int /\ u(i) \in Int /\ a(i) <= M
                             /\ u(i) = 2 * a(i) \/ u(i) = 2 * a(i) + 1
  <2>1. \A i \in 1 .. Len(s) : s[i] \in Request
    BY ElementOfSeq
  <2> QED
    BY <2>1, UrgencyType
<1>3. /\ r.priority \in Int /\ M \in Int /\ U \in Int
      /\ r.respect_limits = "DISABLED" => U = 2 * M + 1
      /\ r.respect_limits # "DISABLED" => U = 2 * r.priority
  BY UrgencyType
<1>4. \A i, j \in 1 .. Len(s) : i < j => u(i) >= u(j)
  BY DEF InOrder
<1>5. \A i : i \in B <=> i \in 1 .. Len(s) /\ a(i) >= r.priority
  OBVIOUS
<1> HIDE DEF u, a, B, U, M
\* Those whose priority is as high as that of r are the first ones.
<1>6. \A i \in B : \A j \in 1 .. Len(s) : j < i => j \in B
  <2> SUFFICES ASSUME NEW i \in B, NEW j \in 1 .. Len(s), j < i
               PROVE  a(j) >= r.priority
    BY <1>5
  <2>1. i \in 1 .. Len(s) /\ a(i) >= r.priority
    BY <1>5
  <2>2. u(j) >= u(i)
    BY <1>4, <2>1
  <2>3. a(i) \in Int /\ a(j) \in Int /\ u(j) <= 2 * a(j) + 1 /\ u(i) >= 2 * a(i)
    BY <1>2, <2>1
  <2>4. u(i) \in Int /\ u(j) \in Int
    BY <1>2, <2>1
  <2> QED
    BY <1>3, <2>1, <2>2, <2>3, <2>4
<1>7. c \in 0 .. Len(s) /\ B = 1 .. c
  <2>1. B \in SUBSET (1 .. Len(s))
    BY <1>5
  <2> QED
    BY <1>1, <1>6, <2>1, PrefixLength
<1> HIDE DEF c
<1>8. CASE r.respect_limits = "DISABLED"
  <2>1. 1 \in 1 .. Len(s) + 1
    BY <1>1
  <2>2. \A i \in 1 .. Len(s) : U >= u(i) /\ ~(i < 1)
    BY <1>1, <1>2, <1>3, <1>8
  <2>3. Fits(s, r, 1)
    BY <2>1, <2>2 DEF Fits, U, u
  <2> QED
    BY <1>8, <2>3
<1>9. CASE r.respect_limits # "DISABLED"
  <2>1. 1 + c \in 1 .. Len(s) + 1
    BY <1>1, <1>7
  <2>2. ASSUME NEW i \in 1 .. Len(s)
        PROVE  (i < 1 + c => u(i) >= U) /\ (i >= 1 + c => U >= u(i))
    <3>1. i < 1 + c <=> i \in B
      BY <1>1, <1>7
    <3>2. i < 1 + c <=> a(i) >= r.priority
      BY <1>5, <3>1
    <3>3. a(i) \in Int /\ u(i) \in Int /\ (u(i) = 2 * a(i) \/ u(i) = 2 * a(i) + 1)
      BY <1>2
    <3>4. U = 2 * r.priority /\ i \in Int /\ c \in Int
      BY <1>1, <1>3, <1>7, <1>9
    <3> QED
      BY <1>3, <3>2, <3>3, <3>4
  <2>3. Fits(s, r, 1 + c)
    BY <2>1, <2>2 DEF Fits, U, u
  <2> QED
    BY <1>9, <2>3 DEF c, B
<1> QED
  BY <1>8, <1>9

\* InsertPendingRequest() keeps the queue in order, and its requests in it.
LEMMA InsertKeepsOrder ==
  ASSUME NEW s \in Seq(Request), NEW r \in Request, InOrder(s),
         r.respect_limits = "DISABLED" => r.priority = MAXIMUM_PRIORITY,
         NEW pos, Fits(s, r, pos)
  PROVE  /\ InOrder(InsertAt(s, pos, r))
         /\ Has(InsertAt(s, pos, r), r.handle)
         /\ \A h : Has(s, h) => Has(InsertAt(s, pos, r), h)
<1> DEFINE t == InsertAt(s, pos, r)
           u(i) == Urgency(s[i])
<1>1. Len(s) \in Nat
  BY LenProperties
<1>2. \A i, j \in 1 .. Len(s) : i < j => u(i) >= u(j)
  BY DEF InOrder
<1>3. pos \in 1 .. Len(s) + 1
  BY DEF Fits
<1>b. \A i \in 1 .. Len(s) : i < pos => u(i) >= Urgency(r)
  BY DEF Fits
<1>c. \A i \in 1 .. Len(s) : i >= pos => Urgency(r) >= u(i)
  BY DEF Fits
<1>4. /\ Len(t) = Len(s) + 1
      /\ \A j \in 1 .. Len(s) + 1 :
           t[j] = IF j < pos THEN s[j] ELSE IF j = pos THEN r ELSE s[j - 1]
  BY <1>3, InsertAtProperties
<1> HIDE DEF t, u
<1>5. \A j \in 1 .. Len(t) :
        IF j = pos THEN t[j] = r
        ELSE LET n == IF j < pos THEN j ELSE j - 1
             IN  n \in 1 .. Len(s) /\ t[j] = s[n]
  BY <1>1, <1>3, <1>4
<1>6. ASSUME NEW i \in 1 .. Len(t), NEW j \in 1 .. Len(t), i < j
      PROVE  Urgency(t[i]) >= Urgency(t[j])
  <2>1. CASE i = pos
    <3>1. t[i] = r /\ j - 1 \in 1 .. Len(s) /\ j - 1 >= pos /\ t[j] = s[j - 1]
      BY <1>6, <2>1, <1>1, <1>3, <1>4
    <3>2. Urgency(r) >= u(j - 1)
      BY <3>1, <1>c, Zenon
    <3>3. Urgency(t[i]) = Urgency(r) /\ Urgency(t[j]) = u(j - 1)
      BY <3>1 DEF u
    <3> QED
      BY <3>2, <3>3
  <2>2. CASE j = pos
    <3>1. t[j] = r /\ i \in 1 .. Len(s) /\ i < pos /\ t[i] = s[i]
      BY <1>6, <2>2, <1>1, <1>3, <1>4
    <3>2. u(i) >= Urgency(r)
      BY <3>1, <1>b, Zenon
    <3>3. Urgency(t[j]) = Urgency(r) /\ Urgency(t[i]) = u(i)
      BY <3>1 DEF u
    <3> QED
      BY <3>2, <3>3
  <2>3. CASE i # pos /\ j # pos
    <3> DEFINE m == IF i < pos THEN i ELSE i - 1
               n == IF j < pos THEN j ELSE j - 1
    <3>1. m \in 1 .. Len(s) /\ n \in 1 .. Len(s) /\ t[i] = s[m] /\ t[j] = s[n]
      BY <2>3, <1>5
    <3>2. m < n
      BY <1>6, <2>3, <1>1, <1>3, <1>4
    <3> HIDE DEF m, n
    <3> QED
      BY <3>1, <3>2, <1>2 DEF u
  <2> QED
    BY <2>1, <2>2, <2>3
<1>7. InOrder(t)
  <2>1. \A j \in 1 .. Len(t) :
          t[j].respect_limits = "DISABLED" => t[j].priority = MAXIMUM_PRIORITY
    BY <1>5 DEF InOrder
  <2> QED
    BY <1>6, <2>1 DEF InOrder
<1>8. pos \in 1 .. Len(t) /\ t[pos] = r
  BY <1>1, <1>3, <1>4
<1>9. ASSUME NEW n \in 1 .. Len(s)
      PROVE  \E j \in 1 .. Len(t) : t[j] = s[n]
  <2>1. CASE n < pos
    <3>1. n \in 1 .. Len(t) /\ t[n] = s[n]
      BY <2>1, <1>1, <1>4
    <3> QED
      BY <3>1
  <2>2. CASE n >= pos
    <3>1. n + 1 \in 1 .. Len(t) /\ t[n + 1] = s[n]
      BY <2>2, <1>1, <1>3, <1>4
    <3> QED
      BY <3>1
  <2> QED
    BY <2>1, <2>2, <1>1, <1>3
<1> QED
  BY <1>7, <1>8, <1>9 DEF Has, t

\* InsertPendingRequest() queues the handle that waits, and leaves the others queued.
LEMMA InsertPendingRequestQueue ==
  ASSUME NEW p \in PoolType, NEW hd, NEW hd2, NEW h, NEW x, x \in {h, NoHandle},
         NEW g \in Groups, NEW r \in Request, r.handle = h,
         r.respect_limits = "DISABLED" => r.priority = MAXIMUM_PRIORITY,
         QueueInv(p, hd, x), hd2[h] = WaitingIn(g), \A k \in Handles \ {h} : hd2[k] = hd[k]
  PROVE  QueueInv(InsertPendingRequest(p, g, r), hd2, NoHandle)
<1> DEFINE q == InsertPendingRequest(p, g, r)
           s == p.pending[g]
           pos == IF r.respect_limits = "DISABLED" THEN 1
                  ELSE 1 + Cardinality({i \in 1 .. Len(s) : s[i].priority >= r.priority})
           t == InsertAt(s, pos, r)
<1>1. p.pending \in [Groups -> Seq(Request)]
  BY PoolFields
<1>2. /\ q.pending = [p.pending EXCEPT ![g] = t]
      /\ q.pending_callback_map = p.pending_callback_map
  BY DEF InsertPendingRequest, PoolType
<1>3. s \in Seq(Request) /\ InOrder(s)
  BY <1>1 DEF QueueInv
<1>4. InOrder(t) /\ Has(t, h) /\ \A k : Has(s, k) => Has(t, k)
  <2> HIDE DEF s
  <2>1. Fits(s, r, pos)
    BY <1>3, InsertPosition
  <2> HIDE DEF pos
  <2> QED
    BY <1>3, <2>1, InsertKeepsOrder
<1> HIDE DEF q, t
<1>5. q.pending[g] = t /\ \A k \in Groups \ {g} : q.pending[k] = p.pending[k]
  BY <1>1, <1>2
<1>6. \A k \in Groups : InOrder(q.pending[k])
  BY <1>4, <1>5 DEF QueueInv
<1>7. Listed(q, hd2, NoHandle)
  <2> SUFFICES ASSUME NEW k \in Handles, NEW m \in Groups, hd2[k] = WaitingIn(m),
                      q.pending_callback_map[k] = NoResult
               PROVE  Has(q.pending[m], k)
    BY DEF Listed
  <2>1. CASE k = h
    <3>1. m = g
      BY <2>1 DEF WaitingIn
    <3> QED
      BY <2>1, <3>1, <1>4, <1>5
  <2>2. CASE k # h
    <3>1. Has(p.pending[m], k)
      BY <2>2, <1>2, HandlesAssumption DEF QueueInv, Listed
    <3> QED
      BY <3>1, <1>4, <1>5
  <2> QED
    BY <2>1, <2>2
<1> QED
  BY <1>6, <1>7 DEF QueueInv, q

-------------------------------------------------------------------------------
(* The private methods keep the queues. *)

\* A request that has left its queue gets its result.
LEMMA InvokeUserCallbackLaterQueue ==
  ASSUME NEW p \in PoolType, NEW hd, NEW h \in Handles, NEW result \in CompletionResults,
         QueueInv(p, hd, h)
  PROVE  QueueInv(InvokeUserCallbackLater(p, h, result), hd, NoHandle)
<1> DEFINE q == InvokeUserCallbackLater(p, h, result)
<1>1. p.pending_callback_map \in [Handles -> CompletionResults \cup {NoResult}]
  BY PoolFields
<1>2. /\ q.pending = p.pending
      /\ q.pending_callback_map = [p.pending_callback_map EXCEPT ![h] = result]
  BY DEF InvokeUserCallbackLater, PoolType
<1>3. result # NoResult
  BY NullsAssumption
<1> HIDE DEF q
<1>4. /\ q.pending_callback_map[h] # NoResult
      /\ \A k \in Handles \ {h} : q.pending_callback_map[k] = p.pending_callback_map[k]
  BY <1>1, <1>2, <1>3
<1>5. h \in {h, NoHandle}
  OBVIOUS
<1>6. QueueInv(q, hd, NoHandle)
  BY <1>2, <1>4, <1>5, NotListed
<1> QED
  BY <1>6 DEF q

\* group_map_ plays no part.
LEMMA GroupMapOperatorsQueue ==
  ASSUME NEW p \in PoolType, NEW hd, NEW x, NEW g, QueueInv(p, hd, x)
  PROVE  /\ QueueInv(GetOrCreateGroup(p, g), hd, x)
         /\ QueueInv(RemoveGroupIfEmpty(p, g), hd, x)
<1> DEFINE a == GetOrCreateGroup(p, g)
           b == RemoveGroupIfEmpty(p, g)
<1>1. a.pending = p.pending /\ a.pending_callback_map = p.pending_callback_map
  BY DEF GetOrCreateGroup, PoolType
<1>2. b.pending = p.pending /\ b.pending_callback_map = p.pending_callback_map
  BY DEF RemoveGroupIfEmpty, PoolType
<1> HIDE DEF a, b
<1>3. QueueInv(a, hd, x) /\ QueueInv(b, hd, x)
  BY <1>1, <1>2, SameQueues
<1> QED
  BY <1>3 DEF a, b

\* The first request leaves the queue and gets its result.
LEMMA PopAndNotifyQueue ==
  ASSUME NEW p \in PoolType, NEW hd, NEW g \in Groups, NEW i \in 1 .. Len(p.pending[g]), i = 1,
         NEW h \in Handles, p.pending[g][i].handle = h, QueueInv(p, hd, NoHandle)
  PROVE  /\ QueueInv(PopNextPendingRequest(p, g), hd, h)
         /\ PopNextPendingRequest(p, g).pending_callback_map = p.pending_callback_map
<1>1. NoHandle \in {h, NoHandle}
  OBVIOUS
<1>2. /\ QueueInv(RemovePendingRequest(p, g, i), hd, h)
      /\ RemovePendingRequest(p, g, i).pending_callback_map = p.pending_callback_map
  BY <1>1, RemovePendingRequestQueue
<1> QED
  BY <1>2 DEF PopNextPendingRequest

\* ProcessPendingRequest() drops the head only when it posts its result.
LEMMA ProcessPendingRequestQueue ==
  ASSUME NEW p, NEW hd \in HandleType, NEW g \in Groups, PoolInv(p, hd, NoHandle),
         QueueInv(p, hd, NoHandle),
         NEW i \in 1 .. Len(p.pending[g]), i = 1, NEW q \in ProcessPendingRequest(p, g)
  PROVE  QueueInv(q, hd, NoHandle)
<1> DEFINE r == Head(p.pending[g])
           h == r.handle
<1>1. r = p.pending[g][i]
  <2>1. p.pending[g] # <<>>
    <3>1. Len(p.pending[g]) # 0
      OBVIOUS
    <3> QED
      BY <3>1
  <2> QED
    BY <2>1, HeadRequest
<1>2. h \in Handles /\ h # NoHandle /\ MayServe(p, hd, g, r)
  <2> DEFINE k == p.pending[g][i].handle
  <2>1. k \in Handles /\ k # NoHandle /\ MayServe(p, hd, g, p.pending[g][i])
    BY QueuedRequest
  <2> QED
    BY <1>1, <2>1
<1> HIDE DEF r
<1>3. CASE p.idle[g] = <<>> /\ ~CanUseAdditionalSocketSlot(p, g)
  BY <1>3 DEF ProcessPendingRequest
<1>4. CASE ~(p.idle[g] = <<>> /\ ~CanUseAdditionalSocketSlot(p, g))
  <2>1. PICK res \in RequestSocketInternal(p, g, r) :
          q = IF res.rv = "PENDING"
              THEN res.pool
              ELSE InvokeUserCallbackLater(
                     RemoveGroupIfEmpty(PopNextPendingRequest(res.pool, g), g), h, res.rv)
    BY <1>4 DEF ProcessPendingRequest, r
  <2>2. Served(p, hd, g, h, res)
    BY <1>2, RequestSocketInternalInv
  <2> DEFINE a == res.pool
             b == PopNextPendingRequest(a, g)
             c == RemoveGroupIfEmpty(b, g)
  <2>3. PoolInv(a, hd, h) /\ a.pending = p.pending /\ a.pending_callback_map = p.pending_callback_map
    BY <2>2 DEF Served
  <2>4. a \in PoolType
    BY <2>3 DEF PoolInv
  <2> HIDE DEF a
  <2>5. QueueInv(a, hd, NoHandle)
    BY <2>3, SameQueues
  <2>6. CASE res.rv = "PENDING"
    BY <2>1, <2>5, <2>6 DEF a
  <2>7. CASE res.rv # "PENDING"
    <3>1. res.rv \in CompletionResults
      BY <1>2, <2>2, <2>7 DEF Served
    <3>2. i \in 1 .. Len(a.pending[g]) /\ a.pending[g][i].handle = h
      BY <1>1, <2>3
    <3>3. QueueInv(b, hd, h)
      BY <1>2, <2>4, <2>5, <3>2, PopAndNotifyQueue
    <3>4. PoolInv(b, hd, h)
      BY <2>3, <3>2, PopNextPendingRequestInv
    <3> HIDE DEF b
    <3>5. b \in PoolType
      BY <3>4 DEF PoolInv
    <3>6. QueueInv(c, hd, h)
      BY <3>3, <3>5, GroupMapOperatorsQueue
    <3>7. PoolInv(c, hd, h)
      BY <3>4, GroupMapOperatorsInv
    <3> HIDE DEF c
    <3>8. c \in PoolType
      BY <3>7 DEF PoolInv
    <3>9. QueueInv(InvokeUserCallbackLater(c, h, res.rv), hd, NoHandle)
      BY <1>2, <3>1, <3>6, <3>8, InvokeUserCallbackLaterQueue
    <3> QED
      BY <2>1, <2>7, <3>9 DEF a, b, c
  <2> QED
    BY <2>6, <2>7
<1> QED
  BY <1>3, <1>4

\* So does OnAvailableSocketSlot().
LEMMA OnAvailableSocketSlotQueue ==
  ASSUME NEW p, NEW hd \in HandleType, NEW g \in Groups, PoolInv(p, hd, NoHandle),
         QueueInv(p, hd, NoHandle), NEW q \in OnAvailableSocketSlot(p, g)
  PROVE  QueueInv(q, hd, NoHandle)
<1>1. CASE p.pending[g] # <<>>
  <2>1. PICK i \in 1 .. Len(p.pending[g]) : i = 1
    BY <1>1, HeadRequest
  <2>2. q \in ProcessPendingRequest(p, g)
    BY <1>1 DEF OnAvailableSocketSlot
  <2> QED
    BY <2>1, <2>2, ProcessPendingRequestQueue
<1>2. CASE p.pending[g] = <<>>
  <2>1. q = RemoveGroupIfEmpty(p, g)
    BY <1>2 DEF OnAvailableSocketSlot
  <2>2. p \in PoolType
    BY DEF PoolInv
  <2> QED
    BY <2>1, <2>2, GroupMapOperatorsQueue
<1> QED
  BY <1>1, <1>2

\* Closing an idle socket changes no queue.
LEMMA CloseOneIdleSocketQueue ==
  ASSUME NEW p, NEW hd, PoolInv(p, hd, NoHandle), QueueInv(p, hd, NoHandle),
         NEW q \in CloseOneIdleSocket(p)
  PROVE  QueueInv(q, hd, NoHandle)
<1>1. CASE p.idle_socket_count = 0
  BY <1>1 DEF CloseOneIdleSocket
<1>2. CASE p.idle_socket_count # 0
  <2>1. q \in CloseOneIdleSocketExceptInGroup(p, {}) /\ {} \in SUBSET Groups
    BY <1>2 DEF CloseOneIdleSocket
  <2>2. SameHandles(p, q)
    BY <2>1, CloseOneIdleSocketExceptInGroupInv
  <2> QED
    BY <2>2, SameQueues DEF SameHandles
<1> QED
  BY <1>1, <1>2

\* CheckForStalledSocketGroups() closes idle sockets, then serves one group.
LEMMA CheckForStalledSocketGroupsQueue ==
  ASSUME NEW p, NEW hd \in HandleType, PoolInv(p, hd, NoHandle), QueueInv(p, hd, NoHandle),
         NEW q \in CheckForStalledSocketGroups(p)
  PROVE  QueueInv(q, hd, NoHandle)
<1>1. CASE StalledGroups(p) = {}
  <2>1. q = p \/ q \in CloseOneIdleSocket(p)
    BY <1>1 DEF CheckForStalledSocketGroups
  <2> QED
    BY <2>1, CloseOneIdleSocketQueue
<1>2. CASE StalledGroups(p) # {} /\ ReachedMaxSocketsLimit(p) /\ p.idle_socket_count = 0
  BY <1>2 DEF CheckForStalledSocketGroups
<1>3. CASE StalledGroups(p) # {} /\ ~(ReachedMaxSocketsLimit(p) /\ p.idle_socket_count = 0)
  <2>1. PICK w \in (IF ReachedMaxSocketsLimit(p) THEN CloseOneIdleSocket(p) ELSE {p}),
             g \in FindTopStalledGroup(p) : q \in OnAvailableSocketSlot(w, g)
    BY <1>3 DEF CheckForStalledSocketGroups
  <2>2. w = p \/ w \in CloseOneIdleSocket(p)
    BY <2>1
  <2>3. PoolInv(w, hd, NoHandle) /\ QueueInv(w, hd, NoHandle)
    BY <2>2, CloseOneIdleSocketInv, CloseOneIdleSocketQueue
  <2>4. g \in Groups
    <3>1. p.group_map \subseteq Groups
      BY PoolFields DEF PoolInv
    <3> QED
      BY <3>1, <2>1 DEF FindTopStalledGroup, StalledGroups
  <2> QED
    BY <2>1, <2>3, <2>4, OnAvailableSocketSlotQueue
<1> QED
  BY <1>1, <1>2, <1>3

\* A slot is offered to its own group or to a stalled one.
LEMMA OfferSlotQueue ==
  ASSUME NEW p, NEW hd \in HandleType, NEW g \in Groups, PoolInv(p, hd, NoHandle),
         QueueInv(p, hd, NoHandle), NEW q \in OfferSlot(p, g)
  PROVE  QueueInv(q, hd, NoHandle)
<1>1. PICK w \in OnAvailableSocketSlot(p, g) : q \in CheckForStalledSocketGroups(w)
  BY DEF OfferSlot
<1>2. PoolInv(w, hd, NoHandle) /\ QueueInv(w, hd, NoHandle)
  BY OnAvailableSocketSlotInv, OnAvailableSocketSlotQueue
<1> QED
  BY <1>1, <1>2, CheckForStalledSocketGroupsQueue

\* A socket that becomes idle changes no queue.
LEMMA AddIdleSocketQueue ==
  ASSUME NEW p \in PoolType, NEW hd, NEW x, NEW g, NEW s, QueueInv(p, hd, x)
  PROVE  QueueInv(AddIdleSocket(p, g, s), hd, x)
<1> DEFINE q == AddIdleSocket(p, g, s)
<1>1. q.pending = p.pending /\ q.pending_callback_map = p.pending_callback_map
  BY DEF AddIdleSocket, PoolType
<1> HIDE DEF q
<1>2. QueueInv(q, hd, x)
  BY <1>1, SameQueues
<1> QED
  BY <1>2 DEF q

\* OnConnectJobComplete() gives the socket, or the error, to the head of the queue.
LEMMA OnConnectJobCompleteQueue ==
  ASSUME NEW p, NEW hd \in HandleType, NEW g \in Groups, NEW result \in CompletionResults,
         PoolInv(p, hd, NoHandle), QueueInv(p, hd, NoHandle), p.jobs[g] > 0,
         NEW w \in OnConnectJobComplete(p, g, result)
  PROVE  QueueInv(w, hd, NoHandle)
<1> DEFINE q == RemoveConnectJob(p, g)
           h == Head(p.pending[g]).handle
           popped == PopNextPendingRequest(q, g)
<1>1. /\ PoolInv(q, hd, NoHandle) /\ SameHandles(p, q) /\ q.group_map = p.group_map
      /\ g \in p.group_map /\ Room(q, g)
  BY RemoveConnectJobInv
<1> HIDE DEF q
<1>2. NewSocket(q) \in Socket /\ NewSocket(q).birth = q.generation /\ q \in PoolType
  <2>1. q \in PoolType
    BY <1>1 DEF PoolInv
  <2> QED
    BY <2>1, PoolFields DEF NewSocket, Socket
<1>q. QueueInv(q, hd, NoHandle)
  BY <1>1, SameQueues DEF SameHandles
<1>3. CASE p.pending[g] = <<>>
  <2> DEFINE a == IF result = "OK" THEN AddIdleSocket(q, g, NewSocket(q)) ELSE q
  <2>1. w \in OfferSlot(a, g)
    BY <1>3 DEF OnConnectJobComplete, q
  <2>2. /\ PoolInv(AddIdleSocket(q, g, NewSocket(q)), hd, NoHandle)
        /\ QueueInv(AddIdleSocket(q, g, NewSocket(q)), hd, NoHandle)
    BY <1>1, <1>2, <1>q, AddIdleSocketInv, AddIdleSocketQueue
  <2>3. PoolInv(a, hd, NoHandle) /\ QueueInv(a, hd, NoHandle)
    BY <1>1, <1>q, <2>2
  <2> HIDE DEF a
  <2> QED
    BY <2>1, <2>3, OfferSlotQueue
<1>4. CASE p.pending[g] # <<>>
  <2>1. 1 \in 1 .. Len(p.pending[g]) /\ h = p.pending[g][1].handle
    BY <1>4, HeadRequest
  <2>2. /\ h \in Handles /\ hd[h] = WaitingIn(g)
        /\ hd[h].group_name # NoGroup /\ ~hd[h].is_initialized
        /\ p.socket[h] = NoSocket
    BY <2>1, QueuedRequest
  <2> HIDE DEF h
  <2>3. q.pending = p.pending /\ q.socket = p.socket /\ q.generation = p.generation
    BY <1>1 DEF SameHandles
  <2>4. PoolInv(popped, hd, NoHandle) /\ NotQueued(popped, h)
    BY <1>1, <2>1, <2>3, RemovePendingRequestInv DEF PopNextPendingRequest
  <2>5. QueueInv(popped, hd, h)
    BY <1>2, <1>q, <2>1, <2>2, <2>3, PopAndNotifyQueue
  <2> HIDE DEF popped
  <2>6. popped \in PoolType /\ PoolInv(popped, hd, h)
    BY <2>4, ExceptHandleInv DEF PoolInv
  <2>7. CASE result \in {"OK", "ERR_SOCKET"}
    <3> DEFINE a == HandOutSocket(popped, g, h, NewSocket(q))
    <3>1. w = InvokeUserCallbackLater(a, h, result)
      BY <1>4, <2>7 DEF OnConnectJobComplete, q, h, popped
    <3>2. a.pending = popped.pending /\ a.pending_callback_map = popped.pending_callback_map
      BY <2>6 DEF HandOutSocket, PoolType
    <3>3. a \in PoolType
      <4>1. /\ popped.socket \in [Handles -> Socket \cup {NoSocket}]
            /\ popped.pool_id \in [Handles -> Nat \cup {-1}]
            /\ popped.handed_out_socket_count + 1 \in Nat
            /\ popped.active \in [Groups -> Nat] /\ popped.active[g] + 1 \in Nat
            /\ popped.generation \in Nat
        BY <2>6, PoolFields
      <4>2. /\ [popped.socket EXCEPT ![h] = NewSocket(q)] \in [Handles -> Socket \cup {NoSocket}]
            /\ [popped.pool_id EXCEPT ![h] = popped.generation] \in [Handles -> Nat \cup {-1}]
            /\ [popped.active EXCEPT ![g] = popped.active[g] + 1] \in [Groups -> Nat]
        BY <1>2, <4>1
      <4> QED
        BY <2>6, <4>1, <4>2 DEF HandOutSocket, PoolType
    <3> HIDE DEF a
    <3>4. QueueInv(a, hd, h)
      BY <2>5, <3>2, SameQueues
    <3> QED
      BY <2>2, <3>1, <3>3, <3>4, InvokeUserCallbackLaterQueue
  <2>8. CASE result \notin {"OK", "ERR_SOCKET"}
    <3> DEFINE a == InvokeUserCallbackLater(popped, h, result)
    <3>1. w \in OfferSlot(a, g)
      BY <1>4, <2>8 DEF OnConnectJobComplete, q, h, popped
    <3>2. PoolInv(a, hd, NoHandle) /\ QueueInv(a, hd, NoHandle)
      BY <2>2, <2>4, <2>5, <2>6, <2>8, InvokeUserCallbackLaterInv, InvokeUserCallbackLaterQueue
    <3> HIDE DEF a
    <3> QED
      BY <3>1, <3>2, OfferSlotQueue
  <2> QED
    BY <2>7, <2>8
<1> QED
  BY <1>3, <1>4

\* A handle that is reset waits for nothing, and need not be queued.
LEMMA FreedQueue ==
  ASSUME NEW p, NEW q, NEW hd \in HandleType, NEW h \in Handles, NEW x, x \in {h, NoHandle},
         QueueInv(p, hd, x), q.pending = p.pending,
         \A k \in Handles \ {h} : q.pending_callback_map[k] = p.pending_callback_map[k]
  PROVE  QueueInv(q, Freed(hd, h), NoHandle)
<1> DEFINE hd2 == Freed(hd, h)
<1>1. hd2[h] = WaitingIn(NoGroup) /\ \A k \in Handles \ {h} : hd2[k] = hd[k]
  BY DEF Freed, HandleType
<1>2. \A g \in Groups : hd2[h] # WaitingIn(g)
  <2> SUFFICES ASSUME NEW g \in Groups
               PROVE  WaitingIn(NoGroup) # WaitingIn(g)
    BY <1>1
  <2>1. WaitingIn(NoGroup).group_name = NoGroup /\ WaitingIn(g).group_name = g
    BY DEF WaitingIn
  <2>2. g # NoGroup
    BY GroupsAssumption DEF NoGroup
  <2> QED
    BY <2>1, <2>2
<1> HIDE DEF hd2
<1>3. QueueInv(q, hd2, NoHandle)
  BY <1>1, <1>2, NotListed
<1> QED
  BY <1>3 DEF hd2

\* ReleaseSocket() frees a handle that was not queued.
LEMMA ReleaseSocketQueue ==
  ASSUME NEW p, NEW hd \in HandleType, NEW h \in Handles, NEW g \in Groups,
         PoolInv(p, hd, NoHandle), QueueInv(p, hd, NoHandle),
         p.socket[h] # NoSocket, hd[h].group_name = g,
         NEW s \in Socket, s.birth = p.socket[h].birth, NEW connected, NEW passed,
         passed.generation = p.generation,
         [passed EXCEPT !.handed_out_socket_count = @ - 1, !.active[g] = @ - 1] = Dropped(p, g, h),
         NEW w \in ReleaseSocket(passed, g, s, p.pool_id[h], connected)
  PROVE  QueueInv(w, Freed(hd, h), NoHandle)
<1> DEFINE q == Dropped(p, g, h)
           hd2 == Freed(hd, h)
<1>1. PoolInv(q, hd2, NoHandle) /\ Room(q, g)
  BY DroppedInv, Zenon
<1>2. g \in q.group_map /\ q.generation = p.generation
  <2>1. p \in PoolType
    BY DEF PoolInv
  <2>2. g \in p.group_map
    BY DroppedInv, Zenon
  <2>3. q.group_map = p.group_map /\ q.generation = p.generation
    BY <2>1 DEF Dropped, PoolType
  <2> QED
    BY <2>2, <2>3
<1>3. hd2 \in HandleType
  BY FreedType
<1>4. s.birth = p.pool_id[h]
  BY DEF PoolInv, HandlesInv, HeldBorn
<1>5. w \in IF connected /\ p.pool_id[h] = p.generation
            THEN OfferSlot(AddIdleSocket(q, g, s), g)
            ELSE CheckForStalledSocketGroups(q)
  BY DEF ReleaseSocket
<1>6. QueueInv(q, hd2, NoHandle)
  <2>1. p \in PoolType
    BY DEF PoolInv
  <2>2. p.pending_callback_map \in [Handles -> CompletionResults \cup {NoResult}]
    BY <2>1, PoolFields
  <2>3. /\ q.pending = p.pending
        /\ q.pending_callback_map = [p.pending_callback_map EXCEPT ![h] = NoResult]
    BY <2>1 DEF Dropped, PoolType
  <2> HIDE DEF q, hd2
  <2>4. \A k \in Handles \ {h} : q.pending_callback_map[k] = p.pending_callback_map[k]
    BY <2>2, <2>3
  <2>5. NoHandle \in {h, NoHandle}
    OBVIOUS
  <2> QED
    BY <2>3, <2>4, <2>5, FreedQueue DEF hd2
<1> HIDE DEF q, hd2
<1>7. CASE connected /\ p.pool_id[h] = p.generation
  <2> DEFINE a == AddIdleSocket(q, g, s)
  <2>1. w \in OfferSlot(a, g)
    BY <1>5, <1>7
  <2>2. s.birth = q.generation
    BY <1>2, <1>4, <1>7
  <2>3. PoolInv(a, hd2, NoHandle)
    BY <1>1, <1>2, <2>2, AddIdleSocketInv, Zenon
  <2>4. QueueInv(a, hd2, NoHandle)
    BY <1>1, <1>6, AddIdleSocketQueue DEF PoolInv
  <2> HIDE DEF a
  <2>5. QueueInv(w, hd2, NoHandle)
    BY <1>3, <2>1, <2>3, <2>4, OfferSlotQueue
  <2> QED
    BY <2>5 DEF hd2
<1>8. CASE ~(connected /\ p.pool_id[h] = p.generation)
  <2>1. w \in CheckForStalledSocketGroups(q)
    BY <1>5, <1>8
  <2>2. QueueInv(w, hd2, NoHandle)
    BY <1>1, <1>3, <1>6, <2>1, CheckForStalledSocketGroupsQueue
  <2> QED
    BY <2>2 DEF hd2
<1> QED
  BY <1>7, <1>8

\* A cancelled request leaves its queue together with its handle.
LEMMA CancelPendingRequestQueue ==
  ASSUME NEW p, NEW hd \in HandleType, NEW g \in Groups, NEW i \in 1 .. Len(p.pending[g]),
         NEW h, h = p.pending[g][i].handle, PoolInv(p, hd, NoHandle), QueueInv(p, hd, NoHandle),
         NEW w \in CancelPendingRequest(p, g, i)
  PROVE  QueueInv(w, Freed(hd, h), NoHandle)
<1> DEFINE q == RemovePendingRequest(p, g, i)
           hd2 == Freed(hd, h)
<1>1. h \in Handles
  BY QueuedRequest, Zenon
<1>2. p.socket[h] = NoSocket /\ p.pending_callback_map[h] = NoResult
  <2>1. p.socket[h] = NoSocket
    BY QueuedRequest, Zenon
  <2>2. p.pending_callback_map[h] = NoResult
    BY QueuedRequest, Zenon
  <2> QED
    BY <2>1, <2>2
<1>3. PoolInv(q, hd, NoHandle) /\ NotQueued(q, h)
  BY RemovePendingRequestInv, Zenon
<1>4. q.socket[h] = NoSocket /\ q.pending_callback_map[h] = NoResult
  <2>1. p \in PoolType
    BY DEF PoolInv
  <2>2. q.socket = p.socket /\ q.pending_callback_map = p.pending_callback_map
    BY <2>1 DEF RemovePendingRequest, PoolType
  <2> QED
    BY <1>2, <2>2
<1>5. w \in IF q.jobs[g] > Len(q.pending[g]) /\ ReachedMaxSocketsLimit(q)
            THEN CheckForStalledSocketGroups(RemoveConnectJob(q, g))
            ELSE {q}
  BY DEF CancelPendingRequest
<1>q. QueueInv(q, hd, h)
  <2>1. p \in PoolType /\ NoHandle \in {h, NoHandle}
    BY DEF PoolInv
  <2> QED
    BY <2>1, RemovePendingRequestQueue
<1> HIDE DEF q
<1>6. PoolInv(q, hd2, NoHandle)
  BY <1>1, <1>3, <1>4, FreedInv DEF Freed
<1>7. hd2 \in HandleType
  BY <1>1, FreedType
<1>8. QueueInv(q, hd2, NoHandle)
  <2>1. h \in {h, NoHandle}
    OBVIOUS
  <2> QED
    BY <1>1, <1>q, <2>1, FreedQueue
<1> HIDE DEF hd2
<1>9. CASE q.jobs[g] > Len(q.pending[g]) /\ ReachedMaxSocketsLimit(q)
  <2> DEFINE c == RemoveConnectJob(q, g)
  <2>1. q.jobs[g] > 0
    <3>1. q \in PoolType
      BY <1>3 DEF PoolInv
    <3>2. q.jobs[g] \in Nat /\ Len(q.pending[g]) \in Nat
      BY <3>1, PoolFields, PoolCounts
    <3> QED
      BY <1>9, <3>2
  <2>2. PoolInv(c, hd2, NoHandle) /\ SameHandles(q, c)
    BY <1>6, <2>1, RemoveConnectJobInv, Zenon
  <2>3. w \in CheckForStalledSocketGroups(c)
    BY <1>5, <1>9
  <2> HIDE DEF c
  <2>4. QueueInv(c, hd2, NoHandle)
    BY <1>8, <2>2, SameQueues DEF SameHandles
  <2>5. QueueInv(w, hd2, NoHandle)
    BY <1>7, <2>2, <2>3, <2>4, CheckForStalledSocketGroupsQueue
  <2> QED
    BY <2>5 DEF hd2
<1>10. CASE ~(q.jobs[g] > Len(q.pending[g]) /\ ReachedMaxSocketsLimit(q))
  BY <1>5, <1>8, <1>10 DEF hd2
<1> QED
  BY <1>9, <1>10

\* CancelRequest() of a queued handle, or of one whose result is posted.
LEMMA CancelRequestQueue ==
  ASSUME NEW p, NEW hd \in HandleType, NEW g \in Groups, NEW h \in Handles,
         PoolInv(p, hd, NoHandle), QueueInv(p, hd, NoHandle), hd[h] = WaitingIn(g),
         NEW connected, NEW w \in CancelRequest(p, g, h, connected)
  PROVE  QueueInv(w, Freed(hd, h), NoHandle)
<1> DEFINE q == [p EXCEPT !.pending_callback_map[h] = NoResult]
           result == p.pending_callback_map[h]
<1>p. p \in PoolType
  BY DEF PoolInv
<1>h. hd[h].group_name = g /\ NoHandle \in {h, NoHandle}
  BY DEF WaitingIn
<1>1. CASE result = NoResult /\ PositionOf(p, g, h) = {}
  <2>1. w = p
    BY <1>1 DEF CancelRequest
  <2> QED
    BY <1>h, <2>1, FreedQueue
<1>2. CASE result = NoResult /\ PositionOf(p, g, h) # {}
  <2>1. PICK i \in PositionOf(p, g, h) : w \in CancelPendingRequest(p, g, i)
    BY <1>2 DEF CancelRequest
  <2>2. i \in 1 .. Len(p.pending[g]) /\ h = p.pending[g][i].handle
    BY DEF PositionOf
  <2> QED
    BY <2>1, <2>2, CancelPendingRequestQueue
<1>3. CASE result # NoResult /\ p.socket[h] = NoSocket
  <2>1. w = q
    BY <1>3 DEF CancelRequest
  <2>2. /\ q.pending = p.pending
        /\ q.pending_callback_map = [p.pending_callback_map EXCEPT ![h] = NoResult]
        /\ p.pending_callback_map \in [Handles -> CompletionResults \cup {NoResult}]
    BY <1>p, PoolFields DEF PoolType
  <2> HIDE DEF q
  <2>3. \A k \in Handles \ {h} : q.pending_callback_map[k] = p.pending_callback_map[k]
    BY <2>2
  <2> QED
    BY <1>h, <2>1, <2>2, <2>3, FreedQueue
<1>4. CASE result # NoResult /\ p.socket[h] # NoSocket
  <2> DEFINE passed == PassSocket(q, h)
             c == connected /\ result = "OK"
             s == p.socket[h]
  <2>1. w \in ReleaseSocket(passed, g, s, p.pool_id[h], c)
    BY <1>4 DEF CancelRequest
  <2>2. [passed EXCEPT !.handed_out_socket_count = @ - 1, !.active[g] = @ - 1] = Dropped(p, g, h)
    BY <1>p DEF PassSocket, Dropped, PoolType
  <2>3. passed.generation = p.generation
    BY <1>p DEF PassSocket, PoolType
  <2>4. s \in Socket
    BY <1>4, HeldSocket
  <2> HIDE DEF passed, c
  <2> QED
    BY <1>4, <1>h, <2>1, <2>2, <2>3, <2>4, ReleaseSocketQueue
<1> QED
  BY <1>1, <1>2, <1>3, <1>4

\* ResetHandle() releases, cancels, or has nothing to do.
LEMMA ResetHandleQueue ==
  ASSUME NEW p, NEW h \in Handles, NEW connected \in BOOLEAN, NEW used \in BOOLEAN,
         handle \in HandleType, PoolInv(p, handle, NoHandle), QueueInv(p, handle, NoHandle),
         NEW w \in ResetHandle(p, h, connected, used)
  PROVE  QueueInv(w, Freed(handle, h), NoHandle)
<1> DEFINE g == handle[h].group_name
           s == [p.socket[h] EXCEPT !.was_ever_used = @ \/ used]
<1>p. p \in PoolType
  BY DEF PoolInv
<1>h. handle[h] \in [is_initialized : BOOLEAN, group_name : Groups \cup {NoGroup}]
  BY DEF HandleType
<1>r. Results(p, handle, NoHandle) /\ NoHandle \in {h, NoHandle}
  BY DEF PoolInv, HandlesInv
<1>1. CASE g = NoGroup
  <2>1. w = p
    BY <1>1 DEF ResetHandle
  <2> QED
    BY <1>r, <2>1, FreedQueue
<1>2. CASE g # NoGroup /\ handle[h].is_initialized
  <2> DEFINE passed == PassSocket(p, h)
  <2>1. w \in ReleaseSocket(passed, g, s, p.pool_id[h], connected)
    BY <1>2 DEF ResetHandle
  <2>2. p.socket[h] # NoSocket /\ p.pending_callback_map[h] = NoResult
    BY <1>2, <1>r DEF Results
  <2>3. [passed EXCEPT !.handed_out_socket_count = @ - 1, !.active[g] = @ - 1] = Dropped(p, g, h)
    <3>1. p.pending_callback_map = [p.pending_callback_map EXCEPT ![h] = NoResult]
      BY <2>2, <1>p, PoolFields
    <3> QED
      BY <1>p, <3>1 DEF PassSocket, Dropped, PoolType
  <2>4. passed.generation = p.generation
    BY <1>p DEF PassSocket, PoolType
  <2>5. s \in Socket /\ s.birth = p.socket[h].birth
    BY <2>2, HeldSocket
  <2>6. g \in Groups
    BY <1>2, <1>h
  <2> HIDE DEF passed, s
  <2> QED
    BY <2>1, <2>2, <2>3, <2>4, <2>5, <2>6, ReleaseSocketQueue
<1>3. CASE g # NoGroup /\ ~handle[h].is_initialized
  <2>1. w \in CancelRequest(p, g, h, connected)
    BY <1>3 DEF ResetHandle
  <2>2. g \in Groups /\ handle[h] = WaitingIn(g)
    BY <1>3, <1>h DEF WaitingIn
  <2> QED
    BY <2>1, <2>2, CancelRequestQueue
<1> QED
  BY <1>1, <1>2, <1>3

-------------------------------------------------------------------------------
(* The actions keep the queues. *)

QInv == QueueInv(pool, handle, NoHandle)

\* HandleInitCompletion() ends the wait.
LEMMA CompletionWaits ==
  ASSUME NEW p, NEW h, NEW g, NEW k \in Groups
  PROVE  HandleInitCompletion(p, h, g) # WaitingIn(k)
<1> DEFINE c == HandleInitCompletion(p, h, g)
<1>1. WaitingIn(k).group_name = k /\ WaitingIn(k).is_initialized = FALSE
  BY DEF WaitingIn
<1>2. k # NoGroup
  BY GroupsAssumption DEF NoGroup
<1>3. CASE p.socket[h] = NoSocket
  <2>1. c.group_name = NoGroup
    BY <1>3 DEF HandleInitCompletion
  <2> QED
    BY <1>1, <1>2, <2>1
<1>4. CASE p.socket[h] # NoSocket
  <2>1. c.is_initialized = TRUE
    BY <1>4 DEF HandleInitCompletion
  <2> QED
    BY <1>1, <2>1
<1> QED
  BY <1>3, <1>4

\* The handle that InvokeUserCallback() tells its result was not queued.
LEMMA InvokeUserCallbackQueue ==
  ASSUME IInv, QInv, NEW h \in Handles, InvokeUserCallback(h)
  PROVE  QInv'
<1>1. PoolInv(pool, handle, NoHandle) /\ handle \in HandleType /\ pool \in PoolType
  BY DEF IInv, PoolInv
<1>2. pool.pending_callback_map \in [Handles -> CompletionResults \cup {NoResult}]
  BY <1>1, PoolFields
<1>3. CASE pool.pending_callback_map[h] = NoResult
  <2>1. pool' = [pool EXCEPT !.tasks[h] = @ - 1] /\ handle' = handle
    BY <1>3 DEF InvokeUserCallback
  <2>2. pool'.pending = pool.pending /\ pool'.pending_callback_map = pool.pending_callback_map
    BY <1>1, <2>1 DEF PoolType
  <2> QED
    BY <2>1, <2>2, SameQueues DEF QInv
<1>4. CASE pool.pending_callback_map[h] # NoResult
  <2> DEFINE c == HandleInitCompletion(pool, h, handle[h].group_name)
  <2>1. /\ pool' = [[pool EXCEPT !.tasks[h] = @ - 1] EXCEPT !.pending_callback_map[h] = NoResult]
        /\ handle' = [handle EXCEPT ![h] = c]
    BY <1>4 DEF InvokeUserCallback
  <2>2. /\ pool'.pending = pool.pending
        /\ pool'.pending_callback_map = [pool.pending_callback_map EXCEPT ![h] = NoResult]
    BY <1>1, <2>1 DEF PoolType
  <2> HIDE DEF c
  <2>3. /\ handle'[h] = c
        /\ \A k \in Handles \ {h} : /\ handle'[k] = handle[k]
                                    /\ pool'.pending_callback_map[k] = pool.pending_callback_map[k]
    BY <1>1, <1>2, <2>1, <2>2 DEF HandleType
  <2>4. \A g \in Groups : handle'[h] # WaitingIn(g)
    BY <2>3, CompletionWaits DEF c
  <2>5. NoHandle \in {h, NoHandle}
    OBVIOUS
  <2>6. QueueInv(pool', handle', NoHandle)
    BY <2>2, <2>3, <2>4, <2>5, NotListed DEF QInv
  <2> QED
    BY <2>6 DEF QInv
<1> QED
  BY <1>3, <1>4

\* Reset() is ResetHandle() of a handle.
LEMMA ResetQueue ==
  ASSUME IInv, QInv, NEW h \in Handles, Reset(h)
  PROVE  QInv'
<1>1. PoolInv(pool, handle, NoHandle) /\ handle \in HandleType
  BY DEF IInv
<1>2. PICK connected \in BOOLEAN, used \in BOOLEAN : pool' \in ResetHandle(pool, h, connected, used)
  BY DEF Reset
<1>3. QueueInv(pool', Freed(handle, h), NoHandle)
  BY <1>1, <1>2, ResetHandleQueue DEF QInv
<1>4. handle' = Freed(handle, h)
  BY DEF Reset, Freed, WaitingIn
<1> QED
  BY <1>3, <1>4 DEF QInv

\* SetPriority() moves the request to its new place.
LEMMA SetPriorityQueue ==
  ASSUME IInv, QInv, NEW h \in Handles, NEW priority \in Priority, SetPriority(h, priority)
  PROVE  QInv'
<1> DEFINE g == handle[h].group_name
<1>1. PoolInv(pool, handle, NoHandle) /\ handle \in HandleType /\ pool \in PoolType
  BY DEF IInv, PoolInv
<1>2. handle[h] \in [is_initialized : BOOLEAN, group_name : Groups \cup {NoGroup}]
  BY <1>1 DEF HandleType
<1>3. g # NoGroup
  BY DEF SetPriority, IsPending
<1>4. g \in Groups
  BY <1>2, <1>3
<1>5. PICK i \in PositionOf(pool, g, h) :
        /\ pool.pending[g][i].respect_limits = "ENABLED"
        /\ pool' = InsertPendingRequest(RemovePendingRequest(pool, g, i), g,
                                        [pool.pending[g][i] EXCEPT !.priority = priority])
  BY DEF SetPriority
<1>6. handle' = handle
  BY DEF SetPriority
<1> HIDE DEF g
<1>7. i \in 1 .. Len(pool.pending[g]) /\ pool.pending[g][i].handle = h
  BY DEF PositionOf
<1> DEFINE q == RemovePendingRequest(pool, g, i)
           r == [pool.pending[g][i] EXCEPT !.priority = priority]
<1>8. PoolInv(q, handle, NoHandle)
  BY <1>1, <1>4, <1>7, RemovePendingRequestInv, Zenon
<1>9. QueueInv(q, handle, h)
  <2>1. NoHandle \in {h, NoHandle}
    OBVIOUS
  <2> QED
    BY <1>1, <1>4, <1>7, <2>1, RemovePendingRequestQueue DEF QInv
<1>10. handle[h] = WaitingIn(g)
  BY <1>1, <1>4, <1>7, QueuedRequest
<1>11. r \in Request /\ r.handle = h /\ r.respect_limits # "DISABLED"
  <2>1. pool.pending[g] \in Seq(Request)
    BY <1>1, <1>4, PoolFields
  <2>2. pool.pending[g][i] \in Request
    BY <1>7, <2>1, ElementOfSeq
  <2> QED
    BY <1>5, <1>7, <2>2 DEF Request
<1> HIDE DEF q, r
<1>12. QueueInv(InsertPendingRequest(q, g, r), handle, NoHandle)
  <2>1. q \in PoolType /\ h \in {h, NoHandle}
    BY <1>8 DEF PoolInv
  <2> QED
    BY <1>4, <1>9, <1>10, <1>11, <2>1, InsertPendingRequestQueue
<1> QED
  BY <1>5, <1>6, <1>12 DEF QInv, q, r

\* RequestSockets() and its loop queue nothing.
LEMMA RequestSocketsQueue ==
  ASSUME IInv, QInv, NEW g \in Groups, NEW num, RequestSockets(g, num)
  PROVE  QInv'
<1>1. PoolInv(pool, handle, NoHandle)
  BY DEF IInv
<1>2. PICK q \in CleanupIdleSockets(pool, FALSE) : pool' = GetOrCreateGroup(q, g)
  BY DEF RequestSockets
<1>3. PoolInv(q, handle, NoHandle) /\ SameHandles(pool, q)
  <2>1. FALSE \in BOOLEAN
    OBVIOUS
  <2> QED
    BY <1>1, <1>2, <2>1, CleanupIdleSocketsInv
<1>4. QueueInv(q, handle, NoHandle)
  BY <1>3, SameQueues DEF QInv, SameHandles
<1>5. q \in PoolType
  BY <1>3 DEF PoolInv
<1>6. QueueInv(pool', handle, NoHandle)
  BY <1>2, <1>4, <1>5, GroupMapOperatorsQueue
<1>7. handle' = handle
  BY DEF RequestSockets
<1> QED
  BY <1>6, <1>7 DEF QInv

\* A round of the preconnect loop queues nothing.
LEMMA RequestSocketsLoopQueue ==
  ASSUME IInv, QInv, RequestSocketsLoop
  PROVE  QInv'
<1> DEFINE g == preconnect.group
<1>1. PoolInv(pool, handle, NoHandle) /\ handle \in HandleType /\ pool \in PoolType
  BY DEF IInv, PoolInv
<1>2. g \in Groups
  BY DEF IInv, RequestSocketsLoop
<1>3. MayServe(pool, handle, g, PreconnectRequest)
  BY <1>1 DEF MayServe, PreconnectRequest
<1>4. PreconnectRequest.handle = NoHandle
  BY DEF PreconnectRequest
<1>5. ASSUME NEW res \in RequestSocketInternal(pool, g, PreconnectRequest)
      PROVE  QueueInv(res.pool, handle, NoHandle) /\ res.pool \in PoolType
  <2> HIDE DEF g
  <2>1. Served(pool, handle, g, NoHandle, res)
    BY <1>1, <1>2, <1>3, <1>4, RequestSocketInternalInv
  <2>2. /\ res.pool \in PoolType
        /\ res.pool.pending = pool.pending
        /\ res.pool.pending_callback_map = pool.pending_callback_map
    BY <2>1 DEF Served, PoolInv
  <2> QED
    BY <2>2, SameQueues DEF QInv
<1>6. \/ \E res \in RequestSocketInternal(pool, g, PreconnectRequest) :
           pool' = res.pool \/ pool' = RemoveGroupIfEmpty(res.pool, g)
      \/ pool' = RemoveGroupIfEmpty(pool, g)
  BY DEF RequestSocketsLoop
<1>7. handle' = handle
  BY DEF RequestSocketsLoop
<1>8. QueueInv(pool', handle, NoHandle)
  BY <1>1, <1>5, <1>6, GroupMapOperatorsQueue DEF QInv
<1> QED
  BY <1>7, <1>8 DEF QInv

\* The completion of a job, as an action.
LEMMA ConnectJobCompleteQueue ==
  ASSUME IInv, QInv, NEW g \in Groups, NEW result \in CompletionResults,
         ConnectJobComplete(g, result)
  PROVE  QInv'
<1>1. PoolInv(pool, handle, NoHandle) /\ handle \in HandleType
  BY DEF IInv
<1>2. pool.jobs[g] > 0 /\ pool' \in OnConnectJobComplete(pool, g, result) /\ handle' = handle
  BY DEF ConnectJobComplete
<1>3. QueueInv(pool', handle, NoHandle)
  BY <1>1, <1>2, OnConnectJobCompleteQueue DEF QInv
<1> QED
  BY <1>2, <1>3 DEF QInv

\* The backup job, if it fails or succeeds at once, serves the head of the queue.
LEMMA OnBackupJobTimerFiredQueue ==
  ASSUME IInv, QInv, NEW g \in Groups, OnBackupJobTimerFired(g)
  PROVE  QInv'
<1> DEFINE added == BackedUp(pool, g)
           fired == Fired(pool, g)
<1>1. PoolInv(pool, handle, NoHandle) /\ handle \in HandleType
  BY DEF IInv
<1>2. handle' = handle /\ pool.backup_timer[g]
  BY DEF OnBackupJobTimerFired
<1>3. SameHandles(pool, fired)
  BY <1>1, <1>2, BackupJobInv
<1>4. QueueInv(fired, handle, NoHandle)
  <2> HIDE DEF fired
  <2> QED
    BY <1>3, SameQueues DEF QInv, SameHandles
<1>5. ASSUME ~ReachedMaxSocketsLimit(pool), HasAvailableSocketSlot(pool, g)
      PROVE  /\ PoolInv(added, handle, NoHandle) /\ added.jobs[g] > 0
             /\ QueueInv(added, handle, NoHandle)
  <2>1. Room(pool, g)
    BY <1>5 DEF Room
  <2>2. PoolInv(added, handle, NoHandle) /\ added.jobs[g] > 0 /\ SameHandles(pool, added)
    BY <1>1, <1>2, <2>1, BackupJobInv
  <2> HIDE DEF added
  <2>3. QueueInv(added, handle, NoHandle)
    BY <2>2, SameQueues DEF QInv, SameHandles
  <2> QED
    BY <2>2, <2>3
<1>6. QueueInv(pool', handle, NoHandle)
  <2>1. CASE pool' = pool \/ pool' = fired
    BY <1>4, <2>1 DEF QInv
  <2>2. ASSUME ~ReachedMaxSocketsLimit(pool), HasAvailableSocketSlot(pool, g),
               NEW rv \in ConnectResults \ {"PENDING"},
               pool' \in OnConnectJobComplete(added, g, rv)
        PROVE  QueueInv(pool', handle, NoHandle)
    <3>1. rv \in CompletionResults
      BY OptionsAssumption DEF CompletionResults
    <3> HIDE DEF added
    <3> QED
      BY <1>1, <1>5, <2>2, <3>1, OnConnectJobCompleteQueue
  <2> QED
    BY <1>5, <2>1, <2>2, OnBackupJobTimerFiredCases
<1> QED
  BY <1>2, <1>6 DEF QInv

\* Closing idle sockets is no concern of the queues.
LEMMA CloseIdleSocketsQueue ==
  ASSUME IInv, QInv, CloseIdleSockets
  PROVE  QInv'
<1>1. PoolInv(pool, handle, NoHandle)
  BY DEF IInv
<1>2. pool' \in CleanupIdleSockets(pool, TRUE) /\ handle' = handle
  BY DEF CloseIdleSockets
<1>3. SameHandles(pool, pool')
  <2>1. TRUE \in BOOLEAN
    OBVIOUS
  <2> QED
    BY <1>1, <1>2, <2>1, CleanupIdleSocketsInv
<1>4. QueueInv(pool', handle, NoHandle)
  BY <1>3, SameQueues DEF QInv, SameHandles
<1> QED
  BY <1>2, <1>4 DEF QInv

\* Nor is closing those of one group,
LEMMA CloseIdleSocketsInGroupQueue ==
  ASSUME IInv, QInv, NEW g \in Groups, CloseIdleSocketsInGroup(g)
  PROVE  QInv'
<1> DEFINE c == [pool EXCEPT !.idle[g] = <<>>, !.idle_socket_count = @ - Len(pool.idle[g])]
<1>1. pool \in PoolType
  BY DEF IInv, PoolInv
<1>2. pool' = RemoveGroupIfEmpty(c, g) /\ handle' = handle
  BY DEF CloseIdleSocketsInGroup
<1>3. /\ pool'.pending = pool.pending
      /\ pool'.pending_callback_map = pool.pending_callback_map
  BY <1>1, <1>2 DEF RemoveGroupIfEmpty, PoolType
<1>4. QueueInv(pool', handle, NoHandle)
  BY <1>3, SameQueues DEF QInv
<1> QED
  BY <1>2, <1>4 DEF QInv

\* or one of them.
LEMMA CloseOneIdleConnectionQueue ==
  ASSUME IInv, QInv, CloseOneIdleConnection
  PROVE  QInv'
<1>1. PoolInv(pool, handle, NoHandle)
  BY DEF IInv
<1>2. pool' \in CloseOneIdleSocket(pool) /\ handle' = handle
  BY DEF CloseOneIdleConnection
<1>3. QueueInv(pool', handle, NoHandle)
  BY <1>1, <1>2, CloseOneIdleSocketQueue DEF QInv
<1> QED
  BY <1>2, <1>3 DEF QInv

\* A request that is not served at once is queued; one that is, waits no more.
LEMMA RequestSocketQueue ==
  ASSUME IInv, QInv, NEW h \in Handles, NEW g \in Groups, NEW priority \in Priority,
         NEW respect_limits \in RespectLimitsValues,
         RequestSocket(h, g, priority, respect_limits)
  PROVE  QInv'
<1> DEFINE r == RequestOf(h, priority, respect_limits)
           hd == Asking(handle, h, g)
           fh == Freed(handle, h)
<1>1. PoolInv(pool, handle, NoHandle) /\ handle \in HandleType
  BY DEF IInv
<1>2. PICK reset, cleaned, res : /\ AfterReset(h, g, r, reset, cleaned, res)
                                 /\ Requested(h, g, r, res)
  BY RequestSocketCases
<1>3. /\ r \in Request /\ r.handle = h /\ r.respect_limits \in RespectLimitsValues
      /\ r.respect_limits = "DISABLED" => r.priority = MAXIMUM_PRIORITY
  BY RequestOfType DEF RequestSocket
<1> HIDE DEF r
<1>4. SameHandles(reset, cleaned) /\ Served(cleaned, hd, g, h, res)
  BY <1>2, <1>3, RequestSocketServed
<1>5. QueueInv(reset, fh, NoHandle)
  <2>1. \E connected, used \in BOOLEAN : reset \in ResetHandle(pool, h, connected, used)
    BY <1>2 DEF AfterReset
  <2> QED
    BY <1>1, <2>1, ResetHandleQueue DEF QInv
<1>6. /\ PoolInv(res.pool, hd, h)
      /\ res.pool.pending = reset.pending
      /\ res.pool.pending_callback_map = reset.pending_callback_map
  BY <1>4 DEF Served, SameHandles
<1>7. hd[h] = WaitingIn(g) /\ \A k \in Handles \ {h} : hd[k] = handle[k] /\ fh[k] = handle[k]
  BY <1>1 DEF Asking, Freed, HandleType
<1> HIDE DEF fh
<1> DEFINE q == res.pool
<1>8. QueueInv(q, fh, NoHandle) /\ q \in PoolType /\ NoHandle \in {h, NoHandle}
  BY <1>5, <1>6, SameQueues DEF PoolInv
<1>9. CASE res.rv = "PENDING"
  <2>1. pool' = InsertPendingRequest(q, g, r) /\ handle' = hd
    BY <1>2, <1>9 DEF Requested
  <2> HIDE DEF q, hd
  <2>2. QueueInv(InsertPendingRequest(q, g, r), hd, NoHandle)
    BY <1>3, <1>7, <1>8, InsertPendingRequestQueue
  <2> QED
    BY <2>1, <2>2 DEF QInv
<1>10. CASE res.rv # "PENDING"
  <2> DEFINE c == HandleInitCompletion(q, h, g)
  <2>1. pool' = q /\ handle' = [handle EXCEPT ![h] = c]
    BY <1>2, <1>10 DEF Requested
  <2> HIDE DEF q, c
  <2>2. handle'[h] = c /\ \A k \in Handles \ {h} : handle'[k] = fh[k]
    BY <1>1, <1>7, <2>1 DEF HandleType
  <2>3. \A k \in Groups : handle'[h] # WaitingIn(k)
    BY <2>2, CompletionWaits DEF c
  <2>4. QueueInv(q, handle', NoHandle)
    BY <1>8, <2>2, <2>3, NotListed
  <2> QED
    BY <2>1, <2>4 DEF QInv
<1> QED
  BY <1>9, <1>10

\* FlushWithError() empties the queues: whoever waited gets an error.
LEMMA FlushWithErrorQueue ==
  ASSUME IInv, QInv, FlushWithError
  PROVE  QInv'
<1> DEFINE jobless == CancelAllConnectJobs([pool EXCEPT !.generation = @ + 1])
<1>1. PoolInv(pool, handle, NoHandle)
  BY DEF IInv
<1>2. PICK q \in CleanupIdleSockets(jobless, TRUE) : pool' = CancelAllRequestsWithError(q, "ERR")
  BY DEF FlushWithError
<1>3. jobless \in PoolType /\ Flushed(pool, jobless, FALSE)
  BY <1>1, CancelAllConnectJobsFlushes
<1> HIDE DEF jobless
<1>4. q \in PoolType /\ Flushed(pool, q, TRUE)
  BY <1>1, <1>3, CleanupIdleSocketsFlushes
<1>5. q.pending = pool.pending /\ q.pending_callback_map = pool.pending_callback_map
  BY <1>4 DEF Flushed
<1> DEFINE waiting(h) == \E g \in Groups : PositionOf(q, g, h) # {}
           map == [h \in Handles |-> IF waiting(h) THEN "ERR" ELSE q.pending_callback_map[h]]
<1>6. pool'.pending = [g \in Groups |-> <<>>] /\ pool'.pending_callback_map = map
  BY <1>2, <1>4 DEF CancelAllRequestsWithError, RemoveEmptyGroups, PoolType
<1>7. handle' = handle
  BY DEF FlushWithError
<1>8. \A g \in Groups : InOrder(pool'.pending[g])
  <2>1. \A g \in Groups : Len(pool'.pending[g]) = 0
    BY <1>6
  <2> QED
    BY <2>1 DEF InOrder
<1>9. Listed(pool', handle, NoHandle)
  <2> SUFFICES ASSUME NEW h \in Handles, NEW g \in Groups, h # NoHandle, handle[h] = WaitingIn(g),
                      pool'.pending_callback_map[h] = NoResult
               PROVE  FALSE
    BY DEF Listed
  <2>1. map[h] = IF waiting(h) THEN "ERR" ELSE q.pending_callback_map[h]
    OBVIOUS
  <2>2. "ERR" # NoResult
    BY NullsAssumption DEF CompletionResults
  <2>3. ~waiting(h) /\ pool.pending_callback_map[h] = NoResult
    BY <1>5, <1>6, <2>1, <2>2
  <2>4. Has(pool.pending[g], h)
    BY <2>3 DEF QInv, QueueInv, Listed
  <2>5. PositionOf(q, g, h) # {}
    BY <1>5, <2>4 DEF Has, PositionOf
  <2> QED
    BY <2>3, <2>5
<1> QED
  BY <1>7, <1>8, <1>9 DEF QInv, QueueInv

\* A new pool has no queue and no handle that waits.
LEMMA QInit == Init => QInv
<1> SUFFICES ASSUME Init
             PROVE  QInv
  OBVIOUS
<1>1. /\ pool.pending = [g \in Groups |-> <<>>]
      /\ handle = [h \in Handles |-> [is_initialized |-> FALSE, group_name |-> NoGroup]]
  BY DEF Init
<1>2. \A g \in Groups : Len(pool.pending[g]) = 0
  BY <1>1, EmptySeq
<1>3. \A g \in Groups : InOrder(pool.pending[g])
  BY <1>2 DEF InOrder
<1>4. \A h \in Handles, g \in Groups : handle[h] # WaitingIn(g)
  <2>1. \A h \in Handles, g \in Groups : handle[h].group_name = NoGroup /\ WaitingIn(g).group_name = g
    BY <1>1 DEF WaitingIn
  <2> QED
    BY <2>1, GroupsAssumption DEF NoGroup
<1> QED
  BY <1>3, <1>4 DEF QInv, QueueInv, Listed

\* No operation of the pool breaks the order of its queues, or forgets a request.
LEMMA QNext == IInv /\ QInv /\ [Next]_vars => QInv'
<1> SUFFICES ASSUME IInv, QInv, [Next]_vars
             PROVE  QInv'
  OBVIOUS
<1>1. CASE UNCHANGED vars
  BY <1>1 DEF vars, QInv
<1>2. ASSUME NEW h \in Handles, NEW g \in Groups, NEW priority \in Priority,
             NEW respect_limits \in RespectLimitsValues,
             RequestSocket(h, g, priority, respect_limits)
      PROVE  QInv'
  BY <1>2, RequestSocketQueue
<1>3. ASSUME NEW g \in Groups, NEW num \in 1 .. max_sockets_per_group, RequestSockets(g, num)
      PROVE  QInv'
  BY <1>3, RequestSocketsQueue
<1>4. ASSUME NEW h \in Handles, Reset(h)
      PROVE  QInv'
  BY <1>4, ResetQueue
<1>5. ASSUME NEW h \in Handles, NEW priority \in Priority, SetPriority(h, priority)
      PROVE  QInv'
  BY <1>5, SetPriorityQueue
<1>6. CASE RequestSocketsLoop
  BY <1>6, RequestSocketsLoopQueue
<1>7. ASSUME NEW g \in Groups, NEW result \in CompletionResults, ConnectJobComplete(g, result)
      PROVE  QInv'
  BY <1>7, ConnectJobCompleteQueue
<1>8. ASSUME NEW g \in Groups, OnBackupJobTimerFired(g)
      PROVE  QInv'
  BY <1>8, OnBackupJobTimerFiredQueue
<1>9. ASSUME NEW h \in Handles, InvokeUserCallback(h)
      PROVE  QInv'
  BY <1>9, InvokeUserCallbackQueue
<1>10. CASE FlushWithError
  BY <1>10, FlushWithErrorQueue
<1>11. CASE CloseIdleSockets
  BY <1>11, CloseIdleSocketsQueue
<1>12. ASSUME NEW g \in Groups, CloseIdleSocketsInGroup(g)
       PROVE  QInv'
  BY <1>12, CloseIdleSocketsInGroupQueue
<1>13. CASE CloseOneIdleConnection
  BY <1>13, CloseOneIdleConnectionQueue
<1> QED
  BY <1>1, <1>2, <1>3, <1>4, <1>5, <1>6, <1>7, <1>8, <1>9, <1>10, <1>11, <1>12, <1>13
  DEF Next, NewRequest, Service

\* Throughout, every queue is in order and holds every handle of its group that
\* waits for a socket and has no result posted.
THEOREM QueuesKept == Spec => []QInv
BY Invariance, QInit, QNext, PTL DEF Spec

\* PopNextPendingRequest() always takes a most urgent request of its group: the
\* request that ignores the limits first, then those of the highest priority.
THEOREM MostUrgentAlwaysFirst == Spec => []MostUrgentFirst
<1>1. QInv => MostUrgentFirst
  BY DEF QInv, QueueInv, InOrder, MostUrgentFirst
<1> QED
  BY <1>1, QueuesKept, PTL

\* A handle that waits is queued in its own group exactly once, or has its result
\* posted, and a handle that does not wait is in no queue: neither Reset() nor
\* SetPriority() nor a flush loses or duplicates a request.
THEOREM RequestsAlwaysTracked == Spec => []RequestsTracked
<1>1. IInv /\ QInv => RequestsTracked
  <2> SUFFICES ASSUME IInv, QInv, NEW h \in Handles, NEW g \in Groups
               PROVE  Cardinality(PositionOf(pool, g, h)) =
                        IF IsPending(h) /\ handle[h].group_name = g
                           /\ pool.pending_callback_map[h] = NoResult THEN 1 ELSE 0
    BY DEF RequestsTracked
  <2> DEFINE P == PositionOf(pool, g, h)
  <2>1. /\ PoolInv(pool, handle, NoHandle) /\ handle \in HandleType
        /\ h # NoHandle /\ g # NoGroup
    BY HandlesAssumption, GroupsAssumption DEF IInv, NoGroup
  <2>2. \A i : i \in P <=> i \in 1 .. Len(pool.pending[g]) /\ pool.pending[g][i].handle = h
    BY DEF PositionOf
  <2> HIDE DEF P
  <2>3. CASE IsPending(h) /\ handle[h].group_name = g /\ pool.pending_callback_map[h] = NoResult
    <3>1. handle[h].is_initialized = FALSE
      BY <2>1, <2>3 DEF IsPending, HandleType
    <3>2. handle[h] = WaitingIn(g)
      BY <2>1, <2>3, <3>1 DEF HandleType, WaitingIn
    <3>3. Has(pool.pending[g], h)
      BY <2>1, <2>3, <3>2 DEF QInv, QueueInv, Listed
    <3>4. PICK i \in 1 .. Len(pool.pending[g]) : pool.pending[g][i].handle = h
      BY <3>3 DEF Has
    <3>5. \A j \in 1 .. Len(pool.pending[g]) : pool.pending[g][j].handle = h => j = i
      BY <2>1, <3>4 DEF PoolInv, HandlesInv, Queued
    <3>6. P = {i}
      BY <2>2, <3>4, <3>5
    <3> QED
      BY <2>3, <3>6, FS_Singleton DEF P
  <2>4. CASE ~(IsPending(h) /\ handle[h].group_name = g /\ pool.pending_callback_map[h] = NoResult)
    <3>1. ASSUME NEW i \in P
          PROVE  FALSE
      <4>1. i \in 1 .. Len(pool.pending[g]) /\ pool.pending[g][i].handle = h
        BY <2>2, <3>1
      <4>2. handle[h] = WaitingIn(g) /\ pool.pending_callback_map[h] = NoResult
        BY <2>1, <4>1 DEF PoolInv, HandlesInv, Queued, Waiting
      <4>3. handle[h].group_name = g /\ ~handle[h].is_initialized
        BY <4>2 DEF WaitingIn
      <4> QED
        BY <2>1, <2>4, <4>2, <4>3 DEF IsPending
    <3>2. P = {}
      BY <3>1
    <3> QED
      BY <2>4, <3>2, FS_EmptySet DEF P
  <2> QED
    BY <2>3, <2>4
<1> QED
  BY <1>1, Invariance, QueuesKept, PTL
=============================================================================
