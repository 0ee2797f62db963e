--------------------- MODULE PrioritizedDispatcherProofs ---------------------
(***************************************************************************)
(* The properties of PrioritizedDispatcher, proved for any jobs, number of *)
(* priorities, limits and depth of re-entrance.                            *)
(***************************************************************************)
EXTENDS PrioritizedDispatcher, TLAPS, FunctionTheorems, FiniteSetTheorems, SequenceTheorems,
        WellFoundedInduction

(***************************************************************************)
(* The inductive invariant.  Its parts are stated of a queue q, a count n, *)
(* the running jobs s and limits max, so that they can be followed through *)
(* MaybeDispatchNextJob(), which the methods call with new values of them. *)
(***************************************************************************)
Holds(q, j) == \E p \in Priority : \E i \in 1..Len(q[p]) : q[p][i] = j

QueueOK(q, s) ==
  /\ q \in [Priority -> Seq(Jobs)]
  /\ \A p, r \in Priority : \A i \in 1..Len(q[p]), k \in 1..Len(q[r]) :
        q[p][i] = q[r][k] => p = r /\ i = k
  /\ \A p \in Priority : \A i \in 1..Len(q[p]) : q[p][i] \notin DOMAIN s

UpTo(s, p) == {j \in DOMAIN s : s[j] <= p}

RunningOK(n, s, top) ==
  /\ DOMAIN s \subseteq Jobs
  /\ s \in [DOMAIN s -> Priority]
  /\ n = Cardinality(DOMAIN s)
  /\ \A p \in Priority : Cardinality(UpTo(s, p)) <= top[p]

\* The limits grow with the priority, and top is at least the limits.
Increasing(max) ==
  /\ max \in [Priority -> Nat]
  /\ \A p, r \in Priority : p <= r => max[p] <= max[r]

LimitsOK(max, top) ==
  /\ Increasing(max)
  /\ top \in [Priority -> Nat]
  /\ \A p \in Priority : max[p] <= top[p]

AtLimit(q, n, max) == \A p \in Priority : q[p] # <<>> => n >= max[p]

IInv ==
  /\ QueueOK(queue, started)
  /\ RunningOK(num_running_jobs, started, peak)
  /\ LimitsOK(max_running_jobs, peak)
  /\ loops \in 0..MaxLoops
  /\ loops = 0 => AtLimit(queue, num_running_jobs, max_running_jobs)

(***************************************************************************)
(* The queue.                                                              *)
(***************************************************************************)

\* A non-empty set of priorities has a largest one: what FirstMax() returns.
LEMMA GreatestPriority ==
  ASSUME NEW T \in SUBSET Priority, T # {}
  PROVE  \E x \in T : \A y \in T : y <= x
<1> DEFINE R == {ss \in Nat \X Nat : ss[1] < ss[2]}
           U == {NumPriorities - 1 - p : p \in T}
<1>1. IsWellFoundedOn(R, Nat)
  BY NatLessThanWellFounded DEF OpToRel
<1>2. U \in SUBSET Nat /\ U # {}
  <2>1. \A p \in T : NumPriorities - 1 - p \in Nat
    BY PrioritiesAssumption DEF Priority
  <2>2. PICK p : p \in T
    OBVIOUS
  <2> QED
    BY <2>1, <2>2
<1>3. PICK u \in U : \A v \in U : ~(<<v, u>> \in R)
  <2> HIDE DEF R, U
  <2> QED
    BY <1>1, <1>2, WFMin
<1>4. PICK x \in T : u = NumPriorities - 1 - x
  OBVIOUS
<1>5. \A y \in T : y <= x
  <2> TAKE y \in T
  <2>1. x \in Nat /\ y \in Nat /\ NumPriorities - 1 - y \in Nat /\ u \in Nat
    BY <1>4, PrioritiesAssumption DEF Priority
  <2>2. ~(NumPriorities - 1 - y < u)
    BY <1>3, <2>1
  <2> QED
    BY <1>4, <2>1, <2>2, PrioritiesAssumption
<1> QED
  BY <1>5

\* FirstMax() returns the highest level that is not empty.
LEMMA FirstMaxIsHighest ==
  ASSUME NEW q, Levels(q) # {}
  PROVE  /\ FirstMax(q) \in Priority
         /\ q[FirstMax(q)] # <<>>
         /\ \A r \in Priority : q[r] # <<>> => r <= FirstMax(q)
<1>1. Levels(q) \in SUBSET Priority
  BY DEF Levels
<1>2. \E p \in Levels(q) : \A r \in Levels(q) : r <= p
  BY <1>1, GreatestPriority
<1>3. FirstMax(q) \in Levels(q) /\ \A r \in Levels(q) : r <= FirstMax(q)
  BY <1>2 DEF FirstMax
<1> QED
  BY <1>3 DEF Levels

\* FirstMin() returns a level that is not empty.
LEMMA FirstMinIsLevel ==
  ASSUME NEW q, Levels(q) # {}
  PROVE  FirstMin(q) \in Priority /\ q[FirstMin(q)] # <<>>
<1> DEFINE R == {ss \in Nat \X Nat : ss[1] < ss[2]}
<1>1. IsWellFoundedOn(R, Nat)
  BY NatLessThanWellFounded DEF OpToRel
<1>2. Levels(q) \subseteq Nat
  BY DEF Levels, Priority
<1>3. PICK p \in Levels(q) : \A r \in Levels(q) : ~(<<r, p>> \in R)
  <2> HIDE DEF R
  <2> QED
    BY <1>1, <1>2, WFMin
<1>4. \A r \in Levels(q) : p <= r
  <2> TAKE r \in Levels(q)
  <2>1. p \in Nat /\ r \in Nat /\ ~(<<r, p>> \in R)
    BY <1>2, <1>3
  <2> QED
    BY <2>1
<1>5. FirstMin(q) \in Levels(q)
  BY <1>3, <1>4 DEF FirstMin
<1> QED
  BY <1>5 DEF Levels

\* Erase() takes out one job: it is gone, and no list grows.
LEMMA EraseOK ==
  ASSUME NEW q, NEW s, QueueOK(q, s), NEW p \in Priority, NEW i \in 1..Len(q[p])
  PROVE  /\ QueueOK(Erase(q, p, i), s)
         /\ ~Holds(Erase(q, p, i), q[p][i])
         /\ q[p][i] \in Jobs \ DOMAIN s
         /\ \A r \in Priority : Erase(q, p, i)[r] # <<>> => q[r] # <<>>
<1> DEFINE t == [k \in 1..Len(q[p]) - 1 |-> IF k < i THEN q[p][k] ELSE q[p][k + 1]]
           e == Erase(q, p, i)
           at(r, k) == IF r = p /\ k >= i THEN k + 1 ELSE k
<1>1. q \in [Priority -> Seq(Jobs)] /\ q[p] \in Seq(Jobs) /\ Len(q[p]) \in Nat
  BY DEF QueueOK
<1>2. \A r \in Priority : \A k \in 1..Len(q[r]) : q[r][k] \in Jobs
  BY <1>1, ElementOfSeq
<1>3. t \in Seq(Jobs) /\ Len(t) = Len(q[p]) - 1
  <2>1. Len(q[p]) - 1 \in Nat
    BY <1>1
  <2>2. \A k \in 1..Len(q[p]) - 1 : (IF k < i THEN q[p][k] ELSE q[p][k + 1]) \in Jobs
    BY <1>1, <1>2
  <2>3. t \in [1..Len(q[p]) - 1 -> Jobs]
    BY <2>2
  <2> QED
    <3> HIDE DEF t
    <3>1. t \in Seq(Jobs)
      BY <2>1, <2>3
    <3>2. DOMAIN t = 1..Len(q[p]) - 1
      BY <2>3
    <3> QED
      BY <2>1, <3>1, <3>2
<1>4. e \in [Priority -> Seq(Jobs)] /\ e[p] = t /\ \A r \in Priority : r # p => e[r] = q[r]
  BY <1>1, <1>3 DEF Erase
<1>5. \A r \in Priority : \A k \in 1..Len(e[r]) :
         /\ at(r, k) \in 1..Len(q[r])
         /\ e[r][k] = q[r][at(r, k)]
         /\ ~(r = p /\ at(r, k) = i)
  <2> SUFFICES ASSUME NEW r \in Priority, NEW k \in 1..Len(e[r])
               PROVE  /\ at(r, k) \in 1..Len(q[r])
                      /\ e[r][k] = q[r][at(r, k)]
                      /\ ~(r = p /\ at(r, k) = i)
    OBVIOUS
  <2>1. CASE r = p
    BY <2>1, <1>1, <1>3, <1>4
  <2>2. CASE r # p
    BY <2>2, <1>4
  <2> QED
    BY <2>1, <2>2
<1>6. \A r \in Priority : \A k, l \in 1..Len(e[r]) : at(r, k) = at(r, l) => k = l
  <2> SUFFICES ASSUME NEW r \in Priority, NEW k \in 1..Len(e[r]), NEW l \in 1..Len(e[r]),
                      at(r, k) = at(r, l)
               PROVE  k = l
    OBVIOUS
  <2> QED
    OBVIOUS
<1>7. \A r \in Priority : e[r] # <<>> => q[r] # <<>>
  <2> SUFFICES ASSUME NEW r \in Priority, q[r] = <<>> PROVE e[r] = <<>>
    OBVIOUS
  <2>1. r # p
    BY <1>1
  <2> QED
    BY <2>1, <1>4
<1> HIDE DEF t, e, at
<1>8. \A r, u \in Priority : \A k \in 1..Len(e[r]), l \in 1..Len(e[u]) :
        e[r][k] = e[u][l] => r = u /\ k = l
  <2> SUFFICES ASSUME NEW r \in Priority, NEW u \in Priority,
                      NEW k \in 1..Len(e[r]), NEW l \in 1..Len(e[u]), e[r][k] = e[u][l]
               PROVE  r = u /\ k = l
    OBVIOUS
  <2>1. q[r][at(r, k)] = q[u][at(u, l)] /\ at(r, k) \in 1..Len(q[r]) /\ at(u, l) \in 1..Len(q[u])
    BY <1>5
  <2>2. r = u /\ at(r, k) = at(u, l)
    BY <2>1 DEF QueueOK
  <2> QED
    BY <2>2, <1>6
<1>9. \A r \in Priority : \A k \in 1..Len(e[r]) : e[r][k] \notin DOMAIN s /\ e[r][k] # q[p][i]
  <2> SUFFICES ASSUME NEW r \in Priority, NEW k \in 1..Len(e[r])
               PROVE  e[r][k] \notin DOMAIN s /\ e[r][k] # q[p][i]
    OBVIOUS
  <2>1. at(r, k) \in 1..Len(q[r]) /\ e[r][k] = q[r][at(r, k)] /\ ~(r = p /\ at(r, k) = i)
    BY <1>5
  <2> QED
    BY <2>1 DEF QueueOK
<1>10. QueueOK(e, s)
  BY <1>4, <1>8, <1>9 DEF QueueOK
<1>11. ~Holds(e, q[p][i])
  BY <1>9 DEF Holds
<1>12. q[p][i] \in Jobs \ DOMAIN s
  BY <1>2 DEF QueueOK
<1> QED
  BY <1>7, <1>10, <1>11, <1>12 DEF e

\* Insert() and InsertAtFront() of a job that is neither queued nor running.
LEMMA InsertOK ==
  ASSUME NEW q, NEW s, QueueOK(q, s), NEW p \in Priority, NEW at_head \in BOOLEAN,
         NEW j \in Jobs \ DOMAIN s, ~Holds(q, j)
  PROVE  /\ QueueOK(Insert(q, j, p, at_head), s)
         /\ \A r \in Priority : r # p => Insert(q, j, p, at_head)[r] = q[r]
<1> DEFINE t == IF at_head THEN <<j>> \o q[p] ELSE Append(q[p], j)
           e == Insert(q, j, p, at_head)
           new == IF at_head THEN 1 ELSE Len(q[p]) + 1
           at(r, k) == IF r = p /\ at_head THEN k - 1 ELSE k
<1>1. q \in [Priority -> Seq(Jobs)] /\ q[p] \in Seq(Jobs) /\ Len(q[p]) \in Nat
  BY DEF QueueOK
<1>3. /\ t \in Seq(Jobs)
      /\ Len(t) = Len(q[p]) + 1
      /\ t[new] = j
      /\ \A k \in 1..Len(t) : k # new => at(p, k) \in 1..Len(q[p]) /\ t[k] = q[p][at(p, k)]
  <2>1. CASE at_head
    <3>1. <<j>> \in Seq(Jobs) /\ Len(<<j>>) = 1 /\ <<j>>[1] = j
      OBVIOUS
    <3>2. t = <<j>> \o q[p] /\ t \in Seq(Jobs) /\ Len(t) = 1 + Len(q[p])
      BY <2>1, <3>1, <1>1, ConcatProperties
    <3>3. \A k \in 1..Len(t) : t[k] = IF k <= 1 THEN <<j>>[k] ELSE q[p][k - 1]
      BY <3>1, <3>2, <1>1, ConcatProperties
    <3> HIDE DEF t
    <3> QED
      BY <2>1, <3>1, <3>2, <3>3, <1>1
  <2>2. CASE ~at_head
    BY <2>2, <1>1, AppendProperties
  <2> QED
    BY <2>1, <2>2
<1>4. e \in [Priority -> Seq(Jobs)] /\ e[p] = t /\ \A r \in Priority : r # p => e[r] = q[r]
  <2> HIDE DEF t
  <2>1. e = [q EXCEPT ![p] = t]
    BY DEF Insert, t
  <2> QED
    BY <2>1, <1>1, <1>3
<1>5. \A r \in Priority : \A k \in 1..Len(e[r]) :
         \/ r = p /\ k = new /\ e[r][k] = j
         \/ at(r, k) \in 1..Len(q[r]) /\ e[r][k] = q[r][at(r, k)]
  <2> SUFFICES ASSUME NEW r \in Priority, NEW k \in 1..Len(e[r])
               PROVE  \/ r = p /\ k = new /\ e[r][k] = j
                      \/ at(r, k) \in 1..Len(q[r]) /\ e[r][k] = q[r][at(r, k)]
    OBVIOUS
  <2> HIDE DEF t, e
  <2>1. CASE r = p
    BY <2>1, <1>3, <1>4
  <2>2. CASE r # p
    BY <2>2, <1>4
  <2> QED
    BY <2>1, <2>2
<1>6. \A r \in Priority : \A k, l \in 1..Len(e[r]) : at(r, k) = at(r, l) => k = l
  <2> SUFFICES ASSUME NEW r \in Priority, NEW k \in 1..Len(e[r]), NEW l \in 1..Len(e[r]),
                      at(r, k) = at(r, l)
               PROVE  k = l
    OBVIOUS
  <2> HIDE DEF t, e
  <2> QED
    OBVIOUS
<1>7. \A r \in Priority : \A k \in 1..Len(q[r]) : q[r][k] # j /\ q[r][k] \notin DOMAIN s
  BY DEF Holds, QueueOK
<1> HIDE DEF t, e, at, new
<1>8. \A r, u \in Priority : \A k \in 1..Len(e[r]), l \in 1..Len(e[u]) :
        e[r][k] = e[u][l] => r = u /\ k = l
  <2> SUFFICES ASSUME NEW r \in Priority, NEW u \in Priority,
                      NEW k \in 1..Len(e[r]), NEW l \in 1..Len(e[u]), e[r][k] = e[u][l]
               PROVE  r = u /\ k = l
    OBVIOUS
  <2>1. CASE e[r][k] = j
    <3>1. r = p /\ k = new
      BY <2>1, <1>5, <1>7
    <3>2. u = p /\ l = new
      <4>1. e[u][l] = j
        BY <2>1
      <4> QED
        BY <4>1, <1>5, <1>7
    <3> QED
      BY <3>1, <3>2
  <2>2. CASE e[r][k] # j
    <3>1. q[r][at(r, k)] = q[u][at(u, l)] /\ at(r, k) \in 1..Len(q[r]) /\ at(u, l) \in 1..Len(q[u])
      BY <2>2, <1>5
    <3>2. r = u /\ at(r, k) = at(u, l)
      BY <3>1 DEF QueueOK
    <3> QED
      BY <3>2, <1>6
  <2> QED
    BY <2>1, <2>2
<1>9. \A r \in Priority : \A k \in 1..Len(e[r]) : e[r][k] \notin DOMAIN s
  BY <1>5, <1>7
<1>10. QueueOK(e, s)
  BY <1>4, <1>8, <1>9 DEF QueueOK
<1> QED
  BY <1>4, <1>10 DEF e

\* A queue stays right when a job that is not in it starts, and when one ends.
LEMMA QueueKept ==
  ASSUME NEW q, NEW s, QueueOK(q, s)
  PROVE  /\ \A j, p : ~Holds(q, j) => QueueOK(q, With(s, j, p))
         /\ \A j : QueueOK(q, But(s, j))
  BY DEF QueueOK, Holds, With, But

(***************************************************************************)
(* The running jobs.                                                       *)
(***************************************************************************)

\* A job that the limits permit starts: they, and so every limit set so far
\* that is above them, allow one more job at its priority and at higher ones.
LEMMA StartOK ==
  ASSUME NEW n, NEW s, NEW max, NEW top, RunningOK(n, s, top), LimitsOK(max, top),
         NEW p \in Priority, NEW j \in Jobs \ DOMAIN s, Permitted(n, max, p)
  PROVE  RunningOK(n + 1, With(s, j, p), top)
<1> DEFINE w == With(s, j, p)
<1>1. /\ DOMAIN w = DOMAIN s \cup {j}
      /\ w[j] = p
      /\ \A k \in DOMAIN s : w[k] = s[k]
  BY DEF With
<1>2. /\ IsFiniteSet(DOMAIN s) /\ n = Cardinality(DOMAIN s) /\ n \in Nat
      /\ \A k \in DOMAIN s : s[k] \in Priority
  BY JobsAssumption, FS_Subset, FS_CardinalityType DEF RunningOK
<1>3. Cardinality(DOMAIN w) = n + 1
  BY <1>1, <1>2, FS_AddElement
<1>4. DOMAIN w \subseteq Jobs /\ w \in [DOMAIN w -> Priority]
  BY <1>1, <1>2 DEF RunningOK, With
<1>5. ASSUME NEW r \in Priority
      PROVE  Cardinality(UpTo(w, r)) <= top[r]
  <2>1. p \in Nat /\ r \in Nat /\ top[r] \in Nat /\ max[r] \in Nat /\ max[p] \in Nat
    BY DEF Priority, LimitsOK, Increasing
  <2>2. UpTo(s, r) \in SUBSET DOMAIN s
    BY DEF UpTo
  <2>3. /\ IsFiniteSet(UpTo(s, r))
        /\ Cardinality(UpTo(s, r)) \in Nat
        /\ Cardinality(UpTo(s, r)) <= n
    BY <1>2, <2>2, FS_Subset, FS_CardinalityType
  <2>4. CASE r < p
    <3>1. UpTo(w, r) = UpTo(s, r)
      BY <1>1, <2>1, <2>4 DEF UpTo
    <3> QED
      BY <3>1 DEF RunningOK
  <2>5. CASE p <= r
    <3>1. UpTo(w, r) = UpTo(s, r) \cup {j}
      BY <1>1, <2>5 DEF UpTo
    <3>2. j \notin UpTo(s, r)
      BY DEF UpTo
    <3>3. Cardinality(UpTo(w, r)) = Cardinality(UpTo(s, r)) + 1
      BY <3>1, <3>2, <2>3, FS_AddElement
    <3>4. n < max[p] /\ max[p] <= max[r] /\ max[r] <= top[r]
      BY <2>5 DEF Permitted, LimitsOK, Increasing
    <3> QED
      BY <1>2, <2>1, <2>3, <3>3, <3>4
  <2> QED
    BY <2>1, <2>4, <2>5
<1> HIDE DEF w
<1>6. RunningOK(n + 1, w, top)
  BY <1>3, <1>4, <1>5 DEF RunningOK
<1> QED
  BY <1>6 DEF w

\* A job ends: one job less, and no priority has more.
LEMMA FinishOK ==
  ASSUME NEW n, NEW s, NEW top, RunningOK(n, s, top), top \in [Priority -> Nat],
         NEW j \in DOMAIN s
  PROVE  RunningOK(n - 1, But(s, j), top)
<1> DEFINE w == But(s, j)
<1>1. /\ DOMAIN w = DOMAIN s \ {j}
      /\ \A k \in DOMAIN w : w[k] = s[k]
  BY DEF But
<1>2. /\ IsFiniteSet(DOMAIN s) /\ n = Cardinality(DOMAIN s) /\ n \in Nat
      /\ \A k \in DOMAIN s : s[k] \in Priority
  BY JobsAssumption, FS_Subset, FS_CardinalityType DEF RunningOK
<1>3. Cardinality(DOMAIN w) = n - 1
  BY <1>1, <1>2, FS_RemoveElement
<1>4. DOMAIN w \subseteq Jobs /\ w \in [DOMAIN w -> Priority]
  BY <1>1, <1>2 DEF RunningOK, But
<1>5. ASSUME NEW r \in Priority
      PROVE  Cardinality(UpTo(w, r)) <= top[r]
  <2>1. UpTo(s, r) \in SUBSET DOMAIN s /\ UpTo(w, r) \in SUBSET UpTo(s, r)
    BY <1>1 DEF UpTo
  <2>2. IsFiniteSet(UpTo(s, r)) /\ IsFiniteSet(UpTo(w, r))
    BY <1>2, <2>1, FS_Subset
  <2>3. /\ Cardinality(UpTo(w, r)) <= Cardinality(UpTo(s, r))
        /\ Cardinality(UpTo(w, r)) \in Nat /\ Cardinality(UpTo(s, r)) \in Nat
    BY <2>1, <2>2, FS_Subset, FS_CardinalityType
  <2>4. Cardinality(UpTo(s, r)) <= top[r] /\ top[r] \in Nat
    BY DEF RunningOK
  <2> QED
    BY <2>3, <2>4
<1> HIDE DEF w
<1>6. RunningOK(n - 1, w, top)
  BY <1>3, <1>4, <1>5 DEF RunningOK
<1> QED
  BY <1>6 DEF w

\* A higher peak still bounds the running jobs.
LEMMA HigherPeakOK ==
  ASSUME NEW n, NEW s, NEW top, RunningOK(n, s, top), top \in [Priority -> Nat],
         NEW up \in [Priority -> Nat], \A p \in Priority : top[p] <= up[p]
  PROVE  RunningOK(n, s, up)
<1>1. IsFiniteSet(DOMAIN s)
  BY JobsAssumption, FS_Subset DEF RunningOK
<1>2. ASSUME NEW p \in Priority
      PROVE  Cardinality(UpTo(s, p)) <= up[p]
  <2>1. UpTo(s, p) \in SUBSET DOMAIN s
    BY DEF UpTo
  <2>2. Cardinality(UpTo(s, p)) \in Nat
    BY <1>1, <2>1, FS_Subset, FS_CardinalityType
  <2>3. Cardinality(UpTo(s, p)) <= top[p] /\ top[p] <= up[p] /\ top[p] \in Nat /\ up[p] \in Nat
    BY DEF RunningOK
  <2> QED
    BY <2>2, <2>3
<1> QED
  BY <1>2 DEF RunningOK

\* The number of running jobs is a number, and not zero while a job runs.
LEMMA RunningNumber ==
  ASSUME NEW n, NEW s, NEW top, RunningOK(n, s, top)
  PROVE  n \in Nat /\ (DOMAIN s # {} => n > 0)
<1>1. IsFiniteSet(DOMAIN s) /\ n = Cardinality(DOMAIN s)
  BY JobsAssumption, FS_Subset DEF RunningOK
<1>2. n \in Nat /\ (n = 0 <=> DOMAIN s = {})
  BY <1>1, FS_CardinalityType, FS_EmptySet
<1> QED
  BY <1>2

(***************************************************************************)
(* The limits.                                                             *)
(***************************************************************************)

\* A set of priorities has finitely many reserved slots, and no more than a
\* larger one.
LEMMA ReservedProperties ==
  ASSUME NEW limits, limits.reserved_slots \in [Priority -> Nat],
         NEW P \in SUBSET Priority, NEW Q \in SUBSET P
  PROVE  /\ IsFiniteSet(Slots(limits, P))
         /\ Reserved(limits, P) \in Nat
         /\ Reserved(limits, Q) \in Nat
         /\ Reserved(limits, Q) <= Reserved(limits, P)
<1> DEFINE of(p) == {p} \X (1..limits.reserved_slots[p])
           F == {of(p) : p \in P}
<1>1. IsFiniteSet(F)
  <2>1. IsFiniteSet(Priority)
    BY PrioritiesAssumption, FS_Interval DEF Priority
  <2>2. IsFiniteSet(P)
    BY <2>1, FS_Subset
  <2>3. [p \in P |-> of(p)] \in Surjection(P, F)
    BY DEF Surjection
  <2> HIDE DEF F, of
  <2> QED
    BY <2>2, <2>3, FS_Surjection
<1>2. \A T \in F : IsFiniteSet(T)
  <2> SUFFICES ASSUME NEW p \in P PROVE IsFiniteSet(of(p))
    OBVIOUS
  <2>1. IsFiniteSet({p}) /\ IsFiniteSet(1..limits.reserved_slots[p])
    <3>1. limits.reserved_slots[p] \in Int
      OBVIOUS
    <3>2. IsFiniteSet(1..limits.reserved_slots[p])
      BY <3>1, FS_Interval
    <3>3. IsFiniteSet({p})
      BY FS_Singleton
    <3> QED
      BY <3>2, <3>3
  <2> QED
    BY <2>1, FS_Product
<1>3. Slots(limits, P) = UNION F
  BY DEF Slots
<1>4. IsFiniteSet(Slots(limits, P))
  <2> HIDE DEF F
  <2> QED
    BY <1>1, <1>2, <1>3, FS_UNION
<1>5. Slots(limits, Q) \in SUBSET Slots(limits, P)
  BY DEF Slots
<1> QED
  BY <1>4, <1>5, FS_Subset, FS_CardinalityType DEF Reserved

\* The limits that SetLimits() computes grow with the priority.
LEMMA MaxRunningJobsIncreasing ==
  ASSUME NEW limits \in LimitsValues
  PROVE  Increasing(MaxRunningJobs(limits))
<1> DEFINE spare == limits.total_jobs - Reserved(limits, Priority)
<1>1. /\ limits.total_jobs \in Nat
      /\ limits.reserved_slots \in [Priority -> Nat]
      /\ Reserved(limits, Priority) <= limits.total_jobs
  BY LimitsAssumption
<1>2. Reserved(limits, Priority) \in Nat /\ spare \in Nat
  <2>1. Reserved(limits, Priority) \in Nat
    BY <1>1, ReservedProperties
  <2> QED
    BY <1>1, <2>1
<1>3. \A p, r \in Priority : p <= r =>
        /\ Reserved(limits, 0..p) \in Nat
        /\ Reserved(limits, 0..r) \in Nat
        /\ Reserved(limits, 0..p) <= Reserved(limits, 0..r)
  <2> SUFFICES ASSUME NEW p \in Priority, NEW r \in Priority, p <= r
               PROVE  /\ Reserved(limits, 0..p) \in Nat
                      /\ Reserved(limits, 0..r) \in Nat
                      /\ Reserved(limits, 0..p) <= Reserved(limits, 0..r)
    OBVIOUS
  <2>1. 0..r \in SUBSET Priority /\ 0..p \in SUBSET (0..r)
    BY PrioritiesAssumption DEF Priority
  <2> QED
    BY <1>1, <2>1, ReservedProperties
<1> HIDE DEF spare
<1>4. MaxRunningJobs(limits) = [p \in Priority |-> Reserved(limits, 0..p) + spare]
  BY DEF MaxRunningJobs, spare
<1>5. \A p \in Priority : p <= p
  BY DEF Priority
<1> QED
  BY <1>2, <1>3, <1>4, <1>5 DEF Increasing

\* The slots reserved for 1..p by limits that are the differences of increasing
\* maxima are as many as the maxima grow from 0 to p: slot k of priority r is
\* counted as number max[r - 1] + k.
LEMMA DifferencesSum ==
  ASSUME NEW max, Increasing(max), NEW limits,
         limits.reserved_slots = [r \in Priority |-> IF r = 0 THEN 0 ELSE max[r] - max[r - 1]],
         NEW p \in Priority
  PROVE  Reserved(limits, 0..p) = max[p] - max[0]
<1> DEFINE S == Slots(limits, 0..p)
           T == max[0] + 1..max[p]
           f == [x \in S |-> max[x[1] - 1] + x[2]]
<1>0. 0 \in Priority /\ p \in Nat /\ \A r \in 0..p : r \in Priority /\ max[r] \in Nat
  BY PrioritiesAssumption DEF Priority, Increasing
<1>1. \A r \in 0..p : limits.reserved_slots[r] = IF r = 0 THEN 0 ELSE max[r] - max[r - 1]
  BY <1>0
<1>2. \A x : x \in S <=> \E r \in 0..p : x \in {r} \X (1..limits.reserved_slots[r])
  BY DEF Slots
<1>3. \A x \in S : /\ x[1] \in 1..p
                   /\ x = <<x[1], x[2]>>
                   /\ x[2] \in 1..(max[x[1]] - max[x[1] - 1])
  <2> SUFFICES ASSUME NEW x \in S
               PROVE  /\ x[1] \in 1..p
                      /\ x = <<x[1], x[2]>>
                      /\ x[2] \in 1..(max[x[1]] - max[x[1] - 1])
    OBVIOUS
  <2>1. PICK r \in 0..p : x \in {r} \X (1..limits.reserved_slots[r])
    BY <1>2
  <2>2. x[1] = r /\ x[2] \in 1..limits.reserved_slots[r] /\ x = <<x[1], x[2]>>
    BY <2>1
  <2>3. r # 0
    BY <2>2, <1>1
  <2> QED
    BY <2>2, <2>3, <1>0, <1>1
<1>4. \A r \in 1..p : \A k \in 1..(max[r] - max[r - 1]) : <<r, k>> \in S
  <2> SUFFICES ASSUME NEW r \in 1..p, NEW k \in 1..(max[r] - max[r - 1])
               PROVE  <<r, k>> \in S
    OBVIOUS
  <2>1. r \in 0..p /\ limits.reserved_slots[r] = max[r] - max[r - 1]
    BY <1>0, <1>1
  <2>2. <<r, k>> \in {r} \X (1..limits.reserved_slots[r])
    BY <2>1
  <2> QED
    BY <2>1, <2>2, <1>2
<1>5. \A r, u \in 0..p : r <= u => max[r] <= max[u]
  BY <1>0 DEF Increasing
<1> HIDE DEF S
<1>6. f \in [S -> T]
  <2> SUFFICES ASSUME NEW x \in S PROVE max[x[1] - 1] + x[2] \in T
    OBVIOUS
  <2>1. x[1] \in 1..p /\ x[2] \in 1..(max[x[1]] - max[x[1] - 1])
    BY <1>3
  <2>2. x[1] - 1 \in 0..p /\ x[1] \in 0..p /\ 0 \in 0..p /\ p \in 0..p
    BY <2>1, <1>0
  <2>3. max[0] <= max[x[1] - 1] /\ max[x[1]] <= max[p]
    BY <2>1, <2>2, <1>0, <1>5
  <2>4. max[0] \in Nat /\ max[x[1] - 1] \in Nat /\ max[x[1]] \in Nat /\ max[p] \in Nat
    BY <2>2, <1>0
  <2> QED
    BY <2>1, <2>3, <2>4
<1>7. \A x, y \in S : f[x] = f[y] => x = y
  <2> SUFFICES ASSUME NEW x \in S, NEW y \in S, x[1] < y[1]
               PROVE  f[x] < f[y]
    <3> SUFFICES ASSUME NEW x \in S, NEW y \in S, f[x] = f[y] PROVE x = y
      OBVIOUS
    <3>1. x[1] \in Nat /\ y[1] \in Nat /\ f[x] \in Int /\ f[y] \in Int
      BY <1>0, <1>3, <1>6
    <3>2. ~(x[1] < y[1]) /\ ~(y[1] < x[1])
      BY <3>1
    <3>3. x[1] = y[1]
      BY <3>1, <3>2
    <3>4. max[x[1] - 1] \in Nat /\ x[2] \in Nat /\ y[2] \in Nat
      BY <1>0, <1>3
    <3>5. x[2] = y[2]
      BY <3>3, <3>4
    <3> QED
      BY <3>3, <3>5, <1>3
  <2>1. /\ x[1] \in 1..p /\ x[2] \in 1..(max[x[1]] - max[x[1] - 1])
        /\ y[1] \in 1..p /\ y[2] \in 1..(max[y[1]] - max[y[1] - 1])
    BY <1>3
  <2>2. x[1] - 1 \in 0..p /\ x[1] \in 0..p /\ y[1] - 1 \in 0..p /\ x[1] <= y[1] - 1
    BY <2>1, <1>0
  <2>3. max[x[1] - 1] \in Nat /\ max[x[1]] \in Nat /\ max[y[1] - 1] \in Nat
    BY <2>2, <1>0
  <2>4. max[x[1]] <= max[y[1] - 1]
    BY <2>2, <1>5
  <2> QED
    BY <2>1, <2>3, <2>4
<1>8. \A v \in T : \E x \in S : f[x] = v
  <2> SUFFICES ASSUME NEW v \in T PROVE \E x \in S : f[x] = v
    OBVIOUS
  <2> DEFINE below == {r \in 0..p : max[r] < v}
  <2>1. v \in Nat /\ max[0] < v /\ v <= max[p]
    BY <1>0
  <2>2. below \in SUBSET Priority /\ below # {}
    BY <2>1, <1>0
  <2>3. PICK r \in below : \A u \in below : u <= r
    <3> HIDE DEF below
    <3> QED
      BY <2>2, GreatestPriority
  <2>4. r \in 0..p /\ max[r] < v /\ r # p
    BY <2>1, <1>0
  <2>5. r + 1 \in 1..p /\ r + 1 \in 0..p
    BY <2>4, <1>0
  <2>6. r + 1 \notin below
    BY <2>3, <2>4
  <2>7. v <= max[r + 1] /\ max[r] \in Nat /\ max[r + 1] \in Nat
    BY <2>1, <2>4, <2>5, <2>6, <1>0
  <2>8. v - max[r] \in 1..(max[r + 1] - max[(r + 1) - 1])
    BY <2>1, <2>4, <2>7
  <2>9. <<r + 1, v - max[r]>> \in S
    BY <2>5, <2>8, <1>4
  <2>10. f[<<r + 1, v - max[r]>>] = v
    BY <2>1, <2>4, <2>7, <2>9
  <2> QED
    BY <2>9, <2>10
<1>9. ExistsBijection(S, T)
  <2> HIDE DEF f, T
  <2>1. f \in Bijection(S, T)
    BY <1>6, <1>7, <1>8 DEF Bijection, Injection, IsInjective, Surjection
  <2> QED
    BY <2>1 DEF ExistsBijection
<1>10. max[0] \in Nat /\ max[p] \in Nat /\ max[0] <= max[p]
  BY <1>0, <1>5
<1>11. IsFiniteSet(T) /\ Cardinality(T) = max[p] - max[0]
  <2>1. max[0] + 1 \in Int /\ max[p] \in Int
    BY <1>10
  <2>2. /\ IsFiniteSet(T)
        /\ Cardinality(T) = IF max[0] + 1 > max[p] THEN 0 ELSE max[p] - (max[0] + 1) + 1
    BY <2>1, FS_Interval, Zenon
  <2> HIDE DEF T
  <2> QED
    BY <1>10, <2>2
<1>12. ExistsBijection(T, S)
  <2> HIDE DEF T
  <2> QED
    BY <1>9, Fun_ExistsBijSymmetric
<1>13. Cardinality(S) = Cardinality(T)
  <2> HIDE DEF T
  <2> QED
    BY <1>11, <1>12, FS_Bijection
<1> QED
  BY <1>11, <1>13 DEF Reserved, S

(***************************************************************************)
(* The steps.                                                              *)
(***************************************************************************)

\* A queue whose first job may not start holds no job that may: the limits of
\* lower priorities are lower.
LEMMA NoneToDispatch ==
  ASSUME NEW q, NEW n \in Nat, NEW max, Increasing(max), ~CanDispatchNext(q, n, max)
  PROVE  AtLimit(q, n, max)
<1> SUFFICES ASSUME NEW p \in Priority, q[p] # <<>> PROVE n >= max[p]
  BY DEF AtLimit
<1>1. Levels(q) # {}
  BY DEF Levels
<1>2. FirstMax(q) \in Priority /\ p <= FirstMax(q)
  BY <1>1, FirstMaxIsHighest
<1>3. ~(n < max[FirstMax(q)])
  BY <1>1 DEF CanDispatchNext, Permitted
<1>4. max[p] <= max[FirstMax(q)] /\ max[p] \in Nat /\ max[FirstMax(q)] \in Nat
  BY <1>2 DEF Increasing
<1> QED
  BY <1>3, <1>4

\* MaybeDispatchNextJob(): the job taken from the queue is the one that starts.
LEMMA DispatchOK ==
  ASSUME NEW q, NEW n, NEW s, NEW max, NEW top,
         QueueOK(q, s), RunningOK(n, s, top), LimitsOK(max, top),
         MaybeDispatchNextJob(q, n, s, max)
  PROVE  /\ QueueOK(queue', started')
         /\ RunningOK(num_running_jobs', started', top)
         /\ CanDispatchNext(q, n, max) => num_running_jobs' = n + 1
         /\ ~CanDispatchNext(q, n, max) => AtLimit(queue', num_running_jobs', max)
         /\ \A r \in Priority : queue'[r] # <<>> => q[r] # <<>>
<1>1. CASE CanDispatchNext(q, n, max)
  <2> DEFINE p == FirstMax(q)
             j == q[p][1]
  <2>1. p \in Priority /\ q[p] # <<>> /\ Permitted(n, max, p)
    BY <1>1, FirstMaxIsHighest DEF CanDispatchNext
  <2>2. q[p] \in Seq(Jobs) /\ 1 \in 1..Len(q[p]) /\ Head(q[p]) = j
    <3>1. q[p] \in Seq(Jobs)
      BY <2>1 DEF QueueOK
    <3> HIDE DEF p
    <3> QED
      BY <2>1, <3>1, EmptySeq
  <2>3. queue' = Erase(q, p, 1) /\ num_running_jobs' = n + 1 /\ started' = With(s, j, p)
    BY <1>1, <2>2 DEF MaybeDispatchNextJob
  <2> HIDE DEF p
  <2>4. /\ QueueOK(Erase(q, p, 1), s)
        /\ ~Holds(Erase(q, p, 1), j)
        /\ j \in Jobs \ DOMAIN s
        /\ \A r \in Priority : Erase(q, p, 1)[r] # <<>> => q[r] # <<>>
    BY <2>1, <2>2, EraseOK
  <2>5. QueueOK(queue', started')
    BY <2>3, <2>4, QueueKept
  <2>6. RunningOK(num_running_jobs', started', top)
    BY <2>1, <2>3, <2>4, StartOK
  <2> QED
    BY <1>1, <2>3, <2>4, <2>5, <2>6
<1>2. CASE ~CanDispatchNext(q, n, max)
  <2>1. queue' = q /\ num_running_jobs' = n /\ started' = s
    BY <1>2 DEF MaybeDispatchNextJob
  <2>2. AtLimit(q, n, max)
    BY <1>2, NoneToDispatch, RunningNumber DEF LimitsOK
  <2> QED
    BY <1>2, <2>1, <2>2
<1> QED
  BY <1>1, <1>2

\* The dispatcher starts empty.
LEMMA InitOK == Init => IInv
<1> SUFFICES ASSUME Init PROVE IInv
  OBVIOUS
<1>1. \A p \in Priority : queue[p] = <<>>
  BY DEF Init
<1>2. QueueOK(queue, started)
  BY DEF Init, QueueOK
<1>3. Increasing(max_running_jobs) /\ peak = max_running_jobs
  BY MaxRunningJobsIncreasing DEF Init
<1>4. LimitsOK(max_running_jobs, peak)
  BY <1>3 DEF LimitsOK, Increasing
<1>5. RunningOK(num_running_jobs, started, peak)
  <2>1. DOMAIN started = {} /\ \A p \in Priority : UpTo(started, p) = {}
    BY DEF Init, UpTo
  <2>2. started \in [DOMAIN started -> Priority]
    BY DEF Init
  <2>3. Cardinality(DOMAIN started) = 0 /\ \A p \in Priority : Cardinality(UpTo(started, p)) = 0
    BY <2>1, FS_EmptySet
  <2>4. num_running_jobs = 0 /\ \A p \in Priority : peak[p] \in Nat
    BY <1>3 DEF Init, Increasing
  <2>5. \A p \in Priority : Cardinality(UpTo(started, p)) <= peak[p]
    BY <2>3, <2>4
  <2> QED
    BY <2>1, <2>2, <2>3, <2>4, <2>5 DEF RunningOK
<1>6. AtLimit(queue, num_running_jobs, max_running_jobs)
  BY <1>1 DEF AtLimit
<1> QED
  BY <1>2, <1>4, <1>5, <1>6, PrioritiesAssumption DEF IInv, Init

\* Every method, and every iteration of the loop of SetLimits(), keeps IInv.
LEMMA NextOK == IInv /\ [Next]_vars => IInv'
<1> SUFFICES ASSUME IInv, [Next]_vars PROVE IInv'
  OBVIOUS
<1>0. /\ QueueOK(queue, started)
      /\ RunningOK(num_running_jobs, started, peak)
      /\ LimitsOK(max_running_jobs, peak)
      /\ Increasing(max_running_jobs)
      /\ num_running_jobs \in Nat
      /\ loops \in 0..MaxLoops
      /\ loops = 0 => AtLimit(queue, num_running_jobs, max_running_jobs)
      /\ \A p \in Priority : max_running_jobs[p] \in Nat
  BY RunningNumber DEF IInv, LimitsOK, Increasing
<1>1. ASSUME NEW j \in Jobs, NEW p \in Priority, NEW at_head \in BOOLEAN, Add(j, p, at_head)
      PROVE  IInv'
  <2>0. UNCHANGED <<max_running_jobs, peak, loops>> /\ ~Holds(queue, j) /\ j \in Jobs \ DOMAIN started
    BY <1>1 DEF Add, Known, IsQueued, Holds
  <2>1. CASE Permitted(num_running_jobs, max_running_jobs, p)
    <3>1. /\ queue' = queue
          /\ num_running_jobs' = num_running_jobs + 1
          /\ started' = With(started, j, p)
      BY <1>1, <2>1 DEF Add, Start
    <3>2. QueueOK(queue', started')
      BY <1>0, <2>0, <3>1, QueueKept
    <3>3. RunningOK(num_running_jobs', started', peak)
      BY <1>0, <2>0, <2>1, <3>1, StartOK
    <3>4. loops = 0 => AtLimit(queue', num_running_jobs', max_running_jobs)
      BY <1>0, <3>1 DEF AtLimit
    <3> QED
      BY <1>0, <2>0, <3>2, <3>3, <3>4 DEF IInv
  <2>2. CASE ~Permitted(num_running_jobs, max_running_jobs, p)
    <3>1. queue' = Insert(queue, j, p, at_head) /\ UNCHANGED <<num_running_jobs, started>>
      BY <1>1, <2>2 DEF Add
    <3>2. QueueOK(queue', started') /\ \A r \in Priority : r # p => queue'[r] = queue[r]
      BY <1>0, <2>0, <3>1, InsertOK
    <3>3. num_running_jobs >= max_running_jobs[p]
      BY <1>0, <2>2 DEF Permitted
    <3>4. loops = 0 => AtLimit(queue', num_running_jobs', max_running_jobs)
      BY <1>0, <3>1, <3>2, <3>3 DEF AtLimit
    <3> QED
      BY <1>0, <2>0, <3>1, <3>2, <3>4 DEF IInv
  <2> QED
    BY <2>1, <2>2
<1>2. ASSUME NEW p \in Priority, NEW i \in 1..Len(queue[p]), Cancel(p, i)
      PROVE  IInv'
  <2>1. /\ queue' = Erase(queue, p, i)
        /\ UNCHANGED <<max_running_jobs, num_running_jobs, started, peak, loops>>
    BY <1>2 DEF Cancel
  <2>2. QueueOK(queue', started') /\ \A r \in Priority : queue'[r] # <<>> => queue[r] # <<>>
    BY <1>0, <2>1, EraseOK
  <2>3. loops = 0 => AtLimit(queue', num_running_jobs', max_running_jobs)
    BY <1>0, <2>1, <2>2 DEF AtLimit
  <2> QED
    BY <1>0, <2>1, <2>2, <2>3 DEF IInv
<1>3. ASSUME EvictOldestLowest
      PROVE  IInv'
  <2> DEFINE p == FirstMin(queue)
  <2>1. /\ queue' = Erase(queue, p, 1)
        /\ UNCHANGED <<max_running_jobs, num_running_jobs, started, peak, loops>>
    BY <1>3 DEF EvictOldestLowest
  <2>2. p \in Priority /\ queue[p] # <<>>
    BY <1>3, FirstMinIsLevel DEF EvictOldestLowest
  <2> HIDE DEF p
  <2>3. 1 \in 1..Len(queue[p])
    <3>1. queue[p] \in Seq(Jobs)
      BY <1>0, <2>2 DEF QueueOK
    <3> QED
      BY <2>2, <3>1, EmptySeq
  <2>4. QueueOK(queue', started') /\ \A r \in Priority : queue'[r] # <<>> => queue[r] # <<>>
    BY <1>0, <2>1, <2>2, <2>3, EraseOK
  <2>5. loops = 0 => AtLimit(queue', num_running_jobs', max_running_jobs)
    BY <1>0, <2>1, <2>4 DEF AtLimit
  <2> QED
    BY <1>0, <2>1, <2>4, <2>5 DEF IInv
<1>4. ASSUME NEW from \in Priority, NEW i \in 1..Len(queue[from]), NEW to \in Priority,
             ChangePriority(from, i, to)
      PROVE  IInv'
  <2> DEFINE e == Erase(queue, from, i)
             j == queue[from][i]
  <2>0. /\ UNCHANGED <<max_running_jobs, peak, loops>>
        /\ QueueOK(e, started)
        /\ ~Holds(e, j)
        /\ j \in Jobs \ DOMAIN started
        /\ \A r \in Priority : e[r] # <<>> => queue[r] # <<>>
    BY <1>0, <1>4, EraseOK DEF ChangePriority
  <2>1. CASE Permitted(num_running_jobs, max_running_jobs, to)
    <3>1. /\ queue' = e
          /\ num_running_jobs' = num_running_jobs + 1
          /\ started' = With(started, j, to)
      BY <1>4, <2>1 DEF ChangePriority, Start
    <3> HIDE DEF e, j
    <3>2. QueueOK(queue', started')
      BY <2>0, <3>1, QueueKept
    <3>3. RunningOK(num_running_jobs', started', peak)
      BY <1>0, <2>0, <2>1, <3>1, StartOK
    <3>4. loops = 0 => AtLimit(queue', num_running_jobs', max_running_jobs)
      BY <1>0, <2>0, <3>1 DEF AtLimit
    <3> QED
      BY <1>0, <2>0, <3>2, <3>3, <3>4 DEF IInv
  <2>2. CASE ~Permitted(num_running_jobs, max_running_jobs, to)
    <3>1. queue' = Insert(e, j, to, FALSE) /\ UNCHANGED <<num_running_jobs, started>>
      BY <1>4, <2>2 DEF ChangePriority
    <3> HIDE DEF e, j
    <3>2. QueueOK(queue', started') /\ \A r \in Priority : r # to => queue'[r] = e[r]
      <4>1. QueueOK(Insert(e, j, to, FALSE), started)
        BY <2>0, InsertOK
      <4>2. \A r \in Priority : r # to => Insert(e, j, to, FALSE)[r] = e[r]
        BY <2>0 DEF Insert, QueueOK
      <4> QED
        BY <3>1, <4>1, <4>2
    <3>3. num_running_jobs >= max_running_jobs[to]
      BY <1>0, <2>2 DEF Permitted
    <3>4. loops = 0 => AtLimit(queue', num_running_jobs', max_running_jobs)
      BY <1>0, <2>0, <3>1, <3>2, <3>3 DEF AtLimit
    <3> QED
      BY <1>0, <2>0, <3>1, <3>2, <3>4 DEF IInv
  <2> QED
    BY <2>1, <2>2
<1>5. ASSUME NEW j \in Jobs, OnJobFinished(j)
      PROVE  IInv'
  <2>1. /\ j \in DOMAIN started
        /\ MaybeDispatchNextJob(queue, num_running_jobs - 1, But(started, j), max_running_jobs)
        /\ UNCHANGED <<max_running_jobs, peak, loops>>
    BY <1>5 DEF OnJobFinished
  <2>2. QueueOK(queue, But(started, j)) /\ RunningOK(num_running_jobs - 1, But(started, j), peak)
    BY <1>0, <2>1, QueueKept, FinishOK DEF LimitsOK
  <2>3. /\ QueueOK(queue', started')
        /\ RunningOK(num_running_jobs', started', peak)
        /\ CanDispatchNext(queue, num_running_jobs - 1, max_running_jobs)
             => num_running_jobs' = (num_running_jobs - 1) + 1
        /\ ~CanDispatchNext(queue, num_running_jobs - 1, max_running_jobs)
             => AtLimit(queue', num_running_jobs', max_running_jobs)
        /\ \A r \in Priority : queue'[r] # <<>> => queue[r] # <<>>
    BY <1>0, <2>1, <2>2, DispatchOK
  <2>4. loops = 0 => AtLimit(queue', num_running_jobs', max_running_jobs)
    <3>1. CASE CanDispatchNext(queue, num_running_jobs - 1, max_running_jobs)
      <4>1. num_running_jobs' = num_running_jobs
        BY <1>0, <2>3, <3>1
      <4> QED
        BY <1>0, <2>3, <4>1 DEF AtLimit
    <3> QED
      BY <2>3, <3>1
  <2> QED
    BY <1>0, <2>1, <2>3, <2>4 DEF IInv
<1>6. ASSUME NEW limits \in LimitsValues, SetLimits(limits)
      PROVE  IInv'
  <2> DEFINE max == MaxRunningJobs(limits)
             up == Higher(peak, max)
  <2>1. /\ max_running_jobs' = max
        /\ peak' = up
        /\ loops < MaxLoops
        /\ MaybeDispatchNextJob(queue, num_running_jobs, started, max)
        /\ loops' = IF CanDispatchNext(queue, num_running_jobs, max) THEN loops + 1 ELSE loops
    BY <1>6 DEF SetLimits
  <2>2. Increasing(max)
    BY MaxRunningJobsIncreasing
  <2> HIDE DEF max
  <2>3. LimitsOK(max, up) /\ \A p \in Priority : peak[p] <= up[p]
    BY <1>0, <2>2 DEF LimitsOK, Increasing, Higher
  <2>4. up \in [Priority -> Nat] /\ peak \in [Priority -> Nat]
    BY <1>0, <2>3 DEF LimitsOK
  <2> HIDE DEF up
  <2>5. RunningOK(num_running_jobs, started, up)
    BY <1>0, <2>3, <2>4, HigherPeakOK
  <2>6. /\ QueueOK(queue', started')
        /\ RunningOK(num_running_jobs', started', up)
        /\ ~CanDispatchNext(queue, num_running_jobs, max) => AtLimit(queue', num_running_jobs', max)
    BY <1>0, <2>1, <2>3, <2>5, DispatchOK
  <2>7. loops' \in 0..MaxLoops
    BY <1>0, <2>1, PrioritiesAssumption
  <2>8. loops' = 0 => AtLimit(queue', num_running_jobs', max)
    BY <1>0, <2>1, <2>6
  <2> QED
    BY <2>1, <2>3, <2>6, <2>7, <2>8 DEF IInv
<1>7. ASSUME SetLimitsLoop
      PROVE  IInv'
  <2>1. /\ UNCHANGED <<max_running_jobs, peak>>
        /\ loops > 0
        /\ MaybeDispatchNextJob(queue, num_running_jobs, started, max_running_jobs)
        /\ loops' = IF CanDispatchNext(queue, num_running_jobs, max_running_jobs)
                    THEN loops ELSE loops - 1
    BY <1>7 DEF SetLimitsLoop
  <2>2. /\ QueueOK(queue', started')
        /\ RunningOK(num_running_jobs', started', peak)
        /\ ~CanDispatchNext(queue, num_running_jobs, max_running_jobs)
             => AtLimit(queue', num_running_jobs', max_running_jobs)
    BY <1>0, <2>1, DispatchOK
  <2>3. loops' \in 0..MaxLoops /\ (loops' = 0 => AtLimit(queue', num_running_jobs', max_running_jobs))
    BY <1>0, <2>1, <2>2, PrioritiesAssumption
  <2> QED
    BY <1>0, <2>1, <2>2, <2>3 DEF IInv
<1>8. CASE UNCHANGED vars
  BY <1>8 DEF vars, IInv
<1> QED
  BY <1>1, <1>2, <1>3, <1>4, <1>5, <1>6, <1>7, <1>8 DEF Next

(***************************************************************************)
(* The theorems.                                                           *)
(***************************************************************************)

\* IInv holds in every reachable state.
THEOREM Invariance == Spec => []IInv
  BY InitOK, NextOK, PTL DEF Spec

\* What IInv says of the state a client sees.
LEMMA Consequences == IInv => TypeOK /\ JobsTracked /\ NoIdleSlot /\ ReservedSlotsKept
<1> SUFFICES ASSUME IInv PROVE TypeOK /\ JobsTracked /\ NoIdleSlot /\ ReservedSlotsKept
  OBVIOUS
<1>1. num_running_jobs \in Nat
  BY RunningNumber DEF IInv
<1>2. TypeOK
  BY <1>1 DEF IInv, TypeOK, QueueOK, RunningOK, LimitsOK, Increasing
<1>3. JobsTracked
  BY DEF IInv, JobsTracked, QueueOK, RunningOK
<1>4. NoIdleSlot
  BY DEF IInv, NoIdleSlot, QueuedOnlyAtLimit, AtLimit
<1>5. ReservedSlotsKept
  BY DEF IInv, ReservedSlotsKept, RunningAtMost, RunningOK, UpTo
<1> QED
  BY <1>2, <1>3, <1>4, <1>5

\* The members keep their types; in particular num_running_jobs_ stays a number.
THEOREM TypeCorrect == Spec => []TypeOK
  BY Invariance, Consequences, PTL

\* num_running_jobs_ counts the running jobs, and no job is queued twice or
\* while it runs.
THEOREM JobsAreTracked == Spec => []JobsTracked
  BY Invariance, Consequences, PTL

\* Outside the loop of SetLimits() no queued job may start.
THEOREM SlotsAreUsed == Spec => []NoIdleSlot
  BY Invariance, Consequences, PTL

\* Lower priorities never use the slots reserved for higher ones.
THEOREM ReservationsHold == Spec => []ReservedSlotsKept
  BY Invariance, Consequences, PTL

\* GetLimits() returns limits that SetLimits() turns into the same maxima.
LEMMA RoundTrip ==
  ASSUME Increasing(max_running_jobs)
  PROVE  LimitsRoundTrip
<1> DEFINE max == max_running_jobs
           top == NumPriorities - 1
<1>1. 0 \in Priority /\ top \in Priority /\ Priority = 0..top
  BY PrioritiesAssumption DEF Priority
<1>2. /\ GetLimits.total_jobs = max[top]
      /\ GetLimits.reserved_slots = [r \in Priority |-> IF r = 0 THEN 0 ELSE max[r] - max[r - 1]]
  BY DEF GetLimits
<1> HIDE DEF max, top
<1>3. \A p \in Priority : Reserved(GetLimits, 0..p) = max[p] - max[0]
  BY <1>2, DifferencesSum DEF max
<1>4. Reserved(GetLimits, Priority) = max[top] - max[0]
  BY <1>1, <1>3
<1>5. max \in [Priority -> Nat]
  BY DEF Increasing, max
<1>6. \A p \in Priority : max[p] - max[0] + (max[top] - (max[top] - max[0])) = max[p]
  BY <1>1, <1>5
<1>7. \A p \in Priority : MaxRunningJobs(GetLimits)[p] = max[p]
  BY <1>2, <1>3, <1>4, <1>6 DEF MaxRunningJobs
<1>8. DOMAIN MaxRunningJobs(GetLimits) = Priority
  BY DEF MaxRunningJobs
<1>9. MaxRunningJobs(GetLimits) = max
  BY <1>5, <1>7, <1>8 DEF MaxRunningJobs
<1> QED
  BY <1>9 DEF LimitsRoundTrip, max

\* Saving the limits and setting them again changes nothing.
THEOREM LimitsSurvive == Spec => []LimitsRoundTrip
<1>1. IInv => LimitsRoundTrip
  BY RoundTrip DEF IInv, LimitsOK
<1> QED
  BY <1>1, Invariance, PTL

\* A step that starts a job leaves none of a higher priority in the queue.
LEMMA StartsMostUrgent ==
  ASSUME IInv, [Next]_vars, loops = 0,
         NEW j \in DOMAIN started' \ DOMAIN started, NEW r \in Priority, r > started'[j]
  PROVE  queue'[r] = <<>>
<1>0. /\ QueueOK(queue, started)
      /\ Increasing(max_running_jobs)
      /\ num_running_jobs \in Nat
      /\ AtLimit(queue, num_running_jobs, max_running_jobs)
      /\ \A p \in Priority : max_running_jobs[p] \in Nat
  BY RunningNumber DEF IInv, LimitsOK, Increasing
<1>1. ASSUME NEW p \in Priority, Permitted(num_running_jobs, max_running_jobs, p), r > p
      PROVE  queue[r] = <<>>
  <2>1. num_running_jobs < max_running_jobs[p] /\ max_running_jobs[p] <= max_running_jobs[r]
    BY <1>0, <1>1 DEF Permitted, Increasing, Priority
  <2> QED
    BY <1>0, <2>1 DEF AtLimit
<1>2. ASSUME NEW n, NEW s, NEW max, MaybeDispatchNextJob(queue, n, s, max),
             DOMAIN s \subseteq DOMAIN started
      PROVE  queue'[r] = <<>>
  <2>1. CanDispatchNext(queue, n, max)
    BY <1>2 DEF MaybeDispatchNextJob
  <2> DEFINE p == FirstMax(queue)
  <2>2. p \in Priority /\ \A u \in Priority : queue[u] # <<>> => u <= p
    BY <2>1, FirstMaxIsHighest DEF CanDispatchNext
  <2>3. queue' = Erase(queue, p, 1) /\ started' = With(s, Head(queue[p]), p)
    BY <1>2, <2>1 DEF MaybeDispatchNextJob
  <2> HIDE DEF p
  <2>4. started'[j] = p
    BY <1>2, <2>3 DEF With
  <2>5. queue[r] = <<>> /\ r # p
    BY <2>2, <2>4 DEF Priority
  <2>6. queue'[r] = queue[r]
    BY <1>0, <2>2, <2>3, <2>5 DEF Erase, QueueOK
  <2> QED
    BY <2>5, <2>6
<1>3. ASSUME NEW k \in Jobs, NEW p \in Priority, NEW at_head \in BOOLEAN, Add(k, p, at_head)
      PROVE  queue'[r] = <<>>
  <2>1. /\ Permitted(num_running_jobs, max_running_jobs, p)
        /\ queue' = queue
        /\ started' = With(started, k, p)
    BY <1>3 DEF Add, Start
  <2>2. started'[j] = p
    BY <2>1 DEF With
  <2> QED
    BY <1>1, <2>1, <2>2
<1>4. ASSUME NEW from \in Priority, NEW i \in 1..Len(queue[from]), NEW to \in Priority,
             ChangePriority(from, i, to)
      PROVE  queue'[r] = <<>>
  <2>1. /\ Permitted(num_running_jobs, max_running_jobs, to)
        /\ queue' = Erase(queue, from, i)
        /\ started' = With(started, queue[from][i], to)
    BY <1>4 DEF ChangePriority, Start
  <2>2. started'[j] = to
    BY <2>1 DEF With
  <2>3. queue[r] = <<>>
    BY <1>1, <2>1, <2>2
  <2>4. queue'[r] # <<>> => queue[r] # <<>>
    BY <1>0, <2>1, EraseOK
  <2> QED
    BY <2>3, <2>4
<1>5. ASSUME NEW k \in Jobs, OnJobFinished(k)
      PROVE  queue'[r] = <<>>
  <2>1. DOMAIN But(started, k) \subseteq DOMAIN started
    BY DEF But
  <2> QED
    BY <1>2, <1>5, <2>1 DEF OnJobFinished
<1>6. ASSUME NEW limits \in LimitsValues, SetLimits(limits)
      PROVE  queue'[r] = <<>>
  BY <1>2, <1>6 DEF SetLimits
<1>7. ~SetLimitsLoop
  BY DEF SetLimitsLoop
<1>8. /\ ~EvictOldestLowest
      /\ ~UNCHANGED vars
      /\ \A p \in Priority : \A i \in 1..Len(queue[p]) : ~Cancel(p, i)
  BY DEF EvictOldestLowest, Cancel, vars
<1> QED
  BY <1>3, <1>4, <1>5, <1>6, <1>7, <1>8 DEF Next

\* Outside the loop of SetLimits() jobs start in the order of their priorities.
THEOREM MostUrgentStarts == Spec => NoOvertaking
<1> DEFINE A == loops = 0 =>
                  \A j \in DOMAIN started' \ DOMAIN started : \A p \in Priority :
                     p > started'[j] => queue'[p] = <<>>
<1>1. IInv /\ [Next]_vars => [A]_vars
  BY StartsMostUrgent
<1> QED
  BY <1>1, Invariance, PTL DEF Spec, NoOvertaking
=============================================================================
