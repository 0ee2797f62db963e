------------------------ MODULE ClientSocketPoolSlots ------------------------
(***************************************************************************)
(* As long as no Connect() fails at once, ClientSocketPool leaves no free  *)
(* slot unused: a group that could use another socket is left waiting only *)
(* when the pool is spent.  That needs two facts about each group: idle    *)
(* sockets are not kept from those who wait, and a job that nobody asked   *)
(* for is one more than those who wait need.                               *)
(***************************************************************************)
EXTENDS ClientSocketPoolProofs

\* The requests, jobs, active sockets, spare jobs and idle sockets of a group.
Waits(p, g) == Len(p.pending[g])
Jobs(p, g) == p.jobs[g]
Active(p, g) == p.active[g]
Spare(p, g) == p.unassigned[g]
Idle(p, g) == Len(p.idle[g])

\* There is no slot, and no idle socket that could be closed to make one.
Spent(p) == ReachedMaxSocketsLimit(p) /\ p.idle_socket_count = 0

\* The slots that closing idle sockets does not free.
Taken(p) == p.handed_out_socket_count + p.connecting_socket_count

\* Idle sockets are not kept from those who wait; spare jobs are not needed by them.
Sound(p, g) ==
  /\ Waits(p, g) > Jobs(p, g) => Idle(p, g) = 0
  /\ Spare(p, g) > 0 => Waits(p, g) + Spare(p, g) <= Jobs(p, g)

\* Group g waits for a slot that its own limit would allow.
Unused(p, g) == CanUseAdditionalSocketSlot(p, g)

\* The inductive invariant of the slots.
SlotInv(p) ==
  /\ \A g \in Groups : Sound(p, g)
  /\ Spent(p) \/ \A g \in Groups : ~Unused(p, g)

\* Group k of q is that of p, except that idle sockets may be gone.
Alike(p, q, k) ==
  /\ Waits(q, k) = Waits(p, k)
  /\ Jobs(q, k) = Jobs(p, k)
  /\ Active(q, k) = Active(p, k)
  /\ Spare(q, k) = Spare(p, k)
  /\ Idle(q, k) <= Idle(p, k)

\* These are natural numbers.
Numbers(p, g) ==
  /\ Waits(p, g) \in Nat
  /\ Jobs(p, g) \in Nat
  /\ Active(p, g) \in Nat
  /\ Spare(p, g) \in Nat
  /\ Idle(p, g) \in Nat

\* The numbers of a pool are numbers.
LEMMA PoolNumbers ==
  ASSUME NEW p \in PoolType
  PROVE  /\ \A g \in Groups : Numbers(p, g)
         /\ p.idle_socket_count \in Nat /\ Taken(p) \in Nat
         /\ max_sockets \in Nat /\ max_sockets_per_group \in Nat
         /\ Spent(p) <=> Taken(p) >= max_sockets /\ p.idle_socket_count = 0
         /\ ReachedMaxSocketsLimit(p) <=> Taken(p) + p.idle_socket_count >= max_sockets
<1>1. \A g \in Groups : Numbers(p, g)
  BY PoolFields, PoolCounts DEF Numbers, Waits, Jobs, Active, Spare, Idle
<1>2. /\ p.idle_socket_count \in Nat /\ p.handed_out_socket_count \in Nat
      /\ p.connecting_socket_count \in Nat
  BY PoolFields
<1>3. max_sockets \in Nat /\ max_sockets_per_group \in Nat
  BY LimitsAssumption
<1> QED
  BY <1>1, <1>2, <1>3 DEF Taken, Spent, ReachedMaxSocketsLimit, TotalSockets

\* When a group could use a slot.
LEMMA UnusedMeans ==
  ASSUME NEW p, NEW g, Numbers(p, g)
  PROVE  Unused(p, g) <=> /\ Waits(p, g) > Jobs(p, g)
                          /\ Active(p, g) + Jobs(p, g) + Idle(p, g) < max_sockets_per_group
  BY DEF Unused, CanUseAdditionalSocketSlot, HasAvailableSocketSlot, NumActiveSocketSlots,
         Waits, Jobs, Active, Idle

\* A group that is alike, or loses idle sockets, has no new use for a slot.
LEMMA AlikeSound ==
  ASSUME NEW p, NEW q, NEW k, Numbers(p, k), Numbers(q, k), Alike(p, q, k), Sound(p, k)
  PROVE  Sound(q, k) /\ (Unused(p, k) <=> Unused(q, k))
<1>1. Sound(q, k)
  BY DEF Sound, Alike, Numbers
<1>2. CASE Waits(p, k) > Jobs(p, k)
  <2>1. Idle(p, k) = 0 /\ Idle(q, k) = 0
    BY <1>2 DEF Sound, Alike, Numbers
  <2> QED
    BY <1>1, <2>1, UnusedMeans DEF Alike
<1>3. CASE ~(Waits(p, k) > Jobs(p, k))
  BY <1>1, <1>3, UnusedMeans DEF Alike
<1> QED
  BY <1>2, <1>3

\* Idle sockets may go at any time.
LEMMA FewerIdle ==
  ASSUME NEW p \in PoolType, NEW q \in PoolType, SlotInv(p),
         \A k \in Groups : Alike(p, q, k),
         Taken(q) = Taken(p), q.idle_socket_count <= p.idle_socket_count
  PROVE  SlotInv(q)
<1>1. \A k \in Groups : Numbers(p, k) /\ Numbers(q, k)
  BY PoolNumbers
<1>2. \A k \in Groups : Sound(q, k) /\ (Unused(p, k) <=> Unused(q, k))
  BY <1>1, AlikeSound DEF SlotInv
<1>3. Spent(p) => Spent(q)
  BY PoolNumbers
<1> QED
  BY <1>2, <1>3 DEF SlotInv

(***************************************************************************)
(* Between two calls of a method that frees a slot of group g the          *)
(* invariant is off by that slot: the pool is spent but for one socket, or *)
(* g alone can use a slot, and only one.                                   *)
(***************************************************************************)

\* Group g has a use for one slot at most.
OneWanted(p, g) ==
  \/ Waits(p, g) <= Jobs(p, g) + 1
  \/ Active(p, g) + Jobs(p, g) >= max_sockets_per_group - 1

\* At most one slot is left, counting an idle socket that can be closed.
OneLeft(p) == Taken(p) >= max_sockets - 1 /\ p.idle_socket_count <= 1

\* Nobody but g has a use for a slot.
OnlyIn(p, g) == OneWanted(p, g) /\ \A k \in Groups \ {g} : ~Unused(p, k)

\* As Sound(), but for the one socket that may have become idle.
Loose(p, g) ==
  /\ Waits(p, g) > Jobs(p, g) => Idle(p, g) <= 1
  /\ Spare(p, g) > 0 => Waits(p, g) + Spare(p, g) <= Jobs(p, g)

\* The invariant, off by one slot of g.
Almost(p, g) ==
  /\ Loose(p, g)
  /\ \A k \in Groups \ {g} : Sound(p, k)
  /\ OneLeft(p) \/ OnlyIn(p, g)

\* A slot of group g becomes free: its socket is gone or idle, or its job is gone,
\* with the request it was for or without.
Frees(p, q, g) ==
  /\ \A k \in Groups \ {g} : Alike(p, q, k)
  /\ Taken(q) = Taken(p) - 1
  /\ q.idle_socket_count <= p.idle_socket_count + 1
  /\ Active(q, g) + Jobs(q, g) = Active(p, g) + Jobs(p, g) - 1
  /\ Waits(q, g) - Jobs(q, g) <= Waits(p, g) - Jobs(p, g) + 1
  /\ Loose(q, g)

\* What is off by one after that.
LEMMA FreesAlmost ==
  ASSUME NEW p \in PoolType, NEW q \in PoolType, NEW g \in Groups, SlotInv(p), Frees(p, q, g)
  PROVE  Almost(q, g)
<1>1. \A k \in Groups : Numbers(p, k) /\ Numbers(q, k)
  BY PoolNumbers
<1>2. \A k \in Groups \ {g} : Sound(q, k) /\ (Unused(p, k) <=> Unused(q, k))
  BY <1>1, AlikeSound DEF SlotInv, Frees
<1>3. CASE Spent(p)
  <2>1. OneLeft(q)
    BY <1>3, PoolNumbers DEF Frees, OneLeft
  <2> QED
    BY <1>2, <2>1 DEF Almost, Frees
<1>4. CASE \A k \in Groups : ~Unused(p, k)
  <2>1. OneWanted(q, g)
    <3>1. /\ Active(q, g) + Jobs(q, g) = Active(p, g) + Jobs(p, g) - 1
          /\ Waits(q, g) - Jobs(q, g) <= Waits(p, g) - Jobs(p, g) + 1
          /\ Waits(p, g) > Jobs(p, g) => Idle(p, g) = 0
          /\ max_sockets_per_group \in Nat
      BY PoolNumbers DEF Frees, SlotInv, Sound
    <3>2. ~Unused(p, g) /\ Numbers(p, g) /\ Numbers(q, g)
      BY <1>1, <1>4
    <3> QED
      BY <3>1, <3>2, UnusedMeans DEF OneWanted, Numbers
  <2>2. OnlyIn(q, g)
    BY <1>2, <1>4, <2>1 DEF OnlyIn
  <2> QED
    BY <1>2, <2>2 DEF Almost, Frees
<1> QED
  BY <1>3, <1>4 DEF SlotInv

\* What serving the head of the queue of group g can come to: it takes a slot, or
\* there is a reason why it does not.
Got(p, q, g) ==
  /\ Taken(q) = Taken(p) + 1
  /\ Spare(q, g) = Spare(p, g)
  /\ Idle(q, g) = 0 \/ Idle(q, g) < Idle(p, g)
  /\ \/ /\ Waits(q, g) = Waits(p, g) - 1
        /\ Active(q, g) = Active(p, g) + 1
        /\ Jobs(q, g) = Jobs(p, g)
     \/ /\ Waits(q, g) = Waits(p, g)
        /\ Active(q, g) = Active(p, g)
        /\ Jobs(q, g) = Jobs(p, g) + 1

Kept(p, q, g) ==
  /\ Taken(q) = Taken(p)
  /\ Waits(q, g) = Waits(p, g)
  /\ Active(q, g) = Active(p, g)
  /\ Jobs(q, g) = Jobs(p, g)
  /\ \/ /\ Spare(q, g) = Spare(p, g)
        /\ Idle(q, g) = Idle(p, g)
        /\ Waits(p, g) = 0 \/ (Idle(p, g) = 0 /\ ~Unused(p, g))
     \/ /\ Spare(p, g) > 0
        /\ Spare(q, g) = Spare(p, g) - 1
        /\ Idle(q, g) = 0
     \/ /\ Spare(q, g) = Spare(p, g)
        /\ Idle(q, g) = 0
        /\ Active(q, g) + Jobs(q, g) >= max_sockets_per_group \/ Spent(q)

Fed(p, q, g) ==
  /\ \A k \in Groups \ {g} : Alike(p, q, k)
  /\ q.idle_socket_count <= p.idle_socket_count
  /\ Idle(q, g) <= Idle(p, g)
  /\ Got(p, q, g) \/ Kept(p, q, g)

\* OnAvailableSocketSlot() leaves nothing idle that somebody waits for.
LEMMA FedAlmost ==
  ASSUME NEW p \in PoolType, NEW q \in PoolType, NEW g \in Groups, Almost(p, g), Fed(p, q, g)
  PROVE  Almost(q, g) /\ Sound(q, g)
<1>1. \A k \in Groups : Numbers(p, k) /\ Numbers(q, k)
  BY PoolNumbers
<1>2. \A k \in Groups \ {g} : Sound(q, k) /\ (Unused(p, k) <=> Unused(q, k))
  BY <1>1, AlikeSound DEF Almost, Fed
<1>n. Numbers(p, g) /\ Numbers(q, g)
  BY <1>1
<1>3. Sound(q, g)
  <2>1. Loose(p, g) /\ Idle(q, g) <= Idle(p, g)
    BY DEF Almost, Fed
  <2>2. CASE Got(p, q, g)
    BY <1>n, <2>1, <2>2 DEF Got, Sound, Loose, Numbers
  <2>3. CASE Kept(p, q, g)
    BY <1>n, <2>1, <2>3 DEF Kept, Sound, Loose, Numbers
  <2> QED
    BY <2>2, <2>3 DEF Fed
<1>4. Loose(q, g)
  BY <1>3, <1>n DEF Sound, Loose
<1>5. Taken(q) >= Taken(p) /\ q.idle_socket_count <= p.idle_socket_count
  BY PoolNumbers DEF Fed, Got, Kept
<1>6. CASE OneLeft(p)
  <2>1. OneLeft(q)
    BY <1>5, <1>6, PoolNumbers DEF OneLeft
  <2> QED
    BY <1>2, <1>3, <1>4, <2>1 DEF Almost
<1>7. CASE OnlyIn(p, g)
  <2>m. max_sockets_per_group \in Nat
    BY PoolNumbers
  <2>1. /\ Waits(q, g) - Jobs(q, g) <= Waits(p, g) - Jobs(p, g)
        /\ Active(q, g) + Jobs(q, g) >= Active(p, g) + Jobs(p, g)
    BY <1>n DEF Fed, Got, Kept, Numbers
  <2>2. OneWanted(q, g)
    BY <1>7, <1>n, <2>m, <2>1 DEF OnlyIn, OneWanted, Numbers
  <2>3. OnlyIn(q, g)
    BY <1>2, <1>7, <2>2 DEF OnlyIn
  <2> QED
    BY <1>2, <1>3, <1>4, <2>3 DEF Almost
<1> QED
  BY <1>6, <1>7 DEF Almost

\* A stalled group that is served uses up the slot that was left, unless the pool
\* has no slot for it.
LEMMA FedSlots ==
  ASSUME NEW p \in PoolType, NEW q \in PoolType, NEW f \in Groups, NEW g \in Groups,
         \A k \in Groups : Sound(p, k), Unused(p, g), Fed(p, q, g),
         \/ Taken(p) >= max_sockets - 1 /\ p.idle_socket_count = 0
         \/ OnlyIn(p, f)
  PROVE  SlotInv(q)
<1>1. \A k \in Groups : Numbers(p, k) /\ Numbers(q, k)
  BY PoolNumbers
<1>2. \A k \in Groups \ {g} : Sound(q, k) /\ (Unused(p, k) <=> Unused(q, k))
  BY <1>1, AlikeSound DEF Fed
<1>n. Numbers(p, g) /\ Numbers(q, g) /\ max_sockets_per_group \in Nat
  BY <1>1, PoolNumbers
<1>u. /\ Waits(p, g) > Jobs(p, g) /\ Idle(p, g) = 0 /\ Spare(p, g) = 0
      /\ Active(p, g) + Jobs(p, g) < max_sockets_per_group
  <2>1. /\ Waits(p, g) > Jobs(p, g)
        /\ Active(p, g) + Jobs(p, g) + Idle(p, g) < max_sockets_per_group
    BY <1>n, UnusedMeans
  <2>2. Idle(p, g) = 0 /\ Spare(p, g) = 0
    BY <1>n, <2>1 DEF Sound, Numbers
  <2> QED
    BY <1>n, <2>1, <2>2 DEF Numbers
<1>i. Idle(q, g) = 0
  BY <1>n, <1>u DEF Fed, Numbers
<1>3. CASE Kept(p, q, g)
  <2>1. Spent(q)
    BY <1>n, <1>u, <1>3 DEF Kept, Numbers
  <2>2. Sound(q, g)
    BY <1>n, <1>u, <1>i, <1>3 DEF Sound, Kept, Numbers
  <2> QED
    BY <1>2, <2>1, <2>2 DEF SlotInv
<1>4. CASE Got(p, q, g)
  <2>1. Sound(q, g)
    BY <1>n, <1>u, <1>i, <1>4 DEF Sound, Got, Numbers
  <2>2. CASE Taken(p) >= max_sockets - 1 /\ p.idle_socket_count = 0
    <3>1. Spent(q)
      BY <1>4, <2>2, PoolNumbers DEF Got, Fed
    <3> QED
      BY <1>2, <2>1, <3>1 DEF SlotInv
  <2>3. CASE OnlyIn(p, f)
    <3>1. f = g
      BY <2>3 DEF OnlyIn
    <3>2. OneWanted(p, g)
      BY <2>3, <3>1 DEF OnlyIn
    <3>3. ~(/\ Waits(q, g) > Jobs(q, g)
            /\ Active(q, g) + Jobs(q, g) + Idle(q, g) < max_sockets_per_group)
      BY <1>n, <1>i, <1>4, <3>2 DEF OneWanted, Got, Numbers
    <3>4. ~Unused(q, g)
      BY <1>n, <3>3, UnusedMeans
    <3> QED
      BY <1>2, <2>1, <2>3, <3>1, <3>4 DEF SlotInv, OnlyIn
  <2> QED
    BY <2>2, <2>3
<1> QED
  BY <1>3, <1>4 DEF Fed

-------------------------------------------------------------------------------
(* What the elementary updates do to the slots. *)

\* Nothing that concerns the slots differs in p and q.
SameSlots(p, q) ==
  /\ q.pending = p.pending
  /\ q.jobs = p.jobs
  /\ q.unassigned = p.unassigned
  /\ q.idle = p.idle
  /\ q.active = p.active
  /\ q.idle_socket_count = p.idle_socket_count
  /\ q.connecting_socket_count = p.connecting_socket_count
  /\ q.handed_out_socket_count = p.handed_out_socket_count

\* From p to q group g has w more requests, j more jobs, a more active and i more
\* idle sockets.
Change(p, q, g, w, j, a, i) ==
  /\ \A k \in Groups \ {g} : Alike(p, q, k)
  /\ Waits(q, g) = Waits(p, g) + w
  /\ Jobs(q, g) = Jobs(p, g) + j
  /\ Active(q, g) = Active(p, g) + a
  /\ Idle(q, g) = Idle(p, g) + i
  /\ Taken(q) = Taken(p) + j + a
  /\ q.idle_socket_count = p.idle_socket_count + i

\* What does not concern the slots keeps what is said of them.
LEMMA SameSlotsInv ==
  ASSUME NEW p, NEW q, SameSlots(p, q)
  PROVE  /\ SlotInv(p) => SlotInv(q)
         /\ \A g : Almost(p, g) => Almost(q, g)
         /\ \A g : Sound(p, g) => Sound(q, g)
<1>1. \A g : /\ Waits(q, g) = Waits(p, g) /\ Jobs(q, g) = Jobs(p, g) /\ Active(q, g) = Active(p, g)
             /\ Spare(q, g) = Spare(p, g) /\ Idle(q, g) = Idle(p, g)
             /\ Unused(q, g) <=> Unused(p, g)
  BY DEF SameSlots, Waits, Jobs, Active, Spare, Idle, Unused, CanUseAdditionalSocketSlot,
         HasAvailableSocketSlot, NumActiveSocketSlots
<1>2. Taken(q) = Taken(p) /\ q.idle_socket_count = p.idle_socket_count /\ (Spent(q) <=> Spent(p))
  BY DEF SameSlots, Taken, Spent, ReachedMaxSocketsLimit, TotalSockets
<1>3. \A g : /\ Sound(p, g) <=> Sound(q, g)
             /\ Loose(p, g) <=> Loose(q, g)
             /\ OneWanted(p, g) <=> OneWanted(q, g)
  BY <1>1 DEF Sound, Loose, OneWanted
<1>4. /\ SlotInv(p) => SlotInv(q)
      /\ OneLeft(p) <=> OneLeft(q)
      /\ \A g : OnlyIn(p, g) <=> OnlyIn(q, g)
  BY <1>1, <1>2, <1>3 DEF SlotInv, OneLeft, OnlyIn
<1> QED
  BY <1>3, <1>4 DEF Almost

\* It is a change by nothing.
LEMMA SameSlotsChange ==
  ASSUME NEW p \in PoolType, NEW q \in PoolType, NEW g \in Groups, SameSlots(p, q)
  PROVE  Change(p, q, g, 0, 0, 0, 0) /\ Spare(q, g) = Spare(p, g)
<1>1. Numbers(p, g) /\ \A k \in Groups : Numbers(p, k)
  BY PoolNumbers
<1>2. \A k : /\ Waits(q, k) = Waits(p, k) /\ Jobs(q, k) = Jobs(p, k) /\ Active(q, k) = Active(p, k)
             /\ Spare(q, k) = Spare(p, k) /\ Idle(q, k) = Idle(p, k)
  BY DEF SameSlots, Waits, Jobs, Active, Spare, Idle
<1>3. Taken(q) = Taken(p) /\ q.idle_socket_count = p.idle_socket_count
  BY DEF SameSlots, Taken
<1>4. Taken(p) \in Nat /\ p.idle_socket_count \in Nat
  BY PoolNumbers
<1>5. \A k \in Groups : Alike(p, q, k)
  BY <1>1, <1>2 DEF Alike, Numbers
<1> QED
  BY <1>1, <1>2, <1>3, <1>4, <1>5 DEF Change, Numbers

\* Two changes of one group are one.
LEMMA ChangeTwice ==
  ASSUME NEW p \in PoolType, NEW q \in PoolType, NEW z \in PoolType, NEW g \in Groups,
         NEW w \in Int, NEW j \in Int, NEW a \in Int, NEW i \in Int,
         NEW w2 \in Int, NEW j2 \in Int, NEW a2 \in Int, NEW i2 \in Int,
         Change(p, q, g, w, j, a, i), Change(q, z, g, w2, j2, a2, i2)
  PROVE  Change(p, z, g, w + w2, j + j2, a + a2, i + i2)
<1>1. \A k \in Groups : Numbers(p, k) /\ Numbers(q, k) /\ Numbers(z, k)
  BY PoolNumbers
<1>2. /\ Taken(p) \in Nat /\ p.idle_socket_count \in Nat
      /\ Taken(q) \in Nat /\ q.idle_socket_count \in Nat
  BY PoolNumbers
<1>3. \A k \in Groups \ {g} : Alike(p, z, k)
  BY <1>1 DEF Change, Alike, Numbers
<1> QED
  BY <1>1, <1>2, <1>3 DEF Change, Numbers

\* HandOutSocket(): one more active socket.
LEMMA HandOutSocketChange ==
  ASSUME NEW p \in PoolType, NEW g \in Groups, NEW h, NEW s
  PROVE  LET q == HandOutSocket(p, g, h, s)
         IN  Change(p, q, g, 0, 0, 1, 0) /\ Spare(q, g) = Spare(p, g)
<1> DEFINE q == HandOutSocket(p, g, h, s)
<1>1. /\ q.pending = p.pending /\ q.jobs = p.jobs /\ q.unassigned = p.unassigned
      /\ q.idle = p.idle /\ q.active = [p.active EXCEPT ![g] = p.active[g] + 1]
      /\ q.idle_socket_count = p.idle_socket_count
      /\ q.connecting_socket_count = p.connecting_socket_count
      /\ q.handed_out_socket_count = p.handed_out_socket_count + 1
  BY DEF HandOutSocket, PoolType
<1> HIDE DEF q
<1>2. /\ p.active \in [Groups -> Nat] /\ p.connecting_socket_count \in Nat
      /\ p.handed_out_socket_count \in Nat /\ p.idle_socket_count \in Nat
  BY PoolFields
<1>3. /\ \A k : Waits(q, k) = Waits(p, k) /\ Jobs(q, k) = Jobs(p, k)
                /\ Spare(q, k) = Spare(p, k) /\ Idle(q, k) = Idle(p, k)
      /\ \A k \in Groups \ {g} : Active(q, k) = Active(p, k)
      /\ Active(q, g) = Active(p, g) + 1
  BY <1>1, <1>2 DEF Waits, Jobs, Active, Spare, Idle
<1>4. Taken(q) = Taken(p) + 0 + 1 /\ q.idle_socket_count = p.idle_socket_count + 0
  BY <1>1, <1>2 DEF Taken
<1>5. \A k \in Groups : Numbers(p, k)
  BY PoolNumbers
<1>6. \A k \in Groups \ {g} : Alike(p, q, k)
  BY <1>3, <1>5 DEF Alike, Numbers
<1> QED
  BY <1>3, <1>4, <1>5, <1>6 DEF Change, Numbers, q

\* A new ConnectJob, spare if it is for a preconnect.
LEMMA AddJobChange ==
  ASSUME NEW p \in PoolType, NEW g \in Groups, NEW pre \in BOOLEAN
  PROVE  LET q == AddJob(p, g, pre)
         IN  /\ Change(p, q, g, 0, 1, 0, 0)
             /\ Spare(q, g) = IF pre THEN Spare(p, g) + 1 ELSE Spare(p, g)
<1> DEFINE q == AddJob(p, g, pre)
           u == IF pre THEN p.unassigned[g] + 1 ELSE p.unassigned[g]
<1>1. /\ q.pending = p.pending /\ q.jobs = [p.jobs EXCEPT ![g] = p.jobs[g] + 1]
      /\ q.unassigned = [p.unassigned EXCEPT ![g] = u]
      /\ q.idle = p.idle /\ q.active = p.active
      /\ q.idle_socket_count = p.idle_socket_count
      /\ q.connecting_socket_count = p.connecting_socket_count + 1
      /\ q.handed_out_socket_count = p.handed_out_socket_count
  BY DEF AddJob, PoolType
<1> HIDE DEF q
<1>2. /\ p.jobs \in [Groups -> Nat] /\ p.unassigned \in [Groups -> Nat]
      /\ p.connecting_socket_count \in Nat /\ p.handed_out_socket_count \in Nat
      /\ p.idle_socket_count \in Nat
  BY PoolFields
<1>3. /\ \A k : Waits(q, k) = Waits(p, k) /\ Active(q, k) = Active(p, k) /\ Idle(q, k) = Idle(p, k)
      /\ \A k \in Groups \ {g} : Jobs(q, k) = Jobs(p, k) /\ Spare(q, k) = Spare(p, k)
      /\ Jobs(q, g) = Jobs(p, g) + 1 /\ Spare(q, g) = u
  BY <1>1, <1>2 DEF Waits, Jobs, Active, Spare, Idle
<1>4. Taken(q) = Taken(p) + 1 + 0 /\ q.idle_socket_count = p.idle_socket_count + 0
  BY <1>1, <1>2 DEF Taken
<1>5. \A k \in Groups : Numbers(p, k)
  BY PoolNumbers
<1>6. \A k \in Groups \ {g} : Alike(p, q, k)
  BY <1>3, <1>5 DEF Alike, Numbers
<1>7. u = IF pre THEN Spare(p, g) + 1 ELSE Spare(p, g)
  BY DEF Spare
<1> QED
  BY <1>3, <1>4, <1>5, <1>6, <1>7 DEF Change, Numbers, q

\* RemoveConnectJob(): one job less, and no more spare ones than jobs.
LEMMA RemoveConnectJobChange ==
  ASSUME NEW p \in PoolType, NEW g \in Groups
  PROVE  LET q == RemoveConnectJob(p, g)
         IN  /\ Change(p, q, g, 0, -1, 0, 0)
             /\ Spare(q, g) = IF Jobs(p, g) - 1 < Spare(p, g) THEN Jobs(p, g) - 1 ELSE Spare(p, g)
<1> DEFINE q == RemoveConnectJob(p, g)
           u == IF p.jobs[g] - 1 < p.unassigned[g] THEN p.jobs[g] - 1 ELSE p.unassigned[g]
<1>1. /\ q.pending = p.pending /\ q.jobs = [p.jobs EXCEPT ![g] = p.jobs[g] - 1]
      /\ q.unassigned = [p.unassigned EXCEPT ![g] = u]
      /\ q.idle = p.idle /\ q.active = p.active
      /\ q.idle_socket_count = p.idle_socket_count
      /\ q.connecting_socket_count = p.connecting_socket_count - 1
      /\ q.handed_out_socket_count = p.handed_out_socket_count
  BY DEF RemoveConnectJob, PoolType
<1> HIDE DEF q
<1>2. /\ p.jobs \in [Groups -> Nat] /\ p.unassigned \in [Groups -> Nat]
      /\ p.connecting_socket_count \in Nat /\ p.handed_out_socket_count \in Nat
      /\ p.idle_socket_count \in Nat
  BY PoolFields
<1>3. /\ \A k : Waits(q, k) = Waits(p, k) /\ Active(q, k) = Active(p, k) /\ Idle(q, k) = Idle(p, k)
      /\ \A k \in Groups \ {g} : Jobs(q, k) = Jobs(p, k) /\ Spare(q, k) = Spare(p, k)
      /\ Jobs(q, g) = Jobs(p, g) - 1 /\ Spare(q, g) = u
  BY <1>1, <1>2 DEF Waits, Jobs, Active, Spare, Idle
<1>4. Taken(q) = Taken(p) + (-1) + 0 /\ q.idle_socket_count = p.idle_socket_count + 0
  BY <1>1, <1>2 DEF Taken
<1>5. \A k \in Groups : Numbers(p, k)
  BY PoolNumbers
<1>6. \A k \in Groups \ {g} : Alike(p, q, k)
  BY <1>3, <1>5 DEF Alike, Numbers
<1>7. u = IF Jobs(p, g) - 1 < Spare(p, g) THEN Jobs(p, g) - 1 ELSE Spare(p, g)
  BY DEF Spare, Jobs
<1> QED
  BY <1>3, <1>4, <1>5, <1>6, <1>7 DEF Change, Numbers, q

\* AddIdleSocket(): one more idle socket.
LEMMA AddIdleSocketChange ==
  ASSUME NEW p \in PoolType, NEW g \in Groups, NEW s \in Socket
  PROVE  LET q == AddIdleSocket(p, g, s)
         IN  Change(p, q, g, 0, 0, 0, 1) /\ Spare(q, g) = Spare(p, g)
<1> DEFINE q == AddIdleSocket(p, g, s)
<1>1. /\ q.pending = p.pending /\ q.jobs = p.jobs /\ q.unassigned = p.unassigned
      /\ q.idle = [p.idle EXCEPT ![g] = Append(p.idle[g], s)] /\ q.active = p.active
      /\ q.idle_socket_count = p.idle_socket_count + 1
      /\ q.connecting_socket_count = p.connecting_socket_count
      /\ q.handed_out_socket_count = p.handed_out_socket_count
  BY DEF AddIdleSocket, PoolType
<1> HIDE DEF q
<1>2. /\ p.idle \in [Groups -> Seq(Socket)] /\ p.connecting_socket_count \in Nat
      /\ p.handed_out_socket_count \in Nat /\ p.idle_socket_count \in Nat
  BY PoolFields
<1>a. Len(Append(p.idle[g], s)) = Len(p.idle[g]) + 1
  BY <1>2, AppendProperties
<1>3. /\ \A k : Waits(q, k) = Waits(p, k) /\ Jobs(q, k) = Jobs(p, k)
                /\ Spare(q, k) = Spare(p, k) /\ Active(q, k) = Active(p, k)
      /\ \A k \in Groups \ {g} : Idle(q, k) = Idle(p, k)
      /\ Idle(q, g) = Idle(p, g) + 1
  BY <1>1, <1>2, <1>a DEF Waits, Jobs, Active, Spare, Idle
<1>4. Taken(q) = Taken(p) + 0 + 0 /\ q.idle_socket_count = p.idle_socket_count + 1
  BY <1>1, <1>2 DEF Taken
<1>5. \A k \in Groups : Numbers(p, k)
  BY PoolNumbers
<1>6. \A k \in Groups \ {g} : Alike(p, q, k)
  BY <1>3, <1>5 DEF Alike, Numbers
<1> QED
  BY <1>3, <1>4, <1>5, <1>6 DEF Change, Numbers, q

\* Group g has another queue s, with w more requests.
NewQueue(p, q, g, s, w) ==
  /\ w \in Int /\ Len(s) = Len(p.pending[g]) + w
  /\ q.pending = [p.pending EXCEPT ![g] = s]
  /\ q.jobs = p.jobs
  /\ q.unassigned = p.unassigned
  /\ q.idle = p.idle
  /\ q.active = p.active
  /\ q.idle_socket_count = p.idle_socket_count
  /\ q.connecting_socket_count = p.connecting_socket_count
  /\ q.handed_out_socket_count = p.handed_out_socket_count

\* Another queue changes only how many wait.
LEMMA PendingChange ==
  ASSUME NEW p \in PoolType, NEW q, NEW g \in Groups, NEW s, NEW w, NewQueue(p, q, g, s, w)
  PROVE  Change(p, q, g, w, 0, 0, 0) /\ Spare(q, g) = Spare(p, g)
<1>1. /\ p.pending \in [Groups -> Seq(Request)] /\ p.connecting_socket_count \in Nat
      /\ p.handed_out_socket_count \in Nat /\ p.idle_socket_count \in Nat
  BY PoolFields
<1>2. /\ \A k : Jobs(q, k) = Jobs(p, k) /\ Idle(q, k) = Idle(p, k)
                /\ Spare(q, k) = Spare(p, k) /\ Active(q, k) = Active(p, k)
      /\ \A k \in Groups \ {g} : Waits(q, k) = Waits(p, k)
      /\ Waits(q, g) = Waits(p, g) + w
  BY <1>1 DEF NewQueue, Waits, Jobs, Active, Spare, Idle
<1>3. Taken(q) = Taken(p) + 0 + 0 /\ q.idle_socket_count = p.idle_socket_count + 0
  BY <1>1 DEF NewQueue, Taken
<1>4. \A k \in Groups : Numbers(p, k)
  BY PoolNumbers
<1>5. \A k \in Groups \ {g} : Alike(p, q, k)
  BY <1>2, <1>4 DEF Alike, Numbers
<1> QED
  BY <1>2, <1>3, <1>4, <1>5 DEF Change, Numbers

\* RemovePendingRequest(): one request less.
LEMMA RemovePendingRequestChange ==
  ASSUME NEW p \in PoolType, NEW g \in Groups, NEW i \in 1 .. Len(p.pending[g])
  PROVE  LET q == RemovePendingRequest(p, g, i)
         IN  Change(p, q, g, -1, 0, 0, 0) /\ Spare(q, g) = Spare(p, g)
<1> DEFINE q == RemovePendingRequest(p, g, i)
           s == RemoveAt(p.pending[g], i)
           w == -1
<1>1. /\ q.pending = [p.pending EXCEPT ![g] = s] /\ q.jobs = p.jobs /\ q.unassigned = p.unassigned
      /\ q.idle = p.idle /\ q.active = p.active
      /\ q.idle_socket_count = p.idle_socket_count
      /\ q.connecting_socket_count = p.connecting_socket_count
      /\ q.handed_out_socket_count = p.handed_out_socket_count
  BY DEF RemovePendingRequest, PoolType
<1>2. Len(s) = Len(p.pending[g]) + w /\ w \in Int
  <2>1. p.pending[g] \in Seq(Request)
    BY PoolFields
  <2>2. Len(s) = Len(p.pending[g]) - 1 /\ Len(p.pending[g]) \in Nat
    BY <2>1, RemoveAtProperties, LenProperties
  <2> QED
    BY <2>2
<1> HIDE DEF q, s, w
<1>3. NewQueue(p, q, g, s, w)
  BY <1>1, <1>2 DEF NewQueue
<1>4. Change(p, q, g, w, 0, 0, 0) /\ Spare(q, g) = Spare(p, g)
  BY <1>3, PendingChange
<1> QED
  BY <1>4 DEF q, w

\* InsertPendingRequest(): one request more.
LEMMA InsertPendingRequestChange ==
  ASSUME NEW p \in PoolType, NEW g \in Groups, NEW r \in Request
  PROVE  LET q == InsertPendingRequest(p, g, r)
         IN  Change(p, q, g, 1, 0, 0, 0) /\ Spare(q, g) = Spare(p, g)
<1> DEFINE q == InsertPendingRequest(p, g, r)
           B == {i \in 1 .. Len(p.pending[g]) : p.pending[g][i].priority >= r.priority}
           pos == IF r.respect_limits = "DISABLED" THEN 1 ELSE 1 + Cardinality(B)
           s == InsertAt(p.pending[g], pos, r)
<1>1. /\ q.pending = [p.pending EXCEPT ![g] = s] /\ q.jobs = p.jobs /\ q.unassigned = p.unassigned
      /\ q.idle = p.idle /\ q.active = p.active
      /\ q.idle_socket_count = p.idle_socket_count
      /\ q.connecting_socket_count = p.connecting_socket_count
      /\ q.handed_out_socket_count = p.handed_out_socket_count
  BY DEF InsertPendingRequest, PoolType
<1>2. Len(s) = Len(p.pending[g]) + 1
  <2>1. p.pending[g] \in Seq(Request)
    BY PoolFields
  <2>2. Len(p.pending[g]) \in Nat
    BY <2>1, LenProperties
  <2>3. Cardinality(B) \in 0 .. Len(p.pending[g])
    <3>1. IsFiniteSet(1 .. Len(p.pending[g])) /\ Cardinality(1 .. Len(p.pending[g])) = Len(p.pending[g])
      BY <2>2, IntervalCardinality
    <3>2. B \subseteq 1 .. Len(p.pending[g])
      OBVIOUS
    <3> HIDE DEF B
    <3>3. Cardinality(B) <= Len(p.pending[g]) /\ Cardinality(B) \in Nat
      BY <3>1, <3>2, FS_Subset, FS_CardinalityType
    <3> QED
      BY <2>2, <3>3
  <2> HIDE DEF B
  <2>4. pos \in 1 .. Len(p.pending[g]) + 1
    BY <2>2, <2>3
  <2> HIDE DEF pos
  <2> QED
    BY <2>1, <2>4, InsertAtProperties
<1> HIDE DEF q, s
<1>3. NewQueue(p, q, g, s, 1)
  BY <1>1, <1>2 DEF NewQueue
<1>4. Change(p, q, g, 1, 0, 0, 0) /\ Spare(q, g) = Spare(p, g)
  BY <1>3, PendingChange
<1> QED
  BY <1>4 DEF q

\* The idle sockets of group g become t.
LEMMA CutIdleChange ==
  ASSUME NEW p \in PoolType, NEW g \in Groups, NEW t, Len(t) \in Nat
  PROVE  LET q == CutIdle(p, g, t)
         IN  /\ Change(p, q, g, 0, 0, 0, Len(t) - Idle(p, g)) /\ Spare(q, g) = Spare(p, g)
             /\ Idle(q, g) = Len(t)
<1> DEFINE q == CutIdle(p, g, t)
<1>1. /\ q.pending = p.pending /\ q.jobs = p.jobs /\ q.unassigned = p.unassigned
      /\ q.idle = [p.idle EXCEPT ![g] = t] /\ q.active = p.active
      /\ q.idle_socket_count = p.idle_socket_count - (Len(p.idle[g]) - Len(t))
      /\ q.connecting_socket_count = p.connecting_socket_count
      /\ q.handed_out_socket_count = p.handed_out_socket_count
  BY DEF CutIdle, PoolType
<1> HIDE DEF q
<1>2. /\ p.idle \in [Groups -> Seq(Socket)] /\ p.connecting_socket_count \in Nat
      /\ p.handed_out_socket_count \in Nat /\ p.idle_socket_count \in Nat
  BY PoolFields
<1>3. /\ \A k : Waits(q, k) = Waits(p, k) /\ Jobs(q, k) = Jobs(p, k)
                /\ Spare(q, k) = Spare(p, k) /\ Active(q, k) = Active(p, k)
      /\ \A k \in Groups \ {g} : Idle(q, k) = Idle(p, k)
      /\ Idle(q, g) = Len(t)
  BY <1>1, <1>2 DEF Waits, Jobs, Active, Spare, Idle
<1>5. \A k \in Groups : Numbers(p, k)
  BY PoolNumbers
<1>4. /\ Taken(q) = Taken(p) + 0 + 0
      /\ q.idle_socket_count = p.idle_socket_count + (Len(t) - Idle(p, g))
  <2>1. Idle(p, g) \in Nat /\ Idle(p, g) = Len(p.idle[g])
    BY <1>5 DEF Numbers, Idle
  <2> QED
    BY <1>1, <1>2, <2>1 DEF Taken
<1>6. \A k \in Groups \ {g} : Alike(p, q, k)
  BY <1>3, <1>5 DEF Alike, Numbers
<1> DEFINE d == Len(t) - Idle(p, g)
<1>7. Idle(q, g) = Idle(p, g) + d
  BY <1>3, <1>5 DEF Numbers
<1> HIDE DEF d
<1>8. Change(p, q, g, 0, 0, 0, d)
  BY <1>3, <1>4, <1>5, <1>6, <1>7 DEF Change, Numbers, d
<1> QED
  BY <1>3, <1>8 DEF q, d

\* The socket that a handle gives back is active no more.
LEMMA DroppedChange ==
  ASSUME NEW p \in PoolType, NEW g \in Groups, NEW h
  PROVE  LET q == Dropped(p, g, h)
         IN  Change(p, q, g, 0, 0, -1, 0) /\ Spare(q, g) = Spare(p, g)
<1> DEFINE q == Dropped(p, g, h)
<1>1. /\ q.pending = p.pending /\ q.jobs = p.jobs /\ q.unassigned = p.unassigned
      /\ q.idle = p.idle /\ q.active = [p.active EXCEPT ![g] = p.active[g] - 1]
      /\ q.idle_socket_count = p.idle_socket_count
      /\ q.connecting_socket_count = p.connecting_socket_count
      /\ q.handed_out_socket_count = p.handed_out_socket_count - 1
  BY DEF Dropped, PoolType
<1> HIDE DEF q
<1>2. /\ p.active \in [Groups -> Nat] /\ p.connecting_socket_count \in Nat
      /\ p.handed_out_socket_count \in Nat /\ p.idle_socket_count \in Nat
  BY PoolFields
<1>3. /\ \A k : Waits(q, k) = Waits(p, k) /\ Jobs(q, k) = Jobs(p, k)
                /\ Spare(q, k) = Spare(p, k) /\ Idle(q, k) = Idle(p, k)
      /\ \A k \in Groups \ {g} : Active(q, k) = Active(p, k)
      /\ Active(q, g) = Active(p, g) - 1
  BY <1>1, <1>2 DEF Waits, Jobs, Active, Spare, Idle
<1>4. Taken(q) = Taken(p) + 0 + (-1) /\ q.idle_socket_count = p.idle_socket_count + 0
  BY <1>1, <1>2 DEF Taken
<1>5. \A k \in Groups : Numbers(p, k)
  BY PoolNumbers
<1>6. \A k \in Groups \ {g} : Alike(p, q, k)
  BY <1>3, <1>5 DEF Alike, Numbers
<1> QED
  BY <1>3, <1>4, <1>5, <1>6 DEF Change, Numbers, q

\* A request is given a job that nobody had asked for.
LEMMA UseUnassignedChange ==
  ASSUME NEW p \in PoolType, NEW g \in Groups
  PROVE  LET q == [p EXCEPT !.unassigned[g] = @ - 1]
         IN  Change(p, q, g, 0, 0, 0, 0) /\ Spare(q, g) = Spare(p, g) - 1
<1> DEFINE q == [p EXCEPT !.unassigned[g] = @ - 1]
<1>1. /\ q.pending = p.pending /\ q.jobs = p.jobs
      /\ q.unassigned = [p.unassigned EXCEPT ![g] = p.unassigned[g] - 1]
      /\ q.idle = p.idle /\ q.active = p.active
      /\ q.idle_socket_count = p.idle_socket_count
      /\ q.connecting_socket_count = p.connecting_socket_count
      /\ q.handed_out_socket_count = p.handed_out_socket_count
  BY DEF PoolType
<1> HIDE DEF q
<1>2. /\ p.unassigned \in [Groups -> Nat] /\ p.connecting_socket_count \in Nat
      /\ p.handed_out_socket_count \in Nat /\ p.idle_socket_count \in Nat
  BY PoolFields
<1>3. /\ \A k : Waits(q, k) = Waits(p, k) /\ Jobs(q, k) = Jobs(p, k)
                /\ Active(q, k) = Active(p, k) /\ Idle(q, k) = Idle(p, k)
      /\ \A k \in Groups \ {g} : Spare(q, k) = Spare(p, k)
      /\ Spare(q, g) = Spare(p, g) - 1
  BY <1>1, <1>2 DEF Waits, Jobs, Active, Spare, Idle
<1>4. Taken(q) = Taken(p) + 0 + 0 /\ q.idle_socket_count = p.idle_socket_count + 0
  BY <1>1, <1>2 DEF Taken
<1>5. \A k \in Groups : Numbers(p, k)
  BY PoolNumbers
<1>6. \A k \in Groups \ {g} : Alike(p, q, k)
  BY <1>3, <1>5 DEF Alike, Numbers
<1> QED
  BY <1>3, <1>4, <1>5, <1>6 DEF Change, Numbers, q

\* Closing idle sockets, group by group.
Thinner(p, q) ==
  /\ \A k \in Groups : Alike(p, q, k)
  /\ Taken(q) = Taken(p)
  /\ q.idle_socket_count <= p.idle_socket_count

\* Fewer idle sockets, all else the same.
LEMMA ThinnerFields ==
  ASSUME NEW p \in PoolType, NEW q, q.pending = p.pending, q.jobs = p.jobs,
         q.unassigned = p.unassigned, q.active = p.active,
         q.connecting_socket_count = p.connecting_socket_count,
         q.handed_out_socket_count = p.handed_out_socket_count,
         q.idle_socket_count <= p.idle_socket_count,
         \A k \in Groups : Len(q.idle[k]) <= Len(p.idle[k])
  PROVE  Thinner(p, q)
  BY DEF Thinner, Alike, Waits, Jobs, Active, Spare, Idle, Taken

\* What does not concern the slots is no change, and idle sockets may go first.
LEMMA SameSlotsThinner ==
  ASSUME NEW p \in PoolType, NEW q, SameSlots(p, q)
  PROVE  Thinner(p, q)
<1>1. \A k \in Groups : Numbers(p, k)
  BY PoolNumbers
<1>2. \A k \in Groups : Alike(p, q, k)
  <2> TAKE k \in Groups
  <2>1. /\ Waits(q, k) = Waits(p, k) /\ Jobs(q, k) = Jobs(p, k) /\ Active(q, k) = Active(p, k)
        /\ Spare(q, k) = Spare(p, k) /\ Idle(q, k) = Idle(p, k)
    BY DEF SameSlots, Waits, Jobs, Active, Spare, Idle
  <2> QED
    BY <1>1, <2>1 DEF Alike, Numbers
<1>3. Taken(q) = Taken(p) /\ q.idle_socket_count = p.idle_socket_count
  BY DEF SameSlots, Taken
<1>4. p.idle_socket_count \in Nat
  BY PoolNumbers
<1> QED
  BY <1>2, <1>3, <1>4 DEF Thinner

\* Or none closed at all.
LEMMA SelfThinner ==
  ASSUME NEW p \in PoolType
  PROVE  Thinner(p, p)
<1>1. SameSlots(p, p)
  BY DEF SameSlots
<1> QED
  BY <1>1, SameSlotsThinner

\* CloseOneIdleSocketExceptInGroup() closes one, of a group that is not excepted.
LEMMA CloseOneIdleSocketThinner ==
  ASSUME NEW p, NEW hd, NEW x, PoolInv(p, hd, x), NEW except \in SUBSET Groups,
         NEW q \in CloseOneIdleSocketExceptInGroup(p, except)
  PROVE  Thinner(p, q) /\ \A k \in except : q.idle[k] = p.idle[k]
<1> DEFINE candidates == {g \in p.group_map \ except : p.idle[g] # <<>>}
<1>p. p \in PoolType
  BY DEF PoolInv
<1>t. /\ p.idle \in [Groups -> Seq(Socket)] /\ p.group_map \subseteq Groups
      /\ p.idle_socket_count \in Nat
  BY <1>p, PoolFields
<1>1. CASE candidates = {}
  <2>1. q = p
    BY <1>1 DEF CloseOneIdleSocketExceptInGroup
  <2>2. Thinner(p, p)
    BY <1>p, SelfThinner
  <2> QED
    BY <2>1, <2>2
<1>2. CASE candidates # {}
  <2>1. PICK g \in candidates :
          q = RemoveGroupIfEmpty([p EXCEPT !.idle[g] = Tail(@), !.idle_socket_count = @ - 1], g)
    BY <1>2 DEF CloseOneIdleSocketExceptInGroup
  <2>2. g \in Groups /\ g \notin except /\ p.idle[g] \in Seq(Socket) /\ p.idle[g] # <<>>
    BY <1>t
  <2>3. Len(Tail(p.idle[g])) <= Len(p.idle[g])
    <3>1. Len(Tail(p.idle[g])) = Len(p.idle[g]) - 1 /\ Len(p.idle[g]) \in Nat
      BY <2>2, HeadTailProperties, LenProperties
    <3> QED
      BY <3>1
  <2>4. /\ q.pending = p.pending /\ q.jobs = p.jobs /\ q.unassigned = p.unassigned
        /\ q.active = p.active
        /\ q.connecting_socket_count = p.connecting_socket_count
        /\ q.handed_out_socket_count = p.handed_out_socket_count
        /\ q.idle_socket_count = p.idle_socket_count - 1
        /\ q.idle = [p.idle EXCEPT ![g] = Tail(p.idle[g])]
    BY <1>p, <2>1 DEF RemoveGroupIfEmpty, PoolType
  <2>5. \A k \in Groups \ {g} : q.idle[k] = p.idle[k]
    BY <1>t, <2>4
  <2>6. q.idle[g] = Tail(p.idle[g])
    BY <1>t, <2>2, <2>4
  <2>7. \A k \in Groups : Len(p.idle[k]) \in Nat
    BY <1>p, PoolCounts
  <2>8. \A k \in Groups : Len(q.idle[k]) <= Len(p.idle[k])
    <3> TAKE k \in Groups
    <3>1. CASE k = g
      BY <2>3, <2>6, <3>1
    <3>2. CASE k # g
      <4>1. q.idle[k] = p.idle[k] /\ Len(p.idle[k]) \in Nat
        BY <2>5, <2>7, <3>2
      <4> DEFINE n == Len(p.idle[k])
      <4>2. Len(q.idle[k]) = n /\ n \in Nat
        BY <4>1
      <4> HIDE DEF n
      <4>3. n <= n
        BY <4>2
      <4> QED
        BY <4>2, <4>3 DEF n
    <3> QED
      BY <3>1, <3>2
  <2>9. q.idle_socket_count <= p.idle_socket_count
    BY <1>t, <2>4
  <2>10. Thinner(p, q)
    BY <1>p, <2>4, <2>8, <2>9, ThinnerFields
  <2> QED
    BY <2>2, <2>5, <2>10
<1> QED
  BY <1>1, <1>2

\* What does not concern the slots may come first.
LEMMA SameSlotsThen ==
  ASSUME NEW p, NEW q, NEW z, NEW g, NEW w, NEW j, NEW a, NEW i,
         SameSlots(p, q), Change(q, z, g, w, j, a, i)
  PROVE  Change(p, z, g, w, j, a, i) /\ Spare(q, g) = Spare(p, g)
<1>1. \A k : /\ Waits(q, k) = Waits(p, k) /\ Jobs(q, k) = Jobs(p, k) /\ Active(q, k) = Active(p, k)
             /\ Spare(q, k) = Spare(p, k) /\ Idle(q, k) = Idle(p, k)
  BY DEF SameSlots, Waits, Jobs, Active, Spare, Idle
<1>2. Taken(q) = Taken(p) /\ q.idle_socket_count = p.idle_socket_count
  BY DEF SameSlots, Taken
<1> QED
  BY <1>1, <1>2 DEF Change, Alike

-------------------------------------------------------------------------------
(* What becomes of a request for a socket, if Connect() never fails at once. *)

\* The request gets a socket or a job.
Connects(p, g, res) ==
  LET q == res.pool
  IN  /\ Spare(q, g) = Spare(p, g)
      /\ res.rv # "PENDING" => Change(p, q, g, 0, 0, 1, 0)
      /\ res.rv = "PENDING" => Change(p, q, g, 0, 1, 0, 0)

\* A Connect() that does not fail gives a socket or a job.
LEMMA ConnectNewJobConnects ==
  ASSUME "ERR" \notin ConnectResults, NEW p \in PoolType, NEW g \in Groups,
         NEW h, h # NoHandle, NEW res \in ConnectNewJob(p, g, h)
  PROVE  Connects(p, g, res)
<1>1. PICK rv \in ConnectResults : res = [pool |-> FinishConnect(p, g, h, rv), rv |-> rv]
  BY DEF ConnectNewJob
<1>2. rv \in {"OK", "PENDING", "ERR_SOCKET"}
  BY OptionsAssumption DEF CompletionResults
<1> DEFINE q == FinishConnect(p, g, h, rv)
<1>3. res.pool = q /\ res.rv = rv
  BY <1>1
<1>4. CASE rv = "PENDING"
  <2> DEFINE b == p.backup_timer[g] \/ (connect_backup_jobs_enabled /\ IsEmpty(p, g))
             timed == [p EXCEPT !.backup_timer[g] = b]
  <2>1. q = AddJob(timed, g, FALSE)
    BY <1>4 DEF FinishConnect
  <2>2. timed \in PoolType /\ SameSlots(p, timed)
    <3>1. b \in BOOLEAN /\ p.backup_timer \in [Groups -> BOOLEAN]
      BY PoolFields
    <3> HIDE DEF b
    <3> QED
      BY <3>1 DEF PoolType, SameSlots
  <2> HIDE DEF timed, q
  <2>3. FALSE \in BOOLEAN
    OBVIOUS
  <2>4. Change(timed, q, g, 0, 1, 0, 0) /\ Spare(q, g) = Spare(timed, g)
    BY <2>1, <2>2, <2>3, AddJobChange
  <2>5. Change(p, q, g, 0, 1, 0, 0) /\ Spare(timed, g) = Spare(p, g)
    BY <2>2, <2>4, SameSlotsThen
  <2> QED
    BY <1>3, <1>4, <2>4, <2>5 DEF Connects
<1>5. CASE rv # "PENDING"
  <2>1. q = HandOutSocket(p, g, h, NewSocket(p))
    BY <1>2, <1>5 DEF FinishConnect
  <2> DEFINE s == NewSocket(p)
  <2> HIDE DEF q, s
  <2>2. Change(p, q, g, 0, 0, 1, 0) /\ Spare(q, g) = Spare(p, g)
    BY <2>1, HandOutSocketChange DEF s
  <2> QED
    BY <1>3, <1>5, <2>2 DEF Connects
<1> QED
  BY <1>4, <1>5

\* The request gets a socket, or a job; or there is a job for it, or no slot.
Outcome(p, g, res) ==
  LET q == res.pool
  IN  /\ \A k \in Groups \ {g} : Alike(p, q, k)
      /\ q.idle_socket_count <= p.idle_socket_count
      /\ Idle(q, g) <= Idle(p, g)
      /\ Waits(q, g) = Waits(p, g)
      /\ \/ /\ res.rv # "PENDING"
            /\ Active(q, g) = Active(p, g) + 1
            /\ Jobs(q, g) = Jobs(p, g) /\ Spare(q, g) = Spare(p, g)
            /\ Taken(q) = Taken(p) + 1
            /\ Idle(q, g) = 0 \/ Idle(q, g) < Idle(p, g)
         \/ /\ res.rv = "PENDING" /\ Idle(q, g) = 0
            /\ Active(q, g) = Active(p, g)
            /\ Jobs(q, g) = Jobs(p, g) + 1 /\ Spare(q, g) = Spare(p, g)
            /\ Taken(q) = Taken(p) + 1
         \/ /\ res.rv = "PENDING" /\ Idle(q, g) = 0
            /\ Active(q, g) = Active(p, g)
            /\ Jobs(q, g) = Jobs(p, g)
            /\ Taken(q) = Taken(p)
            /\ \/ Spare(p, g) > 0 /\ Spare(q, g) = Spare(p, g) - 1
               \/ /\ Spare(p, g) = 0 /\ Spare(q, g) = 0
                  /\ Active(q, g) + Jobs(q, g) >= max_sockets_per_group \/ Spent(q)

\* Connecting is such an outcome, also after idle sockets were closed.
LEMMA ConnectsOutcome ==
  ASSUME NEW p \in PoolType, NEW q \in PoolType, NEW g \in Groups, NEW res, res.pool \in PoolType,
         Thinner(p, q), Idle(q, g) = 0, Connects(q, g, res)
  PROVE  Outcome(p, g, res)
<1> DEFINE z == res.pool
<1>1. \A k \in Groups : Numbers(p, k) /\ Numbers(q, k) /\ Numbers(z, k)
  BY PoolNumbers
<1>2. /\ Taken(p) \in Nat /\ p.idle_socket_count \in Nat
      /\ Taken(q) \in Nat /\ q.idle_socket_count \in Nat
  BY PoolNumbers
<1> HIDE DEF z
<1>3. CASE res.rv = "PENDING"
  <2>1. Change(q, z, g, 0, 1, 0, 0) /\ Spare(z, g) = Spare(q, g)
    BY <1>3 DEF Connects, z
  <2>2. \A k \in Groups \ {g} : Alike(p, z, k)
    BY <1>1, <2>1 DEF Thinner, Change, Alike, Numbers
  <2>3. /\ z.idle_socket_count <= p.idle_socket_count /\ Idle(z, g) = 0 /\ Idle(z, g) <= Idle(p, g)
        /\ Waits(z, g) = Waits(p, g) /\ Active(z, g) = Active(p, g)
        /\ Jobs(z, g) = Jobs(p, g) + 1 /\ Spare(z, g) = Spare(p, g) /\ Taken(z) = Taken(p) + 1
    BY <1>1, <1>2, <2>1 DEF Thinner, Change, Alike, Numbers
  <2> QED
    BY <1>3, <2>2, <2>3 DEF Outcome, z
<1>4. CASE res.rv # "PENDING"
  <2>1. Change(q, z, g, 0, 0, 1, 0) /\ Spare(z, g) = Spare(q, g)
    BY <1>4 DEF Connects, z
  <2>2. \A k \in Groups \ {g} : Alike(p, z, k)
    BY <1>1, <2>1 DEF Thinner, Change, Alike, Numbers
  <2>3. /\ z.idle_socket_count <= p.idle_socket_count /\ Idle(z, g) = 0 /\ Idle(z, g) <= Idle(p, g)
        /\ Waits(z, g) = Waits(p, g) /\ Active(z, g) = Active(p, g) + 1
        /\ Jobs(z, g) = Jobs(p, g) /\ Spare(z, g) = Spare(p, g) /\ Taken(z) = Taken(p) + 1
    BY <1>1, <1>2, <2>1 DEF Thinner, Change, Alike, Numbers
  <2> QED
    BY <1>4, <2>2, <2>3 DEF Outcome, z
<1> QED
  BY <1>3, <1>4

\* Idle sockets may be closed before the request is served.
LEMMA ThinnerOutcome ==
  ASSUME NEW p \in PoolType, NEW q \in PoolType, NEW g \in Groups, NEW res, res.pool \in PoolType,
         Thinner(p, q), Outcome(q, g, res)
  PROVE  Outcome(p, g, res)
<1> DEFINE z == res.pool
<1>1. \A k \in Groups : Numbers(p, k) /\ Numbers(q, k) /\ Numbers(z, k)
  BY PoolNumbers
<1>2. /\ Taken(p) \in Nat /\ p.idle_socket_count \in Nat
      /\ Taken(q) \in Nat /\ q.idle_socket_count \in Nat
      /\ Taken(z) \in Nat /\ z.idle_socket_count \in Nat
  BY PoolNumbers
<1>o. /\ \A k \in Groups \ {g} : Alike(q, z, k)
      /\ z.idle_socket_count <= q.idle_socket_count
      /\ Idle(z, g) <= Idle(q, g)
  BY DEF Outcome
<1>3. \A k \in Groups \ {g} : Alike(p, z, k)
  BY <1>1, <1>o DEF Thinner, Alike, Numbers
<1>4. z.idle_socket_count <= p.idle_socket_count
  BY <1>2, <1>o DEF Thinner
<1>5. /\ Idle(z, g) <= Idle(p, g)
      /\ Waits(q, g) = Waits(p, g) /\ Active(q, g) = Active(p, g) /\ Jobs(q, g) = Jobs(p, g)
      /\ Spare(q, g) = Spare(p, g) /\ Taken(q) = Taken(p)
      /\ Idle(z, g) < Idle(q, g) => Idle(z, g) < Idle(p, g)
  BY <1>1, <1>o DEF Thinner, Alike, Numbers
<1> QED
  BY <1>3, <1>4, <1>5 DEF Outcome

\* An empty list of idle sockets.
LEMMA NoIdle ==
  ASSUME NEW p \in PoolType, NEW g \in Groups
  PROVE  Idle(p, g) = 0 <=> p.idle[g] = <<>>
<1>1. p.idle[g] \in Seq(Socket)
  BY PoolFields
<1> QED
  BY <1>1, LenProperties, EmptySeq DEF Idle

\* A connection at the limit, after an idle socket of another group was closed.
LEMMA ConnectAtSocketLimitOutcome ==
  ASSUME "ERR" \notin ConnectResults,
         NEW p, NEW hd \in HandleType, NEW g \in Groups, NEW h \in Handles,
         PoolInv(p, hd, NoHandle), p.idle[g] = <<>>, p.unassigned[g] = 0,
         ReachedMaxSocketsLimit(p), NEW res \in ConnectAtSocketLimit(p, g, h),
         res.pool \in PoolType
  PROVE  Outcome(p, g, res)
<1>p. p \in PoolType /\ h # NoHandle
  BY HandlesAssumption DEF PoolInv
<1>i. Idle(p, g) = 0
  BY <1>p, NoIdle
<1>1. CASE p.idle_socket_count = 0
  <2>1. res = [pool |-> p, rv |-> "PENDING"]
    BY <1>1 DEF ConnectAtSocketLimit
  <2>2. res.pool = p /\ res.rv = "PENDING"
    BY <2>1
  <2>3. Spent(p)
    BY <1>1 DEF Spent
  <2>4. Spare(p, g) = 0
    BY DEF Spare
  <2>5. Thinner(p, p)
    BY <1>p, SelfThinner
  <2> QED
    BY <1>i, <2>2, <2>3, <2>4, <2>5 DEF Outcome, Thinner, Alike
<1>2. CASE p.idle_socket_count # 0
  <2>1. PICK q \in CloseOneIdleSocketExceptInGroup(p, {g}) : res \in ConnectNewJob(q, g, h)
    BY <1>2, <1>p DEF ConnectAtSocketLimit
  <2>2. {g} \in SUBSET Groups
    OBVIOUS
  <2>3. q \in PoolType
    <3>1. PoolInv(q, hd, NoHandle)
      BY <2>1, <2>2, CloseOneIdleSocketExceptInGroupInv
    <3> QED
      BY <3>1 DEF PoolInv
  <2>4. Thinner(p, q) /\ \A k \in {g} : q.idle[k] = p.idle[k]
    BY <2>1, <2>2, CloseOneIdleSocketThinner
  <2>5. Idle(q, g) = 0
    BY <2>3, <2>4, NoIdle
  <2>6. Connects(q, g, res)
    BY <1>p, <2>1, <2>3, ConnectNewJobConnects
  <2> QED
    BY <1>p, <2>3, <2>4, <2>5, <2>6, ConnectsOutcome
<1> QED
  BY <1>1, <1>2

\* A request for which no idle socket can be reused.
LEMMA RequestNewSocketOutcome ==
  ASSUME "ERR" \notin ConnectResults,
         NEW p, NEW hd \in HandleType, NEW g \in Groups, NEW r, MayServe(p, hd, g, r),
         r.handle # NoHandle, p.idle[g] = <<>>, NEW res \in RequestNewSocket(p, g, r),
         res.pool \in PoolType
  PROVE  Outcome(p, g, res)
<1> DEFINE h == r.handle
           enabled == r.respect_limits = "ENABLED"
<1>p. p \in PoolType /\ PoolInv(p, hd, NoHandle) /\ h \in Handles
  BY DEF MayServe, PoolInv
<1>i. Idle(p, g) = 0
  BY <1>p, NoIdle
<1>s. Thinner(p, p)
  BY <1>p, SelfThinner
<1>n. Numbers(p, g) /\ max_sockets_per_group \in Nat
  BY <1>p, PoolNumbers
<1>1. CASE p.unassigned[g] > 0
  <2> DEFINE q == [p EXCEPT !.unassigned[g] = @ - 1]
  <2>1. res = [pool |-> q, rv |-> "PENDING"]
    BY <1>1 DEF RequestNewSocket
  <2>2. res.pool = q /\ res.rv = "PENDING"
    BY <2>1
  <2>3. Change(p, q, g, 0, 0, 0, 0) /\ Spare(q, g) = Spare(p, g) - 1
    BY <1>p, UseUnassignedChange
  <2>4. Spare(p, g) > 0
    BY <1>1 DEF Spare
  <2> HIDE DEF q
  <2>5. Taken(p) \in Nat /\ p.idle_socket_count \in Nat
    BY <1>p, PoolNumbers
  <2>6. /\ \A k \in Groups \ {g} : Alike(p, q, k)
        /\ q.idle_socket_count <= p.idle_socket_count
        /\ Waits(q, g) = Waits(p, g) /\ Jobs(q, g) = Jobs(p, g) /\ Active(q, g) = Active(p, g)
        /\ Idle(q, g) = 0 /\ Idle(q, g) <= Idle(p, g) /\ Taken(q) = Taken(p)
    BY <1>i, <1>n, <2>3, <2>5 DEF Change, Numbers
  <2> QED
    BY <2>2, <2>3, <2>4, <2>6 DEF Outcome
<1>u. CASE ~(p.unassigned[g] > 0)
  <2>u. p.unassigned[g] = 0 /\ Spare(p, g) = 0
    BY <1>u, <1>n DEF Spare, Numbers
  <2>2. CASE enabled /\ ~HasAvailableSocketSlot(p, g)
    <3>1. res = [pool |-> p, rv |-> "PENDING"]
      BY <1>u, <2>2 DEF RequestNewSocket
    <3>2. res.pool = p /\ res.rv = "PENDING"
      BY <3>1
    <3>3. ~(Active(p, g) + Jobs(p, g) + Idle(p, g) < max_sockets_per_group)
      BY <2>2 DEF HasAvailableSocketSlot, NumActiveSocketSlots, Active, Jobs, Idle
    <3>4. Active(p, g) + Jobs(p, g) >= max_sockets_per_group
      BY <1>n, <1>i, <3>3 DEF Numbers
    <3> QED
      BY <1>i, <1>s, <2>u, <3>2, <3>4 DEF Outcome, Thinner, Alike
  <2>3. CASE enabled /\ HasAvailableSocketSlot(p, g) /\ ReachedMaxSocketsLimit(p)
    <3>1. res \in ConnectAtSocketLimit(p, g, h)
      BY <1>u, <2>3 DEF RequestNewSocket
    <3> QED
      BY <1>p, <2>u, <2>3, <3>1, ConnectAtSocketLimitOutcome
  <2>4. CASE enabled => HasAvailableSocketSlot(p, g) /\ ~ReachedMaxSocketsLimit(p)
    <3>1. res \in ConnectNewJob(p, g, h)
      BY <1>u, <2>4 DEF RequestNewSocket
    <3>2. Connects(p, g, res)
      BY <1>p, <3>1, ConnectNewJobConnects
    <3> QED
      BY <1>p, <1>i, <1>s, <3>2, ConnectsOutcome
  <2> QED
    BY <2>2, <2>3, <2>4
<1> QED
  BY <1>1, <1>u

\* Idle sockets may go one after the other.
LEMMA AlikeTwice ==
  ASSUME NEW p, NEW q, NEW z, NEW k, Numbers(p, k), Numbers(q, k), Numbers(z, k),
         Alike(p, q, k), Alike(q, z, k)
  PROVE  Alike(p, z, k)
  BY DEF Alike, Numbers

\* An idle socket is reused.
LEMMA AssignIdleSocketOutcome ==
  ASSUME NEW p \in PoolType, NEW g \in Groups, NEW h, p.idle[g] # <<>>, NEW res,
         res = [pool |-> AssignIdleSocketToRequest(p, g, h), rv |-> "OK"],
         AssignIdleSocketToRequest(p, g, h) \in PoolType,
         p.idle_socket_count > 0
  PROVE  Outcome(p, g, res)
<1> DEFINE s == p.idle[g]
           i == IdleSocketToReuse(s)
           t == RemoveAt(s, i)
           c == CutIdle(p, g, t)
           q == HandOutSocket(c, g, h, s[i])
<1>1. s \in Seq(Socket) /\ s # <<>>
  BY PoolFields
<1>2. i \in 1 .. Len(s)
  BY <1>1, IdleSocketToReuseType
<1>3. t \in Seq(Socket) /\ Len(t) = Len(s) - 1 /\ Len(s) \in Nat /\ Len(s) > 0
  <2> HIDE DEF s, i
  <2>1. Len(s) \in Nat
    BY <1>1, LenProperties
  <2>2. t \in Seq(Socket) /\ Len(t) = Len(s) - 1
    BY <1>1, <1>2, RemoveAtProperties
  <2> QED
    BY <1>2, <2>1, <2>2
<1>n. \A k \in Groups : Numbers(p, k)
  BY PoolNumbers
<1>f. p.idle_socket_count \in Nat /\ p.idle \in [Groups -> Seq(Socket)] /\ Taken(p) \in Nat
  BY PoolFields, PoolNumbers
<1>4. c = [p EXCEPT !.idle[g] = RemoveAt(@, i), !.idle_socket_count = @ - 1]
  <2>1. p.idle_socket_count - 1 = p.idle_socket_count - (Len(s) - Len(t))
    BY <1>3, <1>f
  <2> QED
    BY <2>1 DEF CutIdle
<1>5. AssignIdleSocketToRequest(p, g, h) = q
  BY <1>4 DEF AssignIdleSocketToRequest
<1>6. c \in PoolType
  <2>1. [p.idle EXCEPT ![g] = t] \in [Groups -> Seq(Socket)]
    BY <1>3, <1>f
  <2>2. p.idle_socket_count - 1 \in Nat
    BY <1>f
  <2> QED
    BY <1>4, <2>1, <2>2 DEF PoolType
<1>7. res.pool = q /\ res.rv = "OK"
  BY <1>5
<1>8. /\ Change(p, c, g, 0, 0, 0, Len(t) - Idle(p, g)) /\ Spare(c, g) = Spare(p, g)
      /\ Idle(c, g) = Len(t)
  BY <1>3, CutIdleChange
<1>9. Idle(p, g) = Len(s)
  BY DEF Idle
<1> DEFINE d == Len(t) - Idle(p, g)
<1>10. Change(p, c, g, 0, 0, 0, d) /\ d = -1
  BY <1>3, <1>8, <1>9
<1> HIDE DEF c, q, t, s, d
<1>11. Change(c, q, g, 0, 0, 1, 0) /\ Spare(q, g) = Spare(c, g)
  BY <1>6, HandOutSocketChange DEF q
<1>12. Change(p, c, g, 0, 0, 0, -1)
  BY <1>10
<1>13. \A k \in Groups : Numbers(c, k)
  BY <1>6, PoolNumbers
<1>14. Taken(c) \in Nat /\ c.idle_socket_count \in Nat
  BY <1>6, PoolNumbers
<1>15. \A k \in Groups \ {g} : Alike(p, q, k)
  <2>1. \A k \in Groups \ {g} : Alike(p, c, k) /\ Alike(c, q, k)
    BY <1>11, <1>12 DEF Change
  <2>2. \A k \in Groups : Numbers(q, k)
    BY <1>5, PoolNumbers
  <2> QED
    BY <1>n, <1>13, <2>1, <2>2, AlikeTwice
<1>16. /\ Waits(q, g) = Waits(p, g) /\ Jobs(q, g) = Jobs(p, g) /\ Spare(q, g) = Spare(p, g)
       /\ Active(q, g) = Active(p, g) + 1 /\ Idle(q, g) < Idle(p, g) /\ Idle(q, g) <= Idle(p, g)
  BY <1>n, <1>13, <1>8, <1>11, <1>12 DEF Change, Numbers
<1>17. Taken(q) = Taken(p) + 1 /\ q.idle_socket_count <= p.idle_socket_count
  BY <1>f, <1>14, <1>11, <1>12 DEF Change
<1> QED
  BY <1>7, <1>15, <1>16, <1>17 DEF Outcome

\* The idle sockets that RequestSocketInternal() finds unusable are gone.
LEMMA DropUnusableIdleSocketsThinner ==
  ASSUME NEW p \in PoolType, NEW g \in Groups, NEW q \in DropUnusableIdleSockets(p, g)
  PROVE  Thinner(p, q)
<1>1. PICK t \in Survivors(p.idle[g]) : q = CutIdle(p, g, t)
  BY DEF DropUnusableIdleSockets, CutIdle
<1>2. p.idle[g] \in Seq(Socket)
  BY PoolFields
<1>3. t \in Seq(Socket) /\ Len(t) <= Len(p.idle[g])
  BY <1>1, <1>2, SurvivorsProperties
<1>4. Len(t) \in Nat
  BY <1>3, LenProperties
<1> DEFINE d == Len(t) - Idle(p, g)
<1>5. Change(p, q, g, 0, 0, 0, d) /\ Spare(q, g) = Spare(p, g) /\ Idle(q, g) = Len(t)
  BY <1>1, <1>4, CutIdleChange
<1>n. Numbers(p, g)
  BY PoolNumbers
<1>6. d \in Int /\ d <= 0 /\ Idle(q, g) <= Idle(p, g)
  BY <1>3, <1>4, <1>5, <1>n DEF Idle, Numbers
<1> HIDE DEF d
<1>7. Alike(p, q, g)
  BY <1>n, <1>5, <1>6 DEF Alike, Change, Numbers
<1>8. Taken(p) \in Nat /\ p.idle_socket_count \in Nat
  BY PoolNumbers
<1>9. Taken(q) = Taken(p) /\ q.idle_socket_count <= p.idle_socket_count
  BY <1>5, <1>6, <1>8 DEF Change
<1>10. \A k \in Groups \ {g} : Alike(p, q, k)
  BY <1>5 DEF Change
<1> QED
  BY <1>7, <1>9, <1>10 DEF Thinner

\* RequestSocketInternal() for the request of a handle.
LEMMA RequestSocketInternalOutcome ==
  ASSUME "ERR" \notin ConnectResults,
         NEW p, NEW hd \in HandleType, NEW g \in Groups, NEW r, MayServe(p, hd, g, r),
         r.handle # NoHandle, NEW res \in RequestSocketInternal(p, g, r)
  PROVE  Outcome(p, g, res) /\ res.pool \in PoolType
<1> DEFINE h == r.handle
           m == GetOrCreateGroup(p, g)
<1>p. p \in PoolType /\ PoolInv(p, hd, NoHandle) /\ h \in Handles
  BY DEF MayServe, PoolInv
<1>r. res.pool \in PoolType
  <2>1. Served(p, hd, g, h, res)
    BY RequestSocketInternalInv
  <2> QED
    BY <2>1 DEF Served, PoolInv
<1>1. PoolInv(m, hd, NoHandle)
  BY <1>p, GroupMapOperatorsInv
<1>2. SameHandles(p, m) /\ g \in m.group_map /\ SameSlots(p, m)
  BY <1>p DEF GetOrCreateGroup, PoolType, SameHandles, SameSlots
<1>3. PICK q \in DropUnusableIdleSockets(m, g) :
        res \in IF q.idle[g] # <<>>
                THEN {[pool |-> AssignIdleSocketToRequest(q, g, h), rv |-> "OK"]}
                ELSE RequestNewSocket(q, g, r)
  BY DEF RequestSocketInternal, m
<1> HIDE DEF m
<1>m. m \in PoolType /\ MayServe(m, hd, g, r)
  BY <1>1, <1>2 DEF MayServe, SameHandles, PoolInv
<1>4. PoolInv(q, hd, NoHandle) /\ SameHandles(m, q) /\ q.group_map = m.group_map
  BY <1>1, <1>2, DropUnusableIdleSocketsInv
<1>5. MayServe(q, hd, g, r) /\ q \in PoolType
  BY <1>4, <1>m DEF MayServe, SameHandles, PoolInv
<1>6. Thinner(p, m) /\ Thinner(m, q)
  BY <1>p, <1>2, <1>m, SameSlotsThinner, DropUnusableIdleSocketsThinner
<1>7. Outcome(q, g, res)
  <2>1. CASE q.idle[g] # <<>>
    <3>1. res = [pool |-> AssignIdleSocketToRequest(q, g, h), rv |-> "OK"]
      BY <1>3, <2>1
    <3>2. AssignIdleSocketToRequest(q, g, h) \in PoolType
      BY <1>r, <3>1
    <3>3. q.idle_socket_count > 0
      <4>1. IdleCounts(q.idle) \in [Groups -> Nat] /\ Len(q.idle[g]) \in Nat
        BY <1>5, PoolCounts
      <4>2. IdleCounts(q.idle)[g] <= Total(IdleCounts(q.idle))
        BY <4>1, TotalBound
      <4>3. q.idle_socket_count = Total(IdleCounts(q.idle)) /\ q.idle_socket_count \in Nat
        BY <1>4, <1>5, PoolFields DEF PoolInv, GroupsInv, Counted
      <4>4. Len(q.idle[g]) # 0
        BY <1>5, <2>1, NoIdle DEF Idle
      <4>5. IdleCounts(q.idle)[g] = Len(q.idle[g])
        BY DEF IdleCounts
      <4> QED
        BY <4>1, <4>2, <4>3, <4>4, <4>5
    <3> QED
      BY <1>5, <2>1, <3>1, <3>2, <3>3, AssignIdleSocketOutcome
  <2>2. CASE q.idle[g] = <<>>
    <3>1. res \in RequestNewSocket(q, g, r)
      BY <1>3, <2>2
    <3> QED
      BY <1>5, <1>r, <2>2, <3>1, RequestNewSocketOutcome
  <2> QED
    BY <2>1, <2>2
<1>8. Outcome(m, g, res)
  BY <1>m, <1>5, <1>6, <1>7, <1>r, ThinnerOutcome
<1>9. Outcome(p, g, res)
  BY <1>m, <1>p, <1>6, <1>8, <1>r, ThinnerOutcome
<1> QED
  BY <1>r, <1>9

-------------------------------------------------------------------------------
(* Offering a slot. *)

\* The first request of group g leaves the queue and its result is posted.
LEMMA PopAndNotifyChange ==
  ASSUME NEW p \in PoolType, NEW g \in Groups, 1 \in 1 .. Len(p.pending[g]), NEW h, NEW rv
  PROVE  LET q == InvokeUserCallbackLater(RemoveGroupIfEmpty(PopNextPendingRequest(p, g), g), h, rv)
         IN  Change(p, q, g, -1, 0, 0, 0) /\ Spare(q, g) = Spare(p, g)
<1> DEFINE b == PopNextPendingRequest(p, g)
           c == RemoveGroupIfEmpty(b, g)
           q == InvokeUserCallbackLater(c, h, rv)
           s == RemoveAt(p.pending[g], 1)
           w == -1
<1>1. /\ b.pending = [p.pending EXCEPT ![g] = s] /\ b.jobs = p.jobs /\ b.unassigned = p.unassigned
      /\ b.idle = p.idle /\ b.active = p.active
      /\ b.idle_socket_count = p.idle_socket_count
      /\ b.connecting_socket_count = p.connecting_socket_count
      /\ b.handed_out_socket_count = p.handed_out_socket_count
  BY DEF PopNextPendingRequest, RemovePendingRequest, PoolType
<1>2. SameSlots(b, q)
  BY DEF PopNextPendingRequest, RemovePendingRequest, RemoveGroupIfEmpty, InvokeUserCallbackLater,
         PoolType, SameSlots
<1>3. Len(s) = Len(p.pending[g]) + w /\ w \in Int
  <2>1. p.pending[g] \in Seq(Request)
    BY PoolFields
  <2>2. Len(s) = Len(p.pending[g]) - 1 /\ Len(p.pending[g]) \in Nat
    BY <2>1, RemoveAtProperties, LenProperties
  <2> QED
    BY <2>2
<1> HIDE DEF b, q, s, w
<1>4. NewQueue(p, q, g, s, w)
  BY <1>1, <1>2, <1>3 DEF NewQueue, SameSlots
<1>5. Change(p, q, g, w, 0, 0, 0) /\ Spare(q, g) = Spare(p, g)
  BY <1>4, PendingChange
<1> QED
  BY <1>5 DEF q, c, b, w

\* What a request comes to, in its queue.
LEMMA OutcomeFed ==
  ASSUME NEW p \in PoolType, NEW g \in Groups, NEW res, res.pool \in PoolType,
         Outcome(p, g, res), NEW q \in PoolType,
         IF res.rv = "PENDING" THEN q = res.pool
         ELSE Change(res.pool, q, g, -1, 0, 0, 0) /\ Spare(q, g) = Spare(res.pool, g)
  PROVE  Fed(p, q, g)
<1> DEFINE z == res.pool
<1>n. \A k \in Groups : Numbers(p, k) /\ Numbers(q, k) /\ Numbers(z, k)
  BY PoolNumbers
<1>g. Numbers(p, g) /\ Numbers(q, g) /\ Numbers(z, g)
  BY <1>n
<1>c. /\ Taken(p) \in Nat /\ p.idle_socket_count \in Nat
      /\ Taken(z) \in Nat /\ z.idle_socket_count \in Nat
  BY PoolNumbers
<1>o. Outcome(p, g, res)
  OBVIOUS
<1>1. CASE res.rv = "PENDING"
  <2>1. q = z
    BY <1>1
  <2>2. /\ \A k \in Groups \ {g} : Alike(p, z, k)
        /\ z.idle_socket_count <= p.idle_socket_count
        /\ Idle(z, g) <= Idle(p, g)
    BY <1>o DEF Outcome
  <2>3. Got(p, z, g) \/ Kept(p, z, g)
    BY <1>1, <1>o, <1>g DEF Outcome, Got, Kept, Numbers
  <2> QED
    BY <2>1, <2>2, <2>3 DEF Fed
<1>2. CASE res.rv # "PENDING"
  <2>1. Change(z, q, g, -1, 0, 0, 0) /\ Spare(q, g) = Spare(z, g)
    BY <1>2
  <2>o. /\ \A k \in Groups \ {g} : Alike(p, z, k)
        /\ z.idle_socket_count <= p.idle_socket_count
        /\ Idle(z, g) <= Idle(p, g)
        /\ Waits(z, g) = Waits(p, g)
        /\ Active(z, g) = Active(p, g) + 1
        /\ Jobs(z, g) = Jobs(p, g) /\ Spare(z, g) = Spare(p, g)
        /\ Taken(z) = Taken(p) + 1
        /\ Idle(z, g) = 0 \/ Idle(z, g) < Idle(p, g)
    BY <1>o, <1>2 DEF Outcome
  <2> HIDE DEF z
  <2>2. \A k \in Groups \ {g} : Alike(p, q, k)
    <3>1. \A k \in Groups \ {g} : Alike(z, q, k)
      BY <2>1 DEF Change
    <3> QED
      BY <1>n, <2>o, <3>1, AlikeTwice
  <2>3. /\ Waits(q, g) = Waits(p, g) - 1 /\ Active(q, g) = Active(p, g) + 1
        /\ Jobs(q, g) = Jobs(p, g) /\ Spare(q, g) = Spare(p, g) /\ Idle(q, g) = Idle(z, g)
    BY <1>g, <2>1, <2>o DEF Change, Numbers
  <2>4. Taken(q) = Taken(p) + 1 /\ q.idle_socket_count <= p.idle_socket_count
    BY <1>c, <2>1, <2>o DEF Change
  <2>5. Got(p, q, g)
    BY <2>o, <2>3, <2>4 DEF Got
  <2> QED
    BY <2>o, <2>2, <2>3, <2>4, <2>5 DEF Fed
<1> QED
  BY <1>1, <1>2

\* ProcessPendingRequest() feeds a group that has an idle socket or can use a slot.
LEMMA ProcessPendingRequestFed ==
  ASSUME "ERR" \notin ConnectResults,
         NEW p, NEW hd \in HandleType, NEW g \in Groups, PoolInv(p, hd, NoHandle),
         p.pending[g] # <<>>, NEW q \in ProcessPendingRequest(p, g)
  PROVE  Fed(p, q, g)
<1> DEFINE r == Head(p.pending[g])
<1>p. p \in PoolType
  BY DEF PoolInv
<1>1. PICK i \in 1 .. Len(p.pending[g]) : i = 1 /\ r = p.pending[g][i]
  BY HeadRequest
<1>2. MayServe(p, hd, g, r) /\ r.handle # NoHandle
  BY <1>1, QueuedRequest
<1>q. q \in PoolType
  <2>1. PoolInv(q, hd, NoHandle)
    BY <1>1, ProcessPendingRequestInv
  <2> QED
    BY <2>1 DEF PoolInv
<1>n. Numbers(p, g)
  BY <1>p, PoolNumbers
<1>3. CASE p.idle[g] = <<>> /\ ~CanUseAdditionalSocketSlot(p, g)
  <2>1. q = p
    BY <1>3 DEF ProcessPendingRequest
  <2>2. Idle(p, g) = 0 /\ ~Unused(p, g)
    BY <1>p, <1>3, NoIdle DEF Unused
  <2>3. Thinner(p, p)
    BY <1>p, SelfThinner
  <2>4. Kept(p, p, g)
    BY <2>2 DEF Kept
  <2> QED
    BY <2>1, <2>3, <2>4 DEF Fed, Thinner, Alike
<1>4. CASE ~(p.idle[g] = <<>> /\ ~CanUseAdditionalSocketSlot(p, g))
  <2>1. PICK res \in RequestSocketInternal(p, g, r) :
          q = IF res.rv = "PENDING"
              THEN res.pool
              ELSE InvokeUserCallbackLater(
                     RemoveGroupIfEmpty(PopNextPendingRequest(res.pool, g), g), r.handle, res.rv)
    BY <1>4 DEF ProcessPendingRequest
  <2> HIDE DEF r
  <2>2. Outcome(p, g, res) /\ res.pool \in PoolType
    BY <1>2, RequestSocketInternalOutcome
  <2>3. res.pool.pending = p.pending
    <3>1. Served(p, hd, g, r.handle, res)
      BY <1>2, RequestSocketInternalInv
    <3> QED
      BY <3>1 DEF Served
  <2>4. IF res.rv = "PENDING" THEN q = res.pool
        ELSE Change(res.pool, q, g, -1, 0, 0, 0) /\ Spare(q, g) = Spare(res.pool, g)
    <3>1. CASE res.rv = "PENDING"
      BY <2>1, <3>1
    <3>2. CASE res.rv # "PENDING"
      <4>1. 1 \in 1 .. Len(res.pool.pending[g])
        BY <1>1, <2>3
      <4> DEFINE z == res.pool
                 h == r.handle
                 rv == res.rv
      <4>2. q = InvokeUserCallbackLater(RemoveGroupIfEmpty(PopNextPendingRequest(z, g), g), h, rv)
        BY <2>1, <3>2
      <4>3. z \in PoolType /\ 1 \in 1 .. Len(z.pending[g])
        BY <2>2, <4>1
      <4> HIDE DEF z, h, rv
      <4>4. Change(z, q, g, -1, 0, 0, 0) /\ Spare(q, g) = Spare(z, g)
        BY <4>2, <4>3, PopAndNotifyChange
      <4> QED
        BY <3>2, <4>4 DEF z
    <3> QED
      BY <3>1, <3>2
  <2> QED
    BY <1>p, <1>q, <2>2, <2>4, OutcomeFed
<1> QED
  BY <1>3, <1>4

\* So does OnAvailableSocketSlot(), or there is nobody to feed.
LEMMA OnAvailableSocketSlotFed ==
  ASSUME "ERR" \notin ConnectResults,
         NEW p, NEW hd \in HandleType, NEW g \in Groups, PoolInv(p, hd, NoHandle),
         NEW q \in OnAvailableSocketSlot(p, g)
  PROVE  Fed(p, q, g) /\ q \in PoolType /\ PoolInv(q, hd, NoHandle)
<1>p. p \in PoolType
  BY DEF PoolInv
<1>q. PoolInv(q, hd, NoHandle)
  BY OnAvailableSocketSlotInv
<1>t. q \in PoolType
  BY <1>q DEF PoolInv
<1>1. CASE p.pending[g] # <<>>
  <2>1. q \in ProcessPendingRequest(p, g)
    BY <1>1 DEF OnAvailableSocketSlot
  <2>2. Fed(p, q, g)
    BY <1>1, <2>1, ProcessPendingRequestFed
  <2> QED
    BY <1>q, <1>t, <2>2
<1>2. CASE p.pending[g] = <<>>
  <2>1. q = RemoveGroupIfEmpty(p, g)
    BY <1>2 DEF OnAvailableSocketSlot
  <2>2. SameSlots(p, q)
    BY <1>p, <2>1 DEF RemoveGroupIfEmpty, SameSlots, PoolType
  <2>3. Thinner(p, q)
    BY <1>p, <2>2, SameSlotsThinner
  <2>4. Waits(p, g) = 0 /\ Idle(q, g) = Idle(p, g)
    BY <1>2, <2>2 DEF Waits, Idle, SameSlots
  <2>5. Kept(p, q, g)
    BY <2>3, <2>4 DEF Kept, Thinner, Alike
  <2>6. Fed(p, q, g)
    BY <2>3, <2>5 DEF Fed, Thinner, Alike
  <2> QED
    BY <1>q, <1>t, <2>6
<1> QED
  BY <1>1, <1>2

\* CloseOneIdleSocket() closes exactly one, if there is one.
LEMMA CloseOneIdleSocketOne ==
  ASSUME NEW p, NEW hd, NEW x, PoolInv(p, hd, x), NEW q \in CloseOneIdleSocket(p)
  PROVE  /\ Thinner(p, q)
         /\ p.idle_socket_count > 0 => q.idle_socket_count = p.idle_socket_count - 1
<1>p. p \in PoolType /\ p.idle_socket_count \in Nat
  BY PoolFields DEF PoolInv
<1>1. CASE p.idle_socket_count = 0
  <2>1. q = p
    BY <1>1 DEF CloseOneIdleSocket
  <2> QED
    BY <1>p, <1>1, <2>1, SelfThinner
<1>2. CASE p.idle_socket_count # 0
  <2>1. q \in CloseOneIdleSocketExceptInGroup(p, {}) /\ {} \in SUBSET Groups
    BY <1>2 DEF CloseOneIdleSocket
  <2>2. Thinner(p, q)
    BY <2>1, CloseOneIdleSocketThinner
  <2>3. \/ q = p /\ \A k \in Groups \ {} : p.idle[k] = <<>>
        \/ OneLess(p, q, {})
    BY <2>1, CloseOneIdleSocketExceptInGroupInv
  <2>4. ~(\A k \in Groups \ {} : p.idle[k] = <<>>)
    <3> SUFFICES ASSUME \A k \in Groups \ {} : p.idle[k] = <<>>
                 PROVE  FALSE
      OBVIOUS
    <3>1. \A k \in Groups : IdleCounts(p.idle)[k] = 0
      BY DEF IdleCounts
    <3>2. Total(IdleCounts(p.idle)) = 0
      BY <1>p, <3>1, PoolCounts, TotalZero
    <3> QED
      BY <1>2, <3>2 DEF PoolInv, GroupsInv, Counted
  <2> QED
    BY <2>2, <2>3, <2>4 DEF OneLess
<1> QED
  BY <1>1, <1>2

\* A group that could use a slot is stalled: it is in the map.
LEMMA UnusedStalled ==
  ASSUME NEW p, NEW hd, NEW x, PoolInv(p, hd, x), NEW k \in Groups
  PROVE  Unused(p, k) <=> k \in StalledGroups(p)
<1>1. Unused(p, k) => k \in p.group_map
  <2> SUFFICES ASSUME Unused(p, k), IsEmpty(p, k)
               PROVE  FALSE
    BY DEF PoolInv, GroupsInv, Mapped
  <2>1. p.pending[k] = <<>> /\ p.jobs[k] = 0
    BY DEF IsEmpty
  <2>2. Len(p.pending[k]) > p.jobs[k]
    BY DEF Unused, CanUseAdditionalSocketSlot
  <2> QED
    BY <2>1, <2>2
<1> QED
  BY <1>1 DEF StalledGroups, Unused

\* CheckForStalledSocketGroups() uses the one slot that may be left.
LEMMA CheckForStalledSocketGroupsSlots ==
  ASSUME "ERR" \notin ConnectResults,
         NEW p, NEW hd \in HandleType, NEW f \in Groups, PoolInv(p, hd, NoHandle),
         \A k \in Groups : Sound(p, k), Almost(p, f), NEW q \in CheckForStalledSocketGroups(p)
  PROVE  SlotInv(q)
<1>p. p \in PoolType
  BY DEF PoolInv
<1>q. q \in PoolType
  <2>1. PoolInv(q, hd, NoHandle)
    BY CheckForStalledSocketGroupsInv
  <2> QED
    BY <2>1 DEF PoolInv
<1>1. CASE StalledGroups(p) = {}
  <2>1. q = p \/ q \in CloseOneIdleSocket(p)
    BY <1>1 DEF CheckForStalledSocketGroups
  <2>2. \A k \in Groups : ~Unused(p, k)
    BY <1>1, UnusedStalled
  <2>3. SlotInv(p)
    BY <2>2 DEF SlotInv
  <2>4. CASE q \in CloseOneIdleSocket(p)
    <3>1. Thinner(p, q)
      BY <2>4, CloseOneIdleSocketOne
    <3> QED
      BY <1>p, <1>q, <2>3, <3>1, FewerIdle DEF Thinner
  <2> QED
    BY <2>1, <2>3, <2>4
<1>2. CASE StalledGroups(p) # {} /\ ReachedMaxSocketsLimit(p) /\ p.idle_socket_count = 0
  <2>1. q = p
    BY <1>2 DEF CheckForStalledSocketGroups
  <2> QED
    BY <1>2, <2>1 DEF SlotInv, Spent
<1>3. CASE StalledGroups(p) # {} /\ ~(ReachedMaxSocketsLimit(p) /\ p.idle_socket_count = 0)
  <2>1. PICK w \in (IF ReachedMaxSocketsLimit(p) THEN CloseOneIdleSocket(p) ELSE {p}),
             g \in FindTopStalledGroup(p) : q \in OnAvailableSocketSlot(w, g)
    BY <1>3 DEF CheckForStalledSocketGroups
  <2>2. g \in Groups /\ Unused(p, g)
    <3>1. p.group_map \subseteq Groups /\ g \in StalledGroups(p)
      BY <1>p, <2>1, PoolFields DEF FindTopStalledGroup
    <3>2. g \in Groups
      BY <3>1 DEF StalledGroups
    <3> QED
      BY <3>1, <3>2, UnusedStalled
  <2>n. /\ Taken(p) \in Nat /\ p.idle_socket_count \in Nat /\ max_sockets \in Nat
        /\ ReachedMaxSocketsLimit(p) <=> Taken(p) + p.idle_socket_count >= max_sockets
    BY <1>p, PoolNumbers
  <2>3. /\ Thinner(p, w) /\ PoolInv(w, hd, NoHandle)
        /\ OneLeft(p) => Taken(w) >= max_sockets - 1 /\ w.idle_socket_count = 0
    <3>1. CASE ReachedMaxSocketsLimit(p)
      <4>1. w \in CloseOneIdleSocket(p)
        BY <2>1, <3>1
      <4>2. Thinner(p, w) /\ PoolInv(w, hd, NoHandle)
        BY <4>1, CloseOneIdleSocketOne, CloseOneIdleSocketInv
      <4>3. w.idle_socket_count = p.idle_socket_count - 1
        BY <1>3, <2>n, <3>1, <4>1, CloseOneIdleSocketOne
      <4>4. w.idle_socket_count \in Nat
        <5>1. w \in PoolType
          BY <4>2 DEF PoolInv
        <5> QED
          BY <5>1, PoolNumbers
      <4> QED
        BY <2>n, <4>2, <4>3, <4>4 DEF OneLeft, Thinner
    <3>2. CASE ~ReachedMaxSocketsLimit(p)
      <4>1. w = p
        BY <2>1, <3>2
      <4>2. OneLeft(p) => Taken(p) >= max_sockets - 1 /\ p.idle_socket_count = 0
        BY <2>n, <3>2 DEF OneLeft
      <4> QED
        BY <1>p, <4>1, <4>2, SelfThinner
    <3> QED
      BY <3>1, <3>2
  <2>w. w \in PoolType
    BY <2>3 DEF PoolInv
  <2>4. \A k \in Groups : Sound(w, k) /\ (Unused(p, k) <=> Unused(w, k))
    <3>1. \A k \in Groups : Numbers(p, k) /\ Numbers(w, k) /\ Alike(p, w, k)
      BY <1>p, <2>w, <2>3, PoolNumbers DEF Thinner
    <3> QED
      BY <3>1, AlikeSound
  <2>5. OnlyIn(p, f) => OnlyIn(w, f)
    <3>1. Alike(p, w, f)
      BY <2>3 DEF Thinner
    <3>2. OneWanted(p, f) => OneWanted(w, f)
      BY <3>1 DEF OneWanted, Alike
    <3> QED
      BY <2>4, <3>2 DEF OnlyIn
  <2>6. Fed(w, q, g)
    BY <2>1, <2>2, <2>3, OnAvailableSocketSlotFed
  <2>7. \/ Taken(w) >= max_sockets - 1 /\ w.idle_socket_count = 0
        \/ OnlyIn(w, f)
    BY <2>3, <2>5 DEF Almost
  <2>8. Unused(w, g) /\ \A k \in Groups : Sound(w, k)
    BY <2>2, <2>4
  <2> QED
    BY <1>q, <2>w, <2>2, <2>6, <2>7, <2>8, FedSlots
<1> QED
  BY <1>1, <1>2, <1>3

\* OfferSlot(): its own group first, then the others.
LEMMA OfferSlotSlots ==
  ASSUME "ERR" \notin ConnectResults,
         NEW p, NEW hd \in HandleType, NEW g \in Groups, PoolInv(p, hd, NoHandle),
         Almost(p, g), NEW q \in OfferSlot(p, g)
  PROVE  SlotInv(q)
<1>1. PICK w \in OnAvailableSocketSlot(p, g) : q \in CheckForStalledSocketGroups(w)
  BY DEF OfferSlot
<1>p. p \in PoolType
  BY DEF PoolInv
<1>2. Fed(p, w, g) /\ w \in PoolType /\ PoolInv(w, hd, NoHandle)
  BY OnAvailableSocketSlotFed
<1>3. Almost(w, g) /\ Sound(w, g)
  BY <1>p, <1>2, FedAlmost
<1>4. \A k \in Groups : Sound(w, k)
  BY <1>3 DEF Almost
<1> QED
  BY <1>1, <1>2, <1>3, <1>4, CheckForStalledSocketGroupsSlots

-------------------------------------------------------------------------------
(* Results and cancellation. *)

\* A change of group g alone, after which the group wants nothing new.
LEMMA ChangeSlots ==
  ASSUME NEW p \in PoolType, NEW q \in PoolType, NEW g \in Groups, NEW w, NEW j, NEW a, NEW i,
         SlotInv(p), Change(p, q, g, w, j, a, i), Sound(q, g),
         Unused(q, g) => Unused(p, g), Spent(p) => Spent(q)
  PROVE  SlotInv(q)
<1>1. \A k \in Groups : Numbers(p, k) /\ Numbers(q, k)
  BY PoolNumbers
<1>2. \A k \in Groups \ {g} : Sound(q, k) /\ (Unused(p, k) <=> Unused(q, k))
  BY <1>1, AlikeSound DEF SlotInv, Change
<1> QED
  BY <1>2 DEF SlotInv

\* A change of group g that frees one slot.
LEMMA ChangeFrees ==
  ASSUME NEW p \in PoolType, NEW q \in PoolType, NEW g \in Groups, NEW w \in {-1, 0},
         NEW j \in {-1, 0}, NEW a \in {-1, 0}, NEW i \in {0, 1}, j + a = -1,
         SlotInv(p), Change(p, q, g, w, j, a, i), Loose(q, g)
  PROVE  Almost(q, g)
<1>n. Numbers(p, g) /\ Numbers(q, g)
  BY PoolNumbers
<1>c. Taken(p) \in Nat /\ p.idle_socket_count \in Nat
  BY PoolNumbers
<1>1. /\ \A k \in Groups \ {g} : Alike(p, q, k)
      /\ Waits(q, g) = Waits(p, g) + w /\ Jobs(q, g) = Jobs(p, g) + j
      /\ Active(q, g) = Active(p, g) + a
      /\ Taken(q) = Taken(p) + j + a /\ q.idle_socket_count = p.idle_socket_count + i
  BY DEF Change
<1>2. Taken(q) = Taken(p) - 1 /\ q.idle_socket_count <= p.idle_socket_count + 1
  BY <1>c, <1>1
<1>3. /\ Active(q, g) + Jobs(q, g) = Active(p, g) + Jobs(p, g) - 1
      /\ Waits(q, g) - Jobs(q, g) <= Waits(p, g) - Jobs(p, g) + 1
  BY <1>n, <1>1 DEF Numbers
<1>4. Frees(p, q, g)
  BY <1>1, <1>2, <1>3 DEF Frees
<1> QED
  BY <1>4, FreesAlmost

\* OnConnectJobComplete() offers the slot of the job, unless its request takes the socket.
LEMMA OnConnectJobCompleteSlots ==
  ASSUME "ERR" \notin ConnectResults,
         NEW p, NEW hd \in HandleType, NEW g \in Groups, NEW result \in CompletionResults,
         PoolInv(p, hd, NoHandle), SlotInv(p), p.jobs[g] > 0,
         NEW w \in OnConnectJobComplete(p, g, result)
  PROVE  SlotInv(w)
<1> DEFINE q == RemoveConnectJob(p, g)
           h == Head(p.pending[g]).handle
           popped == PopNextPendingRequest(q, g)
<1>p. p \in PoolType
  BY DEF PoolInv
<1>1. /\ PoolInv(q, hd, NoHandle) /\ SameHandles(p, q) /\ q.group_map = p.group_map
      /\ g \in p.group_map /\ Room(q, g)
  BY RemoveConnectJobInv
<1>c. /\ Change(p, q, g, 0, -1, 0, 0)
      /\ Spare(q, g) = IF Jobs(p, g) - 1 < Spare(p, g) THEN Jobs(p, g) - 1 ELSE Spare(p, g)
  BY <1>p, RemoveConnectJobChange
<1> HIDE DEF q
<1>2. NewSocket(q) \in Socket /\ NewSocket(q).birth = q.generation /\ q \in PoolType
  <2>1. q \in PoolType
    BY <1>1 DEF PoolInv
  <2> QED
    BY <2>1, PoolFields DEF NewSocket, Socket
<1>n. Numbers(p, g) /\ Numbers(q, g) /\ Sound(p, g) /\ Jobs(p, g) > 0
  BY <1>p, <1>2, PoolNumbers DEF SlotInv, Jobs
<1>x. Taken(p) \in Nat /\ p.idle_socket_count \in Nat /\ Taken(q) \in Nat /\ q.idle_socket_count \in Nat
  BY <1>p, <1>2, PoolNumbers
<1>3. CASE p.pending[g] = <<>>
  <2> DEFINE b == AddIdleSocket(q, g, NewSocket(q))
             a == IF result = "OK" THEN b ELSE q
  <2>1. w \in OfferSlot(a, g)
    BY <1>3 DEF OnConnectJobComplete, q
  <2>2. PoolInv(b, hd, NoHandle)
    BY <1>1, <1>2, AddIdleSocketInv
  <2>w. Waits(p, g) = 0
    BY <1>3 DEF Waits
  <2>3. Almost(q, g)
    <3>1. Loose(q, g)
      BY <1>n, <1>c, <2>w DEF Loose, Change, Numbers
    <3>2. -1 \in {-1, 0} /\ 0 \in {-1, 0} /\ 0 \in {0, 1} /\ -1 + 0 = -1
      OBVIOUS
    <3> QED
      BY <1>p, <1>2, <1>c, <3>1, <3>2, ChangeFrees
  <2>4. Almost(b, g)
    <3>1. Change(q, b, g, 0, 0, 0, 1) /\ Spare(b, g) = Spare(q, g)
      BY <1>2, AddIdleSocketChange
    <3>2. b \in PoolType
      BY <2>2 DEF PoolInv
    <3> HIDE DEF b
    <3>n. Numbers(b, g)
      BY <3>2, PoolNumbers
    <3>3. Loose(b, g)
      BY <1>n, <1>c, <2>w, <3>1, <3>n DEF Loose, Change, Numbers
    <3>4. Change(p, b, g, 0 + 0, -1 + 0, 0 + 0, 0 + 1)
      <4>1. 0 \in Int /\ -1 \in Int /\ 1 \in Int
        OBVIOUS
      <4> QED
        BY <1>p, <1>2, <1>c, <3>1, <3>2, <4>1, ChangeTwice
    <3>5. Change(p, b, g, 0, -1, 0, 1)
      BY <3>4
    <3>6. -1 \in {-1, 0} /\ 0 \in {-1, 0} /\ 1 \in {0, 1} /\ -1 + 0 = -1
      OBVIOUS
    <3> QED
      BY <1>p, <3>2, <3>3, <3>5, <3>6, ChangeFrees
  <2> HIDE DEF b
  <2>5. PoolInv(a, hd, NoHandle) /\ Almost(a, g)
    BY <1>1, <2>2, <2>3, <2>4
  <2> HIDE DEF a
  <2> QED
    BY <2>1, <2>5, OfferSlotSlots
<1>4. CASE p.pending[g] # <<>>
  <2>1. 1 \in 1 .. Len(p.pending[g]) /\ h = p.pending[g][1].handle
    BY <1>4, HeadRequest
  <2>2. /\ h \in Handles /\ hd[h] = WaitingIn(g)
        /\ hd[h].group_name # NoGroup /\ ~hd[h].is_initialized
        /\ p.socket[h] = NoSocket
    BY <2>1, QueuedRequest
  <2> HIDE DEF h
  <2>3. q.pending = p.pending /\ q.socket = p.socket /\ q.generation = p.generation
    BY <1>1 DEF SameHandles
  <2>4. /\ PoolInv(popped, hd, NoHandle) /\ NotQueued(popped, h)
        /\ popped.group_map = q.group_map /\ popped.socket = q.socket
        /\ popped.generation = q.generation /\ Room(popped, g)
    BY <1>1, <2>1, <2>3, RemovePendingRequestInv DEF PopNextPendingRequest
  <2>5. Change(q, popped, g, -1, 0, 0, 0) /\ Spare(popped, g) = Spare(q, g)
    BY <1>2, <2>1, <2>3, RemovePendingRequestChange DEF PopNextPendingRequest
  <2> HIDE DEF popped
  <2>6. popped \in PoolType /\ PoolInv(popped, hd, h)
    BY <2>4, ExceptHandleInv DEF PoolInv
  <2>7. Change(p, popped, g, -1, -1, 0, 0)
    <3>1. 0 \in Int /\ -1 \in Int
      OBVIOUS
    <3>2. Change(p, popped, g, 0 + (-1), -1 + 0, 0 + 0, 0 + 0)
      BY <1>p, <1>2, <1>c, <2>5, <2>6, <3>1, ChangeTwice
    <3> QED
      BY <3>2
  <2>n. Numbers(popped, g) /\ Taken(popped) \in Nat /\ popped.idle_socket_count \in Nat
    BY <2>6, PoolNumbers
  <2>s. /\ Waits(popped, g) > Jobs(popped, g) => Idle(popped, g) = 0
        /\ Spare(popped, g) > 0 => Waits(popped, g) + Spare(popped, g) <= Jobs(popped, g)
    BY <1>n, <1>c, <2>5, <2>7, <2>n DEF Sound, Change, Numbers
  <2>8. CASE result \in {"OK", "ERR_SOCKET"}
    <3> DEFINE a == HandOutSocket(popped, g, h, NewSocket(q))
    <3>1. w = InvokeUserCallbackLater(a, h, result)
      BY <1>4, <2>8 DEF OnConnectJobComplete, q, h, popped
    <3>2. PoolInv(a, hd, h)
      <4>1. popped.socket[h] = NoSocket /\ NewSocket(q).birth = popped.generation
            /\ g \in popped.group_map
        BY <1>1, <1>2, <2>2, <2>3, <2>4
      <4> QED
        BY <1>2, <2>2, <2>4, <2>6, <4>1, HandOutSocketInv
    <3>3. Change(popped, a, g, 0, 0, 1, 0) /\ Spare(a, g) = Spare(popped, g)
      BY <2>6, HandOutSocketChange
    <3> HIDE DEF a
    <3>4. a \in PoolType
      BY <3>2 DEF PoolInv
    <3>5. Change(p, a, g, -1, -1, 1, 0)
      <4>1. 0 \in Int /\ -1 \in Int /\ 1 \in Int
        OBVIOUS
      <4>2. Change(p, a, g, -1 + 0, -1 + 0, 0 + 1, 0 + 0)
        BY <1>p, <2>6, <2>7, <3>3, <3>4, <4>1, ChangeTwice
      <4> QED
        BY <4>2
    <3>n. Numbers(a, g)
      BY <3>4, PoolNumbers
    <3>6. Sound(a, g)
      BY <2>n, <2>s, <3>3, <3>n DEF Sound, Change, Numbers
    <3>7. Unused(a, g) => Unused(p, g)
      BY <1>n, <3>n, <3>5, UnusedMeans DEF Change, Numbers
    <3>8. Spent(p) => Spent(a)
      <4>1. Taken(a) = Taken(p) /\ a.idle_socket_count = p.idle_socket_count
        BY <1>x, <3>5 DEF Change
      <4> QED
        BY <1>p, <3>4, <4>1, PoolNumbers
    <3>9. SlotInv(a)
      BY <1>p, <3>4, <3>5, <3>6, <3>7, <3>8, ChangeSlots
    <3>10. SameSlots(a, w)
      BY <3>1, <3>4 DEF InvokeUserCallbackLater, SameSlots, PoolType
    <3> QED
      BY <3>9, <3>10, SameSlotsInv
  <2>9. CASE result \notin {"OK", "ERR_SOCKET"}
    <3> DEFINE a == InvokeUserCallbackLater(popped, h, result)
    <3>1. w \in OfferSlot(a, g)
      BY <1>4, <2>9 DEF OnConnectJobComplete, q, h, popped
    <3>2. PoolInv(a, hd, NoHandle)
      BY <2>2, <2>4, <2>6, <2>9, InvokeUserCallbackLaterInv
    <3>3. SameSlots(popped, a)
      BY <2>6 DEF InvokeUserCallbackLater, SameSlots, PoolType
    <3> HIDE DEF a
    <3>4. Almost(popped, g)
      <4>1. Loose(popped, g)
        BY <2>n, <2>s DEF Loose
      <4>2. -1 \in {-1, 0} /\ 0 \in {-1, 0} /\ 0 \in {0, 1} /\ -1 + 0 = -1
        OBVIOUS
      <4> QED
        BY <1>p, <2>6, <2>7, <4>1, <4>2, ChangeFrees
    <3>5. Almost(a, g)
      BY <3>3, <3>4, SameSlotsInv
    <3> QED
      BY <3>1, <3>2, <3>5, OfferSlotSlots
  <2> QED
    BY <2>8, <2>9
<1> QED
  BY <1>3, <1>4

\* ReleaseSocket() offers the slot of the socket.
LEMMA ReleaseSocketSlots ==
  ASSUME "ERR" \notin ConnectResults,
         NEW p, NEW hd \in HandleType, NEW h \in Handles, NEW g \in Groups,
         PoolInv(p, hd, NoHandle), SlotInv(p), p.socket[h] # NoSocket, hd[h].group_name = g,
         NEW s \in Socket, s.birth = p.socket[h].birth, NEW connected, NEW passed,
         passed.generation = p.generation,
         [passed EXCEPT !.handed_out_socket_count = @ - 1, !.active[g] = @ - 1] = Dropped(p, g, h),
         NEW w \in ReleaseSocket(passed, g, s, p.pool_id[h], connected)
  PROVE  SlotInv(w)
<1> DEFINE q == Dropped(p, g, h)
           hd2 == Freed(hd, h)
<1>p. p \in PoolType
  BY DEF PoolInv
<1>1. PoolInv(q, hd2, NoHandle) /\ Room(q, g)
  BY DroppedInv, Zenon
<1>2. g \in q.group_map /\ q.generation = p.generation
  <2>1. g \in p.group_map
    BY DroppedInv, Zenon
  <2>2. q.group_map = p.group_map /\ q.generation = p.generation
    BY <1>p DEF Dropped, PoolType
  <2> QED
    BY <2>1, <2>2
<1>3. hd2 \in HandleType
  BY FreedType
<1>4. s.birth = p.pool_id[h]
  BY DEF PoolInv, HandlesInv, HeldBorn
<1>5. w \in IF connected /\ p.pool_id[h] = p.generation
            THEN OfferSlot(AddIdleSocket(q, g, s), g)
            ELSE CheckForStalledSocketGroups(q)
  BY DEF ReleaseSocket
<1>c. Change(p, q, g, 0, 0, -1, 0) /\ Spare(q, g) = Spare(p, g)
  BY <1>p, DroppedChange
<1> HIDE DEF q, hd2
<1>q. q \in PoolType
  BY <1>1 DEF PoolInv
<1>n. Numbers(p, g) /\ Numbers(q, g) /\ Sound(p, g)
  BY <1>p, <1>q, PoolNumbers DEF SlotInv
<1>6. Sound(q, g)
  BY <1>n, <1>c DEF Sound, Change, Numbers
<1>m. -1 \in {-1, 0} /\ 0 \in {-1, 0} /\ 0 \in {0, 1} /\ 1 \in {0, 1} /\ 0 + (-1) = -1
  OBVIOUS
<1>7. CASE connected /\ p.pool_id[h] = p.generation
  <2> DEFINE a == AddIdleSocket(q, g, s)
  <2>1. w \in OfferSlot(a, g)
    BY <1>5, <1>7
  <2>2. s.birth = q.generation
    BY <1>2, <1>4, <1>7
  <2>3. PoolInv(a, hd2, NoHandle)
    BY <1>1, <1>2, <2>2, AddIdleSocketInv, Zenon
  <2>4. Change(q, a, g, 0, 0, 0, 1) /\ Spare(a, g) = Spare(q, g)
    BY <1>q, AddIdleSocketChange
  <2> HIDE DEF a
  <2>5. a \in PoolType
    BY <2>3 DEF PoolInv
  <2>6. Change(p, a, g, 0, 0, -1, 1)
    <3>1. 0 \in Int /\ -1 \in Int /\ 1 \in Int
      OBVIOUS
    <3>2. Change(p, a, g, 0 + 0, 0 + 0, -1 + 0, 0 + 1)
      BY <1>p, <1>q, <1>c, <2>4, <2>5, <3>1, ChangeTwice
    <3> QED
      BY <3>2
  <2>n. Numbers(a, g)
    BY <2>5, PoolNumbers
  <2>7. Loose(a, g)
    BY <1>n, <1>6, <2>4, <2>n DEF Loose, Sound, Change, Numbers
  <2>8. Almost(a, g)
    BY <1>p, <1>m, <2>5, <2>6, <2>7, ChangeFrees
  <2> QED
    BY <1>3, <2>1, <2>3, <2>8, OfferSlotSlots
<1>8. CASE ~(connected /\ p.pool_id[h] = p.generation)
  <2>1. w \in CheckForStalledSocketGroups(q)
    BY <1>5, <1>8
  <2>2. Loose(q, g)
    BY <1>n, <1>6 DEF Loose, Sound
  <2>3. Almost(q, g)
    BY <1>p, <1>q, <1>c, <1>m, <2>2, ChangeFrees
  <2>4. \A k \in Groups : Sound(q, k)
    BY <1>6, <2>3 DEF Almost
  <2> QED
    BY <1>1, <1>3, <2>1, <2>3, <2>4, CheckForStalledSocketGroupsSlots
<1> QED
  BY <1>7, <1>8

\* A cancelled request frees the slot of its job only at the limit, and then offers it.
LEMMA CancelPendingRequestSlots ==
  ASSUME "ERR" \notin ConnectResults,
         NEW p, NEW hd \in HandleType, NEW g \in Groups, NEW i \in 1 .. Len(p.pending[g]),
         NEW h, h = p.pending[g][i].handle, PoolInv(p, hd, NoHandle), SlotInv(p),
         NEW w \in CancelPendingRequest(p, g, i)
  PROVE  SlotInv(w)
<1> DEFINE q == RemovePendingRequest(p, g, i)
<1>p. p \in PoolType
  BY DEF PoolInv
<1>1. PoolInv(q, hd, NoHandle)
  BY RemovePendingRequestInv, Zenon
<1>2. w \in IF q.jobs[g] > Len(q.pending[g]) /\ ReachedMaxSocketsLimit(q)
            THEN CheckForStalledSocketGroups(RemoveConnectJob(q, g))
            ELSE {q}
  BY DEF CancelPendingRequest
<1>c. Change(p, q, g, -1, 0, 0, 0) /\ Spare(q, g) = Spare(p, g)
  BY <1>p, RemovePendingRequestChange
<1> HIDE DEF q
<1>q. q \in PoolType
  BY <1>1 DEF PoolInv
<1>n. Numbers(p, g) /\ Numbers(q, g) /\ Sound(p, g)
  BY <1>p, <1>q, PoolNumbers DEF SlotInv
<1>x. Taken(p) \in Nat /\ p.idle_socket_count \in Nat
  BY <1>p, PoolNumbers
<1>3. CASE q.jobs[g] > Len(q.pending[g]) /\ ReachedMaxSocketsLimit(q)
  <2> DEFINE c == RemoveConnectJob(q, g)
  <2>0. Jobs(q, g) > Waits(q, g)
    BY <1>3 DEF Jobs, Waits
  <2>1. q.jobs[g] > 0
    <3>1. Jobs(q, g) > 0
      BY <1>n, <2>0 DEF Numbers
    <3> QED
      BY <3>1 DEF Jobs
  <2>2. PoolInv(c, hd, NoHandle)
    BY <1>1, <2>1, RemoveConnectJobInv, Zenon
  <2>3. w \in CheckForStalledSocketGroups(c)
    BY <1>2, <1>3
  <2>4. /\ Change(q, c, g, 0, -1, 0, 0)
        /\ Spare(c, g) = IF Jobs(q, g) - 1 < Spare(q, g) THEN Jobs(q, g) - 1 ELSE Spare(q, g)
    BY <1>q, RemoveConnectJobChange
  <2> HIDE DEF c
  <2>5. c \in PoolType
    BY <2>2 DEF PoolInv
  <2>n. Numbers(c, g)
    BY <2>5, PoolNumbers
  <2>6. Change(p, c, g, -1, -1, 0, 0)
    <3>1. 0 \in Int /\ -1 \in Int
      OBVIOUS
    <3>2. Change(p, c, g, -1 + 0, 0 + (-1), 0 + 0, 0 + 0)
      BY <1>p, <1>q, <1>c, <2>4, <2>5, <3>1, ChangeTwice
    <3> QED
      BY <3>2
  <2>7. Sound(c, g)
    BY <1>n, <1>c, <2>0, <2>4, <2>6, <2>n DEF Sound, Change, Numbers
  <2>8. Loose(c, g)
    BY <2>7, <2>n DEF Sound, Loose
  <2>9. -1 \in {-1, 0} /\ 0 \in {-1, 0} /\ 0 \in {0, 1} /\ -1 + 0 = -1
    OBVIOUS
  <2>10. Almost(c, g)
    BY <1>p, <2>5, <2>6, <2>8, <2>9, ChangeFrees
  <2>11. \A k \in Groups : Sound(c, k)
    BY <2>7, <2>10 DEF Almost
  <2> QED
    BY <2>2, <2>3, <2>10, <2>11, CheckForStalledSocketGroupsSlots
<1>4. CASE ~(q.jobs[g] > Len(q.pending[g]) /\ ReachedMaxSocketsLimit(q))
  <2>1. w = q
    BY <1>2, <1>4
  <2>2. Sound(q, g)
    BY <1>n, <1>c DEF Sound, Change, Numbers
  <2>3. Unused(q, g) => Unused(p, g)
    BY <1>n, <1>c, UnusedMeans DEF Change, Numbers
  <2>4. Spent(p) => Spent(q)
    <3>1. Taken(q) = Taken(p) /\ q.idle_socket_count = p.idle_socket_count
      BY <1>x, <1>c DEF Change
    <3> QED
      BY <1>p, <1>q, <3>1, PoolNumbers
  <2> QED
    BY <1>p, <1>q, <1>c, <2>1, <2>2, <2>3, <2>4, ChangeSlots
<1> QED
  BY <1>3, <1>4

\* CancelRequest() of a queued handle, or of one whose result is posted.
LEMMA CancelRequestSlots ==
  ASSUME "ERR" \notin ConnectResults,
         NEW p, NEW hd \in HandleType, NEW g \in Groups, NEW h \in Handles,
         PoolInv(p, hd, NoHandle), SlotInv(p), hd[h] = WaitingIn(g),
         NEW connected, NEW w \in CancelRequest(p, g, h, connected)
  PROVE  SlotInv(w)
<1> DEFINE q == [p EXCEPT !.pending_callback_map[h] = NoResult]
           result == p.pending_callback_map[h]
<1>p. p \in PoolType
  BY DEF PoolInv
<1>h. hd[h].group_name = g
  BY DEF WaitingIn
<1>1. CASE result = NoResult /\ PositionOf(p, g, h) = {}
  <2>1. w = p
    BY <1>1 DEF CancelRequest
  <2> QED
    BY <2>1
<1>2. CASE result = NoResult /\ PositionOf(p, g, h) # {}
  <2>1. PICK i \in PositionOf(p, g, h) : w \in CancelPendingRequest(p, g, i)
    BY <1>2 DEF CancelRequest
  <2>2. i \in 1 .. Len(p.pending[g]) /\ h = p.pending[g][i].handle
    BY DEF PositionOf
  <2> QED
    BY <2>1, <2>2, CancelPendingRequestSlots
<1>3. CASE result # NoResult /\ p.socket[h] = NoSocket
  <2>1. w = q
    BY <1>3 DEF CancelRequest
  <2>2. SameSlots(p, q)
    BY <1>p DEF SameSlots, PoolType
  <2> HIDE DEF q
  <2> QED
    BY <2>1, <2>2, SameSlotsInv
<1>4. CASE result # NoResult /\ p.socket[h] # NoSocket
  <2> DEFINE passed == PassSocket(q, h)
             c == connected /\ result = "OK"
             s == p.socket[h]
  <2>1. w \in ReleaseSocket(passed, g, s, p.pool_id[h], c)
    BY <1>4 DEF CancelRequest
  <2>2. [passed EXCEPT !.handed_out_socket_count = @ - 1, !.active[g] = @ - 1] = Dropped(p, g, h)
    BY <1>p DEF PassSocket, Dropped, PoolType
  <2>3. passed.generation = p.generation
    BY <1>p DEF PassSocket, PoolType
  <2>4. s \in Socket
    BY <1>4, HeldSocket
  <2> HIDE DEF passed, c
  <2> QED
    BY <1>4, <1>h, <2>1, <2>2, <2>3, <2>4, ReleaseSocketSlots
<1> QED
  BY <1>1, <1>2, <1>3, <1>4

\* ResetHandle() releases, cancels, or has nothing to do.
LEMMA ResetHandleSlots ==
  ASSUME "ERR" \notin ConnectResults,
         NEW p, NEW h \in Handles, NEW connected \in BOOLEAN, NEW used \in BOOLEAN,
         handle \in HandleType, PoolInv(p, handle, NoHandle), SlotInv(p),
         NEW w \in ResetHandle(p, h, connected, used)
  PROVE  SlotInv(w)
<1> DEFINE g == handle[h].group_name
           s == [p.socket[h] EXCEPT !.was_ever_used = @ \/ used]
<1>p. p \in PoolType
  BY DEF PoolInv
<1>h. handle[h] \in [is_initialized : BOOLEAN, group_name : Groups \cup {NoGroup}]
  BY DEF HandleType
<1>r. Results(p, handle, NoHandle)
  BY DEF PoolInv, HandlesInv
<1>1. CASE g = NoGroup
  <2>1. w = p
    BY <1>1 DEF ResetHandle
  <2> QED
    BY <2>1
<1>2. CASE g # NoGroup /\ handle[h].is_initialized
  <2> DEFINE passed == PassSocket(p, h)
  <2>1. w \in ReleaseSocket(passed, g, s, p.pool_id[h], connected)
    BY <1>2 DEF ResetHandle
  <2>2. p.socket[h] # NoSocket /\ p.pending_callback_map[h] = NoResult
    BY <1>2, <1>r DEF Results
  <2>3. [passed EXCEPT !.handed_out_socket_count = @ - 1, !.active[g] = @ - 1] = Dropped(p, g, h)
    <3>1. p.pending_callback_map = [p.pending_callback_map EXCEPT ![h] = NoResult]
      BY <2>2, <1>p, PoolFields
    <3> QED
      BY <1>p, <3>1 DEF PassSocket, Dropped, PoolType
  <2>4. passed.generation = p.generation
    BY <1>p DEF PassSocket, PoolType
  <2>5. s \in Socket /\ s.birth = p.socket[h].birth
    BY <2>2, HeldSocket
  <2>6. g \in Groups
    BY <1>2, <1>h
  <2> HIDE DEF passed, s
  <2> QED
    BY <2>1, <2>2, <2>3, <2>4, <2>5, <2>6, ReleaseSocketSlots
<1>3. CASE g # NoGroup /\ ~handle[h].is_initialized
  <2>1. w \in CancelRequest(p, g, h, connected)
    BY <1>3 DEF ResetHandle
  <2>2. g \in Groups /\ handle[h] = WaitingIn(g)
    BY <1>3, <1>h DEF WaitingIn
  <2> QED
    BY <2>1, <2>2, CancelRequestSlots
<1> QED
  BY <1>1, <1>2, <1>3

-------------------------------------------------------------------------------
(* The operations. *)

\* Keeping fewer idle sockets is only that.
LEMMA KeepIdleSocketsThinner ==
  ASSUME NEW p, NEW hd, NEW x, NEW idle, PoolInv(p, hd, x),
         idle \in [Groups -> Seq(Socket)], \A g \in Groups : CutFits(p.idle[g], idle[g])
  PROVE  Thinner(p, KeepIdleSockets(p, idle))
<1> DEFINE m == IdleCounts(idle)
           n == IdleCounts(p.idle)
           q == KeepIdleSockets(p, idle)
<1>p. p \in PoolType /\ p.idle_socket_count \in Nat
  BY PoolFields DEF PoolInv
<1>1. n \in [Groups -> Nat] /\ \A g \in Groups : n[g] = Len(p.idle[g]) /\ n[g] \in Nat
  BY <1>p, PoolCounts DEF IdleCounts
<1>2. m \in [Groups -> Nat] /\ \A g \in Groups : m[g] = Len(idle[g]) /\ m[g] \in Nat
  BY LenProperties DEF IdleCounts
<1>3. \A g \in Groups : m[g] <= n[g]
  BY <1>1, <1>2 DEF CutFits
<1>4. /\ q.pending = p.pending /\ q.jobs = p.jobs /\ q.unassigned = p.unassigned
      /\ q.active = p.active /\ q.idle = idle
      /\ q.connecting_socket_count = p.connecting_socket_count
      /\ q.handed_out_socket_count = p.handed_out_socket_count
      /\ q.idle_socket_count = p.idle_socket_count - (Total(n) - Total(m))
  BY <1>p DEF KeepIdleSockets, RemoveEmptyGroups, PoolType
<1>5. \A k \in Groups : Len(q.idle[k]) <= Len(p.idle[k])
  BY <1>1, <1>2, <1>3, <1>4
<1> HIDE DEF m, n, q
<1>6. Total(m) <= Total(n) /\ Total(m) \in Nat /\ Total(n) \in Nat
  BY <1>1, <1>2, <1>3, TotalMonotonic, SlotsFinite
<1>7. q.idle_socket_count <= p.idle_socket_count
  BY <1>p, <1>4, <1>6
<1>8. Thinner(p, q)
  BY <1>p, <1>4, <1>5, <1>7, ThinnerFields
<1> QED
  BY <1>8 DEF q

\* CleanupIdleSockets(), forced or not.
LEMMA CleanupIdleSocketsThinner ==
  ASSUME NEW p, NEW hd, NEW x, NEW force \in BOOLEAN, PoolInv(p, hd, x),
         NEW q \in CleanupIdleSockets(p, force)
  PROVE  Thinner(p, q)
<1>t. p \in PoolType
  BY DEF PoolInv
<1>p. p.idle \in [Groups -> Seq(Socket)]
  BY <1>t, PoolFields
<1>1. CASE p.idle_socket_count = 0
  <2>1. q = p
    BY <1>1 DEF CleanupIdleSockets
  <2> QED
    BY <1>t, <2>1, SelfThinner
<1>2. CASE p.idle_socket_count # 0 /\ force
  <2> DEFINE none == [g \in Groups |-> <<>>]
  <2>1. q = KeepIdleSockets(p, none)
    BY <1>2 DEF CleanupIdleSockets
  <2>2. none \in [Groups -> Seq(Socket)]
    OBVIOUS
  <2>3. \A g \in Groups : CutFits(p.idle[g], none[g])
    <3> SUFFICES ASSUME NEW g \in Groups
                 PROVE  CutFits(p.idle[g], <<>>)
      OBVIOUS
    <3>1. Len(p.idle[g]) \in Nat
      BY <1>p, LenProperties
    <3> QED
      BY <3>1 DEF CutFits
  <2> HIDE DEF none
  <2> QED
    BY <2>1, <2>2, <2>3, KeepIdleSocketsThinner
<1>3. CASE p.idle_socket_count # 0 /\ ~force
  <2>1. PICK idle : /\ \A g \in Groups : idle[g] \in Survivors(p.idle[g])
                    /\ idle \in [Groups -> UNION {Survivors(p.idle[g]) : g \in Groups}]
                    /\ q = KeepIdleSockets(p, idle)
    BY <1>3 DEF CleanupIdleSockets
  <2>2. ASSUME NEW g \in Groups
        PROVE  CutFits(p.idle[g], idle[g])
    <3>1. p.idle[g] \in Seq(Socket) /\ idle[g] \in Survivors(p.idle[g])
      BY <1>p, <2>1
    <3> QED
      BY <3>1, SurvivorsProperties DEF CutFits
  <2>3. idle \in [Groups -> Seq(Socket)]
    BY <2>1, <2>2 DEF CutFits
  <2> QED
    BY <2>1, <2>2, <2>3, KeepIdleSocketsThinner
<1> QED
  BY <1>1, <1>2, <1>3

\* Group g alone differs, and wants nothing new, unless the pool is spent.
LEMMA GroupSlots ==
  ASSUME NEW p \in PoolType, NEW q \in PoolType, NEW g \in Groups,
         SlotInv(p), \A k \in Groups \ {g} : Alike(p, q, k), Sound(q, g),
         Spent(q) \/ ((Unused(q, g) => Unused(p, g)) /\ (Spent(p) => Spent(q)))
  PROVE  SlotInv(q)
<1>1. \A k \in Groups : Numbers(p, k) /\ Numbers(q, k)
  BY PoolNumbers
<1>2. \A k \in Groups \ {g} : Sound(q, k) /\ (Unused(p, k) <=> Unused(q, k))
  BY <1>1, AlikeSound DEF SlotInv
<1> QED
  BY <1>2 DEF SlotInv

\* A request that got its socket wants no more.
LEMMA OutcomeServedSlots ==
  ASSUME NEW p \in PoolType, NEW g \in Groups, NEW res, res.pool \in PoolType,
         Outcome(p, g, res), SlotInv(p), res.rv # "PENDING"
  PROVE  SlotInv(res.pool)
<1> DEFINE z == res.pool
<1>n. /\ Numbers(p, g) /\ Numbers(z, g) /\ Sound(p, g)
      /\ max_sockets_per_group \in Nat /\ max_sockets \in Nat
  BY PoolNumbers DEF SlotInv
<1>c. /\ Taken(p) \in Nat /\ p.idle_socket_count \in Nat
      /\ Taken(z) \in Nat /\ z.idle_socket_count \in Nat
  BY PoolNumbers
<1>1. /\ \A k \in Groups \ {g} : Alike(p, z, k)
      /\ z.idle_socket_count <= p.idle_socket_count
      /\ Idle(z, g) <= Idle(p, g)
      /\ Waits(z, g) = Waits(p, g)
      /\ Active(z, g) = Active(p, g) + 1
      /\ Jobs(z, g) = Jobs(p, g) /\ Spare(z, g) = Spare(p, g)
      /\ Taken(z) = Taken(p) + 1
  BY DEF Outcome
<1>z. z \in PoolType
  OBVIOUS
<1> HIDE DEF z
<1>2. Sound(z, g)
  BY <1>n, <1>1 DEF Sound, Numbers
<1>3. Unused(z, g) => Unused(p, g)
  BY <1>n, <1>1, UnusedMeans DEF Sound, Numbers
<1>4. Spent(p) => Spent(z)
  BY <1>c, <1>n, <1>z, <1>1, PoolNumbers
<1>5. SlotInv(z)
  BY <1>z, <1>1, <1>2, <1>3, <1>4, GroupSlots
<1> QED
  BY <1>5 DEF z

\* A request that has to wait has its job, or there is no slot for it.
LEMMA OutcomePendingSlots ==
  ASSUME NEW p \in PoolType, NEW g \in Groups, NEW res, res.pool \in PoolType,
         Outcome(p, g, res), SlotInv(p), res.rv = "PENDING", NEW q \in PoolType,
         Change(res.pool, q, g, 1, 0, 0, 0), Spare(q, g) = Spare(res.pool, g)
  PROVE  SlotInv(q)
<1> DEFINE z == res.pool
<1>n. /\ Numbers(p, g) /\ Numbers(z, g) /\ Numbers(q, g) /\ Sound(p, g)
      /\ max_sockets_per_group \in Nat /\ max_sockets \in Nat
  BY PoolNumbers DEF SlotInv
<1>c. /\ Taken(p) \in Nat /\ p.idle_socket_count \in Nat
      /\ Taken(z) \in Nat /\ z.idle_socket_count \in Nat
      /\ Taken(q) \in Nat /\ q.idle_socket_count \in Nat
  BY PoolNumbers
<1>1. /\ \A k \in Groups \ {g} : Alike(p, z, k)
      /\ z.idle_socket_count <= p.idle_socket_count
      /\ Idle(z, g) = 0
      /\ Waits(z, g) = Waits(p, g)
      /\ Active(z, g) = Active(p, g)
      /\ \/ /\ Jobs(z, g) = Jobs(p, g) + 1 /\ Spare(z, g) = Spare(p, g)
            /\ Taken(z) = Taken(p) + 1
         \/ /\ Jobs(z, g) = Jobs(p, g)
            /\ Taken(z) = Taken(p)
            /\ \/ Spare(p, g) > 0 /\ Spare(z, g) = Spare(p, g) - 1
               \/ /\ Spare(p, g) = 0 /\ Spare(z, g) = 0
                  /\ Active(z, g) + Jobs(z, g) >= max_sockets_per_group \/ Spent(z)
  BY DEF Outcome
<1>2. Change(z, q, g, 1, 0, 0, 0) /\ Spare(q, g) = Spare(z, g)
  OBVIOUS
<1>z. z \in PoolType
  OBVIOUS
<1> HIDE DEF z
<1>3. /\ Waits(q, g) = Waits(p, g) + 1 /\ Jobs(q, g) = Jobs(z, g) /\ Active(q, g) = Active(p, g)
      /\ Idle(q, g) = 0 /\ Taken(q) = Taken(z) /\ q.idle_socket_count = z.idle_socket_count
  BY <1>n, <1>c, <1>1, <1>2 DEF Change, Numbers
<1>4. \A k \in Groups \ {g} : Alike(p, q, k)
  <2>1. \A k \in Groups : Numbers(p, k) /\ Numbers(q, k) /\ Numbers(z, k)
    BY <1>z, PoolNumbers
  <2>2. \A k \in Groups \ {g} : Alike(z, q, k)
    BY <1>2 DEF Change
  <2> QED
    BY <1>1, <2>1, <2>2, AlikeTwice
<1>5. Sound(q, g)
  BY <1>n, <1>1, <1>2, <1>3 DEF Sound, Numbers
<1>6. Spent(p) => Spent(q)
  <2>1. Taken(q) >= Taken(p) /\ q.idle_socket_count <= p.idle_socket_count
    BY <1>c, <1>1, <1>3
  <2> QED
    BY <1>c, <1>n, <2>1, PoolNumbers
<1>7. Spent(z) => Spent(q)
  BY <1>z, <1>3, PoolNumbers
<1>8. Spent(q) \/ (Unused(q, g) => Unused(p, g))
  <2>1. CASE Jobs(z, g) = Jobs(p, g) + 1
    BY <1>n, <1>3, <2>1, UnusedMeans DEF Sound, Numbers
  <2>2. CASE Jobs(z, g) = Jobs(p, g) /\ Spare(p, g) > 0
    BY <1>n, <1>3, <2>2, UnusedMeans DEF Sound, Numbers
  <2>3. CASE Active(z, g) + Jobs(z, g) >= max_sockets_per_group
    BY <1>n, <1>1, <1>3, <2>3, UnusedMeans DEF Numbers
  <2>4. CASE Spent(z)
    BY <1>7, <2>4
  <2> QED
    BY <1>1, <2>1, <2>2, <2>3, <2>4
<1> QED
  BY <1>4, <1>5, <1>6, <1>8, GroupSlots

\* A change of a group, in a pool where nobody wants a slot.
LEMMA NobodyWants ==
  ASSUME NEW p \in PoolType, NEW q \in PoolType, NEW g \in Groups, NEW w, NEW j, NEW a, NEW i,
         \A k \in Groups : Sound(p, k) /\ ~Unused(p, k), Change(p, q, g, w, j, a, i),
         Sound(q, g), ~Unused(q, g)
  PROVE  SlotInv(q)
<1>1. \A k \in Groups : Numbers(p, k) /\ Numbers(q, k)
  BY PoolNumbers
<1>2. \A k \in Groups \ {g} : Sound(q, k) /\ (Unused(p, k) <=> Unused(q, k))
  BY <1>1, AlikeSound DEF Change
<1> QED
  BY <1>2 DEF SlotInv

\* A preconnect adds a job or an idle socket where nobody waits for one.
LEMMA PreconnectConnects ==
  ASSUME "ERR" \notin ConnectResults,
         NEW p \in PoolType, NEW g \in Groups, Waits(p, g) <= Jobs(p, g),
         \A k \in Groups : Sound(p, k) /\ ~Unused(p, k),
         NEW res \in ConnectNewJob(p, g, NoHandle), res.pool \in PoolType
  PROVE  SlotInv(res.pool)
<1>1. PICK rv \in ConnectResults : res = [pool |-> FinishConnect(p, g, NoHandle, rv), rv |-> rv]
  BY DEF ConnectNewJob
<1>2. rv \in {"OK", "PENDING", "ERR_SOCKET"}
  BY OptionsAssumption DEF CompletionResults
<1> DEFINE q == FinishConnect(p, g, NoHandle, rv)
<1>3. res.pool = q /\ q \in PoolType
  BY <1>1
<1>n. Numbers(p, g) /\ Numbers(q, g) /\ max_sockets_per_group \in Nat
  BY <1>3, PoolNumbers
<1>4. CASE rv = "OK"
  <2> DEFINE s == NewSocket(p)
  <2>1. q = AddIdleSocket(p, g, s)
    BY <1>4 DEF FinishConnect
  <2>2. s \in Socket
    BY PoolFields DEF NewSocket, Socket
  <2> HIDE DEF q, s
  <2>3. Change(p, q, g, 0, 0, 0, 1) /\ Spare(q, g) = Spare(p, g)
    BY <2>1, <2>2, AddIdleSocketChange
  <2>4. Waits(q, g) = Waits(p, g) /\ Jobs(q, g) = Jobs(p, g)
    BY <1>n, <2>3 DEF Change, Numbers
  <2>5. Sound(q, g) /\ ~Unused(q, g)
    <3>1. ~(Waits(q, g) > Jobs(q, g))
      BY <1>n, <2>4 DEF Numbers
    <3> QED
      BY <1>n, <2>3, <2>4, <3>1, UnusedMeans DEF Sound
  <2> QED
    BY <1>3, <2>3, <2>5, NobodyWants
<1>5. CASE rv = "PENDING"
  <2> DEFINE b == p.backup_timer[g] \/ (connect_backup_jobs_enabled /\ IsEmpty(p, g))
             timed == [p EXCEPT !.backup_timer[g] = b]
  <2>1. q = AddJob(timed, g, TRUE)
    BY <1>5 DEF FinishConnect
  <2>2. timed \in PoolType /\ SameSlots(p, timed)
    <3>1. b \in BOOLEAN /\ p.backup_timer \in [Groups -> BOOLEAN]
      BY PoolFields
    <3> HIDE DEF b
    <3> QED
      BY <3>1 DEF PoolType, SameSlots
  <2> HIDE DEF timed, q
  <2>3. TRUE \in BOOLEAN
    OBVIOUS
  <2>4. Change(timed, q, g, 0, 1, 0, 0) /\ Spare(q, g) = Spare(timed, g) + 1
    BY <2>1, <2>2, <2>3, AddJobChange
  <2>5. Change(p, q, g, 0, 1, 0, 0) /\ Spare(timed, g) = Spare(p, g)
    BY <2>2, <2>4, SameSlotsThen
  <2>6. Waits(q, g) = Waits(p, g) /\ Jobs(q, g) = Jobs(p, g) + 1 /\ Spare(q, g) = Spare(p, g) + 1
    BY <1>n, <2>4, <2>5 DEF Change, Numbers
  <2>7. ~(Waits(q, g) > Jobs(q, g))
    BY <1>n, <2>6 DEF Numbers
  <2>8. Waits(q, g) + Spare(q, g) <= Jobs(q, g)
    BY <1>n, <2>6 DEF Sound, Numbers
  <2>9. Sound(q, g) /\ ~Unused(q, g)
    BY <1>n, <2>7, <2>8, UnusedMeans DEF Sound
  <2> QED
    BY <1>3, <2>5, <2>9, NobodyWants
<1>6. CASE rv = "ERR_SOCKET"
  <2>1. q = RemoveGroupIfEmpty(p, g)
    BY <1>6 DEF FinishConnect
  <2>2. SameSlots(p, q)
    BY <2>1 DEF RemoveGroupIfEmpty, SameSlots, PoolType
  <2>3. SlotInv(p)
    BY DEF SlotInv
  <2> HIDE DEF q
  <2> QED
    BY <1>3, <2>2, <2>3, SameSlotsInv
<1> QED
  BY <1>2, <1>4, <1>5, <1>6

\* RequestSocketInternal() for a preconnect.
LEMMA PreconnectSlots ==
  ASSUME "ERR" \notin ConnectResults,
         NEW p, NEW hd, NEW g \in Groups, PoolInv(p, hd, NoHandle), SlotInv(p),
         NEW res \in RequestSocketInternal(p, g, PreconnectRequest), res.pool \in PoolType
  PROVE  SlotInv(res.pool)
<1> DEFINE m == GetOrCreateGroup(p, g)
<1>p. p \in PoolType
  BY DEF PoolInv
<1>1. PoolInv(m, hd, NoHandle)
  BY GroupMapOperatorsInv
<1>2. SameSlots(p, m)
  BY <1>p DEF GetOrCreateGroup, PoolType, SameSlots
<1>r. res \in RequestNewSocket(m, g, PreconnectRequest)
  BY DEF RequestSocketInternal, PreconnectRequest
<1> HIDE DEF m
<1>3. SlotInv(m) /\ m \in PoolType
  BY <1>1, <1>2, SameSlotsInv DEF PoolInv
<1>n. /\ \A k \in Groups : Numbers(m, k)
      /\ Numbers(m, g) /\ max_sockets_per_group \in Nat
  BY <1>3, PoolNumbers
<1>4. ASSUME NEW q \in PoolType, Thinner(m, q), ~Spent(m), HasAvailableSocketSlot(m, g),
             res \in ConnectNewJob(q, g, NoHandle)
      PROVE  SlotInv(res.pool)
  <2>1. \A k \in Groups : Sound(m, k) /\ ~Unused(m, k)
    BY <1>3, <1>4 DEF SlotInv
  <2>2. \A k \in Groups : Numbers(q, k) /\ Alike(m, q, k)
    BY <1>4, PoolNumbers DEF Thinner
  <2>3. \A k \in Groups : Sound(q, k) /\ ~Unused(q, k)
    BY <1>n, <2>1, <2>2, AlikeSound
  <2>4. ~(Waits(m, g) > Jobs(m, g))
    BY <1>4, <2>1 DEF Unused, CanUseAdditionalSocketSlot, Waits, Jobs
  <2>5. Waits(q, g) <= Jobs(q, g)
    BY <1>n, <2>2, <2>4 DEF Alike, Numbers
  <2> QED
    BY <1>4, <2>3, <2>5, PreconnectConnects
<1>5. CASE ~HasAvailableSocketSlot(m, g)
  <2>1. res = [pool |-> m, rv |-> "PENDING"]
    BY <1>5, <1>r DEF RequestNewSocket, PreconnectRequest
  <2> QED
    BY <1>3, <2>1
<1>6. CASE HasAvailableSocketSlot(m, g) /\ ReachedMaxSocketsLimit(m)
  <2>1. res \in ConnectAtSocketLimit(m, g, NoHandle)
    BY <1>6, <1>r DEF RequestNewSocket, PreconnectRequest
  <2>2. CASE m.idle_socket_count = 0
    <3>1. res = [pool |-> m, rv |-> "PENDING"]
      BY <2>1, <2>2 DEF ConnectAtSocketLimit
    <3> QED
      BY <1>3, <3>1
  <2>3. CASE m.idle_socket_count # 0
    <3>1. PICK q \in CloseOneIdleSocketExceptInGroup(m, {g}) :
            \/ res = [pool |-> q, rv |-> "ERR_PRECONNECT_MAX"]
            \/ res \in ConnectNewJob(q, g, NoHandle)
      BY <2>1, <2>3 DEF ConnectAtSocketLimit
    <3>2. {g} \in SUBSET Groups
      OBVIOUS
    <3>3. Thinner(m, q)
      BY <1>1, <3>1, <3>2, CloseOneIdleSocketThinner
    <3>4. PoolInv(q, hd, NoHandle)
      BY <1>1, <3>1, <3>2, CloseOneIdleSocketExceptInGroupInv
    <3>5. q \in PoolType
      BY <3>4 DEF PoolInv
    <3>6. CASE res = [pool |-> q, rv |-> "ERR_PRECONNECT_MAX"]
      <4>1. res.pool = q
        BY <3>6
      <4> QED
        BY <1>3, <3>3, <3>5, <4>1, FewerIdle DEF Thinner
    <3>7. CASE res \in ConnectNewJob(q, g, NoHandle)
      BY <1>4, <1>6, <2>3, <3>3, <3>5, <3>7 DEF Spent
    <3> QED
      BY <3>1, <3>6, <3>7
  <2> QED
    BY <2>2, <2>3
<1>7. CASE HasAvailableSocketSlot(m, g) /\ ~ReachedMaxSocketsLimit(m)
  <2>1. res \in ConnectNewJob(m, g, NoHandle)
    BY <1>7, <1>r DEF RequestNewSocket, PreconnectRequest
  <2>2. Thinner(m, m)
    BY <1>3, SelfThinner
  <2> QED
    BY <1>3, <1>4, <1>7, <2>1, <2>2 DEF Spent
<1> QED
  BY <1>5, <1>6, <1>7

\* No slot of the pool is left unused.
SInv == SlotInv(pool)

\* What a step starts from, and the type of the pool it leaves.
LEMMA StepTypes ==
  ASSUME IInv, IInv'
  PROVE  /\ PoolInv(pool, handle, NoHandle) /\ handle \in HandleType
         /\ pool \in PoolType /\ pool' \in PoolType
  BY DEF IInv, PoolInv

\* Reset() is ResetHandle() of a handle.
LEMMA ResetSlots ==
  ASSUME "ERR" \notin ConnectResults, IInv, IInv', SInv, NEW h \in Handles, Reset(h)
  PROVE  SInv'
<1>1. PoolInv(pool, handle, NoHandle) /\ handle \in HandleType
  BY StepTypes
<1>2. PICK connected \in BOOLEAN, used \in BOOLEAN : pool' \in ResetHandle(pool, h, connected, used)
  BY DEF Reset
<1>3. SlotInv(pool')
  BY <1>1, <1>2, ResetHandleSlots DEF SInv
<1> QED
  BY <1>3 DEF SInv

\* The group of a request that changes its priority wants what it wanted.
LEMMA SetPrioritySlots ==
  ASSUME IInv, IInv', SInv, NEW h \in Handles, NEW priority \in Priority, SetPriority(h, priority)
  PROVE  SInv'
<1> DEFINE g == handle[h].group_name
<1>1. /\ PoolInv(pool, handle, NoHandle) /\ handle \in HandleType
      /\ pool \in PoolType /\ pool' \in PoolType
  BY StepTypes
<1>2. handle[h] \in [is_initialized : BOOLEAN, group_name : Groups \cup {NoGroup}]
  BY <1>1 DEF HandleType
<1>3. g # NoGroup
  BY DEF SetPriority, IsPending
<1>4. g \in Groups
  BY <1>2, <1>3
<1>5. PICK i \in PositionOf(pool, g, h) :
        pool' = InsertPendingRequest(RemovePendingRequest(pool, g, i), g,
                                     [pool.pending[g][i] EXCEPT !.priority = priority])
  BY DEF SetPriority
<1> HIDE DEF g
<1>6. i \in 1 .. Len(pool.pending[g])
  BY DEF PositionOf
<1> DEFINE q == RemovePendingRequest(pool, g, i)
           r == [pool.pending[g][i] EXCEPT !.priority = priority]
<1>7. r \in Request
  <2>1. pool.pending[g] \in Seq(Request)
    BY <1>1, <1>4, PoolFields
  <2>2. pool.pending[g][i] \in Request
    BY <1>6, <2>1, ElementOfSeq
  <2> QED
    BY <2>2 DEF Request
<1>8. q \in PoolType
  <2>1. PoolInv(q, handle, NoHandle)
    BY <1>1, <1>4, <1>6, RemovePendingRequestInv, Zenon
  <2> QED
    BY <2>1 DEF PoolInv
<1>9. Change(pool, q, g, -1, 0, 0, 0) /\ Spare(q, g) = Spare(pool, g)
  BY <1>1, <1>4, <1>6, RemovePendingRequestChange
<1>10. pool' = InsertPendingRequest(q, g, r)
  BY <1>5
<1> HIDE DEF q, r
<1> DEFINE z == InsertPendingRequest(q, g, r)
<1>11. Change(q, z, g, 1, 0, 0, 0) /\ Spare(z, g) = Spare(q, g)
  BY <1>4, <1>7, <1>8, InsertPendingRequestChange
<1>12. z \in PoolType
  BY <1>1, <1>10
<1> HIDE DEF z
<1>13. 0 \in Int /\ -1 \in Int /\ 1 \in Int
  OBVIOUS
<1>14. Change(pool, z, g, -1 + 1, 0 + 0, 0 + 0, 0 + 0)
  BY <1>1, <1>4, <1>8, <1>9, <1>11, <1>12, <1>13, ChangeTwice
<1>n. Numbers(pool, g) /\ Numbers(z, g) /\ Sound(pool, g)
  BY <1>1, <1>4, <1>12, PoolNumbers DEF SInv, SlotInv
<1>15. /\ Waits(z, g) = Waits(pool, g) /\ Jobs(z, g) = Jobs(pool, g)
       /\ Active(z, g) = Active(pool, g) /\ Idle(z, g) = Idle(pool, g)
       /\ Spare(z, g) = Spare(pool, g)
  BY <1>9, <1>11, <1>14, <1>n DEF Change, Numbers
<1>16. Sound(z, g) /\ (Unused(z, g) => Unused(pool, g))
  BY <1>n, <1>15, UnusedMeans DEF Sound
<1>17. Spent(pool) => Spent(z)
  <2>1. Taken(pool) \in Nat /\ pool.idle_socket_count \in Nat
    BY <1>1, PoolNumbers
  <2>2. Taken(z) = Taken(pool) /\ z.idle_socket_count = pool.idle_socket_count
    BY <1>14, <2>1 DEF Change
  <2> QED
    BY <1>1, <1>12, <2>2, PoolNumbers
<1>18. \A k \in Groups \ {g} : Alike(pool, z, k)
  BY <1>14 DEF Change
<1>19. SlotInv(z)
  BY <1>1, <1>4, <1>12, <1>16, <1>17, <1>18, GroupSlots DEF SInv
<1> QED
  BY <1>10, <1>19 DEF SInv, z

\* RequestSockets() starts by cleaning up idle sockets.
LEMMA RequestSocketsSlots ==
  ASSUME IInv, IInv', SInv, NEW g \in Groups, NEW num, RequestSockets(g, num)
  PROVE  SInv'
<1>1. PoolInv(pool, handle, NoHandle) /\ pool \in PoolType
  BY StepTypes
<1>2. PICK q \in CleanupIdleSockets(pool, FALSE) : pool' = GetOrCreateGroup(q, g)
  BY DEF RequestSockets
<1>b. FALSE \in BOOLEAN
  OBVIOUS
<1>3. Thinner(pool, q)
  BY <1>1, <1>2, <1>b, CleanupIdleSocketsThinner
<1>4. q \in PoolType
  <2>1. PoolInv(q, handle, NoHandle)
    BY <1>1, <1>2, <1>b, CleanupIdleSocketsInv
  <2> QED
    BY <2>1 DEF PoolInv
<1>5. SlotInv(q)
  BY <1>1, <1>3, <1>4, FewerIdle DEF Thinner, SInv
<1>6. SameSlots(q, pool')
  BY <1>2, <1>4 DEF GetOrCreateGroup, PoolType, SameSlots
<1>7. SlotInv(pool')
  BY <1>5, <1>6, SameSlotsInv
<1> QED
  BY <1>7 DEF SInv

\* Leaving an empty group out is no concern of the slots.
LEMMA RemoveGroupIfEmptySlots ==
  ASSUME NEW p \in PoolType, NEW g, SlotInv(p)
  PROVE  SlotInv(RemoveGroupIfEmpty(p, g))
<1> DEFINE q == RemoveGroupIfEmpty(p, g)
<1>1. SameSlots(p, q)
  BY DEF RemoveGroupIfEmpty, SameSlots, PoolType
<1> HIDE DEF q
<1>2. SlotInv(q)
  BY <1>1, SameSlotsInv
<1> QED
  BY <1>2 DEF q

\* A round of the preconnect loop takes a slot only where nobody wants it.
LEMMA RequestSocketsLoopSlots ==
  ASSUME "ERR" \notin ConnectResults, IInv, IInv', SInv, RequestSocketsLoop
  PROVE  SInv'
<1> DEFINE g == preconnect.group
<1>1. PoolInv(pool, handle, NoHandle) /\ handle \in HandleType /\ pool \in PoolType
  BY StepTypes
<1>2. g \in Groups
  BY DEF IInv, RequestSocketsLoop
<1>3. MayServe(pool, handle, g, PreconnectRequest)
  BY <1>1 DEF MayServe, PreconnectRequest
<1>4. PreconnectRequest.handle = NoHandle
  BY DEF PreconnectRequest
<1>5. ASSUME NEW res \in RequestSocketInternal(pool, g, PreconnectRequest)
      PROVE  SlotInv(res.pool) /\ res.pool \in PoolType
  <2> HIDE DEF g
  <2>1. Served(pool, handle, g, NoHandle, res)
    BY <1>1, <1>2, <1>3, <1>4, RequestSocketInternalInv
  <2>2. res.pool \in PoolType
    BY <2>1 DEF Served, PoolInv
  <2> QED
    BY <1>1, <1>2, <2>2, PreconnectSlots DEF SInv
<1>6. \/ \E res \in RequestSocketInternal(pool, g, PreconnectRequest) :
           pool' = res.pool \/ pool' = RemoveGroupIfEmpty(res.pool, g)
      \/ pool' = RemoveGroupIfEmpty(pool, g)
  BY DEF RequestSocketsLoop
<1>7. SlotInv(pool')
  BY <1>1, <1>5, <1>6, RemoveGroupIfEmptySlots DEF SInv
<1> QED
  BY <1>7 DEF SInv

\* The completion of a job, as an action.
LEMMA ConnectJobCompleteSlots ==
  ASSUME "ERR" \notin ConnectResults, IInv, SInv, NEW g \in Groups,
         NEW result \in CompletionResults, ConnectJobComplete(g, result)
  PROVE  SInv'
<1>1. PoolInv(pool, handle, NoHandle) /\ handle \in HandleType
  BY DEF IInv
<1>2. pool.jobs[g] > 0 /\ pool' \in OnConnectJobComplete(pool, g, result)
  BY DEF ConnectJobComplete
<1>3. SlotInv(pool')
  BY <1>1, <1>2, OnConnectJobCompleteSlots DEF SInv
<1> QED
  BY <1>3 DEF SInv

\* A backup job takes a slot for a request that has a job: nobody wants more.
LEMMA BackedUpSlots ==
  ASSUME NEW p \in PoolType, NEW g \in Groups, SlotInv(p),
         BackedUp(p, g) \in PoolType, Fired(p, g) \in PoolType
  PROVE  SlotInv(Fired(p, g)) /\ SlotInv(BackedUp(p, g))
<1> DEFINE f == Fired(p, g)
           z == BackedUp(p, g)
<1>1. SameSlots(p, f)
  BY DEF SameSlots, Fired, PoolType
<1>2. z = AddJob(f, g, FALSE) /\ FALSE \in BOOLEAN
  BY DEF BackedUp
<1>t. f \in PoolType /\ z \in PoolType
  OBVIOUS
<1> HIDE DEF f, z
<1>3. SlotInv(f)
  BY <1>1, SameSlotsInv
<1>4. Change(f, z, g, 0, 1, 0, 0) /\ Spare(z, g) = Spare(f, g)
  BY <1>t, <1>2, AddJobChange
<1>n. Numbers(f, g) /\ Numbers(z, g) /\ Sound(f, g) /\ max_sockets_per_group \in Nat
  BY <1>t, <1>3, PoolNumbers DEF SlotInv
<1>5. /\ Waits(z, g) = Waits(f, g) /\ Jobs(z, g) = Jobs(f, g) + 1
      /\ Active(z, g) = Active(f, g) /\ Idle(z, g) = Idle(f, g)
  BY <1>4, <1>n DEF Change, Numbers
<1>6. Sound(z, g) /\ (Unused(z, g) => Unused(f, g))
  BY <1>n, <1>4, <1>5, UnusedMeans DEF Sound, Numbers
<1>7. Spent(f) => Spent(z)
  <2>1. Taken(f) \in Nat /\ f.idle_socket_count \in Nat /\ max_sockets \in Nat
    BY <1>t, PoolNumbers
  <2>2. Taken(z) = Taken(f) + 1 /\ z.idle_socket_count = f.idle_socket_count
    BY <1>4, <2>1 DEF Change
  <2> QED
    BY <1>t, <2>1, <2>2, PoolNumbers
<1>8. \A k \in Groups \ {g} : Alike(f, z, k)
  BY <1>4 DEF Change
<1>9. SlotInv(z)
  BY <1>t, <1>3, <1>6, <1>7, <1>8, GroupSlots
<1> QED
  BY <1>3, <1>9 DEF f, z

\* The backup job waits or completes at once.
LEMMA OnBackupJobTimerFiredSlots ==
  ASSUME "ERR" \notin ConnectResults, IInv, SInv, NEW g \in Groups, OnBackupJobTimerFired(g)
  PROVE  SInv'
<1> DEFINE added == BackedUp(pool, g)
           fired == Fired(pool, g)
<1>1. PoolInv(pool, handle, NoHandle) /\ handle \in HandleType /\ pool \in PoolType
  BY DEF IInv, PoolInv
<1>2. pool.backup_timer[g]
  BY DEF OnBackupJobTimerFired
<1>3. PoolInv(fired, handle, NoHandle) /\ fired \in PoolType
  BY <1>1, <1>2, BackupJobInv DEF PoolInv
<1>4. SlotInv(fired)
  <2>1. SameSlots(pool, fired)
    BY <1>1 DEF SameSlots, Fired, PoolType
  <2> HIDE DEF fired
  <2> QED
    BY <2>1, SameSlotsInv DEF SInv
<1>5. ASSUME ~ReachedMaxSocketsLimit(pool), HasAvailableSocketSlot(pool, g)
      PROVE  PoolInv(added, handle, NoHandle) /\ added.jobs[g] > 0 /\ SlotInv(added)
  <2>1. Room(pool, g)
    BY <1>5 DEF Room
  <2>2. PoolInv(added, handle, NoHandle) /\ added.jobs[g] > 0
    BY <1>1, <1>2, <2>1, BackupJobInv
  <2>3. added \in PoolType
    BY <2>2 DEF PoolInv
  <2> HIDE DEF added
  <2> QED
    BY <1>1, <1>3, <2>2, <2>3, BackedUpSlots DEF SInv, added
<1>6. SlotInv(pool')
  <2>1. CASE pool' = pool \/ pool' = fired
    BY <1>4, <2>1 DEF SInv
  <2>2. ASSUME ~ReachedMaxSocketsLimit(pool), HasAvailableSocketSlot(pool, g),
               NEW rv \in ConnectResults \ {"PENDING"},
               pool' \in OnConnectJobComplete(added, g, rv)
        PROVE  SlotInv(pool')
    <3>1. rv \in CompletionResults
      BY OptionsAssumption DEF CompletionResults
    <3> HIDE DEF added
    <3> QED
      BY <1>1, <1>5, <2>2, <3>1, OnConnectJobCompleteSlots
  <2> QED
    BY <1>5, <2>1, <2>2, OnBackupJobTimerFiredCases
<1> QED
  BY <1>6 DEF SInv

\* The task that reports a result is no concern of the slots.
LEMMA InvokeUserCallbackSlots ==
  ASSUME IInv, SInv, NEW h \in Handles, InvokeUserCallback(h)
  PROVE  SInv'
<1>1. pool \in PoolType
  BY DEF IInv, PoolInv
<1> DEFINE q == [pool EXCEPT !.tasks[h] = @ - 1]
<1>2. pool' = q \/ pool' = [q EXCEPT !.pending_callback_map[h] = NoResult]
  BY DEF InvokeUserCallback
<1>3. SameSlots(pool, pool')
  BY <1>1, <1>2 DEF SameSlots, PoolType
<1>4. SlotInv(pool')
  BY <1>3, SameSlotsInv DEF SInv
<1> QED
  BY <1>4 DEF SInv

\* Where nobody waits and no job is spare, nobody wants a slot.
LEMMA NobodyWaits ==
  ASSUME NEW p \in PoolType, \A g \in Groups : p.pending[g] = <<>>,
         \A g \in Groups : p.unassigned[g] = 0
  PROVE  SlotInv(p)
<1>1. ASSUME NEW g \in Groups
      PROVE  Sound(p, g) /\ ~Unused(p, g)
  <2>n. Numbers(p, g)
    BY PoolNumbers
  <2>1. Waits(p, g) = 0 /\ Spare(p, g) = 0
    BY EmptySeq DEF Waits, Spare
  <2>2. ~(Waits(p, g) > Jobs(p, g)) /\ ~(Spare(p, g) > 0)
    BY <2>n, <2>1 DEF Numbers
  <2> QED
    BY <2>n, <2>2, UnusedMeans DEF Sound
<1> QED
  BY <1>1 DEF SlotInv

\* FlushWithError() leaves nobody waiting.
LEMMA FlushWithErrorSlots ==
  ASSUME IInv, IInv', FlushWithError
  PROVE  SInv'
<1> DEFINE jobless == CancelAllConnectJobs([pool EXCEPT !.generation = @ + 1])
<1>1. PoolInv(pool, handle, NoHandle) /\ pool' \in PoolType
  BY StepTypes
<1>2. PICK q \in CleanupIdleSockets(jobless, TRUE) : pool' = CancelAllRequestsWithError(q, "ERR")
  BY DEF FlushWithError
<1>3. jobless \in PoolType /\ Flushed(pool, jobless, FALSE)
  BY <1>1, CancelAllConnectJobsFlushes
<1> HIDE DEF jobless
<1>4. q \in PoolType /\ Flushed(pool, q, TRUE)
  BY <1>1, <1>3, CleanupIdleSocketsFlushes
<1>5. q.unassigned = [g \in Groups |-> 0]
  BY <1>4 DEF Flushed
<1>6. pool'.pending = [g \in Groups |-> <<>>] /\ pool'.unassigned = q.unassigned
  BY <1>2, <1>4 DEF CancelAllRequestsWithError, RemoveEmptyGroups, PoolType
<1>7. (\A g \in Groups : pool'.pending[g] = <<>>) /\ (\A g \in Groups : pool'.unassigned[g] = 0)
  BY <1>5, <1>6
<1>8. SlotInv(pool')
  BY <1>1, <1>7, NobodyWaits
<1> QED
  BY <1>8 DEF SInv

\* Idle sockets may be closed at any time.
LEMMA CloseIdleSocketsSlots ==
  ASSUME IInv, IInv', SInv, CloseIdleSockets
  PROVE  SInv'
<1>1. PoolInv(pool, handle, NoHandle) /\ pool \in PoolType /\ pool' \in PoolType
  BY StepTypes
<1>2. pool' \in CleanupIdleSockets(pool, TRUE) /\ TRUE \in BOOLEAN
  BY DEF CloseIdleSockets
<1>3. Thinner(pool, pool')
  BY <1>1, <1>2, CleanupIdleSocketsThinner
<1>4. SlotInv(pool')
  BY <1>1, <1>3, FewerIdle DEF Thinner, SInv
<1> QED
  BY <1>4 DEF SInv

\* Those of one group,
LEMMA CloseIdleSocketsInGroupSlots ==
  ASSUME IInv, IInv', SInv, NEW g \in Groups, CloseIdleSocketsInGroup(g)
  PROVE  SInv'
<1>1. pool \in PoolType /\ pool' \in PoolType
  BY StepTypes
<1>i. pool.idle \in [Groups -> Seq(Socket)] /\ pool.idle_socket_count \in Nat
  BY <1>1, PoolFields
<1>l. \A k \in Groups : Len(pool.idle[k]) \in Nat
  BY <1>1, PoolCounts
<1>2. /\ pool'.pending = pool.pending /\ pool'.jobs = pool.jobs
      /\ pool'.unassigned = pool.unassigned /\ pool'.active = pool.active
      /\ pool'.connecting_socket_count = pool.connecting_socket_count
      /\ pool'.handed_out_socket_count = pool.handed_out_socket_count
      /\ pool'.idle = [pool.idle EXCEPT ![g] = <<>>]
      /\ pool'.idle_socket_count = pool.idle_socket_count - Len(pool.idle[g])
  BY <1>1 DEF CloseIdleSocketsInGroup, RemoveGroupIfEmpty, PoolType
<1>3. pool'.idle_socket_count <= pool.idle_socket_count
  BY <1>i, <1>l, <1>2
<1>4. ASSUME NEW k \in Groups
      PROVE  Len(pool'.idle[k]) <= Len(pool.idle[k])
  <2> DEFINE n == Len(pool.idle[k])
             m == Len(pool'.idle[k])
  <2>1. m = 0 \/ m = n
    BY <1>i, <1>2, EmptySeq
  <2>2. n \in Nat
    BY <1>l
  <2> HIDE DEF m, n
  <2>3. m <= n
    BY <2>1, <2>2
  <2> QED
    BY <2>3 DEF m, n
<1>5. Thinner(pool, pool')
  BY <1>1, <1>2, <1>3, <1>4, ThinnerFields
<1>6. SlotInv(pool')
  BY <1>1, <1>5, FewerIdle DEF Thinner, SInv
<1> QED
  BY <1>6 DEF SInv

\* or one of them, for the pool above or below.
LEMMA CloseOneIdleConnectionSlots ==
  ASSUME IInv, IInv', SInv, CloseOneIdleConnection
  PROVE  SInv'
<1>1. PoolInv(pool, handle, NoHandle) /\ pool \in PoolType /\ pool' \in PoolType
  BY StepTypes
<1>2. pool' \in CloseOneIdleSocket(pool)
  BY DEF CloseOneIdleConnection
<1>3. Thinner(pool, pool')
  BY <1>1, <1>2, CloseOneIdleSocketOne
<1>4. SlotInv(pool')
  BY <1>1, <1>3, FewerIdle DEF Thinner, SInv
<1> QED
  BY <1>4 DEF SInv

\* A handle that asks for a socket gives back what it held, and waits only when its
\* job is under way or there is no slot for one.
LEMMA RequestSocketSlots ==
  ASSUME "ERR" \notin ConnectResults, IInv, IInv', SInv,
         NEW h \in Handles, NEW g \in Groups, NEW priority \in Priority,
         NEW respect_limits \in RespectLimitsValues,
         RequestSocket(h, g, priority, respect_limits)
  PROVE  SInv'
<1> DEFINE r == RequestOf(h, priority, respect_limits)
           hd == Asking(handle, h, g)
<1>1. PoolInv(pool, handle, NoHandle) /\ handle \in HandleType /\ pool' \in PoolType
  BY StepTypes
<1>2. PICK reset, cleaned, res : /\ AfterReset(h, g, r, reset, cleaned, res)
                                 /\ Requested(h, g, r, res)
  BY RequestSocketCases
<1>3. r \in Request /\ r.handle = h /\ r.respect_limits \in RespectLimitsValues
  BY RequestOfType
<1> HIDE DEF r
<1>4. hd \in HandleType /\ PoolInv(reset, hd, NoHandle) /\ MayServe(cleaned, hd, g, r)
  BY <1>2, <1>3, RequestSocketServed
<1> HIDE DEF hd
<1>5. SlotInv(reset)
  <2>1. \E connected, used \in BOOLEAN : reset \in ResetHandle(pool, h, connected, used)
    BY <1>2 DEF AfterReset
  <2> QED
    BY <1>1, <2>1, ResetHandleSlots DEF SInv
<1>6. SlotInv(cleaned) /\ cleaned \in PoolType
  <2>1. cleaned \in CleanupIdleSockets(reset, FALSE) /\ FALSE \in BOOLEAN
    BY <1>2 DEF AfterReset
  <2>2. Thinner(reset, cleaned)
    BY <1>4, <2>1, CleanupIdleSocketsThinner
  <2>3. reset \in PoolType /\ cleaned \in PoolType
    BY <1>4 DEF PoolInv, MayServe
  <2> QED
    BY <1>5, <2>2, <2>3, FewerIdle DEF Thinner
<1>7. Outcome(cleaned, g, res) /\ res.pool \in PoolType
  <2>1. res \in RequestSocketInternal(cleaned, g, r)
    BY <1>2 DEF AfterReset
  <2>2. r.handle # NoHandle
    BY <1>3, HandlesAssumption
  <2> QED
    BY <1>4, <2>1, <2>2, RequestSocketInternalOutcome
<1>8. CASE res.rv = "PENDING"
  <2> DEFINE q == res.pool
             z == InsertPendingRequest(q, g, r)
  <2>1. pool' = z
    BY <1>2, <1>8 DEF Requested
  <2>2. q \in PoolType /\ z \in PoolType
    BY <1>1, <1>7, <2>1
  <2>3. Change(q, z, g, 1, 0, 0, 0) /\ Spare(z, g) = Spare(q, g)
    BY <1>3, <2>2, InsertPendingRequestChange
  <2> HIDE DEF z
  <2>4. SlotInv(z)
    BY <1>6, <1>7, <1>8, <2>2, <2>3, OutcomePendingSlots
  <2> QED
    BY <2>1, <2>4 DEF SInv
<1>9. CASE res.rv # "PENDING"
  <2>1. pool' = res.pool
    BY <1>2, <1>9 DEF Requested
  <2>2. SlotInv(res.pool)
    BY <1>6, <1>7, <1>9, OutcomeServedSlots
  <2> QED
    BY <2>1, <2>2 DEF SInv
<1> QED
  BY <1>8, <1>9

\* Nobody waits in a new pool.
LEMMA SInit == Init => SInv
<1> SUFFICES ASSUME Init
             PROVE  SInv
  OBVIOUS
<1>1. pool \in PoolType
  BY InitInv DEF IInv, PoolInv
<1>2. /\ pool.pending = [g \in Groups |-> <<>>]
      /\ pool.unassigned = [g \in Groups |-> 0]
  BY DEF Init
<1>3. (\A g \in Groups : pool.pending[g] = <<>>) /\ (\A g \in Groups : pool.unassigned[g] = 0)
  BY <1>2
<1> QED
  BY <1>1, <1>3, NobodyWaits DEF SInv

\* No operation of the pool leaves a slot unused.
LEMMA SNext ==
  "ERR" \notin ConnectResults => (IInv /\ SInv /\ [Next]_vars => SInv')
<1> SUFFICES ASSUME "ERR" \notin ConnectResults, IInv, SInv, [Next]_vars
             PROVE  SInv'
  OBVIOUS
<1>i. IInv'
  BY NextInv
<1>1. CASE UNCHANGED vars
  BY <1>1 DEF vars, SInv
<1>2. ASSUME NEW h \in Handles, NEW g \in Groups, NEW priority \in Priority,
             NEW respect_limits \in RespectLimitsValues,
             RequestSocket(h, g, priority, respect_limits)
      PROVE  SInv'
  BY <1>i, <1>2, RequestSocketSlots
<1>3. ASSUME NEW g \in Groups, NEW num \in 1 .. max_sockets_per_group, RequestSockets(g, num)
      PROVE  SInv'
  BY <1>i, <1>3, RequestSocketsSlots
<1>4. ASSUME NEW h \in Handles, Reset(h)
      PROVE  SInv'
  BY <1>i, <1>4, ResetSlots
<1>5. ASSUME NEW h \in Handles, NEW priority \in Priority, SetPriority(h, priority)
      PROVE  SInv'
  BY <1>i, <1>5, SetPrioritySlots
<1>6. CASE RequestSocketsLoop
  BY <1>i, <1>6, RequestSocketsLoopSlots
<1>7. ASSUME NEW g \in Groups, NEW result \in CompletionResults, ConnectJobComplete(g, result)
      PROVE  SInv'
  BY <1>7, ConnectJobCompleteSlots
<1>8. ASSUME NEW g \in Groups, OnBackupJobTimerFired(g)
      PROVE  SInv'
  BY <1>8, OnBackupJobTimerFiredSlots
<1>9. ASSUME NEW h \in Handles, InvokeUserCallback(h)
      PROVE  SInv'
  BY <1>9, InvokeUserCallbackSlots
<1>10. CASE FlushWithError
  BY <1>i, <1>10, FlushWithErrorSlots
<1>11. CASE CloseIdleSockets
  BY <1>i, <1>11, CloseIdleSocketsSlots
<1>12. ASSUME NEW g \in Groups, CloseIdleSocketsInGroup(g)
       PROVE  SInv'
  BY <1>i, <1>12, CloseIdleSocketsInGroupSlots
<1>13. CASE CloseOneIdleConnection
  BY <1>i, <1>13, CloseOneIdleConnectionSlots
<1> QED
  BY <1>1, <1>2, <1>3, <1>4, <1>5, <1>6, <1>7, <1>8, <1>9, <1>10, <1>11, <1>12, <1>13
  DEF Next, NewRequest, Service

\* Where no Connect() fails at once, a group that could use another socket waits for
\* it only while the pool is at its limit with no idle socket to close, idle sockets
\* are not kept from those who wait, and preconnected jobs come on top of those the
\* queued requests need.
THEOREM SlotsKept ==
  ASSUME "ERR" \notin ConnectResults
  PROVE  Spec => []SInv
<1>1. IInv /\ SInv /\ [Next]_vars => SInv'
  BY SNext
<1> QED
  BY <1>1, Invariance, SInit, PTL DEF Spec

\* Where no Connect() fails at once, no slot is lost: whenever the pool is left and a
\* group is stalled, the pool is at its limit and has no idle socket it could close
\* for it.  ReleaseSocket(), CancelRequest() and OnConnectJobComplete() pass every
\* slot they free on, and neither preconnects nor backup jobs nor flushes drop one.
THEOREM NoSlotLost ==
  ASSUME "ERR" \notin ConnectResults
  PROVE  Spec => []NoLostSlot
<1>1. IInv /\ SInv => NoLostSlot
  <2> SUFFICES ASSUME IInv, SInv, StalledGroups(pool) # {}
               PROVE  Spent(pool)
    BY DEF NoLostSlot, Spent
  <2>1. PoolInv(pool, handle, NoHandle) /\ pool.group_map \subseteq Groups
    BY PoolFields DEF IInv, PoolInv
  <2>2. PICK k \in StalledGroups(pool) : TRUE
    OBVIOUS
  <2>3. k \in Groups
    BY <2>1, <2>2 DEF StalledGroups
  <2>4. Unused(pool, k)
    BY <2>1, <2>2, <2>3, UnusedStalled
  <2> QED
    BY <2>3, <2>4 DEF SInv, SlotInv
<1> QED
  BY <1>1, Invariance, SlotsKept, PTL
=============================================================================
