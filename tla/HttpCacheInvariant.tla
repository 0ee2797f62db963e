------------------------- MODULE HttpCacheInvariant -------------------------
(***************************************************************************)
(* The inductive invariant of HttpCacheTransaction, and what the methods   *)
(* of HttpCache do to it, for any number of transactions and entries.      *)
(***************************************************************************)
EXTENDS HttpCacheTransaction, TLAPS, FiniteSetTheorems, SequenceTheorems,
        WellFoundedInduction

(***************************************************************************)
(* The inductive invariant.  One event calls several methods in turn, so   *)
(* it is stated of a state s between two of them.  L are the transactions  *)
(* that were taken out of the queues and are still to be told (or whose    *)
(* own method is running), o is an entry that was just activated or just   *)
(* given up by its writer: it may be without a user for the moment.        *)
(***************************************************************************)

EntryRecords == [writer : Trans \cup {None}, readers : SUBSET Trans,
                 pending_queue : Seq(Trans), will_process : BOOLEAN]
WorkItems == [operation : WorkItemStates, trans : Trans \cup {None}]
DataRecords == [body : Bodies, unused : BOOLEAN, stale : BOOLEAN,
                unmarked : BOOLEAN]
TransRecords == [kind : Kinds \cup {None}, st : States, mode : Modes,
                 entry : Ids \cup {None}, conditional : BOOLEAN,
                 truncated : BOOLEAN, resume : BOOLEAN, reading : BOOLEAN,
                 was_cached : BOOLEAN]

StateRecords ==
  [disk_cache : {"none", "up", "failed"}, backend_op : Seq(Trans \cup {None}),
   active : Ids \cup {None}, doomed : SUBSET Ids, entry : [Ids -> EntryRecords],
   pending_op : Seq(WorkItems), stored : Ids \cup {None},
   data : [Ids -> DataRecords], tr : [Trans -> TransRecords]]

\* The lock: who points to an entry is its writer or one of its readers, and
\* its mode tells which; a writer is alone, and no task runs under it.
Linked(s) ==
  \A e \in Ids, t \in Trans :
    s.tr[t].entry = e <=> t \in s.entry[e].readers \/ t = s.entry[e].writer

ModesMatch(s) ==
  \A e \in Ids, t \in Trans :
    /\ t \in s.entry[e].readers => s.tr[t].mode = "READ"
    /\ t = s.entry[e].writer => s.tr[t].mode # "READ"

Exclusive(s) ==
  \A e \in Ids : s.entry[e].writer # None =>
    s.entry[e].readers = {} /\ ~s.entry[e].will_process

OnlyLive(s) == \A e \in Ids : e \notin Live(s) => s.entry[e] = FreeEntry

\* The entries: none is forgotten, and the key has one or an operation.
Attended(s, o) ==
  \A e \in Live(s) : \/ e = o
                     \/ s.entry[e].writer # None
                     \/ s.entry[e].readers # {}
                     \/ s.entry[e].will_process

OpOrEntry(s) ==
  /\ s.active # None => s.pending_op = <<>>
  /\ s.stored \notin s.doomed
  /\ s.active \notin s.doomed

\* The queues: who waits stands in one of them, once.
BackendQueue(s, L) ==
  /\ \A i \in DOMAIN s.backend_op : i > 1 => s.backend_op[i] # None
  /\ \A i, j \in DOMAIN s.backend_op : s.backend_op[i] = s.backend_op[j] => i = j
  /\ \A t \in Trans : (\E i \in DOMAIN s.backend_op : s.backend_op[i] = t)
                        <=> t \notin L /\ s.tr[t].st = "GET_BACKEND"

WorkQueue(s, L) ==
  /\ \A i \in DOMAIN s.pending_op :
       IF s.pending_op[i].trans = None
       THEN i > 1 => s.pending_op[i].operation = "DOOM_ENTRY"
       ELSE s.tr[s.pending_op[i].trans].st = s.pending_op[i].operation
  /\ \A i, j \in DOMAIN s.pending_op :
       s.pending_op[i].trans = s.pending_op[j].trans
         => i = j \/ s.pending_op[i].trans = None
  /\ \A t \in Trans : (\E i \in DOMAIN s.pending_op : s.pending_op[i].trans = t)
                        <=> t \notin L /\ s.tr[t].st \in WorkItemStates

LockQueue(s, L) ==
  /\ \A e, f \in Ids :
       \A i \in DOMAIN s.entry[e].pending_queue, j \in DOMAIN s.entry[f].pending_queue :
         s.entry[e].pending_queue[i] = s.entry[f].pending_queue[j]
           => e = f /\ i = j
  /\ \A t \in Trans :
       (\E e \in Ids : \E i \in DOMAIN s.entry[e].pending_queue :
          s.entry[e].pending_queue[i] = t)
       <=> t \notin L /\ s.tr[t].st = "ADD_TO_ENTRY"

\* What the state of a transaction says about its pointer and its mode.
UsingStates == {"CACHE_READ_RESPONSE", "TOGGLE_UNUSED", "CACHE_QUERY_DATA",
                "CACHE_WRITE_UPDATED_RESPONSE", "CACHE_WRITE_RESPONSE",
                "CACHE_WRITE_DATA", "CACHE_READ_DATA"}
NetworkStates == {"SEND_REQUEST", "AUTH", "HEADERS", "NETWORK_READ"}
FirstStates == {"CACHE_READ_RESPONSE", "TOGGLE_UNUSED"}
ReaderStates == WaitStates \cup FirstStates \cup
                  {"HEADERS", "CACHE_READ_DATA", "DONE"}

Role(T) ==
  /\ T.st \in WaitStates \cup {"IDLE", "GONE"} => T.entry = None
  /\ T.st \in WaitStates \ {"GET_BACKEND"} => T.mode # "NONE"
  /\ T.st \in UsingStates => T.entry # None
  /\ T.st \in NetworkStates /\ (T.mode # "NONE" \/ T.resume # FALSE) => T.entry # None
  /\ T.st \in WaitStates \cup FirstStates \cup {"IDLE"} => T.resume = FALSE
  /\ T.st \in FirstStates => T.mode # "WRITE"
  /\ T.st = "CACHE_READ_DATA" => T.mode = "READ" \/ T.resume # FALSE
  /\ T.mode = "READ" => T.st \in ReaderStates /\ T.resume = FALSE

Roles(s, L) == \A t \in Trans \ L : Role(s.tr[t])

Good(s, L, o) ==
  /\ s \in StateRecords
  /\ Linked(s) /\ ModesMatch(s) /\ Exclusive(s) /\ OnlyLive(s)
  /\ Attended(s, o) /\ OpOrEntry(s)
  /\ BackendQueue(s, L) /\ WorkQueue(s, L) /\ LockQueue(s, L)
  /\ Roles(s, L)

IInv == Good(State, {}, None)

-----------------------------------------------------------------------------
(* Changes of one transaction, and of what the entries hold. *)

\* A transaction whose own method runs: nobody will call it back.
LEMMA Limbo ==
  ASSUME NEW s, NEW L, NEW o, Good(s, L, o),
         NEW t \in Trans, s.tr[t].st \notin WaitStates
  PROVE  Good(s, L \cup {t}, o)
<1>1. BackendQueue(s, L \cup {t})
  BY DEF Good, BackendQueue, WaitStates
<1>2. WorkQueue(s, L \cup {t})
  BY DEF Good, WorkQueue, WaitStates
<1>3. LockQueue(s, L \cup {t})
  BY DEF Good, LockQueue, WaitStates
<1> QED
  BY <1>1, <1>2, <1>3 DEF Good, Roles

\* A transaction in limbo changes: its mode must still fit its pointer.
SameHold(T, U) ==
  /\ U.entry = T.entry
  /\ U.entry = None \/ (U.mode = "READ" <=> T.mode = "READ")

Put(s, t, T) == [s EXCEPT !.tr[t] = T]

\* The states s and s2 differ in the transaction t alone.
OnlyTrans(s, s2, t) ==
  /\ \A u \in Trans : u # t => s2.tr[u] = s.tr[u]
  /\ s2.disk_cache = s.disk_cache /\ s2.backend_op = s.backend_op
  /\ s2.active = s.active /\ s2.doomed = s.doomed /\ s2.entry = s.entry
  /\ s2.pending_op = s.pending_op /\ s2.stored = s.stored /\ s2.data = s.data

\* A transaction in limbo may change what concerns only itself.
LEMMA Adjust ==
  ASSUME NEW s, NEW L, NEW o, NEW t, NEW T, Good(s, L, o), t \in L, t \in Trans,
         T \in TransRecords, SameHold(s.tr[t], T)
  PROVE  /\ Good(Put(s, t, T), L, o)
         /\ Put(s, t, T).tr[t] = T /\ OnlyTrans(s, Put(s, t, T), t)
<1> DEFINE s2 == Put(s, t, T)
<1>1. /\ s2 \in StateRecords
      /\ s2.backend_op = s.backend_op /\ s2.pending_op = s.pending_op
      /\ s2.entry = s.entry /\ s2.active = s.active /\ s2.doomed = s.doomed
      /\ s2.stored = s.stored /\ s2.data = s.data /\ s2.disk_cache = s.disk_cache
      /\ s2.tr = [s.tr EXCEPT ![t] = T]
  BY DEF Good, StateRecords, Put
<1>2. s2.tr[t] = T /\ \A u \in Trans : u # t => s2.tr[u] = s.tr[u]
  BY <1>1 DEF Good, StateRecords
<1> HIDE DEF s2
<1>3. Linked(s2)
  BY <1>1, <1>2 DEF Good, Linked, SameHold
<1>4. ModesMatch(s2)
  BY <1>1, <1>2, HttpCacheAssumption DEF Good, ModesMatch, Linked, SameHold, Ids
<1>5. Exclusive(s2) /\ OnlyLive(s2) /\ Attended(s2, o) /\ OpOrEntry(s2)
  BY <1>1 DEF Good, Exclusive, OnlyLive, Attended, OpOrEntry, Live
<1>6. BackendQueue(s2, L)
  BY <1>1, <1>2 DEF Good, BackendQueue
<1>7. WorkQueue(s2, L)
  BY <1>1, <1>2 DEF Good, WorkQueue, StateRecords, WorkItems
<1>8. LockQueue(s2, L)
  BY <1>1, <1>2 DEF Good, LockQueue
<1>9. Roles(s2, L)
  BY <1>1, <1>2 DEF Good, Roles
<1> QED
  BY <1>1, <1>2, <1>3, <1>4, <1>5, <1>6, <1>7, <1>8, <1>9 DEF Good, OnlyTrans, s2

\* It comes out of limbo into a state in which nobody calls it back.
LEMMA Land ==
  ASSUME NEW s, NEW L, NEW o, Good(s, L, o), NEW t \in L, t \in Trans,
         Role(s.tr[t]), s.tr[t].st \notin WaitStates
  PROVE  Good(s, L \ {t}, o)
<1>1. BackendQueue(s, L \ {t})
  BY DEF Good, BackendQueue, WaitStates
<1>2. WorkQueue(s, L \ {t})
  BY DEF Good, WorkQueue, WaitStates
<1>3. LockQueue(s, L \ {t})
  BY DEF Good, LockQueue, WaitStates
<1> QED
  BY <1>1, <1>2, <1>3 DEF Good, Roles

\* What is written to the disk entries does not matter to the lock.
Store(s, d) == [s EXCEPT !.data = d]

\* What is on disk may change under the entries.
LEMMA DataChange ==
  ASSUME NEW s, NEW L, NEW o, NEW d, Good(s, L, o), d \in [Ids -> DataRecords]
  PROVE  LET s2 == Store(s, d)
         IN /\ Good(s2, L, o)
            /\ s2.tr = s.tr /\ s2.entry = s.entry /\ s2.active = s.active
            /\ s2.doomed = s.doomed /\ s2.data = d
            /\ s2.disk_cache = s.disk_cache
<1> DEFINE s2 == Store(s, d)
<1>1. /\ s2 \in StateRecords
      /\ s2.backend_op = s.backend_op /\ s2.pending_op = s.pending_op
      /\ s2.entry = s.entry /\ s2.active = s.active /\ s2.doomed = s.doomed
      /\ s2.stored = s.stored /\ s2.tr = s.tr /\ s2.data = d
      /\ s2.disk_cache = s.disk_cache
  BY DEF Good, StateRecords, Store
<1> HIDE DEF s2
<1>2. Linked(s2) /\ ModesMatch(s2) /\ Exclusive(s2) /\ OnlyLive(s2)
  BY <1>1 DEF Good, Linked, ModesMatch, Exclusive, OnlyLive, Live
<1>3. Attended(s2, o) /\ OpOrEntry(s2) /\ Roles(s2, L)
  BY <1>1 DEF Good, Attended, OpOrEntry, Live, Roles
<1>4. BackendQueue(s2, L) /\ WorkQueue(s2, L) /\ LockQueue(s2, L)
  BY <1>1 DEF Good, BackendQueue, WorkQueue, LockQueue
<1> QED
  BY <1>1, <1>2, <1>3, <1>4 DEF Good, s2

-----------------------------------------------------------------------------
(* The life of an entry, and the work items. *)

\* The backend forgets an entry: DoomDisk(), or an eviction.
LEMMA StoredForgotten ==
  ASSUME NEW s, NEW L, NEW o, Good(s, L, o)
  PROVE  Good([s EXCEPT !.stored = None], L, o)
<1> DEFINE s2 == [s EXCEPT !.stored = None]
<1>1. /\ s2 \in StateRecords
      /\ s2.backend_op = s.backend_op /\ s2.pending_op = s.pending_op
      /\ s2.entry = s.entry /\ s2.active = s.active /\ s2.doomed = s.doomed
      /\ s2.stored = None /\ s2.tr = s.tr
  BY DEF Good, StateRecords
<1> HIDE DEF s2
<1>2. Linked(s2) /\ ModesMatch(s2) /\ Exclusive(s2) /\ OnlyLive(s2)
  BY <1>1 DEF Good, Linked, ModesMatch, Exclusive, OnlyLive, Live
<1>3. OpOrEntry(s2)
  BY <1>1, HttpCacheAssumption DEF Good, OpOrEntry, StateRecords, Ids
<1>4. Attended(s2, o) /\ Roles(s2, L)
  BY <1>1 DEF Good, Attended, Live, Roles
<1>5. BackendQueue(s2, L) /\ WorkQueue(s2, L) /\ LockQueue(s2, L)
  BY <1>1 DEF Good, BackendQueue, WorkQueue, LockQueue
<1> QED
  BY <1>1, <1>2, <1>3, <1>4, <1>5 DEF Good, s2

\* Dooming the disk entry leaves every ActiveEntry alone.
LEMMA DoomDiskGood ==
  ASSUME NEW s, NEW L, NEW o, Good(s, L, o), NEW e \in Ids
  PROVE  /\ Good(DoomDisk(s, e), L, o)
         /\ DoomDisk(s, e).tr = s.tr
         /\ DoomDisk(s, e).entry = s.entry
         /\ DoomDisk(s, e).active = s.active
         /\ DoomDisk(s, e).doomed = s.doomed
         /\ DoomDisk(s, e).pending_op = s.pending_op
         /\ DoomDisk(s, e).stored # e
         /\ DoomDisk(s, e).stored \in {s.stored, None}
         /\ DoomDisk(s, e).data = s.data
<1>0. s \in StateRecords /\ None \notin Ids
  BY HttpCacheAssumption DEF Good, Ids
<1>1. CASE s.stored = e
  <2>1. DoomDisk(s, e) = [s EXCEPT !.stored = None]
    BY <1>1 DEF DoomDisk
  <2> QED
    BY <2>1, <1>0, StoredForgotten DEF StateRecords
<1>2. CASE s.stored # e
  <2>1. DoomDisk(s, e) = s
    BY <1>0, <1>2 DEF DoomDisk, StateRecords
  <2> QED
    BY <2>1, <1>2
<1> QED
  BY <1>1, <1>2

\* DoomActiveEntry() moves the active entry to the doomed ones and disturbs
\* nobody that uses it or waits for it.
LEMMA DoomActiveEntryGood ==
  ASSUME NEW s, NEW L, NEW o, Good(s, L, o)
  PROVE  /\ Good(DoomActiveEntry(s), L, o)
         /\ DoomActiveEntry(s).tr = s.tr
         /\ DoomActiveEntry(s).entry = s.entry
         /\ DoomActiveEntry(s).active = None
         /\ DoomActiveEntry(s).pending_op = s.pending_op
         /\ DoomActiveEntry(s).data = s.data
         /\ Live(DoomActiveEntry(s)) = Live(s)
<1>0. s \in StateRecords /\ None \notin Ids
  BY HttpCacheAssumption DEF Good, Ids
<1>1. CASE s.active = None
  BY <1>1 DEF DoomActiveEntry
<1>2. CASE s.active # None
  <2> DEFINE a == s.active
             d == DoomDisk(s, a)
             s2 == [d EXCEPT !.doomed = @ \cup {a}, !.active = None]
  <2>0. a \in Ids
    BY <1>0, <1>2 DEF StateRecords
  <2>1. DoomActiveEntry(s) = s2
    BY <1>2 DEF DoomActiveEntry
  <2>2. /\ Good(d, L, o) /\ d.tr = s.tr /\ d.entry = s.entry /\ d.active = a
        /\ d.doomed = s.doomed /\ d.pending_op = s.pending_op /\ d.stored # a
        /\ d.data = s.data
    BY <2>0, DoomDiskGood
  <2> HIDE DEF d
  <2>3. /\ s2 \in StateRecords
        /\ s2.backend_op = d.backend_op /\ s2.pending_op = d.pending_op
        /\ s2.entry = d.entry /\ s2.active = None /\ s2.doomed = d.doomed \cup {a}
        /\ s2.stored = d.stored /\ s2.tr = d.tr /\ s2.data = d.data
    BY <2>0, <2>2 DEF Good, StateRecords
  <2> HIDE DEF s2
  <2>4. Live(s2) = Live(d) /\ Live(d) = Live(s)
    BY <2>2, <2>3, <2>0, <1>0 DEF Live
  <2>5. Linked(s2) /\ ModesMatch(s2) /\ Exclusive(s2)
    BY <2>2, <2>3 DEF Good, Linked, ModesMatch, Exclusive
  <2>6. OnlyLive(s2) /\ Attended(s2, o)
    BY <2>2, <2>3, <2>4 DEF Good, OnlyLive, Attended
  <2>7. OpOrEntry(s2)
    BY <2>2, <2>3, <2>0, <1>0 DEF Good, OpOrEntry, StateRecords
  <2>8. BackendQueue(s2, L) /\ WorkQueue(s2, L) /\ LockQueue(s2, L) /\ Roles(s2, L)
    BY <2>2, <2>3 DEF Good, BackendQueue, WorkQueue, LockQueue, Roles
  <2>9. Good(s2, L, o)
    BY <2>3, <2>5, <2>6, <2>7, <2>8 DEF Good
  <2> QED
    BY <2>1, <2>2, <2>3, <2>4, <2>9
<1> QED
  BY <1>1, <1>2

\* A work item without a transaction joins the queue: DoomEntry(key, NULL).
LEMMA EnqueueNoneGood ==
  ASSUME NEW s, NEW L, NEW o, Good(s, L, o), s.active = None
  PROVE  LET s2 == Enqueue(s, "DOOM_ENTRY", None)
         IN /\ Good(s2, L, o)
            /\ s2.tr = s.tr /\ s2.entry = s.entry /\ s2.active = s.active
            /\ s2.doomed = s.doomed /\ s2.data = s.data
<1> DEFINE item == [operation |-> "DOOM_ENTRY", trans |-> None]
           s2 == [s EXCEPT !.pending_op = Append(@, item)]
<1>0. s2 = Enqueue(s, "DOOM_ENTRY", None)
  BY DEF Enqueue
<1>1. s \in StateRecords /\ s.pending_op \in Seq(WorkItems) /\ item \in WorkItems
  BY DEF Good, StateRecords, WorkItems, WorkItemStates
<1>2. /\ s2 \in StateRecords
      /\ s2.backend_op = s.backend_op /\ s2.pending_op = Append(s.pending_op, item)
      /\ s2.entry = s.entry /\ s2.active = s.active /\ s2.doomed = s.doomed
      /\ s2.stored = s.stored /\ s2.tr = s.tr /\ s2.data = s.data
  <2>1. Append(s.pending_op, item) \in Seq(WorkItems)
    BY <1>1
  <2> HIDE DEF item
  <2> QED
    BY <1>1, <2>1 DEF StateRecords
<1>3. /\ DOMAIN s2.pending_op = 1 .. Len(s.pending_op) + 1 /\ Len(s.pending_op) \in Nat
      /\ DOMAIN s.pending_op = 1 .. Len(s.pending_op)
      /\ \A i \in 1 .. Len(s.pending_op) : s2.pending_op[i] = s.pending_op[i]
      /\ s2.pending_op[Len(s.pending_op) + 1] = item
  BY <1>1, <1>2
<1>4. item.trans = None /\ item.operation = "DOOM_ENTRY"
  OBVIOUS
<1> HIDE DEF item, s2
<1>5. Linked(s2) /\ ModesMatch(s2) /\ Exclusive(s2) /\ OnlyLive(s2)
  BY <1>2 DEF Good, Linked, ModesMatch, Exclusive, OnlyLive, Live
<1>6. Attended(s2, o) /\ OpOrEntry(s2) /\ Roles(s2, L)
  BY <1>2 DEF Good, Attended, OpOrEntry, Live, Roles
<1>7. BackendQueue(s2, L) /\ LockQueue(s2, L)
  BY <1>2 DEF Good, BackendQueue, LockQueue
<1>8. WorkQueue(s2, L)
  <2>1. \A i \in DOMAIN s2.pending_op : i \in DOMAIN s.pending_op \/ i = Len(s.pending_op) + 1
    BY <1>3
  <2>2. \A i \in DOMAIN s2.pending_op :
          IF s2.pending_op[i].trans = None
          THEN i > 1 => s2.pending_op[i].operation = "DOOM_ENTRY"
          ELSE s2.tr[s2.pending_op[i].trans].st = s2.pending_op[i].operation
    BY <2>1, <1>2, <1>3, <1>4 DEF Good, WorkQueue
  <2>3. \A i, j \in DOMAIN s2.pending_op :
          s2.pending_op[i].trans = s2.pending_op[j].trans
            => i = j \/ s2.pending_op[i].trans = None
    BY <2>1, <1>3, <1>4 DEF Good, WorkQueue
  <2>4. \A t \in Trans : (\E i \in DOMAIN s2.pending_op : s2.pending_op[i].trans = t)
                           <=> t \notin L /\ s2.tr[t].st \in WorkItemStates
    <3>1. \A t \in Trans : (\E i \in DOMAIN s2.pending_op : s2.pending_op[i].trans = t)
                             <=> (\E i \in DOMAIN s.pending_op : s.pending_op[i].trans = t)
      <4> SUFFICES ASSUME NEW t \in Trans
                   PROVE  (\E i \in DOMAIN s2.pending_op : s2.pending_op[i].trans = t)
                            <=> (\E i \in DOMAIN s.pending_op : s.pending_op[i].trans = t)
        OBVIOUS
      <4>1. t # None
        BY HttpCacheAssumption
      <4>2. ASSUME NEW i \in DOMAIN s2.pending_op, s2.pending_op[i].trans = t
            PROVE  i \in DOMAIN s.pending_op /\ s.pending_op[i].trans = t
        BY <4>1, <4>2, <2>1, <1>3, <1>4
      <4>3. ASSUME NEW i \in DOMAIN s.pending_op, s.pending_op[i].trans = t
            PROVE  i \in DOMAIN s2.pending_op /\ s2.pending_op[i].trans = t
        BY <4>3, <1>3
      <4> QED
        BY <4>2, <4>3
    <3> QED
      BY <3>1, <1>2 DEF Good, WorkQueue
  <2> QED
    BY <2>2, <2>3, <2>4 DEF WorkQueue
<1> QED
  BY <1>0, <1>2, <1>5, <1>6, <1>7, <1>8 DEF Good

\* A transaction that may ask for an entry: it is in limbo and has none.
Asks(s, L, t) ==
  /\ t \in L /\ t \in Trans
  /\ s.tr[t].entry = None /\ s.tr[t].mode # "NONE" /\ s.tr[t].resume = FALSE

\* A transaction asks the disk cache and will be called back, once.
Issued(s, s2, op, t) ==
  /\ \A u \in Trans : u # t => s2.tr[u] = s.tr[u]
  /\ s2.tr[t].mode = s.tr[t].mode /\ s2.tr[t].entry = None /\ s2.tr[t].st = op
  /\ s2.entry = s.entry /\ s2.active = None /\ s2.doomed = s.doomed
  /\ s2.data = s.data

\* A transaction in limbo that asks the disk cache is in limbo no more.
LEMMA EnqueueGood ==
  ASSUME NEW s, NEW L, NEW o, NEW op, NEW t, Good(s, L, o), Asks(s, L, t),
         op \in WorkItemStates, s.active = None
  PROVE  /\ Good(Enqueue(s, op, t), L \ {t}, o)
         /\ Issued(s, Enqueue(s, op, t), op, t)
<1> USE DEF Asks
<1> DEFINE item == [operation |-> op, trans |-> t]
           s1 == [s EXCEPT !.pending_op = Append(@, item)]
           s2 == [s1 EXCEPT !.tr[t].st = op]
<1>0. s2 = Enqueue(s, op, t)
  BY HttpCacheAssumption DEF Enqueue
<1>1. /\ s \in StateRecords /\ s.pending_op \in Seq(WorkItems) /\ item \in WorkItems
      /\ op \in States /\ op \in WaitStates \ {"GET_BACKEND"}
      /\ op # "ADD_TO_ENTRY" /\ op # "GET_BACKEND"
  BY DEF Good, StateRecords, WorkItems, WorkItemStates, States, WaitStates
<1>2. /\ s2 \in StateRecords
      /\ s2.backend_op = s.backend_op /\ s2.pending_op = Append(s.pending_op, item)
      /\ s2.entry = s.entry /\ s2.active = s.active /\ s2.doomed = s.doomed
      /\ s2.stored = s.stored /\ s2.tr = [s.tr EXCEPT ![t].st = op] /\ s2.data = s.data
  <2>1. Append(s.pending_op, item) \in Seq(WorkItems)
    BY <1>1
  <2>2. [s.tr EXCEPT ![t].st = op] \in [Trans -> TransRecords]
    <3>1. s.tr \in [Trans -> TransRecords]
      BY <1>1 DEF StateRecords
    <3> QED
      BY <3>1, <1>1 DEF TransRecords
  <2>3. /\ s1 \in StateRecords /\ s1.tr = s.tr /\ s1.pending_op = Append(s.pending_op, item)
        /\ s1.backend_op = s.backend_op /\ s1.entry = s.entry /\ s1.active = s.active
        /\ s1.doomed = s.doomed /\ s1.stored = s.stored /\ s1.data = s.data
    <3> HIDE DEF item
    <3> QED
      BY <1>1, <2>1 DEF StateRecords
  <2> HIDE DEF item, s1
  <2> QED
    BY <2>2, <2>3 DEF StateRecords
<1>3. /\ DOMAIN s2.pending_op = 1 .. Len(s.pending_op) + 1 /\ Len(s.pending_op) \in Nat
      /\ DOMAIN s.pending_op = 1 .. Len(s.pending_op)
      /\ \A i \in 1 .. Len(s.pending_op) : s2.pending_op[i] = s.pending_op[i]
      /\ s2.pending_op[Len(s.pending_op) + 1] = item
  BY <1>1, <1>2
<1>4. item.trans = t /\ item.operation = op
  OBVIOUS
<1>5. /\ \A u \in Trans : u # t => s2.tr[u] = s.tr[u]
      /\ s2.tr[t].st = op /\ s2.tr[t].entry = None
      /\ s2.tr[t].mode = s.tr[t].mode /\ s2.tr[t].resume = s.tr[t].resume
  BY <1>1, <1>2 DEF StateRecords, TransRecords
<1> HIDE DEF item, s1, s2
<1>6. Linked(s2) /\ ModesMatch(s2) /\ Exclusive(s2) /\ OnlyLive(s2)
  BY <1>2, <1>5 DEF Good, Linked, ModesMatch, Exclusive, OnlyLive, Live
<1>7. Attended(s2, o) /\ OpOrEntry(s2)
  BY <1>2 DEF Good, Attended, OpOrEntry, Live
<1>8. Roles(s2, L \ {t})
  <2>1. Role(s2.tr[t])
    BY <1>1, <1>5 DEF Role, WorkItemStates, UsingStates, NetworkStates,
       FirstStates, ReaderStates
  <2> QED
    BY <2>1, <1>5 DEF Good, Roles
<1>9. BackendQueue(s2, L \ {t}) /\ LockQueue(s2, L \ {t})
  BY <1>1, <1>2, <1>5 DEF Good, BackendQueue, LockQueue
<1>10. WorkQueue(s2, L \ {t})
  <2>1. \A i \in DOMAIN s2.pending_op : i \in DOMAIN s.pending_op \/ i = Len(s.pending_op) + 1
    BY <1>3
  <2>2. \A i \in DOMAIN s.pending_op :
          s.pending_op[i].trans # t /\ s.pending_op[i].trans \in Trans \cup {None}
    <3>1. \A i \in DOMAIN s.pending_op : s.pending_op[i] \in WorkItems
      BY <1>1, <1>3
    <3> QED
      BY <3>1 DEF Good, WorkQueue, WorkItems
  <2>3. \A i \in DOMAIN s2.pending_op :
          IF s2.pending_op[i].trans = None
          THEN i > 1 => s2.pending_op[i].operation = "DOOM_ENTRY"
          ELSE s2.tr[s2.pending_op[i].trans].st = s2.pending_op[i].operation
    <3> TAKE i \in DOMAIN s2.pending_op
    <3>1. CASE i = Len(s.pending_op) + 1
      BY <3>1, <1>3, <1>4, <1>5, HttpCacheAssumption
    <3>2. CASE i \in DOMAIN s.pending_op
      <4>1. s2.pending_op[i] = s.pending_op[i]
        BY <3>2, <1>3
      <4>2. s.pending_op[i].trans # None =>
              s2.tr[s.pending_op[i].trans] = s.tr[s.pending_op[i].trans]
        BY <3>2, <2>2, <1>5
      <4> QED
        BY <3>2, <4>1, <4>2 DEF Good, WorkQueue
    <3> QED
      BY <2>1, <3>1, <3>2
  <2>4. \A i, j \in DOMAIN s2.pending_op :
          s2.pending_op[i].trans = s2.pending_op[j].trans
            => i = j \/ s2.pending_op[i].trans = None
    BY <2>1, <2>2, <1>3, <1>4 DEF Good, WorkQueue
  <2>5. \A u \in Trans : (\E i \in DOMAIN s2.pending_op : s2.pending_op[i].trans = u)
                           <=> u \notin L \ {t} /\ s2.tr[u].st \in WorkItemStates
    <3> SUFFICES ASSUME NEW u \in Trans
                 PROVE  (\E i \in DOMAIN s2.pending_op : s2.pending_op[i].trans = u)
                           <=> u \notin L \ {t} /\ s2.tr[u].st \in WorkItemStates
      OBVIOUS
    <3>1. (\E i \in DOMAIN s2.pending_op : s2.pending_op[i].trans = u)
             <=> u = t \/ (\E i \in DOMAIN s.pending_op : s.pending_op[i].trans = u)
      BY <2>1, <1>3, <1>4
    <3> QED
      BY <3>1, <1>5 DEF Good, WorkQueue
  <2> QED
    BY <2>3, <2>4, <2>5 DEF WorkQueue
<1> QED
  BY <1>0, <1>2, <1>5, <1>6, <1>7, <1>8, <1>9, <1>10 DEF Good, Issued

\* DoomEntry() moves the active entry to the doomed ones, or dooms what is on disk.
LEMMA DoomEntryGood ==
  ASSUME NEW s, NEW L, NEW o, Good(s, L, o)
  PROVE  LET s2 == DoomEntry(s)
         IN /\ Good(s2, L, o)
            /\ s2.tr = s.tr /\ s2.entry = s.entry /\ s2.active = None
            /\ s2.data = s.data /\ Live(s2) = Live(s)
<1>1. CASE s.active # None
  BY <1>1, DoomActiveEntryGood DEF DoomEntry
<1>2. CASE s.active = None
  BY <1>2, EnqueueNoneGood DEF DoomEntry, Live
<1> QED
  BY <1>1, <1>2

-----------------------------------------------------------------------------
(* AddTransactionToEntry(). *)

\* Live entries are identified by members of Ids.
LEMMA LiveIds ==
  ASSUME NEW s, s \in StateRecords
  PROVE  Live(s) \subseteq Ids
  BY DEF Live, StateRecords

Busy(s, e) == \/ s.entry[e].writer # None \/ s.entry[e].will_process
              \/ s.entry[e].readers # {}

\* A transaction is queued behind those that use or wait for the entry.
InQueue(s, e, t) == [s EXCEPT !.entry[e].pending_queue = Append(@, t),
                              !.tr[t].st = "ADD_TO_ENTRY"]

Stands(s, s2, e, t) ==
  /\ \A u \in Trans : u # t => s2.tr[u] = s.tr[u]
  /\ s2.tr[t].mode = s.tr[t].mode /\ s2.tr[t].entry = None
  /\ s2.tr[t].st = "ADD_TO_ENTRY"
  /\ \A f \in Ids : f # e => s2.entry[f] = s.entry[f]
  /\ s2.entry[e].writer = s.entry[e].writer
  /\ s2.entry[e].readers = s.entry[e].readers
  /\ s2.entry[e].will_process = s.entry[e].will_process
  /\ s2.active = s.active /\ s2.doomed = s.doomed /\ s2.data = s.data

\* Nor is one that queues on a busy entry,
LEMMA WaitForEntry ==
  ASSUME NEW s, NEW L, NEW o, NEW e, NEW t, Good(s, L, o), Asks(s, L, t),
         e \in Live(s), Busy(s, e)
  PROVE  LET s2 == InQueue(s, e, t)
         IN /\ Good(s2, L \ {t}, o) /\ (o = e => Good(s2, L \ {t}, None))
            /\ Stands(s, s2, e, t)
<1>0. /\ e \in Ids /\ t \in Trans /\ t \in L /\ Live(s) \subseteq Ids
      /\ s.tr[t].entry = None /\ s.tr[t].mode # "NONE" /\ s.tr[t].resume = FALSE
  BY LiveIds DEF Good, Asks
<1> USE <1>0
<1> DEFINE s2 == InQueue(s, e, t)
           q == s.entry[e].pending_queue
           n == Len(q)
<1>1. /\ s \in StateRecords /\ s.entry \in [Ids -> EntryRecords]
      /\ s.entry[e] \in EntryRecords /\ q \in Seq(Trans) /\ n \in Nat
      /\ DOMAIN q = 1 .. n
  BY DEF Good, StateRecords, EntryRecords
<1>2. [s.tr EXCEPT ![t].st = "ADD_TO_ENTRY"] \in [Trans -> TransRecords]
  <2>1. "ADD_TO_ENTRY" \in States /\ s.tr \in [Trans -> TransRecords]
    BY <1>1 DEF States, WaitStates, StateRecords
  <2> QED
    BY <2>1 DEF TransRecords
<1>3. [s.entry EXCEPT ![e].pending_queue = Append(@, t)] \in [Ids -> EntryRecords]
  <2>1. Append(q, t) \in Seq(Trans)
    BY <1>1
  <2> QED
    BY <1>1, <2>1 DEF EntryRecords
<1>4. /\ s2 \in StateRecords
      /\ s2.backend_op = s.backend_op /\ s2.pending_op = s.pending_op
      /\ s2.entry = [s.entry EXCEPT ![e].pending_queue = Append(@, t)]
      /\ s2.tr = [s.tr EXCEPT ![t].st = "ADD_TO_ENTRY"]
      /\ s2.active = s.active /\ s2.doomed = s.doomed
      /\ s2.stored = s.stored /\ s2.data = s.data
  BY <1>1, <1>2, <1>3 DEF StateRecords, InQueue
<1>5. /\ \A u \in Trans : u # t => s2.tr[u] = s.tr[u]
      /\ s2.tr[t].st = "ADD_TO_ENTRY" /\ s2.tr[t].entry = None
      /\ s2.tr[t].mode = s.tr[t].mode /\ s2.tr[t].resume = FALSE
  BY <1>1, <1>4 DEF StateRecords, TransRecords
<1>6. /\ \A f \in Ids : f # e => s2.entry[f] = s.entry[f]
      /\ s2.entry[e].writer = s.entry[e].writer
      /\ s2.entry[e].readers = s.entry[e].readers
      /\ s2.entry[e].will_process = s.entry[e].will_process
      /\ s2.entry[e].pending_queue = Append(q, t)
  BY <1>1, <1>4 DEF EntryRecords
<1>7. /\ DOMAIN s2.entry[e].pending_queue = 1 .. n + 1
      /\ \A i \in 1 .. n : s2.entry[e].pending_queue[i] = q[i]
      /\ s2.entry[e].pending_queue[n + 1] = t
  BY <1>1, <1>6
<1>8. Live(s2) = Live(s)
  BY <1>4 DEF Live
<1> HIDE DEF q, n, s2
<1>9. Linked(s2)
  BY <1>5, <1>6 DEF Good, Linked
<1>10. ModesMatch(s2) /\ Exclusive(s2)
  BY <1>5, <1>6 DEF Good, ModesMatch, Exclusive
<1>11. OnlyLive(s2) /\ Attended(s2, o) /\ (o = e => Attended(s2, None))
  BY <1>6, <1>8 DEF Good, OnlyLive, Attended, Busy
<1>12. OpOrEntry(s2)
  BY <1>4 DEF Good, OpOrEntry
<1>13. BackendQueue(s2, L \ {t})
  BY <1>4, <1>5 DEF Good, BackendQueue
<1>14. WorkQueue(s2, L \ {t})
  <2>1. \A i \in DOMAIN s.pending_op :
          s.pending_op[i].trans # t /\ s.pending_op[i].trans \in Trans \cup {None}
    <3>1. \A i \in DOMAIN s.pending_op : s.pending_op[i] \in WorkItems
      BY <1>1 DEF StateRecords
    <3> QED
      BY <3>1 DEF Good, WorkQueue, WorkItems
  <2>2. \A i \in DOMAIN s.pending_op : s.pending_op[i].trans # None =>
          s2.tr[s.pending_op[i].trans] = s.tr[s.pending_op[i].trans]
    BY <2>1, <1>5
  <2> QED
    BY <2>2, <1>4, <1>5 DEF Good, WorkQueue, WorkItemStates
<1>15. LockQueue(s2, L \ {t})
  <2> DEFINE Q(f) == s.entry[f].pending_queue
             Q2(f) == s2.entry[f].pending_queue
  <2>1. \A f \in Ids : f # e => Q2(f) = Q(f)
    BY <1>6
  <2>2. \A i \in DOMAIN Q2(e) : (i \in DOMAIN Q(e) /\ Q2(e)[i] = Q(e)[i]) \/ (i = n + 1 /\ Q2(e)[i] = t)
    BY <1>1, <1>7 DEF q
  <2>3. /\ \A i \in DOMAIN Q(e) : i \in DOMAIN Q2(e) /\ Q2(e)[i] = Q(e)[i]
        /\ n + 1 \in DOMAIN Q2(e) /\ Q2(e)[n + 1] = t
    BY <1>1, <1>7 DEF q, n
  <2>4. \A f \in Ids : \A i \in DOMAIN Q(f) : Q(f)[i] # t
    BY DEF Good, LockQueue
  <2>5. \A f, g \in Ids : \A i \in DOMAIN Q2(f), j \in DOMAIN Q2(g) :
          Q2(f)[i] = Q2(g)[j] => f = g /\ i = j
    <3>1. \A f, g \in Ids : \A i \in DOMAIN Q(f), j \in DOMAIN Q(g) :
            Q(f)[i] = Q(g)[j] => f = g /\ i = j
      BY DEF Good, LockQueue
    <3> HIDE DEF Q, Q2
    <3> QED
      BY <2>1, <2>2, <2>4, <3>1
  <2>6. \A u \in Trans : (\E f \in Ids : \E i \in DOMAIN Q2(f) : Q2(f)[i] = u)
                           <=> u = t \/ (\E f \in Ids : \E i \in DOMAIN Q(f) : Q(f)[i] = u)
    <3> HIDE DEF Q, Q2
    <3> QED
      BY <2>1, <2>2, <2>3
  <2>7. \A u \in Trans : (\E f \in Ids : \E i \in DOMAIN Q(f) : Q(f)[i] = u)
                           <=> u \notin L /\ s.tr[u].st = "ADD_TO_ENTRY"
    BY DEF Good, LockQueue
  <2>8. \A u \in Trans : (\E f \in Ids : \E i \in DOMAIN Q2(f) : Q2(f)[i] = u)
                           <=> u \notin L \ {t} /\ s2.tr[u].st = "ADD_TO_ENTRY"
    <3> HIDE DEF Q, Q2
    <3> QED
      BY <2>6, <2>7, <1>5
  <2> QED
    BY <2>5, <2>8 DEF LockQueue
<1>16. Roles(s2, L \ {t})
  <2>1. Role(s2.tr[t])
    BY <1>5 DEF Role, WaitStates, WorkItemStates, UsingStates, NetworkStates,
       FirstStates, ReaderStates
  <2> QED
    BY <2>1, <1>5 DEF Good, Roles
<1> QED
  BY <1>4, <1>5, <1>6, <1>9, <1>10, <1>11, <1>12, <1>13, <1>14, <1>15, <1>16
  DEF Good, Stands, s2

\* A transaction gets the lock: to write if nobody uses the entry, to read if
\* nobody writes it.
JoinsEntry(s, s2, e, t) ==
  /\ s2 \in StateRecords
  /\ s.entry[e].writer = None /\ ~s.entry[e].will_process
  /\ Writes(s.tr[t].mode) => s.entry[e].readers = {}
  /\ s2.entry[e].writer = IF Writes(s.tr[t].mode) THEN t ELSE None
  /\ s2.entry[e].readers = IF Writes(s.tr[t].mode) THEN {}
                           ELSE s.entry[e].readers \cup {t}
  /\ s2.entry[e].pending_queue = s.entry[e].pending_queue
  /\ Writes(s.tr[t].mode) => ~s2.entry[e].will_process
  /\ \A f \in Ids : f # e => s2.entry[f] = s.entry[f]
  /\ \A u \in Trans : u # t => s2.tr[u] = s.tr[u]
  /\ s2.tr[t].entry = e /\ s2.tr[t].mode = s.tr[t].mode
  /\ s2.tr[t].resume = s.tr[t].resume
  /\ s2.tr[t].st = IF s.tr[t].mode = "WRITE" THEN "SEND_REQUEST"
                   ELSE "CACHE_READ_RESPONSE"
  /\ s2.backend_op = s.backend_op /\ s2.pending_op = s.pending_op
  /\ s2.active = s.active /\ s2.doomed = s.doomed /\ s2.stored = s.stored

\* or one that becomes the writer or a reader of an entry.
LEMMA JoinEntry ==
  ASSUME NEW s, NEW L, NEW o, NEW e, NEW t, NEW s2, Good(s, L, o), Asks(s, L, t),
         e \in Live(s),
         JoinsEntry(s, s2, e, t)
  PROVE  Good(s2, L \ {t}, o) /\ (o = e => Good(s2, L \ {t}, None))
<1>0. /\ e \in Ids /\ t \in Trans /\ t \in L /\ Live(s) \subseteq Ids
      /\ s.tr[t].entry = None /\ s.tr[t].mode # "NONE" /\ s.tr[t].resume = FALSE
  BY LiveIds DEF Good, Asks
<1> USE <1>0 DEF JoinsEntry
<1>1. /\ s \in StateRecords /\ s.entry \in [Ids -> EntryRecords]
      /\ s.entry[e] \in EntryRecords /\ s.tr \in [Trans -> TransRecords]
      /\ s.tr[t] \in TransRecords /\ e # None
  BY HttpCacheAssumption DEF Good, StateRecords, Ids
<1>2. \A f \in Ids : s2.entry[f].pending_queue = s.entry[f].pending_queue
  OBVIOUS
<1>3. Live(s2) = Live(s)
  BY DEF Live
<1>4. Linked(s2)
  <2>1. \A f \in Ids : t \notin s.entry[f].readers /\ t # s.entry[f].writer
    BY <1>1, HttpCacheAssumption DEF Good, Linked, Ids
  <2> QED
    BY <2>1, HttpCacheAssumption DEF Good, Linked
<1>5. ModesMatch(s2)
  <2>1. \A f \in Ids : t \notin s.entry[f].readers /\ t # s.entry[f].writer
    BY <1>1, HttpCacheAssumption DEF Good, Linked, Ids
  <2>2. Writes(s.tr[t].mode) <=> s.tr[t].mode # "READ"
    BY <1>1 DEF Writes, TransRecords, Modes
  <2> QED
    BY <2>1, <2>2, HttpCacheAssumption DEF Good, ModesMatch
<1>6. Exclusive(s2)
  BY DEF Good, Exclusive
<1>7. OnlyLive(s2) /\ Attended(s2, o) /\ (o = e => Attended(s2, None))
  <2>1. s2.entry[e].writer # None \/ s2.entry[e].readers # {}
    BY HttpCacheAssumption
  <2> QED
    BY <2>1, <1>3 DEF Good, OnlyLive, Attended
<1>8. OpOrEntry(s2)
  BY DEF Good, OpOrEntry
<1>9. BackendQueue(s2, L \ {t})
  BY DEF Good, BackendQueue
<1>10. WorkQueue(s2, L \ {t})
  <2>1. \A i \in DOMAIN s.pending_op :
          s.pending_op[i].trans # t /\ s.pending_op[i].trans \in Trans \cup {None}
    <3>1. \A i \in DOMAIN s.pending_op : s.pending_op[i] \in WorkItems
      BY <1>1 DEF StateRecords
    <3> QED
      BY <3>1 DEF Good, WorkQueue, WorkItems
  <2>2. \A i \in DOMAIN s.pending_op : s.pending_op[i].trans # None =>
          s2.tr[s.pending_op[i].trans] = s.tr[s.pending_op[i].trans]
    BY <2>1
  <2> QED
    BY <2>2 DEF Good, WorkQueue, WorkItemStates
<1>11. LockQueue(s2, L \ {t})
  BY <1>2 DEF Good, LockQueue
<1>12. Roles(s2, L \ {t})
  <2>1. Role(s2.tr[t])
    BY <1>1 DEF Role, WaitStates, WorkItemStates, UsingStates, NetworkStates,
       FirstStates, ReaderStates, TransRecords, Modes
  <2> QED
    BY <2>1 DEF Good, Roles
<1> QED
  BY <1>4, <1>5, <1>6, <1>7, <1>8, <1>9, <1>10, <1>11, <1>12 DEF Good

\* What a call does that tells a transaction t how to go on: t waits, goes on
\* without the cache, or gets the lock of the entry e, which was free for it;
\* nobody else notices, and no entry becomes free.
Freed(E, F) ==
  F.writer = None /\ ~F.will_process =>
    /\ E.writer = None /\ ~E.will_process
    /\ F.readers = {} => E.readers = {}

Waits(T) == T.st \in WaitStates /\ T.entry = None /\ T.mode # "NONE"

Got(s, T, e) ==
  /\ T.st \in {"SEND_REQUEST", "CACHE_READ_RESPONSE"}
  /\ T.entry = e /\ e \in Live(s)
  /\ s.entry[e].writer = None /\ ~s.entry[e].will_process
  /\ T.mode # "READ" => s.entry[e].readers = {}

Told(s, s2, e, t) ==
  /\ \A u \in Trans : u # t => s2.tr[u] = s.tr[u]
  /\ \/ Waits(s2.tr[t])
     \/ s2.tr[t].st \in {"SEND_REQUEST", "DONE"} /\ s2.tr[t].entry = None
     \/ Got(s, s2.tr[t], e)
  /\ \A f \in Ids : Freed(s.entry[f], s2.entry[f])
  /\ s2.active \in {s.active, None} /\ Live(s2) = Live(s) /\ s2.data = s.data

\* AddTransactionToEntry() lets the transaction in, or queues it.
LEMMA AddTransactionToEntryGood ==
  ASSUME NEW s, NEW L, NEW o, NEW e, NEW t, Good(s, L, o), Asks(s, L, t),
         e \in Live(s)
  PROVE  LET s2 == AddTransactionToEntry(s, e, t)
         IN /\ Good(s2, L \ {t}, o) /\ (o = e => Good(s2, L \ {t}, None))
            /\ s2.active = s.active /\ s2.doomed = s.doomed
            /\ Told(s, s2, e, t)
<1>0. /\ e \in Ids /\ t \in Trans /\ t \in L /\ Live(s) \subseteq Ids
      /\ s.tr[t].entry = None /\ s.tr[t].mode # "NONE"
  BY LiveIds DEF Good, Asks
<1> USE <1>0
<1> DEFINE E == s.entry[e]
           write == Writes(s.tr[t].mode)
           wait == E.writer # None \/ E.will_process \/ (write /\ E.readers # {})
<1>1. /\ s \in StateRecords /\ s.entry \in [Ids -> EntryRecords]
      /\ s.entry[e] \in EntryRecords /\ s.tr \in [Trans -> TransRecords]
      /\ s.tr[t] \in TransRecords /\ e # None
  BY HttpCacheAssumption DEF Good, StateRecords, Ids
<1>2. CASE wait
  <2> DEFINE s2 == InQueue(s, e, t)
  <2>0. s2 = InQueue(s, e, t)
    OBVIOUS
  <2>1. AddTransactionToEntry(s, e, t) = s2
    BY <1>2 DEF AddTransactionToEntry, InQueue
  <2>2. Busy(s, e)
    BY <1>2 DEF Busy
  <2> HIDE DEF s2, wait, E, write
  <2>3. /\ Good(s2, L \ {t}, o) /\ (o = e => Good(s2, L \ {t}, None))
        /\ Stands(s, s2, e, t)
    BY <2>0, <2>2, WaitForEntry
  <2>4. Waits(s2.tr[t])
    BY <2>3 DEF Stands, Waits, WaitStates
  <2>5. \A f \in Ids : Freed(s.entry[f], s2.entry[f])
    BY <2>3 DEF Stands, Freed
  <2>6. Told(s, s2, e, t)
    BY <2>3, <2>4, <2>5 DEF Stands, Told, Live
  <2> QED
    BY <2>1, <2>3, <2>6 DEF Stands
<1>3. CASE ~wait
  <2> DEFINE wp == ~write /\ E.pending_queue # <<>>
             st == IF s.tr[t].mode = "WRITE" THEN "SEND_REQUEST"
                   ELSE "CACHE_READ_RESPONSE"
             N == [E EXCEPT !.writer = IF write THEN t ELSE @,
                            !.readers = IF write THEN @ ELSE @ \cup {t},
                            !.will_process = wp]
             T == [s.tr[t] EXCEPT !.entry = e, !.st = st]
             s2 == [s EXCEPT !.entry[e] = N, !.tr[t] = T]
  <2>1. AddTransactionToEntry(s, e, t) = s2
    BY <1>3 DEF AddTransactionToEntry
  <2>2. /\ E.writer = None /\ ~E.will_process /\ (write => E.readers = {})
        /\ wp \in BOOLEAN /\ (write => ~wp) /\ write \in BOOLEAN
        /\ st \in {"SEND_REQUEST", "CACHE_READ_RESPONSE"} /\ st \in States
        /\ s.tr[t].mode # "READ" => write
    BY <1>1, <1>3 DEF EntryRecords, TransRecords, Writes, Modes, States
  <2> HIDE DEF wp, st, write, wait
  <2>3. /\ T \in TransRecords
        /\ T.entry = e /\ T.st = st /\ T.mode = s.tr[t].mode
        /\ T.resume = s.tr[t].resume
    BY <1>1, <2>2 DEF TransRecords
  <2>4. /\ N \in EntryRecords
        /\ N.writer = IF write THEN t ELSE None
        /\ N.readers = IF write THEN {} ELSE s.entry[e].readers \cup {t}
        /\ N.pending_queue = s.entry[e].pending_queue
        /\ N.will_process = wp
    BY <1>1, <2>2 DEF EntryRecords
  <2> HIDE DEF N, T
  <2>5. /\ s2 \in StateRecords
        /\ s2.backend_op = s.backend_op /\ s2.pending_op = s.pending_op
        /\ s2.entry = [s.entry EXCEPT ![e] = N]
        /\ s2.tr = [s.tr EXCEPT ![t] = T]
        /\ s2.active = s.active /\ s2.doomed = s.doomed
        /\ s2.stored = s.stored /\ s2.data = s.data
    BY <1>1, <2>3, <2>4 DEF StateRecords
  <2> HIDE DEF s2
  <2>6. s2.entry[e] = N /\ \A f \in Ids : f # e => s2.entry[f] = s.entry[f]
    BY <1>1, <2>5
  <2>8. /\ \A u \in Trans : u # t => s2.tr[u] = s.tr[u]
        /\ s2.tr[t] = T
    BY <2>2, <2>3, <2>5, <1>1
  <2>7. /\ Good(s2, L \ {t}, o) /\ (o = e => Good(s2, L \ {t}, None))
        /\ \A f \in Ids : f # e => s2.entry[f] = s.entry[f]
        /\ s2.entry[e].writer = IF write THEN t ELSE None
        /\ s2.entry[e].readers = IF write THEN {} ELSE s.entry[e].readers \cup {t}
    <3>1. /\ Writes(s.tr[t].mode) => s.entry[e].readers = {}
          /\ s2.entry[e].writer = IF Writes(s.tr[t].mode) THEN t ELSE None
          /\ s2.entry[e].readers = IF Writes(s.tr[t].mode) THEN {}
                                   ELSE s.entry[e].readers \cup {t}
          /\ s2.entry[e].pending_queue = s.entry[e].pending_queue
          /\ Writes(s.tr[t].mode) => ~s2.entry[e].will_process
          /\ s2.tr[t].entry = e /\ s2.tr[t].mode = s.tr[t].mode
          /\ s2.tr[t].resume = s.tr[t].resume
          /\ s2.tr[t].st = IF s.tr[t].mode = "WRITE" THEN "SEND_REQUEST"
                           ELSE "CACHE_READ_RESPONSE"
      BY <2>2, <2>3, <2>4, <2>6, <2>8 DEF write, st
    <3>2. s.entry[e].writer = None /\ ~s.entry[e].will_process
      BY <2>2
    <3>3. Good(s2, L \ {t}, o) /\ (o = e => Good(s2, L \ {t}, None))
      <4>1. JoinsEntry(s, s2, e, t)
        BY <3>1, <3>2, <2>5, <2>6, <2>8 DEF JoinsEntry
      <4> QED
        BY <4>1, JoinEntry
    <3> QED
      BY <3>3, <2>4, <2>6
  <2>9. Got(s, s2.tr[t], e)
    BY <2>2, <2>3, <2>8 DEF Got
  <2>10. \A f \in Ids : Freed(s.entry[f], s2.entry[f])
    BY <2>2, <2>7, HttpCacheAssumption DEF Freed
  <2>11. Told(s, s2, e, t)
    BY <2>5, <2>8, <2>9, <2>10 DEF Told, Live
  <2> QED
    BY <2>1, <2>5, <2>7, <2>11
<1> QED
  BY <1>2, <1>3

-----------------------------------------------------------------------------
(* DoInitEntry() and the answers to a work item. *)

\* CreateEntry() dooms the active entry and asks the disk cache.
LEMMA CreateEntryGood ==
  ASSUME NEW s, NEW L, NEW o, NEW e, NEW t, Good(s, L, o), Asks(s, L, t)
  PROVE  /\ Good(CreateEntry(s, t), L \ {t}, o)
         /\ Told(s, CreateEntry(s, t), e, t)
         /\ Waits(CreateEntry(s, t).tr[t])
<1> DEFINE s1 == DoomActiveEntry(s)
           s2 == Enqueue(s1, "CREATE_ENTRY", t)
<1>1. /\ Good(s1, L, o) /\ s1.tr = s.tr /\ s1.entry = s.entry /\ s1.active = None
      /\ s1.data = s.data /\ Live(s1) = Live(s)
  BY DoomActiveEntryGood
<1>2. Asks(s1, L, t)
  BY <1>1 DEF Asks
<1> HIDE DEF s1
<1>3. Good(s2, L \ {t}, o) /\ Issued(s1, s2, "CREATE_ENTRY", t)
  BY <1>1, <1>2, EnqueueGood DEF WorkItemStates
<1> HIDE DEF s2
<1>4. Waits(s2.tr[t])
  BY <1>2, <1>3 DEF Issued, Waits, Asks, WaitStates, WorkItemStates
<1>5. \A f \in Ids : Freed(s.entry[f], s2.entry[f])
  BY <1>1, <1>3 DEF Issued, Freed
<1>6. Live(s2) = Live(s1)
  BY <1>1, <1>3 DEF Issued, Live
<1>7. Told(s, s2, e, t)
  BY <1>1, <1>3, <1>4, <1>5, <1>6 DEF Issued, Told
<1>8. CreateEntry(s, t) = s2
  BY DEF CreateEntry, s1, s2
<1> QED
  BY <1>3, <1>4, <1>7, <1>8

\* The transaction waits for the disk cache when there is no active entry.
LEMMA EnqueueTold ==
  ASSUME NEW s, NEW L, NEW o, NEW e, NEW t, NEW op, Good(s, L, o), Asks(s, L, t),
         op \in WorkItemStates, s.active = None
  PROVE  /\ Good(Enqueue(s, op, t), L \ {t}, o)
         /\ Told(s, Enqueue(s, op, t), e, t)
         /\ Waits(Enqueue(s, op, t).tr[t])
<1> DEFINE s2 == Enqueue(s, op, t)
<1>1. Good(s2, L \ {t}, o) /\ Issued(s, s2, op, t)
  BY EnqueueGood
<1> HIDE DEF s2
<1>2. Waits(s2.tr[t])
  BY <1>1 DEF Issued, Waits, Asks, WaitStates
<1>3. \A f \in Ids : Freed(s.entry[f], s2.entry[f])
  BY <1>1 DEF Issued, Freed
<1>4. Told(s, s2, e, t)
  BY <1>1, <1>2, <1>3 DEF Issued, Told, Live
<1> QED
  BY <1>1, <1>2, <1>4 DEF s2

\* DoInitEntry(): whatever mode, the transaction joins the active entry, or
\* waits for it or for the disk cache.
LEMMA InitEntryGood ==
  ASSUME NEW s, NEW L, NEW o, NEW t, Good(s, L, o), Asks(s, L, t)
  PROVE  /\ Good(InitEntry(s, t), L \ {t}, o)
         /\ Told(s, InitEntry(s, t), s.active, t)
         /\ s.active = None => Waits(InitEntry(s, t).tr[t])
<1>1. CASE s.tr[t].mode = "WRITE" /\ s.active # None
  <2>1. InitEntry(s, t) = CreateEntry(s, t)
    BY <1>1 DEF InitEntry
  <2> QED
    BY <2>1, <1>1, CreateEntryGood
<1>2. CASE s.tr[t].mode = "WRITE" /\ s.active = None
  <2>1. InitEntry(s, t) = Enqueue(s, "DOOM_ENTRY", t)
    BY <1>2 DEF InitEntry
  <2> QED
    BY <2>1, <1>2, EnqueueTold DEF WorkItemStates
<1>3. CASE s.tr[t].mode # "WRITE" /\ s.active # None
  <2>1. InitEntry(s, t) = AddTransactionToEntry(s, s.active, t)
    BY <1>3 DEF InitEntry
  <2>2. s.active \in Live(s)
    BY <1>3 DEF Live
  <2> QED
    BY <2>1, <2>2, <1>3, AddTransactionToEntryGood
<1>4. CASE s.tr[t].mode # "WRITE" /\ s.active = None
  <2>1. InitEntry(s, t) = Enqueue(s, "OPEN_ENTRY", t)
    BY <1>4 DEF InitEntry
  <2> QED
    BY <2>1, <1>4, EnqueueTold DEF WorkItemStates
<1> QED
  BY <1>1, <1>2, <1>3, <1>4

\* A transaction in limbo that has no entry gives the cache up.
WithoutCache(T) ==
  /\ T \in TransRecords /\ T.entry = None /\ T.st \in {"SEND_REQUEST", "DONE"}
  /\ T.st = "SEND_REQUEST" => T.mode = "NONE"
  /\ T.mode = "READ" \/ T.st = "SEND_REQUEST" => T.resume = FALSE

\* A transaction without an entry may go on without the cache.
LEMMA GiveUp ==
  ASSUME NEW s, NEW L, NEW o, NEW t, NEW T, Good(s, L, o),
         t \in L, t \in Trans, s.tr[t].entry = None, WithoutCache(T)
  PROVE  /\ Good(Put(s, t, T), L \ {t}, o)
         /\ \A e : Told(s, Put(s, t, T), e, t)
         /\ Put(s, t, T).tr[t] = T /\ OnlyTrans(s, Put(s, t, T), t)
<1> USE DEF WithoutCache
<1> DEFINE s2 == Put(s, t, T)
<1>1. SameHold(s.tr[t], T)
  BY DEF SameHold
<1>2. Good(s2, L, o) /\ s2.tr[t] = T /\ OnlyTrans(s, s2, t)
  BY <1>1, Adjust
<1> HIDE DEF s2
<1>3. Role(s2.tr[t]) /\ s2.tr[t].st \notin WaitStates
  BY <1>2 DEF Role, WaitStates, WorkItemStates, UsingStates, NetworkStates,
       FirstStates, ReaderStates
<1>4. Good(s2, L \ {t}, o)
  BY <1>2, <1>3, Land
<1>5. \A f \in Ids : Freed(s.entry[f], s2.entry[f])
  BY <1>2 DEF Freed, OnlyTrans
<1>6. \A e : Told(s, s2, e, t)
  BY <1>2, <1>5 DEF Told, OnlyTrans, Live
<1> QED
  BY <1>2, <1>4, <1>6 DEF s2

\* Falling back to the network without the cache is a way to do so,
LEMMA PassThroughGood ==
  ASSUME NEW s, NEW L, NEW o, NEW t, Good(s, L, o),
         t \in L, t \in Trans, s.tr[t].entry = None, s.tr[t].resume = FALSE
  PROVE  /\ Good(PassThrough(s, t), L \ {t}, o)
         /\ \A e : Told(s, PassThrough(s, t), e, t)
         /\ PassThrough(s, t).tr[t].entry = None
         /\ PassThrough(s, t).tr[t].st = "SEND_REQUEST"
<1> DEFINE T == [s.tr[t] EXCEPT !.mode = "NONE", !.st = "SEND_REQUEST"]
<1>0. s \in StateRecords /\ s.tr \in [Trans -> TransRecords] /\ s.tr[t] \in TransRecords
  BY DEF Good, StateRecords
<1>1. /\ T \in TransRecords /\ T.entry = None /\ T.st = "SEND_REQUEST"
      /\ T.mode = "NONE" /\ T.resume = FALSE
  BY <1>0 DEF TransRecords, States, Modes
<1>2. PassThrough(s, t) = Put(s, t, T)
  BY <1>0 DEF PassThrough, Put, StateRecords, TransRecords
<1> HIDE DEF T
<1>3. WithoutCache(T)
  BY <1>1 DEF WithoutCache
<1> QED
  BY <1>1, <1>2, <1>3, GiveUp

\* A reader never resumes.
MayFinish(T) == T.mode = "READ" => T.resume = FALSE

\* and so is ending the request, with or without an entry.
LEMMA FinishGood ==
  ASSUME NEW s, NEW L, NEW o, NEW t, Good(s, L, o),
         t \in L, t \in Trans, MayFinish(s.tr[t])
  PROVE  /\ Good(Finish(s, t), L \ {t}, o)
         /\ s.tr[t].entry = None => \A e : Told(s, Finish(s, t), e, t)
         /\ Finish(s, t).tr[t].entry = s.tr[t].entry
         /\ Finish(s, t).tr[t].mode = s.tr[t].mode
         /\ Finish(s, t).tr[t].st = "DONE"
         /\ OnlyTrans(s, Finish(s, t), t)
<1> DEFINE T == [s.tr[t] EXCEPT !.st = "DONE"]
           s2 == Finish(s, t)
<1>0. s \in StateRecords /\ s.tr \in [Trans -> TransRecords] /\ s.tr[t] \in TransRecords
  BY DEF Good, StateRecords
<1>1. /\ T \in TransRecords /\ T.entry = s.tr[t].entry /\ T.st = "DONE"
      /\ T.mode = s.tr[t].mode /\ T.resume = s.tr[t].resume
  BY <1>0 DEF TransRecords, States
<1>2. s2 = Put(s, t, T)
  BY <1>0 DEF Finish, Put, StateRecords, TransRecords
<1> HIDE DEF T, s2
<1>3. Good(s2, L, o) /\ s2.tr[t] = T /\ OnlyTrans(s, s2, t)
  BY <1>1, <1>2, Adjust DEF SameHold
<1>4. Role(s2.tr[t]) /\ s2.tr[t].st \notin WaitStates
  BY <1>1, <1>3 DEF MayFinish, Role, WaitStates, WorkItemStates, UsingStates, NetworkStates,
       FirstStates, ReaderStates
<1>5. Good(s2, L \ {t}, o)
  BY <1>3, <1>4, Land
<1>6. ASSUME s.tr[t].entry = None, NEW e PROVE Told(s, s2, e, t)
  <2>1. \A f \in Ids : Freed(s.entry[f], s2.entry[f])
    BY <1>3 DEF Freed, OnlyTrans
  <2> QED
    BY <1>1, <1>3, <1>6, <2>1 DEF Told, OnlyTrans, Live
<1> QED
  BY <1>1, <1>3, <1>5, <1>6 DEF s2

\* While a transaction is in limbo its own changes are nobody's business.
LEMMA ToldAfterPut ==
  ASSUME NEW s, NEW s1, NEW s2, NEW e, NEW t, OnlyTrans(s, s1, t),
         Told(s1, s2, e, t)
  PROVE  Told(s, s2, e, t)
<1>1. Live(s1) = Live(s)
  BY DEF OnlyTrans, Live
<1>2. Got(s1, s2.tr[t], e) => Got(s, s2.tr[t], e)
  BY <1>1 DEF Got, OnlyTrans
<1> QED
  BY <1>1, <1>2 DEF Told, OnlyTrans

\* A failed OpenEntry() goes on with CreateEntry(), the network, or an error.
LEMMA OpenFailedGood ==
  ASSUME NEW s, NEW L, NEW o, NEW e, NEW t, Good(s, L, o), Asks(s, L, t)
  PROVE  Good(OpenFailed(s, t), L \ {t}, o) /\ Told(s, OpenFailed(s, t), e, t)
<1>0. t \in L /\ t \in Trans /\ s.tr[t].entry = None /\ s.tr[t].resume = FALSE
  BY DEF Asks
<1>1. CASE s.tr[t].mode = "READ"
  <2>1. OpenFailed(s, t) = Finish(s, t)
    BY <1>1 DEF OpenFailed, Finish
  <2> QED
    BY <2>1, <1>0, FinishGood DEF MayFinish
<1>2. CASE s.tr[t].mode = "READ_WRITE" /\ s.tr[t].kind \notin {"put", "head"}
  <2> DEFINE T == [s.tr[t] EXCEPT !.mode = "WRITE"]
             s1 == Put(s, t, T)
  <2>1. s \in StateRecords /\ s.tr \in [Trans -> TransRecords] /\ s.tr[t] \in TransRecords
    BY <1>0 DEF Good, StateRecords
  <2>2. T \in TransRecords /\ T.entry = None /\ T.mode = "WRITE" /\ T.resume = FALSE
    BY <2>1, <1>0 DEF TransRecords, Modes
  <2>3. OpenFailed(s, t) = CreateEntry(s1, t)
    <3>1. s1 = [s EXCEPT !.tr[t].mode = "WRITE"]
      BY <2>1 DEF Put, StateRecords, TransRecords
    <3> HIDE DEF s1
    <3> QED
      BY <3>1, <1>2 DEF OpenFailed
  <2> HIDE DEF T
  <2>4. Good(s1, L, o) /\ s1.tr[t] = T /\ OnlyTrans(s, s1, t)
    BY <1>0, <2>2, Adjust DEF SameHold
  <2>5. Asks(s1, L, t)
    BY <1>0, <2>2, <2>4 DEF Asks
  <2> HIDE DEF s1
  <2>6. Good(CreateEntry(s1, t), L \ {t}, o) /\ Told(s1, CreateEntry(s1, t), e, t)
    BY <2>4, <2>5, CreateEntryGood
  <2> QED
    BY <2>3, <2>4, <2>6, ToldAfterPut
<1>3. CASE /\ s.tr[t].mode # "READ"
           /\ ~(s.tr[t].mode = "READ_WRITE" /\ s.tr[t].kind \notin {"put", "head"})
  <2>1. OpenFailed(s, t) = PassThrough(s, t)
    BY <1>3 DEF OpenFailed
  <2> QED
    BY <2>1, <1>0, PassThroughGood
<1> QED
  BY <1>1, <1>2, <1>3

\* WorkItem::NotifyTransaction(). Only who opened or created an entry is told
\* "OK", and then there is an active entry.
LEMMA NotifyGood ==
  ASSUME NEW s, NEW L, NEW o, NEW t, NEW result, Good(s, L, o), Asks(s, L, t),
         result = "OK" /\ s.tr[t].st # "DOOM_ENTRY" => s.active # None
  PROVE  /\ Good(Notify(s, t, result), L \ {t}, o)
         /\ Told(s, Notify(s, t, result), s.active, t)
         /\ result = "OK" /\ s.tr[t].st # "DOOM_ENTRY" /\ o = s.active
              => Good(Notify(s, t, result), L \ {t}, None)
<1>0. t \in L /\ t \in Trans /\ s.tr[t].entry = None /\ t # None /\ s.tr[t].resume = FALSE
  BY HttpCacheAssumption DEF Asks
<1>1. CASE result = "RACE"
  <2>1. Notify(s, t, result) = InitEntry(s, t)
    BY <1>0, <1>1 DEF Notify
  <2> QED
    BY <2>1, <1>1, InitEntryGood
<1>2. CASE result # "RACE" /\ s.tr[t].st = "DOOM_ENTRY"
  <2>1. Notify(s, t, result) = CreateEntry(s, t)
    BY <1>0, <1>2 DEF Notify
  <2> QED
    BY <2>1, <1>2, CreateEntryGood
<1>3. CASE result = "OK" /\ s.tr[t].st # "DOOM_ENTRY"
  <2>1. Notify(s, t, result) = AddTransactionToEntry(s, s.active, t)
    BY <1>0, <1>3 DEF Notify
  <2>2. s.active \in Live(s)
    BY <1>3 DEF Live
  <2> QED
    BY <2>1, <2>2, <1>3, AddTransactionToEntryGood
<1>4. CASE result = "FAILED" /\ s.tr[t].st = "OPEN_ENTRY"
  <2>1. Notify(s, t, result) = OpenFailed(s, t)
    BY <1>0, <1>4 DEF Notify
  <2> QED
    BY <2>1, <1>4, OpenFailedGood
<1>5. CASE /\ result # "RACE" /\ s.tr[t].st # "DOOM_ENTRY" /\ result # "OK"
           /\ ~(result = "FAILED" /\ s.tr[t].st = "OPEN_ENTRY")
  <2>1. Notify(s, t, result) = PassThrough(s, t)
    BY <1>0, <1>5 DEF Notify
  <2>2. /\ Good(PassThrough(s, t), L \ {t}, o)
        /\ Told(s, PassThrough(s, t), s.active, t)
    BY <1>0, PassThroughGood
  <2> QED
    BY <2>1, <2>2, <1>5
<1> QED
  BY <1>1, <1>2, <1>3, <1>4, <1>5

-----------------------------------------------------------------------------
(* What one event does to the lock, seen from the state s0 before it.  The   *)
(* actor a, whose method runs, may give its entry up or turn into a reader;  *)
(* everyone else keeps what it holds, or gets an entry that was free for it  *)
(* in s0: nobody takes over what is released in the same event.              *)

Given(s0, T) ==
  /\ T.entry \in Ids
  /\ s0.entry[T.entry].writer = None
  /\ T.mode # "READ" => s0.entry[T.entry].readers = {}

Moves(s0, T, U) ==
  \/ U.entry = T.entry /\ (T.entry # None => U.mode = T.mode)
  \/ T.entry = None /\ Given(s0, U)

Released(E, F) ==
  F.writer = None /\ ~F.will_process =>
    E.writer = None /\ (F.readers = {} => E.readers = {})

Since(s0, s, a) ==
  /\ \A u \in Trans : u # a => Moves(s0, s0.tr[u], s.tr[u])
  /\ \A f \in Live(s) : Released(s0.entry[f], s.entry[f])

\* What the actor itself may end up with.
Acted(s0, T, U) ==
  \/ U.entry = None
  \/ U.entry = T.entry /\ (T.mode = "READ" => U.mode = "READ")
  \/ T.entry = None /\ Given(s0, U)

\* Nothing that the lock consists of has changed.
SameLock(s, s2) == s2.tr = s.tr /\ s2.entry = s.entry /\ Live(s2) = Live(s)

\* A step that leaves the lock alone may be added to those of the actor.
LEMMA SinceSame ==
  ASSUME NEW s0, NEW s, NEW s2, NEW a, Since(s0, s, a), SameLock(s, s2)
  PROVE  Since(s0, s2, a)
  BY DEF Since, SameLock

\* So may one that changes the actor only.
LEMMA SinceAdjust ==
  ASSUME NEW s0, NEW s, NEW s2, NEW a, Since(s0, s, a), OnlyTrans(s, s2, a)
  PROVE  Since(s0, s2, a)
<1>1. Live(s2) = Live(s)
  BY DEF Live, OnlyTrans
<1> QED
  BY <1>1 DEF Since, OnlyTrans

\* Telling a transaction that has no entry how to go on.
LEMMA SinceTold ==
  ASSUME NEW s0, NEW s, NEW s2, NEW a, NEW e, NEW t,
         s \in StateRecords, Since(s0, s, a), Told(s, s2, e, t),
         t \in Trans, s.tr[t].entry = None
  PROVE  /\ Since(s0, s2, a)
         /\ s0.tr[t].entry = None => Acted(s0, s0.tr[t], s2.tr[t])
<1>1. \A f \in Live(s2) : Released(s0.entry[f], s2.entry[f])
  <2> TAKE f \in Live(s2)
  <2>1. f \in Live(s) /\ f \in Ids
    BY LiveIds DEF Told
  <2> QED
    BY <2>1 DEF Told, Since, Freed, Released
<1>2. Got(s, s2.tr[t], e) => Given(s0, s2.tr[t])
  <2>1. e \in Live(s) => Released(s0.entry[e], s.entry[e]) /\ e \in Ids
    BY LiveIds DEF Since
  <2> QED
    BY <2>1 DEF Got, Given, Released
<1>3. s2.tr[t].entry = None \/ Given(s0, s2.tr[t])
  BY <1>2 DEF Told, Waits
<1>4. t # a => Moves(s0, s0.tr[t], s2.tr[t])
  <2>1. t # a => s0.tr[t].entry = None
    BY HttpCacheAssumption DEF Since, Moves, Given, Ids
  <2> QED
    BY <2>1, <1>3 DEF Moves
<1>5. \A u \in Trans : u # a => Moves(s0, s0.tr[u], s2.tr[u])
  BY <1>4 DEF Told, Since
<1> QED
  BY <1>1, <1>3, <1>5 DEF Since, Acted

-----------------------------------------------------------------------------
(* Giving an entry up. *)

Queued(s, e) ==
  {s.entry[e].pending_queue[i] : i \in DOMAIN s.entry[e].pending_queue}

\* Who waits for an entry that nobody uses may ask again once it is closed.
LEMMA DestroyEntryGood ==
  ASSUME NEW s, NEW L, NEW o, NEW e, Good(s, L, o), e \in Live(s),
         s.entry[e].writer = None, s.entry[e].readers = {}, o \in {e, None}
  PROVE  LET s2 == DestroyEntry(s, e)
         IN /\ Good(s2, L \cup Queued(s, e), None)
            /\ s2.tr = s.tr /\ Live(s2) = Live(s) \ {e}
            /\ s2.active \in {s.active, None}
            /\ \A f \in Ids : f # e => s2.entry[f] = s.entry[f]
            /\ \A u \in Queued(s, e) : Asks(s2, L \cup Queued(s, e), u)
<1> DEFINE s2 == DestroyEntry(s, e)
           Q == Queued(s, e)
           q == s.entry[e].pending_queue
<1>0. /\ s \in StateRecords /\ e \in Ids /\ None \notin Ids /\ None \notin Trans
      /\ s.entry \in [Ids -> EntryRecords] /\ s.entry[e] \in EntryRecords
      /\ q \in Seq(Trans) /\ s.data \in [Ids -> DataRecords]
  BY LiveIds, HttpCacheAssumption DEF Good, Ids, StateRecords, EntryRecords
<1>1. [s.entry EXCEPT ![e] = FreeEntry] \in [Ids -> EntryRecords]
  <2>1. FreeEntry \in EntryRecords
    BY DEF FreeEntry, EntryRecords
  <2> QED
    BY <2>1, <1>0
<1>2. [s.data EXCEPT ![e] = IF s.stored = e THEN @ ELSE NoData] \in [Ids -> DataRecords]
  <2>1. NoData \in DataRecords
    BY DEF NoData, DataRecords, Bodies
  <2> QED
    BY <2>1, <1>0
<1>3. /\ s2 \in StateRecords
      /\ s2.active = (IF s.active = e THEN None ELSE s.active)
      /\ s2.doomed = s.doomed \ {e}
      /\ s2.entry = [s.entry EXCEPT ![e] = FreeEntry]
      /\ s2.backend_op = s.backend_op /\ s2.pending_op = s.pending_op
      /\ s2.stored = s.stored /\ s2.tr = s.tr
  BY <1>0, <1>1, <1>2 DEF DestroyEntry, StateRecords
<1> HIDE DEF s2
<1>4. s2.entry[e] = FreeEntry /\ \A f \in Ids : f # e => s2.entry[f] = s.entry[f]
  BY <1>0, <1>3
<1>5. Live(s2) = Live(s) \ {e}
  BY <1>0, <1>3 DEF Live
<1>6. FreeEntry.writer = None /\ FreeEntry.readers = {} /\ FreeEntry.pending_queue = <<>>
  BY DEF FreeEntry
<1>7. /\ \A u \in Q : u \in Trans /\ u \notin L /\ s.tr[u].st = "ADD_TO_ENTRY"
      /\ \A i \in DOMAIN q : q[i] \in Trans /\ q[i] \in Q
  BY <1>0 DEF Good, LockQueue, Queued
<1>8. \A u \in Q : s.tr[u].entry = None /\ s.tr[u].mode # "NONE" /\ s.tr[u].resume = FALSE
  <2>1. \A u \in Q : Role(s.tr[u])
    BY <1>7 DEF Good, Roles
  <2> QED
    BY <1>7, <2>1 DEF Role, WaitStates, WorkItemStates
<1> HIDE DEF Q
<1>9. Linked(s2) /\ ModesMatch(s2)
  BY <1>0, <1>3, <1>4, <1>6 DEF Good, Linked, ModesMatch
<1>10. Exclusive(s2) /\ OnlyLive(s2) /\ Attended(s2, None)
  <2>1. Exclusive(s2)
    BY <1>4, <1>6 DEF Good, Exclusive
  <2>2. OnlyLive(s2)
    BY <1>4, <1>5 DEF Good, OnlyLive
  <2>3. Attended(s2, None)
    BY <1>0, <1>4, <1>5, LiveIds DEF Good, Attended
  <2> QED
    BY <2>1, <2>2, <2>3
<1>11. OpOrEntry(s2)
  <2>1. s.doomed \subseteq Ids
    BY <1>0 DEF StateRecords
  <2> QED
    BY <2>1, <1>0, <1>3 DEF Good, OpOrEntry
<1>12. BackendQueue(s2, L \cup Q) /\ WorkQueue(s2, L \cup Q)
  <2>1. \A u \in Q : s.tr[u].st # "GET_BACKEND" /\ s.tr[u].st \notin WorkItemStates
    BY <1>7 DEF WorkItemStates
  <2> QED
    BY <2>1, <1>3, <1>7 DEF Good, BackendQueue, WorkQueue
<1>13. LockQueue(s2, L \cup Q)
  <2>1. \A f \in Ids : f # e => s2.entry[f].pending_queue = s.entry[f].pending_queue
    BY <1>4
  <2>2. DOMAIN s2.entry[e].pending_queue = {}
    BY <1>4, <1>6
  <2>3. \A e1, f \in Ids :
          \A i \in DOMAIN s2.entry[e1].pending_queue,
             j \in DOMAIN s2.entry[f].pending_queue :
            s2.entry[e1].pending_queue[i] = s2.entry[f].pending_queue[j]
              => e1 = f /\ i = j
    BY <2>1, <2>2 DEF Good, LockQueue
  <2>4. ASSUME NEW u \in Trans
        PROVE  (\E f \in Ids : \E i \in DOMAIN s2.entry[f].pending_queue :
                  s2.entry[f].pending_queue[i] = u)
               <=> u \notin L \cup Q /\ s2.tr[u].st = "ADD_TO_ENTRY"
    <3>1. (\E f \in Ids : \E i \in DOMAIN s.entry[f].pending_queue :
             s.entry[f].pending_queue[i] = u)
          <=> u \notin L /\ s.tr[u].st = "ADD_TO_ENTRY"
      BY DEF Good, LockQueue
    <3>2. u \in Q <=> \E i \in DOMAIN q : q[i] = u
      BY DEF Q, Queued
    <3>3. (\E f \in Ids : \E i \in DOMAIN s2.entry[f].pending_queue :
             s2.entry[f].pending_queue[i] = u)
          <=> \E f \in Ids \ {e} : \E i \in DOMAIN s.entry[f].pending_queue :
                s.entry[f].pending_queue[i] = u
      BY <2>1, <2>2
    <3>4. \A f \in Ids : \A i \in DOMAIN s.entry[f].pending_queue, j \in DOMAIN q :
            s.entry[f].pending_queue[i] = q[j] => f = e
      BY <1>0 DEF Good, LockQueue
    <3> QED
      BY <3>1, <3>2, <3>3, <3>4, <1>3, <1>0
  <2> QED
    BY <2>3, <2>4 DEF LockQueue
<1>14. Roles(s2, L \cup Q)
  BY <1>3 DEF Good, Roles
<1>15. \A u \in Q : Asks(s2, L \cup Q, u)
  BY <1>3, <1>7, <1>8 DEF Asks
<1> QED
  BY <1>3, <1>4, <1>5, <1>9, <1>10, <1>11, <1>12, <1>13, <1>14, <1>15
  DEF Good, s2, Q

\* Induction over an initial segment of the naturals.
LEMMA UpTo ==
  ASSUME NEW n \in Nat, NEW S, 0 \in S,
         \A k \in 0 .. n : k < n /\ k \in S => k + 1 \in S
  PROVE  \A k \in 0 .. n : k \in S
<1> DEFINE T == {k \in 0 .. n : k \notin S}
           R == {ss \in Nat \X Nat : ss[1] < ss[2]}
<1>1. IsWellFoundedOn(R, Nat)
  BY NatLessThanWellFounded DEF OpToRel
<1> SUFFICES ASSUME T # {} PROVE FALSE
  OBVIOUS
<1>2. T \subseteq Nat
  OBVIOUS
<1>3. PICK x \in T : \A y \in T : ~(<<y, x>> \in R)
  <2> HIDE DEF R, T
  <2> QED
    BY <1>1, <1>2, WFMin
<1>4. x \in Nat /\ x # 0 /\ x <= n /\ x \notin S
  OBVIOUS
<1>5. x - 1 \in 0 .. n /\ x - 1 < n /\ (x - 1) + 1 = x /\ <<x - 1, x>> \in R
  BY <1>4
<1>6. x - 1 \in S
  BY <1>3, <1>5
<1> QED
  BY <1>4, <1>5, <1>6

\* The transactions that waited for the entry of a failed writer, restarted in
\* turn: the function by which FailedWriting() is defined exists.
Restarts(f, s, queue) ==
  f = [n \in 0 .. Len(queue) |->
         IF n = 0 THEN s ELSE InitEntry(f[n - 1], queue[n])]

\* The fold that restarts a queue is a function of the position.
LEMMA RestartsExist ==
  ASSUME NEW s, NEW queue, Len(queue) \in Nat
  PROVE  \E f : Restarts(f, s, queue)
<1> DEFINE Up(f, m) == f = [n \in 0 .. m |->
                              IF n = 0 THEN s ELSE InitEntry(f[n - 1], queue[n])]
           S == {m \in Nat : \E f : Up(f, m)}
<1>1. 0 \in S
  <2>1. Up([n \in 0 .. 0 |-> s], 0)
    OBVIOUS
  <2> HIDE DEF Up
  <2> QED
    BY <2>1
<1>2. ASSUME NEW m \in 0 .. Len(queue), m < Len(queue), m \in S
      PROVE  m + 1 \in S
  <2>1. PICK f : Up(f, m)
    BY <1>2
  <2> DEFINE g == [n \in 0 .. m + 1 |->
                     IF n = m + 1 THEN InitEntry(f[m], queue[m + 1]) ELSE f[n]]
  <2>2. m \in Nat /\ m + 1 \in Nat
    OBVIOUS
  <2>3. \A n \in 0 .. m : f[n] = IF n = 0 THEN s ELSE InitEntry(f[n - 1], queue[n])
    <3> DEFINE F == [n \in 0 .. m |->
                       IF n = 0 THEN s ELSE InitEntry(f[n - 1], queue[n])]
    <3>1. f = F
      BY <2>1
    <3>2. \A n \in 0 .. m : F[n] = IF n = 0 THEN s ELSE InitEntry(f[n - 1], queue[n])
      OBVIOUS
    <3> QED
      BY <3>1, <3>2
  <2>4. \A n \in 0 .. m + 1 :
          g[n] = IF n = 0 THEN s ELSE InitEntry(g[n - 1], queue[n])
    <3> TAKE n \in 0 .. m + 1
    <3>1. CASE n = m + 1
      <4>1. g[n] = InitEntry(f[m], queue[n]) /\ g[n - 1] = f[m] /\ n # 0
        BY <3>1, <2>2
      <4> QED
        BY <4>1
    <3>2. CASE n # m + 1
      <4>1. n \in 0 .. m /\ g[n] = f[n]
        BY <3>2, <2>2
      <4>2. n # 0 => g[n - 1] = f[n - 1]
        BY <3>2, <2>2
      <4> QED
        BY <4>1, <4>2, <2>3
    <3> QED
      BY <3>1, <3>2
  <2>5. g = [n \in 0 .. m + 1 |-> g[n]]
    OBVIOUS
  <2> HIDE DEF g
  <2>6. Up(g, m + 1)
    BY <2>4, <2>5
  <2> HIDE DEF Up
  <2> QED
    BY <2>6, <2>2
<1> HIDE DEF S
<1>3. Len(queue) \in S
  <2>1. \A k \in 0 .. Len(queue) : k \in S
    BY <1>1, <1>2, UpTo
  <2> QED
    BY <2>1
<1> QED
  BY <1>3 DEF S, Restarts

\* The same as Since, but for an entry e that its writer has just given up.
SinceBut(s0, s, a, e) ==
  /\ \A u \in Trans : u # a => Moves(s0, s0.tr[u], s.tr[u])
  /\ \A f \in Live(s) \ {e} : Released(s0.entry[f], s.entry[f])

\* DoneWritingToEntry(entry, false): everyone who waited is told, once, and
\* those whose own methods run are left alone.
LEMMA FailedWritingGood ==
  ASSUME NEW s0, NEW s, NEW L, NEW e, NEW a,
         Good(s, L, e), L \subseteq Trans, e \in Live(s), s.entry[e].writer = None,
         s.entry[e].readers = {}, SinceBut(s0, s, a, e)
  PROVE  LET s2 == FailedWriting(s, e)
         IN /\ Good(s2, L, None) /\ Since(s0, s2, a)
            /\ s2.active \in {s.active, None}
            /\ \A u \in L : s2.tr[u] = s.tr[u]
<1> DEFINE q == s.entry[e].pending_queue
           d == DoomDisk(s, e)
           b == DestroyEntry(d, e)
           F(f) == Restarts(f, b, q)
           f0 == CHOOSE f : F(f)
           Rest(n) == {q[i] : i \in n + 1 .. Len(q)}
           P(n) == /\ Good(f0[n], L \cup Rest(n), None) /\ Since(s0, f0[n], a)
                   /\ f0[n].active \in {s.active, None}
                   /\ \A u \in L \cup Rest(n) : f0[n].tr[u] = s.tr[u]
<1>0. /\ s \in StateRecords /\ e \in Ids /\ s.entry \in [Ids -> EntryRecords]
      /\ q \in Seq(Trans) /\ Len(q) \in Nat /\ DOMAIN q = 1 .. Len(q)
  <2>1. s \in StateRecords
    BY DEF Good
  <2>2. e \in Ids /\ s.entry \in [Ids -> EntryRecords]
    BY <2>1, LiveIds DEF StateRecords
  <2>3. s.entry[e] \in EntryRecords
    BY <2>2
  <2> QED
    BY <2>1, <2>2, <2>3 DEF EntryRecords
<1>1. /\ Good(d, L, e) /\ d.tr = s.tr /\ d.entry = s.entry /\ Live(d) = Live(s)
      /\ Queued(d, e) = Queued(s, e) /\ d.active = s.active
  <2>1. /\ Good(d, L, e) /\ d.tr = s.tr /\ d.entry = s.entry
        /\ d.active = s.active /\ d.doomed = s.doomed
    BY <1>0, DoomDiskGood
  <2> HIDE DEF d
  <2> QED
    BY <2>1 DEF Live, Queued
<1> HIDE DEF d
<1>2. /\ Good(b, L \cup Queued(s, e), None) /\ b.tr = s.tr /\ Live(b) = Live(s) \ {e}
      /\ b.active \in {s.active, None}
      /\ \A f \in Ids : f # e => b.entry[f] = s.entry[f]
      /\ \A u \in Queued(s, e) : Asks(b, L \cup Queued(s, e), u)
  <2>1. e \in Live(d) /\ d.entry[e].writer = None /\ d.entry[e].readers = {}
    BY <1>1
  <2>2. LET s2 == DestroyEntry(d, e)
        IN /\ Good(s2, L \cup Queued(d, e), None)
           /\ s2.tr = d.tr /\ Live(s2) = Live(d) \ {e}
           /\ s2.active \in {d.active, None}
           /\ \A f \in Ids : f # e => s2.entry[f] = d.entry[f]
           /\ \A u \in Queued(d, e) : Asks(s2, L \cup Queued(d, e), u)
    BY <1>1, <2>1, DestroyEntryGood
  <2> QED
    BY <2>2, <1>1
<1>3. Since(s0, b, a)
  <2>1. \A f \in Live(b) : f \in Live(s) \ {e} /\ f \in Ids
    BY <1>0, <1>2, LiveIds
  <2> QED
    BY <2>1, <1>2 DEF Since, SinceBut
<1> HIDE DEF b
<1>4. Restarts(f0, b, q)
  <2>1. \E f : F(f)
    BY <1>0, RestartsExist
  <2> HIDE DEF F
  <2>2. F(f0)
    BY <2>1
  <2> QED
    BY <2>2 DEF F
<1>5. FailedWriting(s, e) = f0[Len(q)]
  BY DEF FailedWriting, Restarts, b, d
<1> HIDE DEF f0
<1>6. f0[0] = b /\ \A k \in 0 .. Len(q) : k < Len(q) => f0[k + 1] = InitEntry(f0[k], q[k + 1])
  <2> DEFINE G == [n \in 0 .. Len(q) |-> IF n = 0 THEN b ELSE InitEntry(f0[n - 1], q[n])]
  <2>1. f0 = G
    BY <1>4 DEF Restarts
  <2>2. G[0] = b
    BY <1>0
  <2>3. ASSUME NEW k \in 0 .. Len(q), k < Len(q)
        PROVE  G[k + 1] = InitEntry(f0[k], q[k + 1])
    <3>1. k + 1 \in 0 .. Len(q) /\ k + 1 # 0 /\ (k + 1) - 1 = k
      BY <1>0, <2>3
    <3> QED
      BY <3>1
  <2> HIDE DEF G
  <2> QED
    BY <2>1, <2>2, <2>3
<1>7. Rest(0) = Queued(s, e) /\ Rest(Len(q)) = {}
  BY <1>0 DEF Queued
<1>8. \A u \in Queued(s, e) : u \notin L /\ u \in Trans
  BY <1>0 DEF Good, LockQueue, Queued
<1> DEFINE S == {n \in 0 .. Len(q) : P(n)}
<1>9. 0 \in S
  <2>1. 0 \in 0 .. Len(q)
    BY <1>0
  <2> HIDE DEF Rest, q
  <2>2. P(0)
    BY <1>2, <1>3, <1>6, <1>7
  <2> QED
    BY <2>1, <2>2
<1>10. ASSUME NEW k \in 0 .. Len(q), k < Len(q), k \in S PROVE k + 1 \in S
  <2> DEFINE u == q[k + 1]
             m == f0[k]
             LK == L \cup Rest(k)
  <2>1. k + 1 \in 1 .. Len(q) /\ k + 1 \in 0 .. Len(q) /\ k + 1 \in k + 1 .. Len(q)
    BY <1>0, <1>10
  <2>2. u \in Rest(k) /\ u \in Queued(s, e) /\ u \in LK
    BY <2>1, <1>0 DEF Queued
  <2>3. Rest(k + 1) = Rest(k) \ {u}
    <3>1. \A i, j \in 1 .. Len(q) : q[i] = q[j] => i = j
      BY <1>0 DEF Good, LockQueue
    <3>2. \A i : i \in k + 1 .. Len(q) <=> i = k + 1 \/ i \in (k + 1) + 1 .. Len(q)
      BY <2>1, <1>0
    <3>3. \A i : i \in (k + 1) + 1 .. Len(q) => i \in 1 .. Len(q) /\ i # k + 1
      BY <2>1, <1>0
    <3> HIDE DEF q
    <3> QED
      BY <2>1, <3>1, <3>2, <3>3
  <2>4. L \cup Rest(k + 1) = LK \ {u}
    BY <2>2, <2>3, <1>8
  <2>5. /\ Good(m, LK, None) /\ Since(s0, m, a) /\ \A v \in LK : m.tr[v] = s.tr[v]
        /\ m.active \in {s.active, None}
    BY <1>10
  <2>12. LK \subseteq Trans
    <3>1. Rest(k) \subseteq Queued(s, e)
      BY <2>1, <1>0 DEF Queued
    <3> HIDE DEF Rest
    <3> QED
      BY <3>1, <1>8
  <2> HIDE DEF P, Rest, m, q, LK
  <2>6. Asks(m, LK, u)
    BY <2>2, <2>5, <1>2 DEF Asks
  <2>7. f0[k + 1] = InitEntry(m, u)
    BY <1>6, <1>10 DEF m
  <2> HIDE DEF u
  <2>8. /\ Good(InitEntry(m, u), LK \ {u}, None)
        /\ Told(m, InitEntry(m, u), m.active, u)
    BY <2>5, <2>6, InitEntryGood
  <2>9. Since(s0, InitEntry(m, u), a)
    BY <2>5, <2>6, <2>8, SinceTold DEF Asks, Good
  <2>10. \A v \in LK \ {u} : InitEntry(m, u).tr[v] = s.tr[v]
    <3>1. ASSUME NEW v \in LK \ {u} PROVE InitEntry(m, u).tr[v] = s.tr[v]
      <4>1. v \in Trans
        BY <3>1, <2>12
      <4>2. InitEntry(m, u).tr[v] = m.tr[v]
        BY <4>1, <3>1, <2>8 DEF Told
      <4> QED
        BY <4>2, <2>5
    <3> QED
      BY <3>1
  <2>11. P(k + 1)
    <3>1. InitEntry(m, u).active \in {s.active, None}
      BY <2>5, <2>8 DEF Told
    <3> QED
      BY <3>1, <2>4, <2>7, <2>8, <2>9, <2>10 DEF P
  <2> QED
    BY <2>1, <2>11
<1> HIDE DEF P, Rest
<1>11. Len(q) \in S
  <2> HIDE DEF S
  <2>1. \A k \in 0 .. Len(q) : k \in S
    BY <1>0, <1>9, <1>10, UpTo
  <2> QED
    BY <2>1, <1>0
<1> QED
  BY <1>5, <1>7, <1>11 DEF P

\* One transaction and the entry that it uses change together.
Move(s, t, T, e, N) == [s EXCEPT !.tr[t] = T, !.entry[e] = N]

Moved(s, s2, t, T, e, N) ==
  /\ s2 \in StateRecords
  /\ s2.tr[t] = T /\ \A u \in Trans : u # t => s2.tr[u] = s.tr[u]
  /\ s2.entry[e] = N /\ \A f \in Ids : f # e => s2.entry[f] = s.entry[f]
  /\ s2.disk_cache = s.disk_cache /\ s2.backend_op = s.backend_op
  /\ s2.active = s.active /\ s2.doomed = s.doomed
  /\ s2.pending_op = s.pending_op /\ s2.stored = s.stored /\ s2.data = s.data

\* What Move() changes, field by field.
LEMMA MoveFields ==
  ASSUME NEW s, NEW t, NEW T, NEW e, NEW N, s \in StateRecords, t \in Trans,
         T \in TransRecords, e \in Ids, N \in EntryRecords
  PROVE  Moved(s, Move(s, t, T, e, N), t, T, e, N)
<1> DEFINE s2 == Move(s, t, T, e, N)
<1>1. /\ [s.tr EXCEPT ![t] = T] \in [Trans -> TransRecords]
      /\ [s.entry EXCEPT ![e] = N] \in [Ids -> EntryRecords]
  BY DEF StateRecords
<1>2. /\ s2 \in StateRecords
      /\ s2.tr = [s.tr EXCEPT ![t] = T] /\ s2.entry = [s.entry EXCEPT ![e] = N]
      /\ s2.disk_cache = s.disk_cache /\ s2.backend_op = s.backend_op
      /\ s2.active = s.active /\ s2.doomed = s.doomed
      /\ s2.pending_op = s.pending_op /\ s2.stored = s.stored /\ s2.data = s.data
  BY <1>1 DEF StateRecords, Move
<1> HIDE DEF s2
<1>3. /\ s2.tr[t] = T /\ \A u \in Trans : u # t => s2.tr[u] = s.tr[u]
      /\ s2.entry[e] = N /\ \A f \in Ids : f # e => s2.entry[f] = s.entry[f]
  BY <1>2 DEF StateRecords
<1> QED
  BY <1>2, <1>3 DEF Moved, s2

\* What a changed pair must satisfy to be as good as before but for the lock.
LEMMA MovedQueues ==
  ASSUME NEW s, NEW s2, NEW L, NEW o, NEW t, NEW T, NEW e, NEW N, Good(s, L, o),
         t \in L, t \in Trans, e \in Ids, Moved(s, s2, t, T, e, N),
         N.pending_queue = s.entry[e].pending_queue
  PROVE  /\ OpOrEntry(s2) /\ Live(s2) = Live(s)
         /\ BackendQueue(s2, L) /\ WorkQueue(s2, L) /\ LockQueue(s2, L)
         /\ Roles(s2, L)
<1> USE DEF Moved
<1>1. Live(s2) = Live(s) /\ OpOrEntry(s2)
  BY DEF Good, Live, OpOrEntry
<1>2. BackendQueue(s2, L)
  BY DEF Good, BackendQueue
<1>3. WorkQueue(s2, L)
  <2>1. \A i \in DOMAIN s.pending_op :
          s.pending_op[i].trans # t /\ s.pending_op[i].trans \in Trans \cup {None}
    <3>1. \A i \in DOMAIN s.pending_op : s.pending_op[i] \in WorkItems
      BY DEF Good, StateRecords
    <3> QED
      BY <3>1 DEF Good, WorkQueue, WorkItems
  <2>2. \A i \in DOMAIN s.pending_op : s.pending_op[i].trans # None =>
          s2.tr[s.pending_op[i].trans] = s.tr[s.pending_op[i].trans]
    BY <2>1
  <2> QED
    BY <2>2 DEF Good, WorkQueue
<1>4. LockQueue(s2, L)
  <2>1. \A f \in Ids : s2.entry[f].pending_queue = s.entry[f].pending_queue
    OBVIOUS
  <2> QED
    BY <2>1 DEF Good, LockQueue
<1>5. Roles(s2, L)
  BY DEF Good, Roles
<1> QED
  BY <1>1, <1>2, <1>3, <1>4, <1>5

\* A transaction leaves the entry that it uses.
LEMMA LeaveEntry ==
  ASSUME NEW s0, NEW s, NEW s2, NEW L, NEW t, NEW T, NEW e, NEW N,
         Good(s, L, None), t \in L, t \in Trans, e \in Ids, s.tr[t].entry = e,
         Since(s0, s, t), Moved(s, s2, t, T, e, N),
         T.entry = None, N.writer = None, N.readers = s.entry[e].readers \ {t},
         N.pending_queue = s.entry[e].pending_queue
  PROVE  /\ e \in Live(s2)
         /\ Good(s2, L, e) /\ SinceBut(s0, s2, t, e)
         /\ N.will_process => Good(s2, L, None) /\ Since(s0, s2, t)
<1>0. None \notin Ids /\ None \notin Trans /\ s \in StateRecords
  BY HttpCacheAssumption DEF Good, Ids
<1>1. /\ OpOrEntry(s2) /\ Live(s2) = Live(s)
      /\ BackendQueue(s2, L) /\ WorkQueue(s2, L) /\ LockQueue(s2, L)
      /\ Roles(s2, L)
  BY MovedQueues
<1> USE DEF Moved
<1>2. /\ \A u \in Trans : s.tr[u].entry = e <=> u \in s.entry[e].readers \/ u = s.entry[e].writer
      /\ s.entry[e].writer # None => s.entry[e].readers = {}
      /\ s.entry[e].writer \in Trans \cup {None}
      /\ s.entry[e].readers \subseteq Trans
  BY <1>0 DEF Good, Linked, Exclusive, StateRecords, EntryRecords
<1>3. Linked(s2)
  <2>1. ASSUME NEW f \in Ids, NEW u \in Trans
        PROVE  s2.tr[u].entry = f <=> u \in s2.entry[f].readers \/ u = s2.entry[f].writer
    <3>1. CASE f = e
      BY <3>1, <1>0, <1>2
    <3>2. CASE f # e
      BY <3>2, <1>0 DEF Good, Linked
    <3> QED
      BY <3>1, <3>2
  <2> QED
    BY <2>1 DEF Linked
<1>4. ModesMatch(s2)
  <2>1. ASSUME NEW f \in Ids, NEW u \in Trans
        PROVE  /\ u \in s2.entry[f].readers => s2.tr[u].mode = "READ"
               /\ u = s2.entry[f].writer => s2.tr[u].mode # "READ"
    <3>1. CASE f = e
      BY <3>1, <1>0, <1>2 DEF Good, ModesMatch
    <3>2. CASE f # e
      BY <3>2, <1>0 DEF Good, ModesMatch, Linked
    <3> QED
      BY <3>1, <3>2
  <2> QED
    BY <2>1 DEF ModesMatch
<1>5. Exclusive(s2)
  BY DEF Good, Exclusive
<1>6. e \in Live(s)
  BY <1>0, <1>2 DEF Good, OnlyLive, FreeEntry
<1>7. OnlyLive(s2) /\ Attended(s2, e) /\ (N.will_process => Attended(s2, None))
  BY <1>1, <1>6, <1>0, LiveIds DEF Good, OnlyLive, Attended
<1>8. SinceBut(s0, s2, t, e) /\ (N.will_process => Since(s0, s2, t))
  <2>1. \A u \in Trans : u # t => Moves(s0, s0.tr[u], s2.tr[u])
    BY DEF Since
  <2>2. \A f \in Live(s2) \ {e} : Released(s0.entry[f], s2.entry[f])
    BY <1>0, <1>1, LiveIds DEF Since
  <2>3. N.will_process => Released(s0.entry[e], s2.entry[e])
    BY DEF Released
  <2> QED
    BY <2>1, <2>2, <2>3 DEF Since, SinceBut
<1> QED
  BY <1>1, <1>3, <1>4, <1>5, <1>6, <1>7, <1>8 DEF Good

\* A writer turns into a reader: ConvertWriterToReader().
LEMMA Downgrade ==
  ASSUME NEW s0, NEW s, NEW s2, NEW L, NEW t, NEW T, NEW e, NEW N,
         Good(s, L, None), t \in L, t \in Trans, e \in Ids,
         s.entry[e].writer = t, Since(s0, s, t), Moved(s, s2, t, T, e, N),
         T.entry = e, T.mode = "READ", N.writer = None, N.readers = {t},
         N.pending_queue = s.entry[e].pending_queue, N.will_process
  PROVE  Good(s2, L, None) /\ Since(s0, s2, t)
<1>0. None \notin Ids /\ None \notin Trans /\ s \in StateRecords
  BY HttpCacheAssumption DEF Good, Ids
<1>1. /\ OpOrEntry(s2) /\ Live(s2) = Live(s)
      /\ BackendQueue(s2, L) /\ WorkQueue(s2, L) /\ LockQueue(s2, L)
      /\ Roles(s2, L)
  BY MovedQueues
<1> USE DEF Moved
<1>2. \A u \in Trans : s.tr[u].entry = e <=> u = t
  BY <1>0 DEF Good, Linked, Exclusive
<1>3. Linked(s2)
  <2>1. ASSUME NEW f \in Ids, NEW u \in Trans
        PROVE  s2.tr[u].entry = f <=> u \in s2.entry[f].readers \/ u = s2.entry[f].writer
    <3>1. CASE f = e
      BY <3>1, <1>0, <1>2
    <3>2. CASE f # e
      BY <3>2, <1>0, <1>2 DEF Good, Linked
    <3> QED
      BY <3>1, <3>2
  <2> QED
    BY <2>1 DEF Linked
<1>4. ModesMatch(s2)
  <2>1. ASSUME NEW f \in Ids, NEW u \in Trans
        PROVE  /\ u \in s2.entry[f].readers => s2.tr[u].mode = "READ"
               /\ u = s2.entry[f].writer => s2.tr[u].mode # "READ"
    <3>1. CASE f = e
      BY <3>1, <1>0
    <3>2. CASE f # e
      BY <3>2, <1>0, <1>2 DEF Good, ModesMatch, Linked
    <3> QED
      BY <3>1, <3>2
  <2> QED
    BY <2>1 DEF ModesMatch
<1>5. Exclusive(s2)
  BY DEF Good, Exclusive
<1>6. OnlyLive(s2) /\ Attended(s2, None)
  <2>1. e \in Live(s)
    BY <1>0 DEF Good, OnlyLive, FreeEntry
  <2> QED
    BY <2>1, <1>1, <1>0, LiveIds DEF Good, OnlyLive, Attended
<1>7. Since(s0, s2, t)
  <2>1. \A u \in Trans : u # t => Moves(s0, s0.tr[u], s2.tr[u])
    BY DEF Since
  <2>2. \A f \in Live(s2) \ {e} : Released(s0.entry[f], s2.entry[f])
    BY <1>0, <1>1, LiveIds DEF Since
  <2>3. Released(s0.entry[e], s2.entry[e])
    BY DEF Released
  <2> QED
    BY <2>1, <2>2, <2>3 DEF Since
<1> QED
  BY <1>1, <1>3, <1>4, <1>5, <1>6, <1>7 DEF Good

\* How a transaction uses its entry can be told from its mode.
Uses(s, e, t) ==
  /\ e \in Ids /\ s.entry[e] \in EntryRecords /\ s.tr[t] \in TransRecords
  /\ e \in Live(s) /\ s.tr[t].entry = e
  /\ s.tr[t].mode # "READ" => /\ s.entry[e].writer = t
                              /\ s.entry[e].readers = {}
                              /\ ~s.entry[e].will_process
  /\ s.tr[t].mode = "READ" => /\ s.entry[e].writer = None
                              /\ t \in s.entry[e].readers

\* A transaction that has an entry uses it in this way.
LEMMA UsesEntry ==
  ASSUME NEW s, NEW L, NEW o, NEW t, Good(s, L, o), t \in Trans, s.tr[t].entry # None
  PROVE  Uses(s, s.tr[t].entry, t)
<1> DEFINE e == s.tr[t].entry
<1>1. s \in StateRecords /\ s.tr \in [Trans -> TransRecords] /\ s.tr[t] \in TransRecords
  BY DEF Good, StateRecords
<1>2. e \in Ids
  BY <1>1 DEF TransRecords
<1>3. s.entry[e] \in EntryRecords /\ None \notin Trans
  BY <1>1, <1>2, HttpCacheAssumption DEF StateRecords
<1>4. t \in s.entry[e].readers \/ t = s.entry[e].writer
  BY <1>2 DEF Good, Linked
<1>5. e \in Live(s)
  BY <1>2, <1>3, <1>4 DEF Good, OnlyLive, FreeEntry
<1>6. /\ t \in s.entry[e].readers => s.tr[t].mode = "READ"
      /\ t = s.entry[e].writer => s.tr[t].mode # "READ"
  BY <1>2 DEF Good, ModesMatch
<1>7. s.entry[e].writer # None => s.entry[e].readers = {} /\ ~s.entry[e].will_process
  BY <1>2 DEF Good, Exclusive
<1> HIDE DEF e
<1> QED
  BY <1>1, <1>2, <1>3, <1>4, <1>5, <1>6, <1>7 DEF e, Uses

\* ProcessPendingQueue() after a change.
LEMMA MovePosted ==
  ASSUME NEW s, NEW t, NEW T, NEW e, NEW N, s \in StateRecords, t \in Trans,
         T \in TransRecords, e \in Ids, N \in EntryRecords
  PROVE  ProcessPendingQueue(Move(s, t, T, e, N), e) =
           Move(s, t, T, e, [N EXCEPT !.will_process = TRUE])
  BY DEF Move, ProcessPendingQueue, StateRecords

\* A writer is done, or there was nothing to be done with.
LEMMA DoneWritingToEntryGood ==
  ASSUME NEW s0, NEW s, NEW L, NEW t, NEW success, success \in BOOLEAN,
         Good(s, L, None), L \subseteq Trans, t \in L, Since(s0, s, t),
         s.tr[t].entry # None => s.tr[t].mode # "READ"
  PROVE  LET s2 == DoneWritingToEntry(s, t, success)
         IN /\ Good(s2, L, None) /\ Since(s0, s2, t)
            /\ s2.tr[t].entry = None /\ s2.active \in {s.active, None}
            /\ s.tr[t].entry # None => s2.tr[t].mode = "NONE"
            /\ s.tr[t].entry = None => s2 = s
<1>1. CASE s.tr[t].entry = None
  <2>1. DoneWritingToEntry(s, t, success) = s
    BY <1>1 DEF DoneWritingToEntry
  <2> QED
    BY <2>1, <1>1
<1>2. CASE s.tr[t].entry # None
  <2> DEFINE e == s.tr[t].entry
             T == [s.tr[t] EXCEPT !.entry = None, !.mode = "NONE"]
             N == [s.entry[e] EXCEPT !.writer = None]
             P == [N EXCEPT !.will_process = TRUE]
             s1 == [s EXCEPT !.tr[t].entry = None, !.tr[t].mode = "NONE",
                             !.entry[e].writer = None]
             m == Move(s, t, T, e, N)
             p == Move(s, t, T, e, P)
  <2>0. t \in Trans /\ s.tr[t].mode # "READ"
    BY <1>2
  <2>1. /\ s \in StateRecords /\ e \in Ids
        /\ s.entry[e] \in EntryRecords /\ s.tr[t] \in TransRecords
        /\ s.entry[e].writer = t /\ s.entry[e].readers = {}
        /\ s.tr \in [Trans -> TransRecords] /\ s.entry \in [Ids -> EntryRecords]
    <3>1. s \in StateRecords
      BY DEF Good
    <3>2. s.tr \in [Trans -> TransRecords] /\ s.entry \in [Ids -> EntryRecords]
      BY <3>1 DEF StateRecords
    <3>3. Uses(s, e, t)
      BY <1>2, <2>0, UsesEntry
    <3> QED
      BY <3>1, <3>2, <3>3, <2>0 DEF Uses
  <2>2. T \in TransRecords /\ T.entry = None /\ T.mode = "NONE"
    BY <2>1 DEF TransRecords, Modes
  <2>3. /\ N \in EntryRecords /\ N.writer = None /\ N.readers = s.entry[e].readers \ {t}
        /\ N.pending_queue = s.entry[e].pending_queue
    BY <2>1 DEF EntryRecords
  <2>4. s1 = m
    <3>1. [s.tr EXCEPT ![t].entry = None, ![t].mode = "NONE"] = [s.tr EXCEPT ![t] = T]
      BY <2>1 DEF TransRecords
    <3> QED
      BY <2>0, <2>1, <3>1 DEF Move, StateRecords, TransRecords
  <2>5. DoneWritingToEntry(s, t, success) =
          IF success THEN ProcessPendingQueue(s1, e) ELSE FailedWriting(s1, e)
    BY <1>2 DEF DoneWritingToEntry
  <2>6. s.tr[t].entry = e
    OBVIOUS
  <2> HIDE DEF T, N, s1, e
  <2>7. /\ P \in EntryRecords /\ P.writer = None /\ P.readers = s.entry[e].readers \ {t}
        /\ P.pending_queue = s.entry[e].pending_queue /\ P.will_process
    BY <2>3 DEF EntryRecords
  <2>8. ProcessPendingQueue(s1, e) = p
    BY <2>0, <2>1, <2>2, <2>3, <2>4, MovePosted
  <2> HIDE DEF P
  <2>9. Moved(s, m, t, T, e, N) /\ Moved(s, p, t, T, e, P)
    BY <2>0, <2>1, <2>2, <2>3, <2>7, MoveFields
  <2> HIDE DEF m, p
  <2>10. CASE success
    <3>1. DoneWritingToEntry(s, t, success) = p
      BY <2>5, <2>8, <2>10
    <3>2. Good(p, L, None) /\ Since(s0, p, t)
      BY <2>0, <2>1, <2>2, <2>6, <2>7, <2>9, LeaveEntry
    <3> QED
      BY <3>1, <3>2, <2>2, <2>9, <1>2 DEF Moved
  <2>11. CASE ~success
    <3> DEFINE w == FailedWriting(m, e)
    <3>1. DoneWritingToEntry(s, t, success) = w
      BY <2>4, <2>5, <2>11
    <3>2. Good(m, L, e) /\ e \in Live(m) /\ SinceBut(s0, m, t, e)
      <4>1. Moved(s, m, t, T, e, N)
        BY <2>9
      <4> HIDE DEF w
      <4> QED
        BY <4>1, <2>0, <2>1, <2>2, <2>3, <2>6, LeaveEntry
    <3>3. /\ m.entry[e].writer = None /\ m.entry[e].readers = {}
          /\ m.tr[t].entry = None /\ m.tr[t].mode = "NONE" /\ m.active = s.active
      BY <2>1, <2>2, <2>3, <2>9 DEF Moved
    <3>4. /\ Good(w, L, None) /\ Since(s0, w, t) /\ \A u \in L : w.tr[u] = m.tr[u]
          /\ w.active \in {m.active, None}
      <4>1. m.entry[e].writer = None /\ m.entry[e].readers = {}
        BY <3>3
      <4> QED
        BY <4>1, <3>2, FailedWritingGood
    <3> HIDE DEF w
    <3> QED
      BY <3>1, <3>3, <3>4, <1>2
  <2> QED
    BY <2>10, <2>11
<1> QED
  BY <1>1, <1>2

\* A reader is done.
LEMMA DoneReadingFromEntryGood ==
  ASSUME NEW s0, NEW s, NEW L, NEW t,
         Good(s, L, None), L \subseteq Trans, t \in L, Since(s0, s, t),
         s.tr[t].entry # None, s.tr[t].mode = "READ"
  PROVE  LET s2 == DoneReadingFromEntry(s, t)
         IN /\ Good(s2, L, None) /\ Since(s0, s2, t)
            /\ s2.tr[t].entry = None /\ s2.active = s.active
<1> DEFINE e == s.tr[t].entry
           T == [s.tr[t] EXCEPT !.entry = None]
           N == [s.entry[e] EXCEPT !.readers = @ \ {t}]
           P == [N EXCEPT !.will_process = TRUE]
           s1 == [s EXCEPT !.tr[t].entry = None, !.entry[e].readers = @ \ {t}]
           p == Move(s, t, T, e, P)
<1>1. /\ s \in StateRecords /\ t \in Trans /\ e \in Ids
      /\ s.entry[e] \in EntryRecords /\ s.tr[t] \in TransRecords
      /\ s.entry[e].writer = None
  <2>1. s \in StateRecords /\ t \in Trans
    BY DEF Good
  <2>2. Uses(s, e, t)
    BY <2>1, UsesEntry
  <2> QED
    BY <2>1, <2>2 DEF Uses
<1>2. T \in TransRecords /\ T.entry = None
  BY <1>1 DEF TransRecords
<1>3. /\ N \in EntryRecords /\ N.writer = None
      /\ N.readers = s.entry[e].readers \ {t}
      /\ N.pending_queue = s.entry[e].pending_queue
  BY <1>1 DEF EntryRecords
<1>4. s1 = Move(s, t, T, e, N)
  BY <1>1 DEF Move, StateRecords
<1>5. DoneReadingFromEntry(s, t) = ProcessPendingQueue(s1, e)
  BY DEF DoneReadingFromEntry
<1>6. s.tr[t].entry = e
  OBVIOUS
<1> HIDE DEF T, N, e, s1
<1>7. /\ P \in EntryRecords /\ P.writer = None /\ P.readers = s.entry[e].readers \ {t}
      /\ P.pending_queue = s.entry[e].pending_queue /\ P.will_process
  BY <1>3 DEF EntryRecords
<1>8. DoneReadingFromEntry(s, t) = p
  BY <1>1, <1>2, <1>3, <1>4, <1>5, MovePosted
<1> HIDE DEF P
<1>9. Moved(s, p, t, T, e, P)
  BY <1>1, <1>2, <1>7, MoveFields
<1> HIDE DEF p
<1>10. Good(p, L, None) /\ Since(s0, p, t)
  BY <1>1, <1>2, <1>6, <1>7, <1>9, LeaveEntry
<1> QED
  BY <1>2, <1>8, <1>9, <1>10 DEF Moved

\* The response turned out to be usable as it is stored.
LEMMA ConvertWriterToReaderGood ==
  ASSUME NEW s0, NEW s, NEW L, NEW t,
         Good(s, L, None), L \subseteq Trans, t \in L, Since(s0, s, t),
         s.tr[t].entry # None, s.tr[t].mode # "READ"
  PROVE  LET s2 == ConvertWriterToReader(s, t)
         IN /\ Good(s2, L, None) /\ Since(s0, s2, t)
            /\ s2.tr[t].entry = s.tr[t].entry /\ s2.tr[t].mode = "READ"
<1> DEFINE e == s.tr[t].entry
           T == [s.tr[t] EXCEPT !.mode = "READ"]
           N == [s.entry[e] EXCEPT !.writer = None, !.readers = @ \cup {t}]
           P == [N EXCEPT !.will_process = TRUE]
           s1 == [s EXCEPT !.tr[t].mode = "READ", !.entry[e].writer = None,
                           !.entry[e].readers = @ \cup {t}]
           p == Move(s, t, T, e, P)
<1>1. /\ s \in StateRecords /\ t \in Trans /\ e \in Ids
      /\ s.entry[e] \in EntryRecords /\ s.tr[t] \in TransRecords
      /\ s.entry[e].writer = t /\ s.entry[e].readers = {}
  <2>1. s \in StateRecords /\ t \in Trans
    BY DEF Good
  <2>2. Uses(s, e, t)
    BY <2>1, UsesEntry
  <2> QED
    BY <2>1, <2>2 DEF Uses
<1>2. T \in TransRecords /\ T.entry = e /\ T.mode = "READ"
  BY <1>1 DEF TransRecords, Modes
<1>3. /\ N \in EntryRecords /\ N.writer = None /\ N.readers = {t}
      /\ N.pending_queue = s.entry[e].pending_queue
  BY <1>1 DEF EntryRecords
<1>4. s1 = Move(s, t, T, e, N)
  BY <1>1 DEF Move, StateRecords, EntryRecords
<1>5. ConvertWriterToReader(s, t) = ProcessPendingQueue(s1, e)
  BY DEF ConvertWriterToReader
<1> HIDE DEF T, N, e, s1
<1>6. /\ P \in EntryRecords /\ P.writer = None /\ P.readers = {t}
      /\ P.pending_queue = s.entry[e].pending_queue /\ P.will_process
  BY <1>3 DEF EntryRecords
<1>7. ConvertWriterToReader(s, t) = p
  BY <1>1, <1>2, <1>3, <1>4, <1>5, MovePosted
<1> HIDE DEF P
<1>8. Moved(s, p, t, T, e, P)
  BY <1>1, <1>2, <1>6, MoveFields
<1> HIDE DEF p
<1>9. Good(p, L, None) /\ Since(s0, p, t)
  BY <1>1, <1>2, <1>6, <1>8, Downgrade
<1> QED
  BY <1>2, <1>7, <1>8, <1>9 DEF Moved, e

\* A transaction gives its entry up, whatever it did with it.
LEMMA DoneWithEntryGood ==
  ASSUME NEW s0, NEW s, NEW L, NEW t, NEW cancel, NEW flag,
         Good(s, L, None), L \subseteq Trans, t \in L, Since(s0, s, t),
         s.tr[t].entry # None, cancel \in BOOLEAN, flag \in FlagResults
  PROVE  LET s2 == DoneWithEntry(s, t, cancel, flag)
         IN /\ Good(s2, L, None) /\ Since(s0, s2, t)
            /\ s2.tr[t].entry = None /\ s2.active \in {s.active, None}
<1> DEFINE e == s.tr[t].entry
           E == s.entry[e]
           keep == cancel /\ flag \in {"stored", "lost"}
                          /\ s.data[e].body \in {"part", "full", "truncated"}
           d == [s.data EXCEPT ![e] = Truncate(@, flag)]
           s1 == IF keep THEN Store(s, d) ELSE s
<1>1. Uses(s, e, t) /\ s \in StateRecords /\ s.data \in [Ids -> DataRecords] /\ t \in Trans
  BY UsesEntry DEF Good, StateRecords
<1>2. CASE s.tr[t].mode # "READ"
  <2>1. ~(E.will_process /\ E.readers = {}) /\ E.writer # None /\ e \in Ids
    BY <1>1, <1>2, HttpCacheAssumption DEF Uses
  <2>2. DoneWithEntry(s, t, cancel, flag) = DoneWritingToEntry(s1, t, keep)
    BY <2>1, <1>1 DEF DoneWithEntry, Store, StateRecords
  <2>3. d \in [Ids -> DataRecords]
    BY <2>1, <1>1 DEF DataRecords, Bodies, Truncate
  <2> HIDE DEF d, E
  <2>4. Good(s1, L, None) /\ SameLock(s, s1) /\ s1.active = s.active
    <3>1. CASE keep
      <4>1. /\ Good(Store(s, d), L, None)
            /\ Store(s, d).tr = s.tr /\ Store(s, d).entry = s.entry
            /\ Store(s, d).active = s.active /\ Store(s, d).doomed = s.doomed
        BY <2>3, DataChange
      <4> QED
        BY <4>1, <3>1 DEF SameLock, Live
    <3>2. CASE ~keep
      BY <3>2 DEF SameLock
    <3> QED
      BY <3>1, <3>2
  <2>5. keep \in BOOLEAN
    OBVIOUS
  <2> HIDE DEF s1, keep
  <2>6. Since(s0, s1, t) /\ s1.tr[t].mode # "READ" /\ s1.tr[t].entry # None
    BY <2>4, <1>2, SinceSame DEF SameLock
  <2>7. LET s2 == DoneWritingToEntry(s1, t, keep)
        IN /\ Good(s2, L, None) /\ Since(s0, s2, t)
           /\ s2.tr[t].entry = None /\ s2.active \in {s1.active, None}
    BY <2>4, <2>5, <2>6, DoneWritingToEntryGood
  <2> QED
    BY <2>2, <2>4, <2>7
<1>3. CASE s.tr[t].mode = "READ"
  <2>1. ~(E.will_process /\ E.readers = {}) /\ E.writer = None
    BY <1>1, <1>3 DEF Uses
  <2>2. DoneWithEntry(s, t, cancel, flag) = DoneReadingFromEntry(s, t)
    BY <2>1 DEF DoneWithEntry
  <2> QED
    BY <2>2, <1>3, DoneReadingFromEntryGood
<1> QED
  BY <1>2, <1>3

-----------------------------------------------------------------------------
(* What a transaction does next. *)

\* DoGetBackendComplete(): the transaction starts (again), without an entry.
LEMMA GetBackendCompleteGood ==
  ASSUME NEW s, NEW L, NEW t, Good(s, L, None), t \in L, t \in Trans,
         s.tr[t].entry = None
  PROVE  LET s2 == GetBackendComplete(s, t)
         IN /\ Good(s2, L \ {t}, None) /\ Told(s, s2, s.active, t)
            /\ s.active = None => s2.tr[t].entry = None
<1> DEFINE mode == IF s.disk_cache = "up" THEN ModeOf(s.tr[t].kind) ELSE "NONE"
           T == [Idle EXCEPT !.kind = s.tr[t].kind, !.mode = mode]
           s1 == Put(s, t, T)
<1>1. s \in StateRecords /\ s.tr \in [Trans -> TransRecords] /\ s.tr[t] \in TransRecords
  BY DEF Good, StateRecords
<1>2. mode \in Modes
  BY DEF Modes, ModeOf
<1> HIDE DEF mode
<1>3. T \in TransRecords /\ T.entry = None /\ T.mode = mode /\ T.st = "IDLE"
      /\ T.resume = FALSE
  BY <1>1, <1>2 DEF TransRecords, Idle, States
<1>4. GetBackendComplete(s, t) =
        CASE mode # "NONE" -> InitEntry(s1, t)
          [] mode = "NONE" /\ s.tr[t].kind = "only" -> Finish(s1, t)
          [] OTHER -> PassThrough(s1, t)
  BY DEF GetBackendComplete, Put, Finish, mode
<1> HIDE DEF T
<1>5. Good(s1, L, None) /\ s1.tr[t] = T /\ OnlyTrans(s, s1, t)
  BY <1>3, Adjust DEF SameHold
<1> HIDE DEF s1
<1>6. s1.active = s.active /\ s1.tr[t].entry = None /\ s1.tr[t].mode = mode
      /\ s1.tr[t].resume = FALSE
  BY <1>3, <1>5 DEF OnlyTrans
<1>7. CASE mode # "NONE"
  <2>1. GetBackendComplete(s, t) = InitEntry(s1, t)
    BY <1>4, <1>7
  <2>2. Asks(s1, L, t)
    BY <1>6, <1>7 DEF Asks
  <2>3. /\ Good(InitEntry(s1, t), L \ {t}, None)
        /\ Told(s1, InitEntry(s1, t), s1.active, t)
        /\ s1.active = None => Waits(InitEntry(s1, t).tr[t])
    BY <2>2, <1>5, InitEntryGood
  <2>4. Told(s, InitEntry(s1, t), s.active, t)
    BY <2>3, <1>5, <1>6, ToldAfterPut
  <2> QED
    BY <2>1, <2>3, <2>4, <1>6 DEF Waits
<1>8. CASE mode = "NONE" /\ s.tr[t].kind = "only"
  <2>1. GetBackendComplete(s, t) = Finish(s1, t)
    BY <1>4, <1>8
  <2>2. /\ Good(Finish(s1, t), L \ {t}, None)
        /\ Told(s1, Finish(s1, t), s.active, t)
        /\ Finish(s1, t).tr[t].entry = None
    <3>1. MayFinish(s1.tr[t])
      BY <1>6 DEF MayFinish
    <3>2. s1.tr[t].entry = None
      BY <1>6
    <3>3. Good(s1, L, None)
      BY <1>5
    <3>4. /\ Good(Finish(s1, t), L \ {t}, None)
          /\ s1.tr[t].entry = None => Told(s1, Finish(s1, t), s.active, t)
          /\ Finish(s1, t).tr[t].entry = s1.tr[t].entry
      BY <3>1, <3>3, FinishGood
    <3> QED
      BY <3>2, <3>4
  <2>3. Told(s, Finish(s1, t), s.active, t)
    BY <2>2, <1>5, ToldAfterPut
  <2> QED
    BY <2>1, <2>2, <2>3
<1>9. CASE mode = "NONE" /\ s.tr[t].kind # "only"
  <2>1. GetBackendComplete(s, t) = PassThrough(s1, t)
    BY <1>4, <1>9
  <2>2. /\ Good(PassThrough(s1, t), L \ {t}, None)
        /\ Told(s1, PassThrough(s1, t), s.active, t)
        /\ PassThrough(s1, t).tr[t].entry = None
    BY <1>5, <1>6, PassThroughGood
  <2>3. Told(s, PassThrough(s1, t), s.active, t)
    BY <2>2, <1>5, ToldAfterPut
  <2> QED
    BY <2>1, <2>2, <2>3
<1> QED
  BY <1>7, <1>8, <1>9
=============================================================================
