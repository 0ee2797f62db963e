-------------------------- MODULE BlockfileBackend --------------------------
(***************************************************************************)
(* The blockfile disk cache: BackendImpl, EntryImpl and Eviction           *)
(* (disk_cache/blockfile), for the entries of one bucket of the hash table *)
(* and the eviction algorithm with four lists.                             *)
(*                                                                         *)
(* An entry is a record (EntryStore) and a rankings node. It is reached    *)
(* through the chain of its bucket and through one of the lists. All of it *)
(* is in mapped files and survives a crash of the process as far as it was *)
(* stored. A node that is in use carries the id of the session in its      *)
(* dirty field; one that carries another id was not closed properly, and   *)
(* whoever meets it destroys the entry.                                    *)
(*                                                                         *)
(* Everything runs on the cache thread; only a crash can come between two  *)
(* stores. An operation is a sequence of steps in `todo', each of them one *)
(* store that matters, and a step may put further steps in front. Insert() *)
(* and Remove() of the lists are single steps: that a crash leaves them    *)
(* done or not done is what module Rankings is about (for the one that     *)
(* does not, its finding). A Remove() that is told the wrong list may      *)
(* leave a list whose head and tail point to a node that is not in it;     *)
(* what the code does with such a list, until it notices and starts with   *)
(* an empty cache, is not followed.                                        *)
(***************************************************************************)
EXTENDS Integers, FiniteSets, SequencesExt

CONSTANTS
  Keys,        \* keys that fall into the bucket
  MaxBlocks,   \* bound: entries that the block files can hold
  HighUse,     \* kHighUse: the reuse count of the HIGH_USE list
  MaxId,       \* bound: sessions, each but the last ended by a crash
  MaxRefs,     \* bound: references that the callers hold
  Faults,      \* which of the hazards below may happen
  None

ASSUME BackendAssumption ==
  /\ None \notin Keys
  /\ {MaxBlocks, MaxId, MaxRefs} \subseteq Nat \ {0}
  /\ HighUse \in Nat /\ HighUse > 1
  /\ Faults \subseteq {"trim_in_close", "flush_overwritten"}

VARIABLES
  table,      \* data_->table[bucket]
  rec,        \* the stored EntryStore of each block
  dirty,      \* the dirty field of each rankings node
  lru,        \* the lists
  dangling,   \* lists whose head and tail point to a node that is not in them
  allocated,  \* blocks that the block files have given out
  this_id,    \* header.this_id
  open,       \* the EntryImpl objects, with their copies of the record
  todo,       \* what the running operation still has to do
  lost        \* history: entries some of whose data could not be saved

vars == <<table, rec, dirty, lru, dangling, allocated, this_id, open, todo,
          lost>>

Blocks == 1 .. MaxBlocks
Lists == {"NO_USE", "LOW_USE", "HIGH_USE", "DELETED"}
\* The lists that enumeration and eviction go through.
Searched == Lists \ {"DELETED"}
FreeRecord == [key |-> None, next |-> None, state |-> "NORMAL", reuse |-> 0]

State == [table |-> table, rec |-> rec, dirty |-> dirty, lru |-> lru,
          dangling |-> dangling, allocated |-> allocated, id |-> this_id,
          open |-> open, todo |-> todo, lost |-> lost]

Become(s) ==
  /\ table' = s.table
  /\ rec' = s.rec
  /\ dirty' = s.dirty
  /\ lru' = s.lru
  /\ dangling' = s.dangling
  /\ allocated' = s.allocated
  /\ this_id' = s.id
  /\ open' = s.open
  /\ todo' = s.todo
  /\ lost' = s.lost

\* The files as they are created.
EmptyCache == [table |-> None, rec |-> [b \in Blocks |-> FreeRecord],
               dirty |-> [b \in Blocks |-> 0], lru |-> [l \in Lists |-> <<>>],
               dangling |-> {}, allocated |-> {}, id |-> 1,
               open |-> [b \in Blocks |-> None], todo |-> <<>>, lost |-> {}]

Do(s, steps) == [s EXCEPT !.todo = steps \o @]

\* Eviction::GetListForEntryV2().
ListFor(r) ==
  CASE r.reuse = 0 -> "NO_USE"
    [] r.reuse > 0 /\ r.reuse < HighUse -> "LOW_USE"
    [] OTHER -> "HIGH_USE"

-----------------------------------------------------------------------------
(* References to entries. *)

\* NewEntry(): the object that is open, or a new one, which is `bad' (dirty_)
\* if the entry was not properly closed.
NewEntry(s, b) ==
  [s EXCEPT !.open[b] =
     IF @ # None THEN [@ EXCEPT !.refs = @ + 1]
     ELSE [refs |-> 1, doomed |-> FALSE, modified |-> FALSE, rec |-> s.rec[b],
           bad |-> s.dirty[b] \notin {0, s.id}]]

\* Mutant: an entry that is looked at is not marked.
UpdateNever(s, b) == s

\* EntryImpl::Update().
Update(s, b) == [s EXCEPT !.dirty[b] = IF @ = 0 THEN s.id ELSE @]

\* Mutant: the id before that of the first session is the id that means clean.
FinalDirtyZero(s, b, flush) ==
  CASE flush = "failed" -> s.id - 1
    [] flush # "failed" /\ s.open[b].bad -> s.dirty[b]
    [] OTHER -> 0

\* The dirty field that ~EntryImpl() leaves. An entry whose data could not be
\* saved looks like one of an earlier session.
FinalDirty(s, b, flush) ==
  CASE flush = "failed" -> IF s.id = 1 THEN -1 ELSE s.id - 1
    [] flush # "failed" /\ s.open[b].bad -> s.dirty[b]
    [] OTHER -> 0

Trimming(s) == \E i \in DOMAIN s.todo : s.todo[i][1] = "trimmed"

\* The call of TrimCache() in OnEntryDestroyEnd(): it depends on sizes and on
\* the load whether it evicts now, later or not at all.
MayTrim(s) ==
  {<<>>} \cup
  IF Trimming(s) THEN {}
  ELSE {<<<<"trim", l>>, <<"trimmed">>>> : l \in {k \in Searched : s.lru[k] # <<>>}}

\* Dropping a reference, and ~EntryImpl() with the last one: a doomed entry is
\* deleted (DeleteEntryData(true)), any other gets its final dirty flag. Only
\* after the body of the destructor, with the call to TrimCache() at its end,
\* does the member entry_ store a record that was set_modified().
Release(s, b, flush) ==
  LET E == s.open[b]
      s1 == [s EXCEPT !.open[b] = None]
  IN IF E.refs > 1 THEN {[s EXCEPT !.open[b].refs = @ - 1]}
     ELSE {IF E.doomed
           THEN Do(s1, <<<<"remove", b, "DELETED">>, <<"free", b>>>> \o t)
           ELSE Do([s1 EXCEPT !.dirty[b] = FinalDirty(s, b, flush),
                              !.lost = @ \cup {c \in {b} : flush # "saved"}],
                   t \o IF E.modified THEN <<<<"lazy_store", b, E.rec>>>>
                        ELSE <<>>)
             : t \in IF E.modified /\ "trim_in_close" \notin Faults THEN {<<>>}
                     ELSE MayTrim(s)}

ReleaseIf(b) == IF b = None THEN <<>> ELSE <<<<"release", b>>>>

-----------------------------------------------------------------------------
(* The lists, as the rankings leave them. *)

In(s, b, l) == \E i \in DOMAIN s.lru[l] : s.lru[l][i] = b

\* Rankings::Remove(). The list is the caller's guess: CheckLinks() corrects it
\* for the head or the tail of another list, and a node in the middle needs no
\* list; but the only node of another list looks like a regular one, and that
\* list keeps pointing to it.
RemoveFromList(s, b, l) ==
  LET alone == {k \in Lists \ {l} : s.lru[k] = <<b>>}
  IN [s EXCEPT !.lru = [k \in Lists |-> Remove(@[k], b)],
               !.dangling = @ \cup alone]

\* RevertRemove() of such a call, when the process ends within it: the list that
\* was named, if it is empty, is made to point to the node.
RevertRemove(s, b, l) ==
  LET regular == \E k \in Lists \ {l} :
                   In(s, b, k) /\ (Len(s.lru[k]) = 1 \/ b \notin {Head(s.lru[k]), Last(s.lru[k])})
  IN IF regular /\ s.lru[l] = <<>> THEN [s EXCEPT !.dangling = @ \cup {l}] ELSE s

\* Rankings::Insert().
InsertIntoList(s, b, l) == [s EXCEPT !.lru[l] = <<b>> \o @]

\* Rankings::UpdateRank() of Eviction::UpdateRankV2(): the head stays.
UpdateRank(s, b) ==
  LET l == ListFor(s.open[b].rec)
  IN IF s.lru[l] # <<>> /\ Head(s.lru[l]) = b THEN s
     ELSE Do(s, <<<<"remove", b, l>>, <<"insert", b, l>>>>)

\* Mutant: the record is left for the destructor to store.
OnOpenEntryLazy(s, b) ==
  LET count == s.open[b].rec.reuse + 1
      Move(from, to) == <<<<"remove", b, from>>, <<"insert", b, to>>>>
  IN Do([s EXCEPT !.open[b].rec.reuse = IF count > HighUse THEN HighUse
                                        ELSE count,
                    !.open[b].modified = TRUE],
        CASE count = 1 -> Move("NO_USE", "LOW_USE")
          [] count = HighUse -> Move("LOW_USE", "HIGH_USE")
          [] OTHER -> <<>>)

\* OnOpenEntryV2(): counts the use, and moves the entry when it reaches another
\* list; only then is the record stored at once.
OnOpenEntry(s, b) ==
  LET count == s.open[b].rec.reuse + 1
      Move(from, to) ==
        <<<<"remove", b, from>>, <<"insert", b, to>>, <<"store", b>>>>
  IN Do([s EXCEPT !.open[b].rec.reuse = IF count > HighUse THEN HighUse
                                        ELSE count,
                    !.open[b].modified = TRUE],
        CASE count = 1 -> Move("NO_USE", "LOW_USE")
          [] count = HighUse -> Move("LOW_USE", "HIGH_USE")
          [] OTHER -> <<>>)

\* OnCreateEntryV2() of an evicted entry. "refetched" says that its
\* refetch_count exceeds kHighUse.
Resurrect(s, b, refetched) ==
  LET r == s.open[b].rec
      count == IF refetched \/ r.reuse = HighUse THEN HighUse ELSE r.reuse + 1
      now == [r EXCEPT !.state = "NORMAL", !.reuse = count]
  IN Do([s EXCEPT !.open[b].rec = now],
        <<<<"store", b>>, <<"remove", b, "DELETED">>,
          <<"insert", b, ListFor(now)>>>>)

\* Mutant: the entry is removed from the list of unused entries.
OnDoomEntryNoUse(s, b) ==
  IF s.open[b].rec.state # "NORMAL" THEN s
  ELSE Do([s EXCEPT !.open[b].rec.state = "DOOMED"],
          <<<<"remove", b, "NO_USE">>, <<"store", b>>, <<"insert", b, "DELETED">>>>)

\* OnDoomEntryV2().
OnDoomEntry(s, b) ==
  LET r == s.open[b].rec
  IN IF r.state # "NORMAL" THEN s
     ELSE Do([s EXCEPT !.open[b].rec.state = "DOOMED"],
             <<<<"remove", b, ListFor(r)>>, <<"store", b>>,
               <<"insert", b, "DELETED">>>>)

\* The part of EvictEntry() that follows GetEnumeratedEntry().
EvictEntry(s, b) ==
  Do([s EXCEPT !.open[b].rec.state = "EVICTED"],
     <<<<"remove", b, ListFor(s.open[b].rec)>>, <<"store", b>>,
       <<"insert", b, "DELETED">>, <<"release", b>>>>)

-----------------------------------------------------------------------------
(* The bucket. *)

\* entry_.Store(), which writes the whole record.
Store(s, b) ==
  [s EXCEPT !.rec[b] = s.open[b].rec, !.open[b].modified = FALSE]

\* Mutant: the next address of the parent is not stored.
SetNextNotStored(s, parent, b) ==
  IF parent = None THEN [s EXCEPT !.table = b]
  ELSE [s EXCEPT !.open[parent].rec.next = b]

\* SetNextAddress() of the parent, or the slot of the table.
SetNext(s, parent, b) ==
  IF parent = None THEN [s EXCEPT !.table = b]
  ELSE Store([s EXCEPT !.open[parent].rec.next = b], parent)

\* OnDoomEntry() and InternalDoom().
Doom(s, b) ==
  IF s.open[b].doomed THEN s
  ELSE OnDoomEntry([Update(s, b) EXCEPT !.open[b].doomed = TRUE], b)

\* Mutant: the entry is taken out of the bucket and forgotten.
DestroyInvalidEntryForgets(s, b) == [s EXCEPT !.dirty[b] = s.id]

\* DestroyInvalidEntry().
DestroyInvalidEntry(s, b) == Doom([s EXCEPT !.dirty[b] = s.id], b)

\* InternalDoomEntry(), up to its search for the parent.
InternalDoomEntry(s, b) ==
  Do(s, <<<<"match", s.open[b].rec.key, None, <<"unlink", b>>>>>>)

\* DoomImpl().
DoomImpl(s, b) ==
  IF s.open[b].doomed THEN s
  ELSE InternalDoomEntry([s EXCEPT !.dirty[b] = s.id], b)

\* The end of the chain was reached: what the caller of MatchEntry() does.
NotFound(s, key, parent, why) ==
  Do(s,
     CASE why[1] = "create" ->
            ReleaseIf(parent) \o <<<<"match", key, None, <<"parent">>>>>>
       [] why[1] = "parent" -> <<<<"new", key, parent>>>>
       [] why[1] = "unlink" -> ReleaseIf(parent) \o <<<<"doom_entry", why[2]>>>>
       [] OTHER -> ReleaseIf(parent))

\* The entry of the key is b. InternalDoomEntry() takes it out of the chain, if
\* it is the entry that it has to doom.
Found(s, b, parent, why) ==
  Do(s,
     CASE why = <<"unlink", b>> ->
            <<<<"release", b>>, <<"doom_entry", b>>, <<"unlink", parent, b>>>> \o
            ReleaseIf(parent)
       [] why[1] = "unlink" /\ why[2] # b ->
            ReleaseIf(parent) \o <<<<"release", b>>, <<"doom_entry", why[2]>>>>
       [] why[1] = "parent" -> ReleaseIf(parent) \o <<<<"release", b>>>>
       [] OTHER -> ReleaseIf(parent) \o <<<<"found", b, why>>>>)

\* One round of the loop of MatchEntry(), at the entry that follows the parent.
\* An entry that cannot be loaded ends the chain; NewEntry() has by then dropped
\* the object it made, whose destructor may trim. One that cannot be trusted is
\* unlinked and destroyed, and in both cases the search starts again.
MatchEntry(s, key, parent, why) ==
  LET b == IF parent = None THEN s.table ELSE s.open[parent].rec.next
      s1 == NewEntry(s, b)
      again == <<<<"match", key, None, why>>>>
  IN CASE b = None -> {NotFound(s, key, parent, why)}
       [] b # None /\ b \notin s.allocated ->
            {Do(s, t \o <<<<"link", parent, None>>>> \o ReleaseIf(parent) \o again)
               : t \in MayTrim(s)}
       [] b \in s.allocated /\ s1.open[b].bad ->
            {Do(SetNext(s1, parent, s1.open[b].rec.next),
                ReleaseIf(parent) \o <<<<"invalid", b>>, <<"release", b>>>> \o again)}
       [] b \in s.allocated /\ ~s1.open[b].bad /\ s1.open[b].rec.key = key ->
            {Found(Update(s1, b), b, parent, why)}
       [] OTHER ->
            {Do(Update(s1, b), ReleaseIf(parent) \o <<<<"match", key, b, why>>>>)}

\* What the callers of MatchEntry() do with the entry: OpenEntryImpl(),
\* SyncDoomEntry(), ResurrectEntry(), SyncOnExternalCacheHit().
UseFound(s, b, why) ==
  LET normal == s.open[b].rec.state = "NORMAL"
      release == <<<<"release", b>>>>
  IN CASE why[1] = "open" /\ normal -> OnOpenEntry(s, b)
       [] why[1] = "doom_key" /\ normal ->
            OnOpenEntry(Do(s, <<<<"doom", b>>>> \o release), b)
       [] why[1] = "create" /\ ~normal -> Resurrect(s, b, why[2])
       [] why[1] = "hit" /\ normal -> UpdateRank(Do(s, release), b)
       [] OTHER -> Do(s, release)

\* CreateEntryImpl() once the parent is known. The block files give out the
\* first block that is free.
NewBlock(s, key, parent) ==
  LET free == Blocks \ s.allocated
      b == Min(free)
      r == [FreeRecord EXCEPT !.key = key]
  IN IF free = {} THEN Do(s, ReleaseIf(parent))
     ELSE Do([s EXCEPT !.allocated = @ \cup {b}, !.rec[b] = r, !.dirty[b] = s.id,
                       !.open[b] = [refs |-> 1, doomed |-> FALSE, rec |-> r,
                                    modified |-> FALSE, bad |-> FALSE]],
             <<<<"link", parent, b>>, <<"insert", b, "NO_USE">>>> \o
             ReleaseIf(parent))

\* The blocks of the entry and of its node go back, filled with zeros.
Free(s, b) ==
  [s EXCEPT !.allocated = @ \ {b}, !.rec[b] = FreeRecord, !.dirty[b] = 0,
            !.lost = @ \ {b}]

\* GetEnumeratedEntry() and what OpenNextEntryImpl(), EvictEntry() and
\* RemoveDeletedNode() do with the entry. A node that was freed leads to none.
Enumerated(s, b, why) ==
  LET s1 == NewEntry(s, b)
      s2 == Update(s1, b)
      release == <<<<"release", b>>>>
  IN CASE b \notin s.allocated -> s
       [] b \in s.allocated /\ s1.open[b].bad -> InternalDoomEntry(Do(s1, release), b)
       [] b \in s.allocated /\ ~s1.open[b].bad /\ why = "next" -> s2
       [] b \in s.allocated /\ ~s1.open[b].bad /\ why = "evict" -> EvictEntry(s2, b)
       [] OTHER -> Do([s2 EXCEPT !.open[b].rec.state = "DOOMED"],
                      <<<<"doom", b>>>> \o release)

\* Mutant: entries in use are evicted too.
TrimInUse(s, l) ==
  {s} \cup
  IF s.lru[l] = <<>> THEN {}
  ELSE {Do(s, <<<<"enum", Last(s.lru[l]), "evict">>, <<"trim", l>>>>)}

\* The loop of TrimCacheV2() over one list, from its tail: an entry that carries
\* the id of the session is in use. It goes on for as long as the cache is too
\* large and time permits.
Trim(s, l) ==
  LET unused == {i \in DOMAIN s.lru[l] : s.dirty[s.lru[l][i]] # s.id}
  IN {s} \cup
     IF unused = {} THEN {}
     ELSE {Do(s, <<<<"enum", s.lru[l][Max(unused)], "evict">>, <<"trim", l>>>>)}

\* The loop of TrimDeleted() at the node `next' (b), for as long as time permits.
\* It steps on to the previous node before it removes this one; what that does
\* may free the node it has stepped on to.
TrimDeletedFrom(s, b) ==
  LET list == s.lru["DELETED"]
      next == {list[i - 1] : i \in {j \in DOMAIN list : j > 1 /\ list[j] = b}}
  IN {s, Do(s, <<<<"enum", b, "deleted">>>> \o
               SetToSeq({<<"trim_deleted", c>> : c \in next}))}

-----------------------------------------------------------------------------
(* Steps *)

Perform(s, step) ==
  CASE step[1] = "match" -> MatchEntry(s, step[2], step[3], step[4])
    [] step[1] = "found" -> {UseFound(s, step[2], step[3])}
    [] step[1] = "new" -> {NewBlock(s, step[2], step[3])}
    [] step[1] = "link" -> {SetNext(s, step[2], step[3])}
    [] step[1] = "unlink" -> {SetNext(s, step[2], s.open[step[3]].rec.next)}
    [] step[1] = "invalid" -> {DestroyInvalidEntry(s, step[2])}
    [] step[1] = "doom" -> {DoomImpl(s, step[2])}
    [] step[1] = "doom_entry" -> {Doom(s, step[2])}
    [] step[1] = "enum" -> {Enumerated(s, step[2], step[3])}
    [] step[1] = "remove" -> {RemoveFromList(s, step[2], step[3])}
    [] step[1] = "insert" -> {InsertIntoList(s, step[2], step[3])}
    [] step[1] = "store" -> {Store(s, step[2])}
    [] step[1] = "lazy_store" -> {[s EXCEPT !.rec[step[2]] = step[3]]}
    [] step[1] = "release" -> Release(s, step[2], "saved")
    [] step[1] = "close" -> Release(s, step[2], step[3])
    [] step[1] = "free" -> {Free(s, step[2])}
    [] step[1] = "trim" -> Trim(s, step[2])
    [] step[1] = "trimmed" -> {s}
    [] step[1] = "trim_deleted" -> TrimDeletedFrom(s, step[2])

Step ==
  /\ todo # <<>> /\ dangling = {}
  /\ \E s \in Perform([State EXCEPT !.todo = Tail(@)], Head(todo)) : Become(s)

-----------------------------------------------------------------------------
(* What the callers of the cache do, one operation at a time. *)

Operation(steps) == todo = <<>> /\ dangling = {} /\ Become(Do(State, steps))

\* Bound: the callers do not take more references.
MayRefer ==
  MapThenSumSet(LAMBDA b : IF open[b] = None THEN 0 ELSE open[b].refs, Blocks)
    < MaxRefs

Lookup(key, why) == MayRefer /\ Operation(<<<<"match", key, None, why>>>>)

Open(key) == Lookup(key, <<"open">>)

Create(key, refetched) == Lookup(key, <<"create", refetched>>)

DoomKey(key) == Lookup(key, <<"doom_key">>)

ExternalHit(key) == Lookup(key, <<"hit">>)

\* OpenNextEntryImpl(), for each of the entries it may get.
OpenNextEntry(b) ==
  /\ \E l \in Searched : In(State, b, l)
  /\ MayRefer
  /\ Operation(<<<<"enum", b, "next">>>>)

\* EntryImpl::DoomImpl() of an open entry.
DoomEntry(b) ==
  /\ open[b] # None /\ ~open[b].doomed
  /\ Operation(<<<<"doom", b>>>>)

\* Reading or writing data: EntryImpl::UpdateRank().
Access(b) ==
  /\ open[b] # None /\ ~open[b].doomed
  /\ todo = <<>> /\ dangling = {}
  /\ Become(UpdateRank(State, b))

\* How saving the buffered data of an entry ends. The loop of ~EntryImpl() over
\* the streams keeps the result of the last one only, so that the failure of an
\* earlier one may be overwritten.
Flushes ==
  {"saved", "failed"} \cup
  IF "flush_overwritten" \in Faults THEN {"overwritten"} ELSE {}

\* Close().
Close(b, flush) ==
  /\ open[b] # None
  /\ Operation(<<<<"close", b, flush>>>>)

\* The posted tasks: TrimCache() and TrimDeleted().
TrimCache(l) ==
  /\ lru[l] # <<>>
  /\ Operation(<<<<"trim", l>>, <<"trimmed">>>>)

TrimDeleted ==
  /\ lru["DELETED"] # <<>>
  /\ Operation(<<<<"trim_deleted", Last(lru["DELETED"])>>>>)

-----------------------------------------------------------------------------
(* The end of a session. *)

\* RecoveredEntry(), for an insertion that the next session completes.
RecoveredEntry(s, b) == IF s.table = None THEN [s EXCEPT !.table = b] ELSE s

\* The next session, SyncInit(): memory is gone and header.this_id goes up. If a
\* list operation had begun (or not, for the steps are not told apart), an
\* insertion is finished and a removal reverted.
Restarted(s) ==
  LET s1 == [s EXCEPT !.id = @ + 1, !.open = [b \in Blocks |-> None], !.todo = <<>>]
      step == Head(s.todo)
  IN {s1} \cup
     CASE s.todo # <<>> /\ step[1] = "insert" ->
            {RecoveredEntry(InsertIntoList(s1, step[2], step[3]), step[2])}
       [] s.todo # <<>> /\ step[1] = "remove" ->
            {RevertRemove(s1, step[2], step[3])}
       [] OTHER -> {}

\* The process ends, by a crash or because it was told to: entries that are open
\* are abandoned in either case.
Crash ==
  /\ this_id < MaxId /\ dangling = {}
  /\ \E s \in Restarted(State) : Become(s)

\* CriticalError(), once a list that points to a node of no list or of another one
\* has been noticed, and RestartCache(): the files are deleted and made anew.
RestartCache == dangling # {} /\ Become(EmptyCache)

-----------------------------------------------------------------------------
(* Specification *)

Init ==
  /\ table = EmptyCache.table
  /\ rec = EmptyCache.rec
  /\ dirty = EmptyCache.dirty
  /\ lru = EmptyCache.lru
  /\ dangling = EmptyCache.dangling
  /\ allocated = EmptyCache.allocated
  /\ this_id = EmptyCache.id
  /\ open = EmptyCache.open
  /\ todo = EmptyCache.todo
  /\ lost = EmptyCache.lost

Next ==
  \/ Step
  \/ \E key \in Keys :
       \/ Open(key)
       \/ \E refetched \in BOOLEAN : Create(key, refetched)
       \/ DoomKey(key)
       \/ ExternalHit(key)
  \/ \E b \in Blocks :
       \/ OpenNextEntry(b)
       \/ DoomEntry(b)
       \/ Access(b)
       \/ \E flush \in Flushes : Close(b, flush)
  \/ \E l \in Searched : TrimCache(l)
  \/ TrimDeleted
  \/ Crash
  \/ RestartCache

Spec == Init /\ [][Next]_vars

-----------------------------------------------------------------------------
(* Properties *)

\* The chain of the bucket as it is stored: the n-th block of it.
Chain ==
  LET At[n \in 0 .. MaxBlocks] ==
        IF n = 0 THEN table
        ELSE IF At[n - 1] = None THEN None ELSE rec[At[n - 1]].next
  IN At

InChain(b) == \E n \in 0 .. MaxBlocks : Chain[n] = b

\* The list in which the stored record puts an entry.
Place(r) == IF r.state = "NORMAL" THEN ListFor(r) ELSE "DELETED"

\* The entry is in another list than its record says.
Misplaced(b) == \E l \in Lists : In(State, b, l) /\ Place(rec[b]) # l

\* Every variable has its type.
TypeOK ==
  /\ table \in Blocks \cup {None}
  /\ \A b \in Blocks :
       /\ rec[b].key \in Keys \cup {None}
       /\ rec[b].next \in Blocks \cup {None}
       /\ rec[b].state \in {"NORMAL", "EVICTED", "DOOMED"}
       /\ rec[b].reuse \in 0 .. HighUse
       /\ dirty[b] \in -1 .. MaxId
       /\ open[b] # None => open[b].refs \in Nat \ {0}
  /\ \A l \in Lists : lru[l] \in Seq(Blocks)
  /\ dangling \subseteq Lists
  /\ allocated \subseteq Blocks
  /\ this_id \in 1 .. MaxId
  /\ lost \subseteq allocated

\* At every moment, thus also after a crash at that moment, an entry that is
\* marked clean is complete: a look-up finds it, and it is in the list that its
\* record names and in no other. What a crash costs is the entries in use.
CleanFindable ==
  \A b \in allocated : dirty[b] = 0 =>
    /\ InChain(b)
    /\ rec[b].state \in {"NORMAL", "EVICTED"}
    /\ {l \in Lists : In(State, b, l)} = {Place(rec[b])}

\* The chain of the bucket ends, so that MatchEntry() never has to break a loop,
\* and the successor of an entry that can be trusted is an entry. (That of an
\* untrusted one, which RecoveredEntry() brought back, may be gone.)
ChainSound ==
  /\ Chain[MaxBlocks] = None
  /\ \A b \in allocated :
       InChain(b) /\ dirty[b] \in {0, this_id} =>
         rec[b].next \in allocated \cup {None}

\* An entry that has lost data is not trusted again, in this session or in a
\* later one; for the failure of any stream but the last, see Flushes.
CleanIsWhole == \A b \in lost : dirty[b] # 0

\* Between operations an entry that can be trusted is in the list that its record
\* names, so that whoever removes it next calls Remove() with the right list. One
\* that carries the id of an earlier session may be elsewhere: a crash came
\* between its move and the store of its record (eviction.cc:417-425, 446-448).
ListsSound ==
  /\ TypeOK
  /\ todo = <<>> => \A b \in allocated : Misplaced(b) => dirty[b] \notin {0, this_id}

\* The head and the tail of a list are left pointing to a node that is not in it
\* only when such an entry, which an earlier session has left in a wrong list, is
\* removed to be destroyed; never by what happens within one session.
HeadsLostByTornMove ==
  [][\A l \in dangling' \ dangling :
       \E b \in Blocks : /\ todo[1][1] = "remove" /\ todo[1][2] = b
                         /\ Misplaced(b) /\ open[b] # None /\ open[b].bad]_vars

\* Removing an entry never leaves the head and the tail of a list behind.
ListsKeepHeads == dangling = {}

\* What a caller holds and has not doomed is the real entry of its key, however
\* it was found: it is marked as in use, in its list and in the chain, and no
\* other entry that a look-up would return has its key. A comment in
\* GetEnumeratedEntry() (backend_impl.cc:1751-1757) calls it possible, and a bug,
\* that a clean entry was lost from the index and replaced: crashes between the
\* stores modelled here do not bring that about.
HandlesReal ==
  todo = <<>> =>
    \A b \in Blocks : open[b] # None /\ ~open[b].doomed =>
      /\ open[b].rec.state = "NORMAL"
      /\ dirty[b] = this_id
      /\ In(State, b, ListFor(open[b].rec))
      /\ InChain(b)
      /\ \A c \in allocated \ {b} :
           InChain(c) /\ dirty[c] \in {0, this_id} => rec[c].key # rec[b].key

\* Blocks that nothing leads to any more.
Leaked ==
  {b \in allocated :
     /\ ~InChain(b) /\ open[b] = None
     /\ \A l \in Lists : ~In(State, b, l)
     /\ \A i \in DOMAIN todo : todo[i] # <<"free", b>>}

\* Only the end of a session leaves such blocks behind: destroying an entry that
\* a crash has left half linked always gets hold of all of it.
LeaksOnlyByCrash == [][this_id' = this_id => Leaked' \subseteq Leaked]_vars
=============================================================================
