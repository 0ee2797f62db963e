----------------------------- MODULE HttpCache -----------------------------
(***************************************************************************)
(* HttpCache of http/http_cache.cc for one cache key: the reader/writer    *)
(* lock of an ActiveEntry with its queue, the doomed entries, the work     *)
(* items that wait for the disk cache (PendingOp), and the creation of the *)
(* backend. Keys share nothing but the backend, so one key is enough.      *)
(*                                                                         *)
(* Everything runs on the network thread, and one call may reach many      *)
(* transactions (a failed writer restarts all who wait for it). The        *)
(* methods are therefore operators from a state to a state, and an action  *)
(* is the whole chain of calls that one event causes.                      *)
(***************************************************************************)
EXTENDS Integers, FiniteSets, SequencesExt

CONSTANTS
  Trans,       \* the Transaction objects
  Kinds,       \* the kinds of request they may be started with
  MixedKinds,  \* bound: kinds that are started only while no more than
  MaxMixed,    \* MaxMixed transactions were started
  MaxEntries,  \* bound: disk entries that exist at once, doomed ones included
  Faults,      \* rare failures of the environment that may happen, see below
  None

ASSUME HttpCacheAssumption ==
  /\ MaxEntries \in Nat \ {0}
  /\ None \notin Trans \cup (1 .. MaxEntries)
  /\ Kinds \subseteq
       {"get", "prefetch", "only", "bypass", "update", "head", "put", "post"}
  /\ MixedKinds \subseteq Kinds /\ MaxMixed \in Nat
  /\ Faults \subseteq {"toggle_write", "resume_send", "short_eof", "flag_write"}

VARIABLES
  disk_cache,     \* "none" until the factory answers, then "up" or "failed"
  backend_op,     \* the PendingOp of the empty key: who waits for the backend
  active,         \* active_entries_[key], or None
  doomed,         \* doomed_entries_
  entry,          \* the ActiveEntry of each live disk entry
  pending_op,     \* pending_ops_[key]: work items, the first is being executed
  stored,         \* the disk entry that the backend has under the key, or None
  data,           \* what a disk entry holds
  tr              \* the transactions

vars == <<disk_cache, backend_op, active, doomed, entry, pending_op, stored,
          data, tr>>

\* Disk entries are named by numbers that are used again.
Ids == 1 .. MaxEntries

\* Transaction::Mode and the test mode() & WRITE.
Modes == {"NONE", "READ", "WRITE", "READ_WRITE", "UPDATE"}
Writes(mode) == mode \in {"WRITE", "READ_WRITE", "UPDATE"}

\* A disk entry holds nothing, the headers of a response, a part of its body,
\* all of it, or a part that its headers declare truncated. "unused" is
\* unused_since_prefetch. Two histories, for the properties: "stale", a POST or
\* PUT succeeded after this response was received; "unmarked", the entry lost the
\* flag, or was left without it, in one of the four ways that are known.
Bodies == {"empty", "headers", "part", "full", "truncated"}
NoData == [body |-> "empty", unused |-> FALSE, stale |-> FALSE, unmarked |-> FALSE]

FreeEntry == [writer |-> None, readers |-> {}, pending_queue |-> <<>>,
              will_process |-> FALSE]

\* "was_cached" is that of response_: the headers come from an entry.
Idle == [kind |-> None, st |-> "IDLE", mode |-> "NONE", entry |-> None,
         conditional |-> FALSE, truncated |-> FALSE, resume |-> FALSE,
         reading |-> FALSE, was_cached |-> FALSE]

\* The states in which cache_pending_ holds, the ones of a work item first.
WorkItemStates == {"OPEN_ENTRY", "DOOM_ENTRY", "CREATE_ENTRY"}
WaitStates == WorkItemStates \cup {"GET_BACKEND", "ADD_TO_ENTRY"}

States == WaitStates \cup
  {"IDLE", "CACHE_READ_RESPONSE", "TOGGLE_UNUSED", "CACHE_QUERY_DATA",
   "SEND_REQUEST", "AUTH", "CACHE_WRITE_UPDATED_RESPONSE",
   "CACHE_WRITE_RESPONSE", "HEADERS", "NETWORK_READ", "CACHE_WRITE_DATA",
   "CACHE_READ_DATA", "DONE", "GONE"}

State == [disk_cache |-> disk_cache, backend_op |-> backend_op,
          active |-> active, doomed |-> doomed, entry |-> entry,
          pending_op |-> pending_op, stored |-> stored, data |-> data,
          tr |-> tr]

Become(s) ==
  /\ disk_cache' = s.disk_cache
  /\ backend_op' = s.backend_op
  /\ active' = s.active
  /\ doomed' = s.doomed
  /\ entry' = s.entry
  /\ pending_op' = s.pending_op
  /\ stored' = s.stored
  /\ data' = s.data
  /\ tr' = s.tr

Live(s) == s.doomed \cup ({s.active} \ {None})

-----------------------------------------------------------------------------
(* The life of an entry. *)

\* disk_entry->Doom(): the backend no longer has the entry under the key.
DoomDisk(s, e) == [s EXCEPT !.stored = IF @ = e THEN None ELSE @]

\* DoomActiveEntry() and the first part of DoomEntry(): the active entry can no
\* longer be found; the transactions attached to it are not disturbed.
DoomActiveEntry(s) ==
  IF s.active = None THEN s
  ELSE [DoomDisk(s, s.active) EXCEPT !.doomed = @ \cup {s.active},
                                     !.active = None]

\* DestroyEntry(): FinalizeDoomedEntry() or DeactivateEntry(), and the
\* destructor that closes the disk entry.
DestroyEntry(s, e) ==
  [s EXCEPT !.active = IF @ = e THEN None ELSE @,
            !.doomed = @ \ {e},
            !.entry[e] = FreeEntry,
            !.data[e] = IF s.stored = e THEN @ ELSE NoData]

-----------------------------------------------------------------------------
(* Work items. The disk cache executes the first one; DoomEntry(key, NULL)  *)
(* makes an item without a transaction.                                     *)

\* GetPendingOp() and the common part of OpenEntry(), CreateEntry() and
\* AsyncDoomEntry() when the disk cache answers asynchronously.
Enqueue(s, operation, t) ==
  LET s1 == [s EXCEPT !.pending_op =
                        Append(@, [operation |-> operation, trans |-> t])]
  IN IF t = None THEN s1 ELSE [s1 EXCEPT !.tr[t].st = operation]

\* DoomEntry(key, NULL).
DoomEntry(s) ==
  IF s.active # None THEN DoomActiveEntry(s) ELSE Enqueue(s, "DOOM_ENTRY", None)

\* DoomMainEntryForUrl().
DoomMainEntry(s) == IF s.disk_cache = "up" THEN DoomEntry(s) ELSE s

\* ProcessPendingQueue(): posts OnProcessPendingQueue() unless it is posted.
ProcessPendingQueue(s, e) == [s EXCEPT !.entry[e].will_process = TRUE]

\* Mutant: a writer joins the readers.
AddTransactionToEntryShared(s, e, t) ==
  LET E == s.entry[e]
      write == Writes(s.tr[t].mode)
  IN IF E.writer # None \/ E.will_process
     THEN [s EXCEPT !.entry[e].pending_queue = Append(@, t),
                    !.tr[t].st = "ADD_TO_ENTRY"]
     ELSE [s EXCEPT
             !.entry[e] = [E EXCEPT !.writer = IF write THEN t ELSE @,
                                    !.readers = IF write THEN @ ELSE @ \cup {t},
                                    !.will_process =
                                      ~write /\ E.pending_queue # <<>>],
             !.tr[t] = [@ EXCEPT !.entry = e,
                                 !.st = IF s.tr[t].mode = "WRITE" THEN "SEND_REQUEST"
                                        ELSE "CACHE_READ_RESPONSE"]]

\* AddTransactionToEntry() and what the transaction does next (DoAddToEntry,
\* DoAddToEntryComplete): wait in the queue, read the headers of the stored
\* response, or, if it can only write, ask the network.
AddTransactionToEntry(s, e, t) ==
  LET E == s.entry[e]
      write == Writes(s.tr[t].mode)
  IN IF E.writer # None \/ E.will_process \/ (write /\ E.readers # {})
     THEN [s EXCEPT !.entry[e].pending_queue = Append(@, t),
                    !.tr[t].st = "ADD_TO_ENTRY"]
     ELSE [s EXCEPT
             !.entry[e] = [E EXCEPT !.writer = IF write THEN t ELSE @,
                                    !.readers = IF write THEN @ ELSE @ \cup {t},
                                    !.will_process =
                                      ~write /\ E.pending_queue # <<>>],
             !.tr[t] = [@ EXCEPT !.entry = e,
                                 !.st = IF s.tr[t].mode = "WRITE" THEN "SEND_REQUEST"
                                        ELSE "CACHE_READ_RESPONSE"]]

\* CreateEntry() of a transaction in WRITE mode. An active entry is a race: the
\* transaction starts over, dooms that entry and tries again.
CreateEntry(s, t) == Enqueue(DoomActiveEntry(s), "CREATE_ENTRY", t)

\* DoInitEntry() with DoDoomEntry() or DoOpenEntry(): also what a transaction
\* does that is told ERR_CACHE_RACE.
InitEntry(s, t) ==
  CASE s.tr[t].mode = "WRITE" /\ s.active # None -> CreateEntry(s, t)
    [] s.tr[t].mode = "WRITE" /\ s.active = None -> Enqueue(s, "DOOM_ENTRY", t)
    [] s.tr[t].mode # "WRITE" /\ s.active # None ->
         AddTransactionToEntry(s, s.active, t)
    [] OTHER -> Enqueue(s, "OPEN_ENTRY", t)

\* The transaction goes to the network and leaves the cache alone.
PassThrough(s, t) ==
  [s EXCEPT !.tr[t].mode = "NONE", !.tr[t].st = "SEND_REQUEST"]

\* The last part of DoOpenEntryComplete(): there is no entry.
OpenFailed(s, t) ==
  CASE s.tr[t].mode = "READ" -> [s EXCEPT !.tr[t].st = "DONE"]
    [] s.tr[t].mode = "READ_WRITE" /\ s.tr[t].kind \notin {"put", "head"} ->
         CreateEntry([s EXCEPT !.tr[t].mode = "WRITE"], t)
    [] OTHER -> PassThrough(s, t)

\* WorkItem::NotifyTransaction(), with DoOpenEntryComplete(),
\* DoDoomEntryComplete() and DoCreateEntryComplete().
Notify(s, t, result) ==
  CASE t = None -> s
    [] t # None /\ result = "RACE" -> InitEntry(s, t)
    [] t # None /\ result # "RACE" /\ s.tr[t].st = "DOOM_ENTRY" ->
         CreateEntry(s, t)
    [] t # None /\ result = "OK" /\ s.tr[t].st # "DOOM_ENTRY" ->
         AddTransactionToEntry(s, s.active, t)
    [] t # None /\ result = "FAILED" /\ s.tr[t].st = "OPEN_ENTRY" ->
         OpenFailed(s, t)
    [] OTHER -> PassThrough(s, t)

\* Mutant: a queued Create is given the entry that the first one made.
QueuedResultShared(op, ok, found, fail, item) ==
  LET race == fail \/ item.operation = "DOOM_ENTRY" \/ (ok /\ ~found)
  IN [fail |-> race,
      result |-> CASE race -> "RACE"
                   [] ~race /\ ok -> "OK"
                   [] OTHER -> "FAILED"]

\* What OnIOComplete() tells a queued item, once the first one, of kind op, was
\* answered: "fail" becomes TRUE when all further ones have to start over.
QueuedResult(op, ok, found, fail, item) ==
  LET mixed == ~ok /\ (item.operation = "CREATE_ENTRY") # (op = "CREATE_ENTRY")
      race == fail \/ item.operation = "DOOM_ENTRY" \/ (ok /\ ~found) \/ mixed
  IN [fail |-> race,
      result |-> CASE race -> "RACE"
                   [] ~race /\ ok /\ item.operation = "OPEN_ENTRY" -> "OK"
                   [] OTHER -> "FAILED"]

\* OnIOComplete() of an entry operation: activates the entry (a new one is
\* called id), then notifies the item and all that were queued behind it, after
\* taking them off the PendingOp so that they may issue new work.
OnIOComplete(s, ok, id) ==
  LET item == Head(s.pending_op)
      op == item.operation
      valid == ok /\ op # "DOOM_ENTRY" /\ item.trans # None
      s1 == [s EXCEPT
               !.pending_op = <<>>,
               !.active = CASE valid /\ op = "OPEN_ENTRY" -> s.stored
                            [] valid /\ op = "CREATE_ENTRY" -> id
                            [] OTHER -> None,
               !.stored = CASE op = "DOOM_ENTRY" /\ ok -> None
                            [] op = "CREATE_ENTRY" /\ valid -> id
                            [] OTHER -> @,
               !.data = [e \in Ids |->
                           IF op = "DOOM_ENTRY" /\ ok /\ e = s.stored
                           THEN NoData ELSE @[e]]]
      first == [s |-> Notify(s1, item.trans, IF ok THEN "OK" ELSE "FAILED"),
                fail |-> ok /\ ~valid]
      queued == Tail(s.pending_op)
      told[n \in 0 .. Len(queued)] ==
        IF n = 0 THEN first
        ELSE LET acc == told[n - 1]
                 r == QueuedResult(op, ok, acc.s.active # None, acc.fail, queued[n])
             IN [s |-> Notify(acc.s, queued[n].trans, r.result), fail |-> r.fail]
  IN told[Len(queued)].s

-----------------------------------------------------------------------------
(* Giving an entry up. *)

\* Mutant: those who wait are not told that the writer failed.
FailedWritingSilent(s, e) == DestroyEntry(DoomDisk(s, e), e)

\* DoneWritingToEntry(entry, false): the entry is doomed and destroyed, and
\* those who waited for it start over, in the order of the queue.
FailedWriting(s, e) ==
  LET queue == s.entry[e].pending_queue
      restarted[n \in 0 .. Len(queue)] ==
        IF n = 0 THEN DestroyEntry(DoomDisk(s, e), e)
        ELSE InitEntry(restarted[n - 1], queue[n])
  IN restarted[Len(queue)]

\* Transaction::DoneWritingToEntry() and HttpCache::DoneWritingToEntry().
DoneWritingToEntry(s, t, success) ==
  LET e == s.tr[t].entry
      s1 == [s EXCEPT !.tr[t].entry = None, !.tr[t].mode = "NONE",
                      !.entry[e].writer = None]
  IN CASE e = None -> s
       [] e # None /\ success -> ProcessPendingQueue(s1, e)
       [] OTHER -> FailedWriting(s1, e)

\* Mutant: a reader that is not the last leaves without a word.
DoneReadingFromEntryQuiet(s, t) ==
  LET e == s.tr[t].entry
  IN [s EXCEPT !.tr[t].entry = None, !.entry[e].readers = @ \ {t}]

\* Mutant: the entry keeps a reader that has left.
DoneReadingFromEntryKept(s, t) ==
  ProcessPendingQueue([s EXCEPT !.tr[t].entry = None], s.tr[t].entry)

DoneReadingFromEntry(s, t) ==
  LET e == s.tr[t].entry
  IN ProcessPendingQueue([s EXCEPT !.tr[t].entry = None,
                                   !.entry[e].readers = @ \ {t}], e)

\* ConvertWriterToReader(), after which the mode is READ.
ConvertWriterToReader(s, t) ==
  LET e == s.tr[t].entry
  IN ProcessPendingQueue([s EXCEPT !.tr[t].mode = "READ",
                                   !.entry[e].writer = None,
                                   !.entry[e].readers = @ \cup {t}], e)

\* What becomes of the flag of a response that is cut short: CanResume() does not
\* want it, its write fails at once, or is accepted, and is then made or lost.
FlagResults == {"refused", "failed", "stored", "lost"}

\* Mutant: a part of a body is kept without the flag.
TruncateUnflagged(d, flag) == d

\* The entry once the headers have been written again with the flag. An error
\* that the disk reports later reaches nobody, the transaction is destroyed by
\* then ("flag_write").
Truncate(d, flag) ==
  IF d.body # "part" THEN d
  ELSE IF flag = "stored" THEN [d EXCEPT !.body = "truncated"]
  ELSE [d EXCEPT !.unmarked = TRUE]

\* DoneWithEntry(): a writer that is cancelled keeps what it has stored when
\* AddTruncatedFlag() succeeds. It does not if there is no body yet or the
\* response is not a GET with strong validators and a known length (CanResume),
\* nor if the write of the headers fails while it waits for it.
DoneWithEntry(s, t, cancel, flag) ==
  LET e == s.tr[t].entry
      E == s.entry[e]
      keep == cancel /\ flag \in {"stored", "lost"}
                     /\ s.data[e].body \in {"part", "full", "truncated"}
      s1 == IF keep THEN [s EXCEPT !.data[e] = Truncate(@, flag)] ELSE s
  IN CASE E.will_process /\ E.readers = {} -> [s EXCEPT !.tr[t].entry = None]
       [] E.writer # None -> DoneWritingToEntry(s1, t, keep)
       [] OTHER -> DoneReadingFromEntry(s, t)

\* Mutant: the item that is being executed keeps its transaction.
RemovePendingTransactionQueued(s, t) ==
  LET others == SelectSeq(Tail(s.pending_op), LAMBDA item : item.trans # t)
  IN CASE s.tr[t].st = "ADD_TO_ENTRY" ->
            [s EXCEPT !.entry = [e \in Ids |->
               [@[e] EXCEPT !.pending_queue = RemoveFirst(@, t)]]]
       [] s.tr[t].st = "GET_BACKEND" ->
            [s EXCEPT !.backend_op =
               IF Head(@) = t THEN [@ EXCEPT ![1] = None] ELSE RemoveFirst(@, t)]
       [] OTHER -> [s EXCEPT !.pending_op = <<Head(@)>> \o others]

\* RemovePendingTransaction(): from the queue of the active entry, of the
\* backend, of the key's operation or of a doomed entry. The item that is being
\* executed only loses its transaction.
RemovePendingTransaction(s, t) ==
  LET Matches(item) == item.trans = t
      Left(E) == [E EXCEPT !.pending_queue = RemoveFirst(@, t)]
  IN CASE s.tr[t].st = "ADD_TO_ENTRY" ->
            [s EXCEPT !.entry = [e \in Ids |-> Left(s.entry[e])]]
       [] s.tr[t].st = "GET_BACKEND" ->
            [s EXCEPT !.backend_op =
               IF Head(@) = t THEN [@ EXCEPT ![1] = None] ELSE RemoveFirst(@, t)]
       [] s.tr[t].st \in WorkItemStates /\ Matches(Head(s.pending_op)) ->
            [s EXCEPT !.pending_op[1].trans = None]
       [] OTHER -> [s EXCEPT !.pending_op = RemoveFirstMatch(@, Matches)]

\* OnProcessPendingQueue(): the posted task closes the entry, or promotes the
\* first in the queue unless it has to wait for the readers.
OnProcessPendingQueue(s, e) ==
  LET s1 == [s EXCEPT !.entry[e].will_process = FALSE]
      E == s1.entry[e]
      next == Head(E.pending_queue)
  IN CASE E.writer = None /\ E.readers = {} /\ E.pending_queue = <<>> ->
            DestroyEntry(s1, e)
       [] E.pending_queue = <<>> /\ (E.writer # None \/ E.readers # {}) -> s1
       [] E.pending_queue # <<>> /\ Writes(s1.tr[next].mode)
                                 /\ E.readers # {} -> s1
       [] OTHER ->
            AddTransactionToEntry(
              [s1 EXCEPT !.entry[e].pending_queue = Tail(@)], e, next)
=============================================================================
