# A TLA+ model of the core of Chromium's network stack

This directory holds TLA+ specifications of parts of the `net` library, the TLC
configurations that check them on small instances, and TLAPS proofs of their
main properties for instances of any size. Paths below are relative to the
root of the repository.

## 1. The system and its parts

`net` turns a URL request into bytes from the network or from a cache. All of
it runs on one network thread, driven by posted tasks and completion callbacks,
except for the file I/O of the caches, the system's host resolver, the proxy
scripts and the cookie database, which have threads of their own. What is hard
is therefore seldom a data race: it is the order of callbacks, tasks, timers and
re-entrant calls, and the crash between two writes to a file.

| Part | State | Operations | Uses / used by | Hard because | Correct when |
|---|---|---|---|---|---|
| Socket pools (`socket/client_socket_pool_base.*`, `client_socket_handle.*`) | groups with their requests, ConnectJobs, idle and active sockets; pool-wide counters; posted results | request, preconnect, cancel, release, set priority, flush, close idle sockets; job completion, backup timer | connect jobs below; stream factory above; pools are stacked | late binding of jobs to requests, limits, counters updated in a dozen methods, posted callbacks racing cancellation, wake-up of stalled groups | limits hold, counters agree, every request is answered once, no slot is lost |
| Blockfile LRU lists (`disk_cache/blockfile/rankings.*`) | doubly linked lists in a mapped file, heads, tails, sizes, transaction record; cached iterators | insert, remove, move, enumerate, self-check, recover | eviction and backend | a crash between any two stores, recovery interrupted in turn, stale iterators | lists are whole after every restart, the cache is not disabled |
| Blockfile eviction and backend (`eviction.*`, `backend_impl.*`, `entry_impl.*`, `block_files.*`) | hash buckets, entry records, block bitmaps, counters | open, create, doom, read, write, trim | Rankings; HttpCache | record, bucket chain and list are separate stores; eviction nested in look-ups and destructors | an entry that was closed is found complete by every way, after any crash |
| Simple cache (`disk_cache/simple`) | per-entry operation queue, index, files | same interface | worker pool | optimistic operations, doom racing open | operations on a key are serialised |
| HttpCache (`http/http_cache*`) | active entries with writer, readers, pending queue | open/create/doom entry, add/remove transaction | disk cache below, network layer | one writer, posted queue processing, doomed entries, queued work items, cancellation in every state | one writer or many readers, whole bodies, nobody waits for ever |
| Stream factory and job controllers (`http/http_stream_factory_impl*`) | up to three racing jobs per request | start, bind, orphan, fail over | pools, SPDY and QUIC sessions | which job answers the request | one answer per request |
| SPDY / HTTP/2 (`spdy`) | streams, flow-control windows, write queue | send, receive, window updates, going away | pools | 32-bit windows, stalled streams, close during callbacks | no deadlock of stalled streams |
| QUIC (`quic`) | connections, packets, streams | | UDP sockets | loss, reordering, migration | |
| Dispatcher (`base/prioritized_dispatcher.*`, `priority_queue.h`) | priority queue, running count, limits | add, cancel, evict, change priority, job finished, set/get limits | host resolver | jobs re-enter it from `Start()`, limits change under running jobs | slots used when possible, reserved slots kept |
| Host resolver and DNS client (`dns`) | jobs with their requests and slots, DNS configuration, cache | resolve, cancel, reprioritise, abort, enable or disable the DNS client | dispatcher, worker threads | coalesced requests, jobs with two slots, callbacks that call back, aborts half way | each request answered once, slots accounted for, nothing outdated |
| Proxy resolution (`proxy`) | executors, pending jobs, threads | get proxy, cancel | | one job per thread, cancelled jobs | |
| Cookies (`cookies`, `extras/sqlite`) | in-memory jar, batched database operations | get, set, delete, flush | URLRequest | batching across threads | |
| WebSockets, URLRequest, FTP, TLS, certificates, filters, logging, tools | | | | | |

`PROJECT.json` lists every part with its status, and every hazard at its line.

## 2. Plan

Done, most important first: ClientSocketPool (the resource all network traffic
shares), HttpCache with its transactions over an abstract lock, the blockfile
cache below it (Rankings, the lists, and BlockfileBackend, everything that uses
them), PrioritizedDispatcher and, composed with it, HostResolver. The pool, the
HttpCache, the lists and the dispatcher are proved as well as checked.

| Module | Composes / extends | Models |
|---|---|---|
| `ClientSocketPool` | | `socket/client_socket_pool_base.*`, `client_socket_handle.*` |
| `EntryLock` | | what HttpCache promises, abstractly |
| `HttpCache` | | `http/http_cache.*`: entries, queue, work items |
| `HttpCacheTransaction` | extends `HttpCache`, refines `EntryLock` | `http/http_cache_transaction.*` |
| `Rankings` | | `disk_cache/blockfile/rankings.*`, store by store |
| `BlockfileBackend` | takes from Rankings that list operations are atomic | `backend_impl.*`, `entry_impl.*`, `eviction.*` |
| `PrioritizedDispatcher` | | `base/prioritized_dispatcher.*` |
| `HostResolver` | instantiates `PrioritizedDispatcher` | `dns/host_resolver_impl.*` |

Left, in this order:

1. **Proofs**: `SlotsAgree` of HostResolver, to which the invariants of the
   dispatcher are available through the instance; `CleanIsWhole` of
   BlockfileBackend; `ReadersSeeWholeBody` of HttpCache.
2. **Layered pools**: two ClientSocketPools, the higher one holding handles of
   the lower, so that `CloseOneIdleConnection()` is a call from the other pool
   instead of an input; and TransportConnectJob's IPv6/IPv4 race.
3. **SimpleEntryImpl**'s operation queue; **SPDY flow control** with 32-bit
   windows; **MultiThreadedProxyResolver**; the job controller of the stream
   factory.

## 3. ClientSocketPool

`ClientSocketPool.tla` models `ClientSocketPoolBaseHelper`, its `Group`, and
`ClientSocketHandle`. The pool is one record: `pending` (the priority queue, in
the order it is served), `jobs` and `unassigned` (ConnectJobs are only counted:
with late binding nothing distinguishes them), `idle`, `active`,
`backup_timer`, the three counters, the generation number,
`pending_callback_map` and the posted `tasks`, and the `socket` and `pool_id` the
pool has put into each handle. `handle` is the rest of the handles' state.

Everything runs on one thread, so a public method, a timer, a job's completion
and a posted task are one action each. The private methods become operators
from a pool to the *set* of pools they can leave: more than one when something
outside decides (the result of `Connect()`, whether an idle socket is still
usable). So an action runs the whole chain of calls the method makes, up to
`CheckForStalledSocketGroups()`. `RequestSockets()` is the exception, one action
per iteration, because its `Connect()` calls may take the pool through many
states; while it runs no other action is taken (`Quiet`).

Abstractions: a socket is only whether it was ever used and when it was
connected (`birth`, a history variable); results are `OK`, an error, or an error
that comes with a socket. Group names are numbers, because `group_map_` is
ordered by name and the order breaks ties. `connected` in `ReleaseSocket` is the
answer of `IsConnectedAndIdle()`. `TryToCloseSocketsInLayeredPools()` appears as
the `Reset()` of handles that a higher pool holds, and the question whether a
lower pool is stalled as a choice (`HasLowerPool`). Left out: destruction,
logging, load states, memory dumps.

### Runs

| Run | Instance | What it shows |
|---|---|---|
| `pool_limits` | 2 handles, 2 groups, `max_sockets` 3, 2 per group, one flush, backup jobs, a lower pool, every outcome of `Connect()` | `TypeOK`, `CountersAgree`, `SocketLimits`, `NonEmptyGroupsMapped`, `RequestsTracked`, `ResultsDelivered`, `BackupTimerHasJob`, `NoSocketSurvivesFlush` |
| `pool_live` | 3 handles, 2 groups, 2 priorities, limits of 1, requests that ignore the limits, fair, no synchronous failure | `NoLostSlot`, `NoStarvation`, and `MostUrgentFirst` also when pool and groups are over their limits: the head has the highest priority of its queue, which the comment on `TopPendingPriority()` doubts (Observations) |

Bounds: `MaxGeneration` caps flushes, `MaxTasks` the posted callbacks per handle
(two are needed for a stale task to meet a newer result), `MaxOverLimit` the
sockets that requests ignoring the limits may add. Both limits of `pool_limits`
are reachable separately: a group can be full in a pool that is not, and the
pool can be full with both groups having room. One priority suffices there, the
invariants do not mention it; two are in `pool_live`.

Fairness (`FairSpec`, in `pool_live`) is weak, and on
four things: the `RequestSockets()` loop goes on (it is one call); the completion
of a group's ConnectJobs (a ConnectJob has a timeout timer and then reports an
error); posted tasks (the message loop runs them); and the release of a socket
by a handle that has one (a client that never gives it back really does starve
the others). `NoStarvation` asks for an answer only once clients stop asking for
new sockets, since with priorities a stream of new requests may always overtake.

### Observations

`ReleaseSocket()` of a socket that cannot be
reused, and `CancelRequest()`, may leave an empty group in `group_map_` until the
group is next used (harmless, and `NonEmptyGroupsMapped` only claims the other
direction); and `SetPriority()` of the only request of a group removes and
re-inserts it, which stops the backup timer. Section 9 has two more.

A comment and the code disagree on the order of a queue. `TopPendingPriority()`
returns the priority of the head, "which may be less than the maximum priority
over the entire queue, due to how we prioritize requests with `|respect_limits|`
DISABLED over others" (`client_socket_pool_base.h:425-428`). It may not: such a
request is made with `MAXIMUM_PRIORITY` (`DCHECK_EQ` at
`client_socket_pool_base.cc:184` and `1421`) and is never given another one
(`1464`), so putting it in front of the others keeps the queue in order.
`MostUrgentFirst` says so, with requests that ignore the limits in the run and in
the proof. The comment allows more than the code does and nothing relies on it;
it states a possibility, so no counterexample could refute it and it is reported
here and not as a finding.

### Proofs

`ClientSocketPoolInvariant.tla` states the inductive invariant and proves what
the elementary updates do to it; `ClientSocketPoolProofs.tla` follows it through
the private methods, has one lemma per action and the theorems: `Invariance`,
`TypeCorrect`, `CountersCorrect`, `LimitsKept`, `GroupsMapped`,
`ResultsAreDelivered`, `BackupTimerBacksUp`, `FlushIsFinal`. They hold for any
finite set of groups and handles, any limits with
`max_sockets_per_group <= max_sockets`, and any behaviour of `Connect()`. Two
modules build on them, each with an invariant of its own that is inductive
relative to this one: `ClientSocketPoolQueues.tla` (`QueuesKept`,
`MostUrgentAlwaysFirst`, `RequestsAlwaysTracked`) and `ClientSocketPoolSlots.tla`
(`SlotsKept`, `NoSlotLost`).

The invariant is parametrised by a pool `p`, the handles `hd` and one handle `x`,
because inside a method it does not hold of the state variables: between
`RequestSocketInternal()` and `PopNextPendingRequest()` the request being served
(that of `x`) is still queued although its handle already has the socket. It is
stronger than what the runs check in two respects. That a flush is final needs
`HeldBorn`: a socket in a client's hands was connected in the generation its
handle's `pool_id` records, so that the comparison in `ReleaseSocket()` is a
comparison of births. That results are delivered needs `Queued` and `Waiting`:
each queued request belongs to a handle that waits in that group, occurs once,
and has neither socket nor result. The limits need the counters, since the code
checks the counters and the property counts sockets.

The queues. `QueueInv` is `InOrder`, which says of every pair of positions what
`MostUrgentFirst` says of the head (a request that ignores the limits has the
highest priority, as the constructor of `Request` asserts, so putting it in
front of all others breaks no order), and `Listed`: every handle that waits and
has no result is in the queue of its group. `Listed` is the converse of `Queued`;
together they are `RequestsTracked`. It too has a parameter `x`, the handle that
is between the queue and its result, inside `SetPriority()` or while a socket is
handed to it.

The slots. `NoLostSlot` speaks of one state in which nobody could be served, and
is not inductive: an idle socket that its own group ignores, or a preconnected
job that is counted for two requests, would strand a request later. `SlotInv`
adds `Sound`: a group in which more wait than connect has no idle socket, and if
some jobs are unassigned there are enough jobs for those as well as for everybody
in the queue. The methods that free a slot break it in the middle: `Almost` says
by how much (at most one slot is left, or only that group wants one, and only
one), `ReleaseSocket()`, `OnConnectJobComplete()` and `CancelRequest()` reach it,
`OnAvailableSocketSlot()` keeps it, and `CheckForStalledSocketGroups()`, which
serves a single group, turns it back into `SlotInv`. A single one is enough
exactly because no more than one slot was free, and because the request it serves
takes that slot; hence the hypothesis `"ERR" \notin ConnectResults` of these two
theorems, that no `Connect()` fails before it returns. It is that of `pool_live`,
and without it the promise is broken (section 9).

## 4. Rankings

`Rankings.tla` models the lists of `rankings.cc` and their recovery. The header
of the index and the blocks are memory mapped: what a process has stored
survives its crash, in the order it was stored. As every method runs to its end
on the cache thread, the values it stores are determined when it is called, so a
call is modelled by the sequence of its stores (`todo`), in program order; `Store`
executes the next one, `Crash` may come before any of them and drops the rest and
all memory (`mem`, `iters`). `ReadHeadsAndTails`, `FinishInsert` and
`RevertRemove` are `Init()` of the next process, whose stores can be interrupted
again. `RestartCache` is what the backend does after a `CriticalError()`: it
throws the files away. `lru` and `torn` are history variables: what the lists
ought to be, and whether a crash has come between the two transactions of
`FinishInsert()` since the files were created. `shared` says
whether a block that is its own neighbour is read into the same memory as the
open entry, in which case the zeroing of its links is seen early; the code can
do either.

Assumptions: the files are damaged by nothing but crashes of this code; lists
are counted (`count_lists_`, the new eviction); callers name the list a node is
really in, and `Remove()` is strict. Time stamps and the contents of blocks are
left out.

`rankings_crash` (4 nodes, 2 lists, one iterator, 2 crashes) checks `ListsIntact`,
`NoCriticalError`, `SizesDrift` (with `TypeOK`), `SelfCheckExact`,
`RemoveStatesDocumented` and `IteratorsFresh`. Four nodes give a list with a head,
a tail and two inner nodes, so that every case of `Remove()` (A to D in its
comment) occurs with distinct neighbours; two lists let a node move; two crashes
let recovery itself be interrupted. Every crash is allowed. Five of the properties
(all but `SelfCheckExact`) are qualified by `~torn`: they say nothing of what
follows a crash between the two transactions of `FinishInsert()`, until the files
are replaced.

Finding, `rankings_torn`: that crash does break the lists. `FinishInsert()` clears
the transaction record (`rankings.cc:677`) before its `Insert()` writes it again.
A process that dies in between leaves a half made insertion that nothing tells of:
the tail may name a node that is in no list, or the old head may point back at
one. The next call that meets it raises `CriticalError()` and the whole cache is
deleted, where the comment on `Transaction` promises that the record "can be used
to finish the operation". `CrashesMended` is that promise; `NoCriticalError` and
its theorem say that this crash is the only one to break it.

### Proofs

`RankingsProofs.tla` proves `RankingsInvariant` and from it `ListsAlwaysIntact`,
`CriticalErrorOnlyWhenTorn`, `IteratorsAlwaysFresh`, `SizesDriftBounded` (which
contains type correctness) and `RemoveStatesAsDocumented`, for any nodes, lists and
iterators and any number of crashes, wherever they come. They have no hypothesis;
what each of them says of a state is qualified by `~torn`, as in the run, because
the finding above is a counterexample to the rest. The invariant is
`~torn => IInv`, together with the bound on `crashes`: a step that leaves `torn`
false keeps `IInv` (`NextInvariant`), and `RestartCache()`, the only step that
resets `torn`, establishes it anew (`FreshInvariant`). Nothing has to be finite.

`ListsIntact` speaks of the disk between two calls; what is needed is what the
disk looks like between two stores. The idea of the invariant is that insertion
and removal walk along the same path in opposite directions. Between the lists
with a node and the lists without it lie five stores: the head, the tail, the node
behind, the node before, the node itself. `Torn(D, S, l, i, hd, tl, xd, pd, nd)`
says that the disk `D` shows the lists `S` except that, as the five flags tell,
some of the stores that cut out the `i`-th node of `S[l]` have been made. With no
flag it is `Full(D, S)` (`TornNone`), with all of them `Full` of the lists without
the node (`TornAll`); a flag about an end is meaningless for a node that is not at
that end. Every store of `Insert()`, `Remove()`, `FinishInsert()` and
`RevertRemove()` sets or clears one flag, or writes again what is there.

`IInv` says that the process is `Stopped` or `Working`. A working process is in
one of a few stages, each of which names the stores that are still to be made and
the flags: `Whole`, `Inserting` (before and after its transaction is recorded),
`Removing` (the same, up to the store that zeroes the node), `Removed`,
`Reverting`. A stopped one is `Mendable`: the disk is whole, or its transaction
record names the node, the list and the direction of a torn operation.
`CrashMendable` shows that a crash in any stage leads there, `FinishInsertInvariant`
and `RevertRemoveInvariant` that the next `Init()` leads from there back to a
stage, however many times it is interrupted. Three things turned out to
be needed that are not about the lists: the counter is off by one more in each
stage in which it is still to be stored (`CountersBut`); the copies in the
iterators already show the lists that the running call is going to leave
(`Shows`); and so do the heads and tails in memory (`InMemory`), from which
`SanityCheck()` and `CheckLinks()` judge the disk.

`SelfCheckExact` is not proved: `CheckList` is a recursive function over the
nodes, and what it computes needs an induction. Before it was proved `IInv` was
model-checked on three nodes, two lists and two crashes.

## 5. BlockfileBackend

`BlockfileBackend.tla` models `BackendImpl`, `EntryImpl` and `Eviction` for the
entries of one bucket of the hash table. An entry is a record (`rec`: key, next
entry of the bucket, state, reuse count) and a rankings node (`dirty`, and its
place in one of the four lists `lru`). Records, nodes, table and lists are
mapped files and survive a crash; `open`, the EntryImpl objects with their copy
of the record, does not. A node in use carries the id of the session, `this_id`;
whoever meets another id destroys the entry.

Only a crash can come between two stores of the cache thread. An operation is a
sequence of steps in `todo`, each of them one store that matters, and a step may
put others in front of the rest: a look-up (`MatchEntry`) that releases an entry
runs its destructor, and that may start an eviction (`Trim`) which looks up,
unlinks and frees other entries of the chain the outer look-up is walking. The
list operations are single steps, because Rankings is about what a crash does
inside them (its finding `rankings_torn`, a second crash during the recovery, is
not repeated here); `Crash`, which may come before any step, leaves an insertion
done or not done, and `RecoveredEntry` may put its entry back into an empty
bucket.

A crash may leave an entry in another list than its record names. Whoever then
destroys it calls `Remove()` with the wrong list, and if the entry is alone in
its list, head and tail of that list keep pointing to it: `dangling`. The model
stops there, at `RestartCache`. In the code `GetRanking()`, `Insert()` or
`CheckLinks()` notices the bad link as soon as the list is used and
`CriticalError()` has the cache made anew; should the block have been given out
again by then, the code may go on for a while with a node that two lists share.
So what the properties say holds up to that moment.

`backend` (2 keys that collide, 2 entries, 3 sessions, 2 references, `HighUse` 2)
checks

* `CleanFindable`: at every moment, so also after a crash then, an entry marked
  clean is complete: a look-up finds it, and it is in the list its record names
  and in no other;
* `ChainSound`: the chain ends, and trusted entries have real successors;
* `CleanIsWhole`: an entry that has lost data is never trusted again;
* `ListsSound`: between operations an entry that can be trusted is in the list
  that its record names (and `TypeOK`); only one that an earlier session has left
  behind may be elsewhere, after a crash between a move and the store of the
  record (`eviction.cc:417-425`, `446-448`);
* `HandlesReal`: what a caller holds and has not doomed is the entry of its key;
* `LeaksOnlyByCrash`: an action property, only the end of a session loses blocks;
* `HeadsLostByTornMove`: an action property, a list is left dangling only when
  an entry that an earlier session left in the wrong list is destroyed, never by
  what happens within one session.

Two keys in one bucket make chains of two, the least that has a parent to update
and a loop to avoid; three sessions let an entry survive one crash and meet
another. A simulation with three keys and three blocks found no error.

`Faults` names two cases that the other properties would only rediscover:
`trim_in_close` is the finding below; `flush_overwritten` is in section 9. Every
crash is in the passing run.

`HandlesReal` disagrees with a comment. `GetEnumeratedEntry()`
(`backend_impl.cc:1751-1757`) says that it is "unfortunate (but possible) for
this entry to be clean, but not actually the real entry", lost from the index and
replaced, and that "this scenario is just a bug". No crash between the stores
modelled here leads to it: an entry that is not in the chain carries the id of an
earlier session and is destroyed. With `trim_in_close` the property does fail,
because an open entry is in the DELETED list; but also then no entry is lost from
the index and replaced (checked on the same instance). What remains for the
comment is damage that the model leaves out: corrupt files, several buckets, the
use of a dangling list.

Finding, `backend_close`: `~EntryImpl()` marks the entry clean, may start an
eviction, and only then does the destructor of `entry_` store a record that
`OnOpenEntryV2()` modified. If the eviction chose this very entry, the late store
brings back `ENTRY_NORMAL` and the addresses of data that has been deleted, for
an entry in the DELETED list.

Abstractions: the reuse count saturates at `HighUse`; the refetch count is a
choice; records and nodes are allocated and freed together; the iteration of
`OpenNextEntry` is the choice of an entry; the orderly end of a session is like a
crash with entries open; `RestartCache` waits for no references. Left out: data
streams and sparse entries, block bitmaps, sizes, eviction with one list,
`DoomAllEntries`, the other calls of `CriticalError`, corrupt files.

Observation: `TrimDeleted()` holds the node `next` across `RemoveDeletedNode()`.
If that dooms an entry whose chain starts with an untrusted entry, in the
DELETED list too, `MatchEntry()` destroys the latter and frees its node, and the
loop goes on with it (TLC reaches this in the third session of the instance). The
copy was discarded, `GetPrev()` loads the zeroed block, `NewEntry(0)` returns
`ERR_INVALID_ADDRESS`, and `backend_impl.cc:1733-1736` deletes the block a second
time: the `STRESS_DCHECK` of `block_files.cc:141` would fail, and the counters of
the block file are decremented once too often. The model lets the step do nothing,
since it has no counters.

## 6. HttpCache

`HttpCache.tla` models `HttpCache` for one key: `active` and `doomed` (the
ActiveEntry of the key and the doomed ones), `entry` with writer, readers,
`pending_queue` and `will_process` (the posted task), `pending_op` (the queue of
work items of which the disk cache executes the first), `backend_op` (those who
wait for the backend), and of the disk cache what it has under the key (`stored`)
and what each entry holds (`data`). `HttpCacheTransaction.tla` adds the state
machine of a transaction, `tr`: the state whose completion it waits for, its
mode, its entry, and the flags that decide the way. All methods are operators
from state to state, since one event may reach many transactions: an action is
the whole chain of calls one event causes. Body and headers are abstracted to
five contents of an entry: empty, headers, part, full, and part with the
truncated flag.

Kinds of request: a normal GET, a prefetch, `LOAD_ONLY_FROM_CACHE`,
`LOAD_BYPASS_CACHE`, an externally conditionalised GET (update), HEAD, PUT and
POST. Opening, creating, reading and writing an entry may fail (the write of a
reader that flips `unused_since_prefetch` only with the fault `toggle_write`), the
network may fail, ask for authentication, answer 304 or anything else, refuse a
resumption; the disk cache may evict the entry; consumers may stop, stop caching,
or destroy a transaction in any state; the lock may time out. A writer that is
destroyed half way asks for the truncated flag (`AddTruncatedFlag()`), with one of
four results (`FlagResults`): `CanResume()` refuses, the write fails while the
destructor waits for it, it is made, or it is accepted and fails later, when no
transaction is left to notice (`flag_write`). `was_cached` is that of `response_`,
and decides whether a network error releases the entry. Two histories serve the
properties alone: `stale` and `unmarked`, see there.

| Run | Instance | What it shows |
|---|---|---|
| `httpcache` | 3 transactions: GETs and cache-only ones, or 2 among which any other kind | `HoldersKnown`, `WaitersQueuedOnce`, `EntriesManaged`, `PartsServedExplained`, `LockSafety` |
| `httpcache_live` | 2 GETs under `FairSpec` | `LockSpec` |
| `httpcache_whole_body` (violation) | 2 transactions, GETs, prefetches, cache-only | `ReadersSeeWholeBody` fails |

`HoldersKnown` and `WaitersQueuedOnce` say that no pointer between entries,
queues and transactions dangles and everyone who waits is called back exactly
once. `EntriesManaged` joins the type invariant, `NoOrphanEntry` (an entry without
holders has its task posted) and `OneOpOrEntry` (an operation in flight or an
active entry, never both; doomed entries are not found again).
`ReadersSeeWholeBody` says that a response served from the cache alone is whole.
The code does not keep that promise: the finding below is one way to break it, and
the faults `resume_send`, `short_eof` and `flag_write` are three more. `unmarked`
remembers that an entry met one of the four, and `PartsServedExplained`, which the
run `httpcache` checks with prefetches and all three faults, says that there is no
fifth: every other part of a body carries the flag, through cancellations,
resumptions, restarts, evictions and failing writes, and is not served as the whole.

`EntryLock.tla` is the abstract specification: a client asks, waits, and is given
an object to write or to read, or is told to do without; an object has one
writer or many readers, is only given when it was free (or read, for reading),
and a writer may turn into a reader. `Lock` instantiates it with the phase of
each transaction; `LockSafety` is the refinement without, `LockSpec` with
liveness: whoever waits does not wait for ever.

Fairness (`FairSpec`): the disk cache and the factory answer, posted tasks run,
the consumer reads on and destroys what is done (weak). The network's progress
is strong, because a transaction may be asked for authentication again and
again, and `ReadEnds` says that bodies end. The timeout of the lock is not
relied upon. Two transactions are enough for one to wait for the other; three,
in the safety run, for a queue behind a reader and a writer.

Finding, `httpcache_whole_body`: `DoCacheToggleUnusedSincePrefetch()` writes the
headers back without the truncated flag although the entry is truncated. If the
resumption then fails, the entry looks whole, and the next reader is served a
part of the body.

Assumptions and bounds: `MaxEntries` entries exist at a time; the disk cache and
the network answer asynchronously; a consumer does not cancel another
transaction from within a callback; a transaction object is used once; stopping
is only possible once the headers are there. Left out: byte ranges asked for by
the consumer, metadata, responses over 2 GB, the other keys (they share nothing
but the backend). `Faults` names the failures after which the code is known to go
wrong. Three are part of the run `httpcache`: `resume_send` (a network error of the
second request of a resumption releases the entry unflagged), `short_eof` (a body
that ends early and `DoneReading()` marks it complete) and `flag_write` (above). One
is kept out: `toggle_write` (the write that flips `unused_since_prefetch` fails in
READ mode: `DoneWritingToEntry()` with readers, DCHECK in `http_cache.cc:896`).

### Proofs

`HttpCacheInvariant.tla` states the inductive invariant and proves what the
methods of HttpCache do to it; `HttpCacheProofs.tla` follows it through the
methods of the transaction, has one lemma per action and the theorems:
`CacheInvariant`, `EntriesAlwaysManaged`, `HoldersAlwaysKnown`,
`WaitersAlwaysQueuedOnce` and `LockImplemented`, which is `LockSafety`, the
refinement of `EntryLock`. They hold for any set of transactions and of kinds of
request, any number of entries and any behaviour of the disk cache and the
network, with or without the failures `resume_send`, `short_eof` and `flag_write`:
these spoil what an entry contains, never who holds it. Their one hypothesis is that
`toggle_write` does not happen, after which the code really does break the lock.

The invariant is `Good(s, L, o)`, about a state `s` instead of the variables,
because one event runs through many states that no other event sees. `L` is the
set of transactions in limbo: an operation has taken them out of their queue and
has yet to tell them so (`OnIOComplete` answers the followers one by one,
`DestroyEntry` restarts a whole queue). They wait and stand in no queue, which is
what the invariant excludes of everybody else. `o` is the one entry that may have
lost its last holder and not yet posted its task. Between two events both are
empty: `IInv == Good(State, {}, None)`. To the checked properties it adds `Roles`:
the mode, the state and the entry of a transaction fit together. Without it
`DoneWritingToEntry()` could be called for an entry that the transaction reads.

The two loops (`FailedWriting` over the queue it restarts, `OnIOComplete` over
the followers) are recursive functions over the prefixes of the queue. That their
values keep `Good` is proved with the least prefix that would not (`UpTo`,
`Least`), where one would otherwise use induction.

For the refinement each lemma about a method also says what it does to the lock:
`Since(s0, s, a)` relates the state before the event, the present one and the
transaction `a` that acts. Everybody but `a` keeps what it has, or is
given one that was free when the event began. The last is the essential point:
an entry that is given up and one that is given are never the same in one event,
because the queue is only served by the posted task. `Step` is the same for a
whole action, and `LockAdvances` turns it into a step of `EntryLock`.

`IInv` was model-checked as well, on the instance of the run `httpcache`, 670,498
states.

### Observations

A PUT whose open timed out does not invalidate the entry; a
consumer that reads on after a 401 in UPDATE mode dooms the previous response,
against the comment at `http_cache_transaction.cc:385`; a HEAD that meets a
truncated entry dooms it; a new reader overtakes a queued writer.

## 7. PrioritizedDispatcher

`PrioritizedDispatcher.tla` models every method of `prioritized_dispatcher.cc`,
and of `priority_queue.h` what it uses: a list per priority, a handle being a
position in a list. `Job::Start()` is client code that may call any method. In all
methods the call is the last thing done, so that re-entrance is just the next
action, except in the loop of `SetLimits()`: `loops` counts the loops on the
stack, `SetLimitsLoop` is one more iteration. `started` (running jobs and the
priority each was started with) and `peak` (the most any limits so far allowed)
are history variables. The destructor is left out.

`dispatcher` (5 jobs, 3 priorities, 4 limits among which none at all, 2 nested
loops) checks `TypeOK`, `JobsTracked`, `NoIdleSlot`, `ReservedSlotsKept`,
`LimitsRoundTrip` and the action property `NoOvertaking`. At most three jobs run
under the largest limits, so that five leave two to be queued and reordered.

`PrioritizedDispatcherProofs.tla` proves all six properties, for any finite set
of jobs, any number of priorities, any set of limits whose reservations do not
exceed the total, and any nesting. The inductive invariant adds to them that the
limits increase with the priority and are below `peak`. The first is what makes
asking only about the first job of the queue enough (`NoneToDispatch`), and
starting a job of one priority harmless to the reservations of the higher ones
(`StartOK`). `LimitsSurvive` needs that the differences of increasing maxima add
up again (`DifferencesSum`), proved by numbering the reserved slots, a bijection,
where an induction over the priorities would be the usual argument.

## 8. HostResolver

`HostResolver.tla` models `HostResolverImpl`, its `Job`s and their `DnsTask`s and
`ProcTask`s over the module PrioritizedDispatcher: `D` is an instance of it whose
jobs are the pairs of a Job and 1 or 2, as a Job whose DnsTask has two
transactions occupies two slots. Every change of the dispatcher's state is one of
`D`'s actions, so the theorems of section 7 hold here too. And because deadlock
is checked, a call that `D` does not allow (a slot asked for twice, given back
twice) would be found: the step on top of the stack could not be taken.

State: `jobs` (the map `jobs_`), `job` (requests, priority, slots, whether
`handle_` is set, the task), `req` (the Job and priority of each request), the
DNS settings (`dns_client`, `config`, `nc_config`, `failures`), and two history
variables: `fresh` of a Job, its lookup began after the last change of the
network, and `outdated`, the keys whose cached result did not. `todo` is the
stack: what the calls under way still have to do. A step makes at most one call
of the dispatcher; if that starts a Job, its `Start()` goes on top. While a
callback is on top the client may call `Resolve()`, cancel, or change a priority,
once per callback.

`resolver` (2 hosts of which one takes two transactions, 2 requests, 2
priorities, 3 Jobs at a time, one queued Job, limits without reserved slots and
with two) checks

* `SlotsAgree`: whenever client code or the message loop runs, the Jobs and the
  dispatcher agree on what runs, what is queued, and at which priority;
* `NobodyForgotten`: every waiting request is attached once to a Job that runs,
  is queued, or is about to answer it, and no Job goes on for nobody;
* `LookupsCurrent`: nothing outdated is cached or, but for Jobs about to be
  aborted, running, and a DnsTask has a configuration (with `TypeOK`, which
  includes that there is no configuration without a client);
* `AllAnswered`: once the clients ask for nothing new, every request is answered.

Two requests let one share a Job or compete for the queue. One place in the queue
makes eviction happen, but with two hosts only the second slot of a running Job
can be the victim. `HostResolverThree.cfg` (3 hosts, 3 requests, no reserved
slots, 3 million states; not in `PROJECT.json`) reaches the other two victims, the
new Job itself and a queued Job that a request waits for, and passes with the same
three invariants. (A victim has one request there, not several; and reserved slots
would only show the finding below again.)

Fairness: a call runs to its end and callbacks return (weak); the lookup of each
Job ends (strong, since between two completions the message loop may run other
things first): transactions and attempts have timeouts. `AllAnswered` does not
depend on further network changes.

Finding, `resolver_handle`: with one reserved slot, `UpdatePriority()` overwrites
the handle that a nested `Schedule(true)` stored with the null handle of
`ChangePriority()`; `Schedule()` has the care that is missing here. The slot then
stays queued after the Job is gone. Reserved slots come from the field trial
`HostResolverDispatch`; the limits of `resolver` are such that a Job which is
started by a change of priority gets its second slot at once.

Abstractions: what is answered without a Job changes nothing here; the cache is
only whether its contents are current; the retries of a ProcTask are one attempt
that ends; the sorting of addresses belongs to the transaction; the initial
configuration is only read while there is none. Left out: cache hit callbacks,
persistence, probes, name collisions, the destruction of the resolver. `Faults`:
`cancel_in_loop` and `overflow_in_callback`, see section 9.

## 9. Further configurations

These are not in `PROJECT.json`'s list of runs. Each shows a place where an
assertion, a comment or a promise does not hold in some order of events; the
condition that keeps it out of the passing runs is named.

| Configuration (module) | Property that fails | What it shows |
|---|---|---|
| `PoolStarvation` (`MCClientSocketPool`) | `NoStarvation` | `CheckForStalledSocketGroups()` offers a free slot once, and its comment (`client_socket_pool_base.cc:931`) says there is no starvation. If the woken request's `Connect()` fails synchronously, nobody else is woken. `pool_live` has no synchronous failures. |
| `PoolSetPriority` (`MCClientSocketPool`) | `SetPriorityFindsRequest` | A handle whose request failed and whose callback is still posted reaches the `NOTREACHED` of `Group::SetPriority()`. |
| `RankingsSizes` (`MCRankings`) | `DecrementAboveZero` | The counter is a store of its own that recovery does not redo; the assertion in `DecrementCounter()` can fail. `SizesDrift` states what remains true. |
| `BlockfileBackendTorn` (`MCBlockfileBackend`) | `ListsKeepHeads` | A crash between the move of an entry to another list and the store of its reuse count or state (`eviction.cc:417-425`, `446-448`): the next `Remove()` is given the wrong list, and if the entry is alone in its list, head and tail keep pointing to it. The passing run has these crashes too and says, with `ListsSound` and `HeadsLostByTornMove`, what remains true. |
| `BlockfileBackendFlush` (`MCBlockfileBackend`) | `CleanIsWhole` | The loop of `~EntryImpl()` keeps the result of the last stream only, so an entry whose earlier stream could not be saved is marked clean (`flush_overwritten`). |
| `HttpCacheInvalidate` (`MCHttpCache`) | `InvalidationSticks` | A POST dooms the entry of its URL while another transaction's `OpenEntry()` is in flight; the Doom queued behind it is answered with `ERR_CACHE_RACE` and nobody tries again, although a successful POST is to "Invalidate any cached GET" (`http_cache_transaction.cc:1505`). |
| `HttpCachePut` (`MCHttpCache`) | `PutHasEntry` | A PUT or DELETE that meets a truncated entry cannot be made conditional, so it starts over with a new entry in WRITE mode; if that one cannot be created its mode becomes NONE, but `DoSendRequestComplete()` sets WRITE again (`http_cache_transaction.cc:1402`) and line 1500 hands a null `entry_` to `DoneWritingToEntry()`, which dereferences it. The passing runs let such a request end like one that passes through. |
| `DispatcherReentrant` (`MCPrioritizedDispatcher`) | `QueuedOnlyAtLimit` | Inside a `Start()` called by `SetLimits()`, the DCHECK of `ChangePriority()` can fail, although the header declares every method safe there. |
| `HostResolverEvict` (`MCHostResolver`) | `EvictedNeverRan` | The second slot of a running Job, queued at the head, is evicted: `DCHECK(!is_running())` of `OnEvicted()`. |
| `HostResolverClient` (`MCHostResolver`) | `FallbackHasClient` | The DNS client is disabled while a Job has fallen back to a ProcTask: `DCHECK(dns_client_)` of `OnDnsTaskResolve()`, which then uses it. |
| `HostResolverLoop` (`MCHostResolver`) | `StackValid` | A callback cancels the last request of a Job that `AbortAllInProgressJobs()` or the iteration of `TryServingAllJobsFromHosts()` has yet to visit (`cancel_in_loop`). |
| `HostResolverOverflow` (`MCHostResolver`) | `SlotsAgree` | A callback run by an eviction resolves the host whose Job is being created; `jobs_[key] = ...` then destroys the newer Job while it is queued or running (`overflow_in_callback`). |

## 10. What is only model-checked

Liveness (`NoStarvation`, `AllAnswered`, `LockSpec`), which is beyond the prover;
`PartsServedExplained` of HttpCache; `SelfCheckExact` of Rankings, whose `CheckList`
is recursive; everything about BlockfileBackend and HostResolver.
The violations are counterexamples and need no proof.

## 11. What is not modelled

See the components with status `not_modelled` in `PROJECT.json`. Codecs, parsers,
certificates and cryptography are data without much control. QUIC is a protocol
stack as large as everything here together. The others are in the plan.

## 12. Running it

    tlc -workers 2 -config PoolLimits.cfg MCClientSocketPool
    tlapm ClientSocketPoolSlots.tla

`PROJECT.json` names the module and configuration of each run, for each property
a mutated definition that violates it (the operators under a "Mutant" comment),
and for each definition the lines of the source it stands for.
