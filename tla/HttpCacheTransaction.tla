------------------------ MODULE HttpCacheTransaction ------------------------
(***************************************************************************)
(* HttpCache::Transaction of http/http_cache_transaction.cc over HttpCache.*)
(* A transaction is in the state whose completion it waits for, which is   *)
(* next_state_ without its _COMPLETE, or in HEADERS and AUTH when it has   *)
(* returned a response and waits for its consumer, or in DONE when only    *)
(* its destruction is left. States that follow without waiting are         *)
(* operators. Byte ranges asked for by the consumer are left out; the      *)
(* resumption of a truncated entry, which uses the same code, is not.      *)
(***************************************************************************)
EXTENDS HttpCache

GetKinds == {"get", "prefetch", "bypass", "only", "update"}

\* The requested mode of DoGetBackendComplete(); a POST without an identifier
\* passes through.
ModeOf(kind) ==
  CASE kind = "only" -> "READ"
    [] kind = "bypass" -> "WRITE"
    [] kind = "update" -> "UPDATE"
    [] kind = "post" -> "NONE"
    [] OTHER -> "READ_WRITE"

\* DoGetBackendComplete() and ShouldPassThrough(). Also the restart of a
\* transaction that could not read its entry.
GetBackendComplete(s, t) ==
  LET mode == IF s.disk_cache = "up" THEN ModeOf(s.tr[t].kind) ELSE "NONE"
      s1 == [s EXCEPT !.tr[t] = [Idle EXCEPT !.kind = s.tr[t].kind,
                                             !.mode = mode]]
  IN CASE mode # "NONE" -> InitEntry(s1, t)
       [] mode = "NONE" /\ s.tr[t].kind = "only" ->
            [s1 EXCEPT !.tr[t].st = "DONE"]
       [] OTHER -> PassThrough(s1, t)

-----------------------------------------------------------------------------
(* Operators for the states that do not wait. *)

Finish(s, t) == [s EXCEPT !.tr[t].st = "DONE"]

\* DoomPartialEntry(). The entry may be doomed already: then DoomEntry(key,
\* NULL) meets another active entry or none.
DoomPartialEntry(s, t) ==
  LET s1 == DoneWithEntry(DoomEntry(s), t, FALSE, "refused")
  IN [s1 EXCEPT !.tr[t].entry = None, !.tr[t].mode = "NONE",
                !.tr[t].resume = FALSE, !.tr[t].truncated = FALSE]

\* OnCacheReadError() with restart.
RestartAfterReadError(s, t) ==
  GetBackendComplete(DoneWithEntry(DoomActiveEntry(s), t, FALSE, "refused"), t)

\* DoRestartPartialRequest().
RestartPartialRequest(s, t) ==
  CreateEntry([DoomPartialEntry(s, t) EXCEPT !.tr[t].mode = "WRITE"], t)

\* DoCacheDispatchValidation(), with BeginCacheRead(),
\* BeginPartialCacheValidation(), BeginCacheValidation(), SetupEntryForRead()
\* and BeginExternallyConditionalizedRequest(). "valid" is what
\* RequiresValidation() finds, "conditional" whether ConditionalizeRequest()
\* succeeds (never for a PUT or DELETE); for UPDATE, "valid" says that the
\* request validates this entry.
DispatchValidation(s, t, valid, conditional) ==
  LET T == s.tr[t]
      usable == valid /\ ~T.truncated
      resume == T.truncated /\ T.kind # "head"
      Go(st) == [s EXCEPT !.tr[t].st = st]
      Ask(c) == [Go("SEND_REQUEST") EXCEPT !.tr[t].conditional = c]
  IN CASE T.mode = "READ" -> Go(IF usable THEN "HEADERS" ELSE "DONE")
       [] T.mode = "UPDATE" ->
            IF usable THEN Ask(TRUE)
            ELSE PassThrough(DoneWritingToEntry(s, t, TRUE), t)
       [] T.mode = "READ_WRITE" /\ resume ->
            [Go("CACHE_QUERY_DATA") EXCEPT !.tr[t].resume = TRUE]
       [] T.mode = "READ_WRITE" /\ T.kind = "put" /\ ~resume -> Ask(FALSE)
       [] T.mode = "READ_WRITE" /\ T.kind # "put" /\ ~resume /\ valid ->
            [ConvertWriterToReader(s, t) EXCEPT !.tr[t].st = "HEADERS"]
       [] T.mode = "READ_WRITE" /\ T.kind # "put" /\ ~resume /\ ~valid ->
            IF T.truncated THEN PassThrough(s, t) ELSE Ask(conditional)
       [] T.mode = "NONE" -> Go("DONE")

\* WriteResponseInfoToEntry(false) stores the headers without the flag.
Unflagged(body) == IF body = "truncated" THEN "part" ELSE body

\* DoUpdateCachedResponseComplete().
UpdateCachedResponseComplete(s, t) ==
  CASE s.tr[t].mode = "UPDATE" -> Finish(DoneWritingToEntry(s, t, TRUE), t)
    [] s.tr[t].mode # "UPDATE" /\ ~s.tr[t].resume ->
         [ConvertWriterToReader(s, t) EXCEPT !.tr[t].st = "HEADERS"]
    [] OTHER -> [s EXCEPT !.tr[t].st =
                   IF s.tr[t].reading THEN "NETWORK_READ" ELSE "HEADERS"]

\* DoUpdateCachedResponse(): the headers that are written back never carry the
\* truncated flag.
UpdateCachedResponse(s, t, no_store) ==
  LET e == s.tr[t].entry
      updated == [s.data[e] EXCEPT !.body = Unflagged(@), !.stale = FALSE,
                                   !.unused = s.tr[t].kind = "prefetch"]
  IN CASE no_store ->
            UpdateCachedResponseComplete(
              IF e \in s.doomed THEN s ELSE DoomActiveEntry(s), t)
       [] ~no_store /\ s.tr[t].reading -> UpdateCachedResponseComplete(s, t)
       [] OTHER -> [s EXCEPT !.data[e] = updated,
                             !.tr[t].st = "CACHE_WRITE_UPDATED_RESPONSE"]

\* DoOverwriteCachedResponse() and DoCacheWriteResponse(): the response
\* replaces what the entry holds, unless it must not be stored.
OverwriteCachedResponse(s, t, no_store) ==
  IF s.tr[t].kind = "head" \/ no_store
  THEN Finish(DoneWritingToEntry(s, t, FALSE), t)
  ELSE [s EXCEPT !.data[s.tr[t].entry] =
                   [NoData EXCEPT !.body = "headers",
                                  !.unused = s.tr[t].kind = "prefetch"],
                 !.tr[t].resume = FALSE,
                 !.tr[t].st = "CACHE_WRITE_RESPONSE"]

\* A POST or PUT has succeeded: what was received before is out of date.
Outdate(s) ==
  [s EXCEPT !.data = [e \in Ids |->
     [@[e] EXCEPT !.stale = s.data[e].body # "empty"]]]

-----------------------------------------------------------------------------
(* What the consumer does. *)

\* The bound on what is started together.
MayStart(t, kind) ==
  LET started == {u \in Trans : tr[u].st # "IDLE"} \cup {t}
  IN \/ Cardinality(started) <= MaxMixed
     \/ ({kind} \cup {tr[u].kind : u \in started \ {t}}) \cap MixedKinds = {}

\* CreateTransaction() and Start(); the first one creates the backend.
Start(t, kind) ==
  LET s == [State EXCEPT !.tr[t].kind = kind]
      first == backend_op = <<>>
  IN /\ tr[t].st = "IDLE"
     /\ kind \in Kinds /\ MayStart(t, kind)
     /\ IF disk_cache = "up" \/ (disk_cache = "failed" /\ first)
        THEN Become(GetBackendComplete(s, t))
        ELSE Become([s EXCEPT !.backend_op = IF first THEN <<None, t>>
                                             ELSE Append(@, t),
                              !.tr[t].st = "GET_BACKEND"])

\* The restart after authentication, or of a request whose certificate was
\* accepted: RestartNetworkRequest() and its variants.
RestartRequest(t) ==
  /\ tr[t].st = "AUTH"
  /\ Become([State EXCEPT !.tr[t].st = "SEND_REQUEST"])

\* Read() in all its uses: of the page that asks for credentials, of a response
\* that comes from the network, and of one that comes from the cache. A request
\* that passes through keeps the entry it may have (a HEAD of a truncated one).
Read(t) ==
  LET s == [State EXCEPT !.tr[t].reading = TRUE]
      cached == tr[t].mode = "READ" \/ tr[t].resume
  IN \/ /\ tr[t].st = "AUTH"
        /\ Become(Finish(IF tr[t].mode = "NONE" THEN s
                         ELSE DoneWritingToEntry(s, t, tr[t].mode = "READ_WRITE"), t))
     \/ /\ tr[t].st = "HEADERS"
        /\ Become([s EXCEPT !.tr[t].st = IF cached THEN "CACHE_READ_DATA"
                                         ELSE "NETWORK_READ"])

\* DoneReading() before the first Read(): a redirect, whose body is ignored.
DoneReading(t) ==
  LET whole == [State EXCEPT !.data[tr[t].entry].body = "full"]
  IN /\ tr[t].st = "HEADERS" /\ ~tr[t].resume
     /\ Become(CASE tr[t].mode = "WRITE" ->
                      Finish(DoneWritingToEntry(whole, t, TRUE), t)
                 [] tr[t].mode = "READ" ->
                      Finish(DoneReadingFromEntry(State, t), t)
                 [] OTHER -> Finish(State, t))

\* StopCaching() once the consumer has the headers. The lock is kept.
StopCaching(t) ==
  /\ \/ tr[t].st = "HEADERS" /\ tr[t].mode = "WRITE"
     \/ tr[t].st = "NETWORK_READ" /\ Writes(tr[t].mode)
  /\ Become([State EXCEPT !.tr[t].mode = "NONE"])

\* ~Transaction(). What was read of a 200, or of an entry that was being resumed,
\* is worth keeping ("cancel"); AddTruncatedFlag() is asked for no other.
Destroy(t) ==
  \E cancel \in BOOLEAN, flag \in FlagResults :
    LET s == CASE tr[t].entry # None -> DoneWithEntry(State, t, cancel, flag)
               [] tr[t].st \in WaitStates -> RemovePendingTransaction(State, t)
               [] OTHER -> State
    IN /\ tr[t].st \notin {"IDLE", "GONE"}
       /\ cancel => tr[t].reading
       /\ tr[t].reading /\ tr[t].resume => cancel
       /\ flag # "refused" => cancel /\ tr[t].kind \in GetKinds
       /\ flag = "lost" => "flag_write" \in Faults
       /\ Become([s EXCEPT !.tr[t] = [Idle EXCEPT !.kind = tr[t].kind,
                                                   !.st = "GONE"]])

-----------------------------------------------------------------------------
(* What the cache's own tasks and the disk cache do. *)

\* OnBackendCreated(), called by the factory and then posted once for every
\* transaction that waits.
BackendCreated(ok) ==
  LET s == [State EXCEPT
              !.disk_cache = IF @ # "none" THEN @
                             ELSE IF ok THEN "up" ELSE "failed",
              !.backend_op = Tail(@)]
  IN /\ backend_op # <<>>
     /\ disk_cache = "none" \/ ok = (disk_cache = "up")
     /\ Become(IF Head(backend_op) = None THEN s
               ELSE GetBackendComplete(s, Head(backend_op)))

\* The disk cache answers the first work item: an existing entry is opened or
\* doomed; one is created if there is none, but that may fail as well.
PendingOpComplete(ok) ==
  LET op == Head(pending_op).operation
      free == Ids \ (Live(State) \cup {stored})
  IN /\ pending_op # <<>>
     /\ IF op = "CREATE_ENTRY"
        THEN ok => stored = None /\ free # {}
        ELSE ok = (stored # None)
     /\ Become(OnIOComplete(State, ok,
                 IF op = "CREATE_ENTRY" /\ ok
                 THEN CHOOSE e \in free : \A f \in free : e <= f ELSE None))

ProcessQueue(e) ==
  /\ entry[e].will_process
  /\ Become(OnProcessPendingQueue(State, e))

\* OnAddToEntryTimeout(): 20 s, or 25 ms, have passed without the lock.
AddToEntryTimeout(t) ==
  LET s == RemovePendingTransaction(State, t)
  IN /\ tr[t].st = "ADD_TO_ENTRY"
     /\ Become(IF tr[t].mode = "READ" THEN Finish(s, t) ELSE PassThrough(s, t))

\* The disk cache evicts the entry, open or not.
Evict ==
  /\ stored # None
  /\ Become([State EXCEPT !.stored = None,
                          !.data[stored] = IF stored \in Live(State) THEN @
                                           ELSE NoData])

\* DoCacheToggleUnusedSincePrefetch() also writes the headers without the flag.
Toggled(d) ==
  [d EXCEPT !.unused = ~@, !.body = Unflagged(@),
            !.unmarked = @ \/ d.body = "truncated"]

\* DoCacheReadResponseComplete(): the headers cannot be read, or they are and
\* the entry's unused_since_prefetch may first have to be flipped.
ReadResponseComplete(t) ==
  LET e == tr[t].entry
      toggle == data[e].unused # (tr[t].kind = "prefetch")
      s == [State EXCEPT !.tr[t].truncated = data[e].body = "truncated",
                         !.tr[t].was_cached = TRUE]
  IN /\ tr[t].st = "CACHE_READ_RESPONSE"
     /\ \/ Become(RestartAfterReadError(State, t))
        \/ /\ data[e].body # "empty" /\ toggle
           /\ Become([s EXCEPT !.data[e] = Toggled(@),
                               !.tr[t].st = "TOGGLE_UNUSED"])
        \/ /\ data[e].body # "empty" /\ ~toggle
           /\ \E valid, conditional \in BOOLEAN :
                Become(DispatchValidation(s, t, valid, conditional))

\* DoCacheToggleUnusedSincePrefetchComplete(). If the headers could not be
\* written the entry is given up and no mode is left to dispatch on. For a
\* reader, which holds no lock that would allow this, see "toggle_write".
ToggleComplete(t) ==
  /\ tr[t].st = "TOGGLE_UNUSED"
  /\ \/ \E valid, conditional \in BOOLEAN :
          Become(DispatchValidation(State, t, valid, conditional))
     \/ /\ tr[t].mode # "READ" \/ "toggle_write" \in Faults
        /\ Become(DispatchValidation(DoneWritingToEntry(State, t, FALSE), t,
                                     FALSE, FALSE))

\* ValidateEntryHeadersAndContinue() of a truncated entry: the rest is asked
\* for, or the entry cannot be used and the request starts anew. That is always
\* so for a PUT or DELETE, which ConditionalizeRequest() refuses.
QueryDataComplete(t) ==
  /\ tr[t].st = "CACHE_QUERY_DATA"
  /\ \/ /\ tr[t].kind # "put"
        /\ Become([State EXCEPT !.tr[t].conditional = TRUE,
                                !.tr[t].st = "SEND_REQUEST"])
     \/ Become(RestartPartialRequest(State, t))

-----------------------------------------------------------------------------
(* What the network does: DoSendRequestComplete(), which turns a request    *)
(* that could not be made conditional into a plain write, and               *)
(* DoSuccessfulSendRequest() with ValidatePartialResponse().                *)

Responded(t) ==
  [State EXCEPT !.tr[t].mode =
     IF @ = "READ_WRITE" /\ ~tr[t].conditional THEN "WRITE" ELSE @]

\* An entry that is released as it is, whatever it holds.
LeftAsIs(s, t) ==
  IF s.tr[t].entry # None /\ s.data[s.tr[t].entry].body = "part"
  THEN [s EXCEPT !.data[s.tr[t].entry].unmarked = TRUE] ELSE s

\* A network error. If response_ came from an entry (was_cached), the entry is
\* released as it is: also one that was being resumed, whose headers have already
\* been written back without the flag ("resume_send"), and the empty one that
\* DoRestartPartialRequest() has created in place of the one that was read.
SendFails(t) ==
  LET s == Responded(t)
  IN /\ tr[t].st = "SEND_REQUEST"
     /\ tr[t].reading => "resume_send" \in Faults
     /\ Become(Finish(IF tr[t].was_cached
                      THEN DoneWritingToEntry(LeftAsIs(s, t), t, TRUE) ELSE s, t))

\* 401 or 407, or a certificate error: the consumer decides.
AuthRequired(t) ==
  /\ tr[t].st = "SEND_REQUEST" /\ ~tr[t].reading
  /\ Become([Responded(t) EXCEPT !.tr[t].st = "AUTH"])

\* Nothing is cached for this request. A successful POST dooms what is cached
\* for the URL; a PUT that passes through does not. (A PUT that had to restart and
\* could not create its entry is let through here: see PutHasEntry.)
PassThroughResponse(t) ==
  /\ tr[t].st = "SEND_REQUEST" /\ tr[t].entry = None
  /\ \/ Become(Finish(State, t))
     \/ /\ tr[t].kind = "post"
        /\ Become(Finish(DoomMainEntry(Outdate(State)), t))
     \/ /\ tr[t].kind = "put"
        /\ Become(Finish(Outdate(State), t))

\* A PUT or DELETE that holds the entry: success dooms it.
PutResponse(t) ==
  LET s == Responded(t)
  IN /\ tr[t].st = "SEND_REQUEST" /\ tr[t].entry # None /\ tr[t].kind = "put"
     /\ \/ Become(Finish(DoneWritingToEntry(s, t, TRUE), t))
        \/ Become(Finish(DoneWritingToEntry(DoomEntry(Outdate(s)), t, TRUE), t))

\* 304 to a conditional request, or 206 to the resumption of an entry.
NotModified(t) ==
  /\ tr[t].st = "SEND_REQUEST" /\ tr[t].entry # None /\ tr[t].conditional
  /\ \E no_store \in BOOLEAN :
       Become(UpdateCachedResponse(Responded(t), t, no_store))

\* 200, or anything else that replaces what is cached. It is too late for that
\* when a part of the old body was already read.
Modified(t) ==
  LET s == Responded(t)
  IN /\ tr[t].st = "SEND_REQUEST" /\ tr[t].entry # None
     /\ tr[t].kind # "put" /\ ~tr[t].reading
     /\ \E no_store \in BOOLEAN :
          Become(OverwriteCachedResponse(
                   [s EXCEPT !.tr[t].mode = IF @ = "NONE" THEN @ ELSE "WRITE"],
                   t, no_store))

\* The resumption was refused (a 200 or 401 after data was read, 416, or a
\* range that does not fit): the entry is doomed, and the request is sent
\* again if nothing was returned yet.
PartialRejected(t) ==
  LET s == DoomPartialEntry(State, t)
  IN /\ tr[t].st = "SEND_REQUEST" /\ tr[t].resume
     /\ Become(IF tr[t].reading THEN Finish(s, t) ELSE PassThrough(s, t))

\* DoNetworkReadComplete(): more data; the end; or an error, after which the
\* destructor decides what to keep. The end is DoCacheWriteDataComplete(0) and
\* the consumer's DoneReading(), which does not ask whether all has arrived
\* ("short_eof").
NetworkReadComplete(t) ==
  LET Ended(body) ==
        [State EXCEPT !.data[tr[t].entry] =
           [@ EXCEPT !.body = body, !.unmarked = body # "full"]]
  IN /\ tr[t].st = "NETWORK_READ"
     /\ \/ /\ tr[t].mode # "NONE"
           /\ Become([State EXCEPT !.tr[t].st = "CACHE_WRITE_DATA"])
        \/ /\ tr[t].mode # "NONE"
           /\ \E body \in {"full"} \cup
                   (IF "short_eof" \in Faults THEN {data[tr[t].entry].body}
                    ELSE {}) :
                Become(Finish(DoneWritingToEntry(Ended(body), t, TRUE), t))
        \/ Become(Finish(State, t))

-----------------------------------------------------------------------------
(* What the disk cache does with the data. *)

\* DoCacheWriteUpdatedResponseComplete().
UpdatedResponseWritten(t) ==
  /\ tr[t].st = "CACHE_WRITE_UPDATED_RESPONSE"
  /\ \/ Become(UpdateCachedResponseComplete(State, t))
     \/ Become(Finish(DoneWritingToEntry(State, t, FALSE), t))

\* DoCacheWriteResponseComplete(), and the truncation of the old data.
ResponseWritten(t) ==
  /\ tr[t].st = "CACHE_WRITE_RESPONSE"
  /\ \/ Become([State EXCEPT !.tr[t].st = "HEADERS"])
     \/ Become(Finish(DoneWritingToEntry(State, t, FALSE), t))

\* DoCacheWriteDataComplete(): a part or the last part was written, or the
\* write failed and the request goes on without the cache.
DataWritten(t) ==
  /\ tr[t].st = "CACHE_WRITE_DATA"
  /\ \/ \E body \in {"part", "full"} :
          Become([State EXCEPT !.data[tr[t].entry].body = body,
                               !.tr[t].st = "NETWORK_READ"])
     \/ Become(Finish(DoneWritingToEntry(State, t, FALSE), t))

\* DoCacheReadDataComplete(): the end of what is cached, after which a resumed
\* request asks for the rest; or OnCacheReadError() without restart.
DataRead(t) ==
  /\ tr[t].st = "CACHE_READ_DATA"
  /\ \/ /\ tr[t].resume
        /\ Become([State EXCEPT !.tr[t].st = "SEND_REQUEST"])
     \/ /\ ~tr[t].resume
        /\ Become(Finish(DoneReadingFromEntry(State, t), t))
     \/ Become(Finish(DoomActiveEntry(State), t))

-----------------------------------------------------------------------------
\* The cache starts without a backend; the key may have been stored before,
\* whole (perhaps by a prefetch that nobody used yet) or truncated.
Init ==
  /\ disk_cache = "none"
  /\ backend_op = <<>>
  /\ active = None
  /\ doomed = {}
  /\ entry = [e \in Ids |-> FreeEntry]
  /\ pending_op = <<>>
  /\ tr = [t \in Trans |-> Idle]
  /\ \/ stored = None /\ data = [e \in Ids |-> NoData]
     \/ /\ stored = 1
        /\ \E d \in {[NoData EXCEPT !.body = "full"],
                     [NoData EXCEPT !.body = "full", !.unused = TRUE],
                     [NoData EXCEPT !.body = "truncated"]} :
             data = [e \in Ids |-> IF e = 1 THEN d ELSE NoData]

\* Events that follow by themselves once they are possible.
Progress(t) ==
  \/ ReadResponseComplete(t) \/ ToggleComplete(t) \/ QueryDataComplete(t)
  \/ SendFails(t) \/ PassThroughResponse(t) \/ PutResponse(t)
  \/ NotModified(t) \/ Modified(t) \/ PartialRejected(t)
  \/ NetworkReadComplete(t) \/ UpdatedResponseWritten(t) \/ ResponseWritten(t)
  \/ DataWritten(t) \/ DataRead(t)

CacheProgress ==
  \/ \E ok \in BOOLEAN : BackendCreated(ok) \/ PendingOpComplete(ok)
  \/ \E e \in Ids : ProcessQueue(e)

Next ==
  \/ CacheProgress
  \/ Evict
  \/ \E t \in Trans :
       \/ \E kind \in Kinds : Start(t, kind)
       \/ Progress(t)
       \/ AuthRequired(t) \/ RestartRequest(t)
       \/ Read(t) \/ DoneReading(t) \/ StopCaching(t)
       \/ AddToEntryTimeout(t) \/ Destroy(t)

Spec == Init /\ [][Next]_vars

-----------------------------------------------------------------------------
(* Fairness. The disk cache, the network and the message loop answer what    *)
(* they are asked, a body ends, and a consumer reads what it is given and     *)
(* destroys what is done. The timeout of the lock is not relied upon.         *)

ReadEnds(t) == NetworkReadComplete(t) /\ tr'[t].st = "DONE"

ConsumerActs(t) ==
  \/ Read(t) \/ RestartRequest(t)
  \/ tr[t].st = "DONE" /\ Destroy(t)

FairSpec ==
  /\ Spec
  /\ WF_vars(\E ok \in BOOLEAN : BackendCreated(ok))
  /\ WF_vars(\E ok \in BOOLEAN : PendingOpComplete(ok))
  /\ \A e \in Ids : WF_vars(ProcessQueue(e))
  /\ \A t \in Trans : SF_vars(Progress(t)) /\ SF_vars(ReadEnds(t))
                                           /\ WF_vars(ConsumerActs(t))

-----------------------------------------------------------------------------
(* Properties. *)

\* Only the work item that is being executed, or one that was made to doom the
\* entry of a URL, may be without a transaction: the others are erased with it.
TypeOK ==
  /\ disk_cache \in {"none", "up", "failed"}
  /\ backend_op \in Seq(Trans \cup {None})
  /\ \A i \in DOMAIN backend_op : i > 1 => backend_op[i] # None
  /\ active \in Ids \cup {None}
  /\ doomed \subseteq Ids
  /\ entry \in [Ids -> [writer : Trans \cup {None}, readers : SUBSET Trans,
                        pending_queue : Seq(Trans), will_process : BOOLEAN]]
  /\ pending_op \in Seq([operation : WorkItemStates, trans : Trans \cup {None}])
  /\ \A i \in DOMAIN pending_op :
       i > 1 /\ pending_op[i].trans = None =>
         pending_op[i].operation = "DOOM_ENTRY"
  /\ stored \in Ids \cup {None}
  /\ data \in [Ids -> [body : Bodies, unused : BOOLEAN, stale : BOOLEAN,
                      unmarked : BOOLEAN]]
  /\ tr \in [Trans -> [kind : Kinds \cup {None}, st : States, mode : Modes,
                       entry : Ids \cup {None}, conditional : BOOLEAN,
                       truncated : BOOLEAN, resume : BOOLEAN,
                       reading : BOOLEAN, was_cached : BOOLEAN]]

\* The two sides of the lock agree: an entry's writer and readers are exactly
\* the transactions that keep a pointer to it, and that entry is alive. A
\* transaction that kept a pointer to a destroyed ActiveEntry, or an entry that
\* kept a destroyed Transaction, would be a use after free.
HoldersKnown ==
  \A e \in Ids :
    /\ entry[e] # FreeEntry => e \in Live(State)
    /\ {t \in Trans : tr[t].entry = e} =
         entry[e].readers \cup ({entry[e].writer} \ {None})

\* Whoever waits for the cache is in exactly one place that will call it back,
\* once; and nobody else is called back.
Places(t) ==
  [backend |-> {i \in DOMAIN backend_op : backend_op[i] = t},
   work    |-> {i \in DOMAIN pending_op : pending_op[i].trans = t},
   lock    |-> UNION {{<<e, i>> : i \in {j \in DOMAIN entry[e].pending_queue :
                                           entry[e].pending_queue[j] = t}}
                      : e \in Ids}]

WaitersQueuedOnce ==
  \A t \in Trans :
    LET P == Places(t)
        here == <<Cardinality(P.backend), Cardinality(P.work),
                  Cardinality(P.lock)>>
    IN /\ here = CASE tr[t].st = "GET_BACKEND" -> <<1, 0, 0>>
                   [] tr[t].st \in WorkItemStates -> <<0, 1, 0>>
                   [] tr[t].st = "ADD_TO_ENTRY" -> <<0, 0, 1>>
                   [] OTHER -> <<0, 0, 0>>
       /\ \A i \in P.work : pending_op[i].operation = tr[t].st

\* No lost wake-up: an entry that nobody writes or reads has a task posted that
\* will close it or promote the next in its queue. DoomEntry() relies on it
\* (DCHECK(entry->writer || !entry->readers.empty() || ...)).
NoOrphanEntry ==
  \A e \in Live(State) : \/ entry[e].writer # None
                         \/ entry[e].readers # {}
                         \/ entry[e].will_process

\* The key has an active entry or an operation of the disk cache in flight,
\* never both: ActivateEntry() and DeactivateEntry() rely on it. And what the
\* disk cache finds under the key is never a doomed entry: no new transaction
\* gets at one.
OneOpOrEntry ==
  /\ active # None => pending_op = <<>>
  /\ stored \notin doomed
  /\ active \notin doomed

\* The entries of the key are managed as DoomEntry(), ActivateEntry() and
\* DeactivateEntry() assume: no lost wake-up, one operation or one active entry,
\* no way back to a doomed entry, and every variable of its type.
EntriesManaged == TypeOK /\ NoOrphanEntry /\ OneOpOrEntry

\* The transaction serves a response from the cache alone.
Serves(t) ==
  /\ tr[t].mode = "READ" /\ tr[t].entry # None /\ tr[t].kind # "head"
  /\ tr[t].st \in {"HEADERS", "CACHE_READ_DATA"}

\* A transaction that serves a response from the cache alone serves all of it:
\* what a cancelled writer left behind is flagged, and the flag is respected.
ReadersSeeWholeBody ==
  \A t \in Trans : Serves(t) => data[tr[t].entry].body = "full"

\* A part of a body is served as if it were the whole in no more than four ways:
\* the flag was dropped by the toggling of unused_since_prefetch; an interrupted
\* resumption was released as it was; a connection ended early and nobody asked
\* whether all had arrived; or the disk failed to write the flag once the
\* cancelled transaction was gone. In every other case AddTruncatedFlag() marks
\* what is left behind, through cancellations, resumptions, restarts and failing
\* writes, and those who come later respect the flag.
PartsServedExplained ==
  \A t \in Trans : Serves(t) =>
    data[tr[t].entry].body = "full" \/ data[tr[t].entry].unmarked

\* DoSuccessfulSendRequest() of a PUT or DELETE that could not be made conditional
\* is in WRITE mode and hands entry_ to HttpCache::DoneWritingToEntry(), which
\* dereferences it.
PutHasEntry ==
  \A t \in Trans :
    tr[t].kind = "put" /\ tr[t].st = "SEND_REQUEST" /\ tr[t].was_cached =>
      tr[t].entry # None

\* "Invalidate any cached GET with a successful POST" (DoSuccessfulSendRequest):
\* what was stored before the POST is no longer found, or will not be once the
\* queued work item is executed.
InvalidationSticks ==
  disk_cache = "up" /\ stored # None /\ data[stored].stale =>
    \E i \in DOMAIN pending_op : pending_op[i].operation = "DOOM_ENTRY"

\* The lock that the transactions see implements EntryLock: shared reading,
\* exclusive writing, no step from one holder to the next, and nobody waits for
\* ever, without the help of the timeout.
Phase(t) ==
  CASE tr[t].st \in WaitStates -> "waiting"
    [] tr[t].entry # None /\ entry[tr[t].entry].writer = t -> "writing"
    [] tr[t].entry # None /\ t \in entry[tr[t].entry].readers -> "reading"
    [] OTHER -> "outside"

Lock == INSTANCE EntryLock WITH
  Clients <- Trans, Objects <- Ids, Nothing <- None,
  phase <- [t \in Trans |-> Phase(t)], object <- [t \in Trans |-> tr[t].entry]

LockSafety == Lock!Safety
LockSpec == Lock!Spec
=============================================================================
