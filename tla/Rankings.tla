------------------------------ MODULE Rankings ------------------------------
(***************************************************************************)
(* The LRU lists of the blockfile disk cache                               *)
(* (disk_cache/blockfile/rankings.cc).                                     *)
(*                                                                         *)
(* A list is doubly linked through rankings blocks that live in a memory   *)
(* mapped file; its head, tail and length live in LruData, in the mapped   *)
(* header of the index.  Both survive a crash of the process exactly as    *)
(* far as they were written.  Insert() and Remove() are sequences of such  *)
(* stores, and the transaction record they keep in LruData lets the next   *)
(* Init() finish the one (FinishInsert) and revert the other               *)
(* (RevertRemove).                                                         *)
(*                                                                         *)
(* Every method runs to its end on the cache thread, so the values it      *)
(* stores are fixed when it is called; only a crash can come between two   *)
(* stores.  A call is therefore modelled by the sequence of its stores, in *)
(* program order, in `todo'; Store performs the first of them, Crash       *)
(* forgets the rest together with everything that is only in memory.       *)
(***************************************************************************)
EXTENDS Integers, Sequences, FiniteSets

CONSTANTS
    Nodes,          \* addresses of rankings blocks
    Lists,          \* NO_USE, LOW_USE, HIGH_USE, DELETED
    Iters,          \* blocks held by enumerations and by the eviction
    NoAddr,         \* the address 0
    None,           \* no value: no data, no operation, a free iterator
    MaxCrashes      \* bound on crashes in one behaviour

ASSUME NoAddrAssumption == NoAddr \notin Nodes /\ None \notin Nodes \cup Lists
ASSUME CrashAssumption == MaxCrashes \in Nat

VARIABLES
    d,        \* what is on disk: the blocks' links and LruData
    mem,      \* heads_ and tails_
    iters,    \* iterators_: the blocks that are tracked, with their cached data
    todo,     \* the stores the running call still has to make
    reinsert, \* the Insert() its caller makes after the running Remove()
    status,   \* "up", "down", "init" and "recovering" (in Init), "disabled" (CriticalError)
    crashes,  \* history: how often the process has crashed
    torn,     \* history: has a crash come between the two transactions of FinishInsert(),
              \* in the life of these files?
    lru       \* history: the lists the calls so far have built

vars == <<d, mem, iters, todo, reinsert, status, crashes, torn, lru>>

Addrs == Nodes \cup {NoAddr}
Links == [prev : Addrs, next : Addrs]
Out == [prev |-> NoAddr, next |-> NoAddr]
NoEnds == [heads |-> [l \in Lists |-> NoAddr], tails |-> [l \in Lists |-> NoAddr]]
Operations == {None, "INSERT", "REMOVE"}

Listed(n, l) == \E i \in 1..Len(lru[l]) : lru[l][i] = n

\* A sequence without its i-th element, and without an element that is in it at
\* most once.
Cut(s, i) == [k \in 1 .. Len(s) - 1 |-> IF k < i THEN s[k] ELSE s[k + 1]]
Without(s, n) ==
    IF \E i \in 1..Len(s) : s[i] = n THEN Cut(s, CHOOSE i \in 1..Len(s) : s[i] = n)
                                     ELSE s

(***************************************************************************)
(* Stores.  `at' is the field of the disk state, `key' the block or list.  *)
(***************************************************************************)
StoreLinks(n, links) == [at |-> "links", key |-> n, val |-> links]
WriteHead(l, a) == [at |-> "heads", key |-> l, val |-> a]
WriteTail(l, a) == [at |-> "tails", key |-> l, val |-> a]
WriteSize(l, s) == [at |-> "sizes", key |-> l, val |-> s]
SetField(f, v) == [at |-> f, key |-> None, val |-> v]

Written(w) ==
    IF w.key = None THEN [d EXCEPT ![w.at] = w.val]
                    ELSE [d EXCEPT ![w.at][w.key] = w.val]

\* The constructor and the destructor of class Transaction.
BeginTransaction(n, op, l) ==
    <<SetField("operation", op), SetField("operation_list", l),
      SetField("transaction", n)>>
EndTransaction ==
    <<SetField("transaction", NoAddr), SetField("operation", None),
      SetField("operation_list", None)>>

IncrementCounter(l) == WriteSize(l, d.sizes[l] + 1)

\* Mutant: a counter that is never lowered.
DecrementCounterNever(l) == WriteSize(l, d.sizes[l])

DecrementCounter(l) ==
    WriteSize(l, IF d.sizes[l] > 0 THEN d.sizes[l] - 1 ELSE d.sizes[l])

(***************************************************************************)
(* Checks on a block and its neighbours.                                   *)
(***************************************************************************)
IsHead(a) == \E l \in Lists : mem.heads[l] = a
IsTail(a) == \E l \in Lists : mem.tails[l] = a
HeadList(a) == CHOOSE l \in Lists : mem.heads[l] = a
TailList(a) == CHOOSE l \in Lists : mem.tails[l] = a

\* SanityCheck(node, true) on the block at a, as GetRanking() makes it.
SanityCheck(a) ==
    /\ d.links[a].next # NoAddr /\ d.links[a].prev # NoAddr
    /\ d.links[a].prev = a => IsHead(a)
    /\ d.links[a].next = a => IsTail(a)

\* CheckLinks(): the verdict on a node and the list it is really in.
CheckLinks(n, l) ==
    LET p == d.links[n].prev
        x == d.links[n].next
        fwd == d.links[p].next = n
        back == d.links[x].prev = n
    IN  IF fwd /\ back THEN [links |-> "ok", list |-> l]
        ELSE IF n \notin {p, x} /\ d.links[p].next = x /\ d.links[x].prev = p
             THEN [links |-> "node_out", list |-> l]
        ELSE IF back /\ IsHead(n) THEN [links |-> "ok", list |-> HeadList(n)]
        ELSE IF fwd /\ IsTail(n) THEN [links |-> "ok", list |-> TailList(n)]
        ELSE [links |-> "inconsistent", list |-> l]

\* Mutant: the copies in the iterators are left alone.
UpdateIteratorsNever(its, now) == its

\* UpdateIterators() for a set of changed blocks: `now' gives their new links.
UpdateIterators(its, now) ==
    [i \in Iters |->
        IF its[i] # None /\ its[i].node \in DOMAIN now /\ its[i].data # None
        THEN [its[i] EXCEPT !.data = now[its[i].node]] ELSE its[i]]

InvalidateIterators(n) ==
    [i \in Iters |->
        IF iters[i] # None /\ iters[i].node = n
        THEN [iters[i] EXCEPT !.data = None] ELSE iters[i]]

(***************************************************************************)
(* Insert() at the head of a list.                                         *)
(***************************************************************************)
\* Mutant: only the normal path, without the half-made insertion of FinishInsert().
InsertAllowedNormal(n, l) ==
    LET h == mem.heads[l]
    IN  h # NoAddr => SanityCheck(h) /\ d.links[h].prev = h

\* GetRanking() of the head and the test of its back link.
InsertAllowed(n, l) ==
    LET h == mem.heads[l]
    IN  h # NoAddr => SanityCheck(h) /\ d.links[h].prev \in {h, n}

InsertStores(n, l) ==
    LET h == mem.heads[l]
        first == mem.tails[l] \in {NoAddr, n}
    IN  (IF h = NoAddr THEN <<>>
         ELSE <<StoreLinks(h, [d.links[h] EXCEPT !.prev = n])>>)
        \o (IF first THEN <<WriteTail(l, n)>> ELSE <<>>)
        \o <<StoreLinks(n, [prev |-> n, next |-> IF first THEN n ELSE h]),
             WriteHead(l, n), IncrementCounter(l)>>

InsertMem(n, l) ==
    [mem EXCEPT !.heads[l] = n,
                !.tails[l] = IF @ \in {NoAddr, n} THEN n ELSE @]

\* The whole call: `before' are the stores its caller has already queued, `now'
\* is the status while it runs.
InsertCall(before, n, l, now) ==
    IF InsertAllowed(n, l)
    THEN LET h == mem.heads[l] IN
         /\ todo' = before \o BeginTransaction(n, "INSERT", l)
                           \o InsertStores(n, l) \o EndTransaction
         /\ mem' = InsertMem(n, l)
         /\ iters' = UpdateIterators(iters,
                        [a \in {h} \ {NoAddr} |-> [d.links[a] EXCEPT !.prev = n]])
         /\ status' = now
    ELSE /\ status' = "disabled"
         /\ todo' = before \o BeginTransaction(n, "INSERT", l) \o EndTransaction
         /\ UNCHANGED <<mem, iters>>

(***************************************************************************)
(* Remove() of node n from list l.  `shared' tells whether a block read    *)
(* again for n (n is its own neighbour at the ends of the list) shares the *)
(* memory of the open entry, and so sees its links being zeroed.           *)
(***************************************************************************)
\* The links of the neighbours once both have been changed in memory.
NextLinks(n, l) ==
    LET x == d.links[n].next
    IN  [d.links[x] EXCEPT !.prev =
            IF mem.heads[l] = n /\ mem.tails[l] # n THEN x ELSE d.links[n].prev]
PrevLinks(n, l) ==
    LET p == d.links[n].prev
    IN  [d.links[p] EXCEPT !.next =
            IF mem.tails[l] = n /\ mem.heads[l] # n THEN p ELSE d.links[n].next]

\* The head and tail stores, with the early store of a new tail.
EndStores(n, l) ==
    LET x == d.links[n].next
        p == d.links[n].prev
    IN  CASE n \notin {mem.heads[l], mem.tails[l]} -> <<>>
          [] n = mem.heads[l] /\ n = mem.tails[l] -> <<WriteHead(l, NoAddr), WriteTail(l, NoAddr)>>
          [] n = mem.heads[l] /\ n # mem.tails[l] -> <<WriteHead(l, x)>>
          [] OTHER -> <<WriteTail(l, p), StoreLinks(p, PrevLinks(n, l))>>

\* Mutants: the node is stored before its neighbours; prev before next.
RemoveStoresNodeFirst(n, l, shared) ==
    EndStores(n, l)
        \o <<StoreLinks(n, Out),
             StoreLinks(d.links[n].next, IF d.links[n].next = n THEN Out ELSE NextLinks(n, l)),
             StoreLinks(d.links[n].prev, IF d.links[n].prev = n THEN Out ELSE PrevLinks(n, l)),
             DecrementCounter(l)>>
RemoveStoresPrevFirst(n, l, shared) ==
    EndStores(n, l)
        \o <<StoreLinks(d.links[n].prev, PrevLinks(n, l)),
             StoreLinks(d.links[n].next, NextLinks(n, l)),
             StoreLinks(n, Out), DecrementCounter(l)>>

RemoveStores(n, l, shared) ==
    LET x == d.links[n].next
        p == d.links[n].prev
    IN  EndStores(n, l)
        \o <<StoreLinks(x, IF x = n /\ shared THEN Out ELSE NextLinks(n, l)),
             StoreLinks(p, IF p = n /\ shared THEN Out ELSE PrevLinks(n, l)),
             StoreLinks(n, Out),
             DecrementCounter(l)>>

RemoveMem(n, l) ==
    LET x == d.links[n].next
        p == d.links[n].prev
    IN  CASE n \notin {mem.heads[l], mem.tails[l]} -> mem
          [] n = mem.heads[l] /\ n = mem.tails[l] ->
                [mem EXCEPT !.heads[l] = NoAddr, !.tails[l] = NoAddr]
          [] n = mem.heads[l] /\ n # mem.tails[l] -> [mem EXCEPT !.heads[l] = x]
          [] OTHER -> [mem EXCEPT !.tails[l] = p]

\* The neighbours as UpdateIterators() copies them; n itself was discarded.
RemovedLinks(n, l) ==
    LET x == d.links[n].next
        p == d.links[n].prev
    IN  [a \in {x, p} \ {n} |-> IF a = x THEN NextLinks(n, l) ELSE PrevLinks(n, l)]

RemoveCall(n, l, shared) ==
    IF NoAddr \in {d.links[n].next, d.links[n].prev}    \* not in any list
    THEN todo' = <<>> /\ iters' = InvalidateIterators(n) /\ UNCHANGED <<mem, status>>
    ELSE LET check == CheckLinks(n, l)
             list == check.list
             sane == SanityCheck(d.links[n].next) /\ SanityCheck(d.links[n].prev)
         IN  IF sane /\ check.links = "ok"
             THEN /\ todo' = BeginTransaction(n, "REMOVE", list)
                             \o RemoveStores(n, list, shared) \o EndTransaction
                  /\ mem' = RemoveMem(n, list)
                  /\ iters' = UpdateIterators(InvalidateIterators(n), RemovedLinks(n, list))
                  /\ UNCHANGED status
             ELSE /\ IF sane /\ check.links = "node_out"
                     THEN todo' = <<StoreLinks(n, Out)>> /\ UNCHANGED status
                     ELSE todo' = <<>> /\ status' = "disabled"
                  /\ iters' = InvalidateIterators(n)
                  /\ UNCHANGED mem

(***************************************************************************)
(* The calls of the backend and of the eviction, one at a time.            *)
(***************************************************************************)
Idle == status = "up" /\ todo = <<>> /\ reinsert = None

\* OnCreateEntry(): a node that is in no list.
Insert(n, l) ==
    /\ Idle
    /\ d.links[n] = Out
    /\ InsertCall(<<>>, n, l, status)
    /\ UNCHANGED <<d, reinsert, crashes, torn, lru>>

\* OnDoomEntry() and OnDestroyEntry(): the list is the one the entry is in.
Remove(n, l, shared) ==
    /\ Idle
    /\ \A k \in Lists : Listed(n, k) => k = l
    /\ RemoveCall(n, l, shared)
    /\ UNCHANGED <<d, reinsert, crashes, torn, lru>>

\* UpdateRank() when to = l, and the moves between lists that the eviction
\* makes.  UpdateRank() of the head only touches its time stamps.
UpdateRank(n, l, to, shared) ==
    /\ Idle
    /\ \A k \in Lists : Listed(n, k) => k = l
    /\ ~(to = l /\ mem.heads[l] = n)
    /\ RemoveCall(n, l, shared)
    /\ reinsert' = [node |-> n, list |-> to]
    /\ UNCHANGED <<d, crashes, torn, lru>>

\* ... and the Insert() that follows.
UpdateRankInsert ==
    /\ status = "up" /\ todo = <<>> /\ reinsert # None
    /\ InsertCall(<<>>, reinsert.node, reinsert.list, status)
    /\ reinsert' = None
    /\ UNCHANGED <<d, crashes, torn, lru>>

(***************************************************************************)
(* GetNext() and GetPrev().                                                *)
(***************************************************************************)
Ahead(dir, links) == IF dir = "next" THEN links.next ELSE links.prev
Behind(dir, links) == IF dir = "next" THEN links.prev ELSE links.next
Start(dir, l) == IF dir = "next" THEN mem.heads[l] ELSE mem.tails[l]
End(dir, l) == IF dir = "next" THEN mem.tails[l] ELSE mem.heads[l]

GetFirst(i, dir, l) ==
    LET a == Start(dir, l) IN
    /\ Idle
    /\ iters[i] = None
    /\ a # NoAddr
    /\ IF SanityCheck(a)
       THEN /\ iters' = [iters EXCEPT ![i] =
                           [node |-> a, list |-> l, dir |-> dir, data |-> d.links[a]]]
            /\ UNCHANGED status
       ELSE status' = "disabled" /\ UNCHANGED iters
    /\ UNCHANGED <<d, mem, todo, reinsert, crashes, torn, lru>>

\* The block the caller holds is released; it holds the new one, if there is one.
GetFollowing(i) ==
    /\ Idle
    /\ iters[i] # None
    /\ LET it == iters[i]
           links == IF it.data = None THEN d.links[it.node] ELSE it.data
           a == Ahead(it.dir, links)
           last == End(it.dir, it.list) \in {NoAddr, it.node} \/ a \in {NoAddr, it.node}
       IN  IF last
           THEN iters' = [iters EXCEPT ![i] = None] /\ UNCHANGED status
           ELSE IF SanityCheck(a) /\ Behind(it.dir, d.links[a]) = it.node
           THEN /\ iters' = [iters EXCEPT ![i].node = a, ![i].data = d.links[a]]
                /\ UNCHANGED status
           ELSE status' = "disabled" /\ iters' = [iters EXCEPT ![i] = None]
    /\ UNCHANGED <<d, mem, todo, reinsert, crashes, torn, lru>>

FreeRankingsBlock(i) ==
    /\ Idle
    /\ iters[i] # None
    /\ iters' = [iters EXCEPT ![i] = None]
    /\ UNCHANGED <<d, mem, todo, reinsert, status, crashes, torn, lru>>

(***************************************************************************)
(* SelfCheck() of one list: the number of its nodes, or an error.          *)
(***************************************************************************)
Invalid == -1

\* Mutant: only the forward links are followed.
BackLinkAny(a, p) == TRUE

BackLink(a, p) == d.links[a].prev = p

\* CheckListSection(): c holds a node, the one before it and the number of nodes
\* that may still be met.
CheckList(l) ==
    LET walk[c \in Nodes \X Nodes \X (0..Cardinality(Nodes))] ==
            LET a == c[1]
                x == d.links[a].next
            IN  IF c[3] = 0 \/ ~SanityCheck(a) \/ ~BackLink(a, c[2]) THEN Invalid
                ELSE IF x = a THEN IF a = mem.tails[l] THEN 1 ELSE Invalid
                ELSE LET rest == walk[<<x, a, c[3] - 1>>]
                     IN  IF rest = Invalid THEN Invalid ELSE rest + 1
        h == mem.heads[l]
    IN  IF h = NoAddr THEN 0 ELSE walk[<<h, h, Cardinality(Nodes)>>]

(***************************************************************************)
(* One store; crash; restart.                                              *)
(***************************************************************************)
\* From the moment its transaction is recorded an insertion is bound to be
\* completed; a removal is reverted until the node's own links are zeroed.
Committed(w) ==
    IF w.at = "transaction" /\ w.val # NoAddr /\ d.operation = "INSERT"
       /\ ~Listed(w.val, d.operation_list)
    THEN [lru EXCEPT ![d.operation_list] = <<w.val>> \o @]
    ELSE IF w.at = "links" /\ w.key = d.transaction /\ w.val = Out
            /\ d.operation = "REMOVE"
    THEN [l \in Lists |-> Without(lru[l], w.key)]
    ELSE lru

Store ==
    /\ status # "down"
    /\ todo # <<>>
    /\ d' = Written(Head(todo))
    /\ lru' = Committed(Head(todo))
    /\ todo' = Tail(todo)
    /\ status' = IF status = "recovering" /\ Tail(todo) = <<>> THEN "up" ELSE status
    /\ UNCHANGED <<mem, iters, reinsert, crashes, torn>>

\* FinishInsert() has cleared the transaction and its Insert() has not yet
\* recorded it again.  A process that dies here leaves a half made insertion that
\* no record tells of.
BetweenTransactions ==
    /\ status = "recovering"
    /\ d.transaction = NoAddr
    /\ \E i \in 1..Len(todo) : todo[i].at = "transaction" /\ todo[i].val # NoAddr

Crash ==
    /\ status \in {"up", "init", "recovering"}
    /\ crashes < MaxCrashes
    /\ status' = "down"
    /\ crashes' = crashes + 1
    /\ torn' = (torn \/ BetweenTransactions)
    /\ todo' = <<>>
    /\ reinsert' = None
    /\ iters' = [i \in Iters |-> None]
    /\ mem' = NoEnds
    /\ UNCHANGED <<d, lru>>

\* Init() of the next process: ReadHeads() and ReadTails() ...
ReadHeadsAndTails ==
    /\ status = "down"
    /\ mem' = [heads |-> d.heads, tails |-> d.tails]
    /\ status' = IF d.transaction # NoAddr THEN "init" ELSE "up"
    /\ UNCHANGED <<d, iters, todo, reinsert, crashes, torn, lru>>

\* ... and CompleteTransaction().
FinishInsert ==
    LET n == d.transaction
        l == d.operation_list
        clear == <<SetField("transaction", NoAddr), SetField("operation", None)>>
    IN  /\ status = "init"
        /\ d.operation = "INSERT"
        /\ IF mem.heads[l] # n
           THEN InsertCall(clear, n, l, "recovering")
           ELSE todo' = clear /\ status' = "recovering" /\ UNCHANGED <<mem, iters>>
        /\ UNCHANGED <<d, reinsert, crashes, torn, lru>>

\* The links of the neighbours, the new head and tail, and their stores.
RevertStores(n, l) ==
    LET x == d.links[n].next
        p == d.links[n].prev
        empty == NoAddr \in {mem.heads[l], mem.tails[l]}
        was_head == ~empty /\ mem.heads[l] = x
        was_tail == ~empty /\ ~was_head /\ mem.tails[l] = p
        nextLinks == [d.links[x] EXCEPT
                        !.prev = IF was_tail THEN p ELSE IF x # n THEN n ELSE @]
        prevLinks == [d.links[p] EXCEPT
                        !.next = IF was_head THEN x ELSE IF p # n THEN n ELSE @]
    IN  (IF empty THEN <<WriteHead(l, n), WriteTail(l, n)>>
         ELSE IF was_head THEN <<WriteHead(l, n)>>
         ELSE IF was_tail THEN <<WriteTail(l, n)>> ELSE <<>>)
        \o <<StoreLinks(x, nextLinks), StoreLinks(p, prevLinks)>>

RevertMem(n, l) ==
    LET x == d.links[n].next
        p == d.links[n].prev
    IN  IF NoAddr \in {mem.heads[l], mem.tails[l]}
        THEN [mem EXCEPT !.heads[l] = n, !.tails[l] = n]
        ELSE IF mem.heads[l] = x THEN [mem EXCEPT !.heads[l] = n]
        ELSE IF mem.tails[l] = p THEN [mem EXCEPT !.tails[l] = n]
        ELSE mem

RevertRemove ==
    LET n == d.transaction
        l == d.operation_list
    IN  /\ status = "init"
        /\ d.operation = "REMOVE"
        /\ status' = "recovering"
        /\ IF NoAddr \in {d.links[n].next, d.links[n].prev}
           THEN todo' = <<SetField("transaction", NoAddr)>> /\ UNCHANGED mem
           ELSE /\ todo' = RevertStores(n, l)
                            \o <<SetField("transaction", NoAddr), SetField("operation", None)>>
                /\ mem' = RevertMem(n, l)
        /\ UNCHANGED <<d, iters, reinsert, crashes, torn, lru>>

(***************************************************************************)
(* The specification.                                                      *)
(***************************************************************************)
\* The lists of a cache whose files have just been created.
EmptyDisk ==
    [links |-> [n \in Nodes |-> Out], heads |-> NoEnds.heads, tails |-> NoEnds.tails,
     sizes |-> [l \in Lists |-> 0],
     transaction |-> NoAddr, operation |-> None, operation_list |-> None]

Init ==
    /\ d = EmptyDisk
    /\ mem = NoEnds
    /\ iters = [i \in Iters |-> None]
    /\ todo = <<>>
    /\ reinsert = None
    /\ status = "up"
    /\ crashes = 0
    /\ torn = FALSE
    /\ lru = [l \in Lists |-> <<>>]

\* BackendImpl::RestartCache(), which CriticalError() posts: the files are thrown
\* away, and so is everything that went wrong in them.
RestartCache ==
    /\ status = "disabled"
    /\ todo = <<>>
    /\ d' = EmptyDisk
    /\ mem' = NoEnds
    /\ iters' = [i \in Iters |-> None]
    /\ reinsert' = None
    /\ status' = "up"
    /\ torn' = FALSE
    /\ lru' = [l \in Lists |-> <<>>]
    /\ UNCHANGED <<todo, crashes>>

Next ==
    \/ \E n \in Nodes, l \in Lists :
          \/ Insert(n, l)
          \/ \E shared \in BOOLEAN :
                \/ Remove(n, l, shared)
                \/ \E to \in Lists : UpdateRank(n, l, to, shared)
    \/ UpdateRankInsert
    \/ \E i \in Iters :
          \/ \E dir \in {"next", "prev"}, l \in Lists : GetFirst(i, dir, l)
          \/ GetFollowing(i)
          \/ FreeRankingsBlock(i)
    \/ Store
    \/ Crash
    \/ ReadHeadsAndTails
    \/ FinishInsert
    \/ RevertRemove
    \/ RestartCache

Spec == Init /\ [][Next]_vars

(***************************************************************************)
(* Properties.                                                             *)
(***************************************************************************)
Writes ==
    [at : {"links"}, key : Nodes, val : Links]
      \cup [at : {"heads", "tails"}, key : Lists, val : Addrs]
      \cup [at : {"sizes"}, key : Lists, val : Nat]
      \cup [at : {"transaction"}, key : {None}, val : Addrs]
      \cup [at : {"operation"}, key : {None}, val : Operations]
      \cup [at : {"operation_list"}, key : {None}, val : Lists \cup {None}]

TypeOK ==
    /\ d \in [links : [Nodes -> Links],
              heads : [Lists -> Addrs], tails : [Lists -> Addrs],
              sizes : [Lists -> Nat],
              transaction : Addrs, operation : Operations,
              operation_list : Lists \cup {None}]
    /\ mem \in [heads : [Lists -> Addrs], tails : [Lists -> Addrs]]
    /\ iters \in [Iters -> {None} \cup [node : Nodes, list : Lists, dir : {"next", "prev"},
                                        data : {None} \cup Links]]
    /\ todo \in Seq(Writes)
    /\ reinsert \in {None} \cup [node : Nodes, list : Lists]
    /\ status \in {"up", "down", "init", "recovering", "disabled"}
    /\ crashes \in 0..MaxCrashes
    /\ lru \in [Lists -> Seq(Nodes)]

\* The links of the i-th node of a list.
LinksAt(s, i) ==
    [prev |-> IF i = 1 THEN s[1] ELSE s[i - 1],
     next |-> IF i = Len(s) THEN s[i] ELSE s[i + 1]]

\* The sequence s is the list l, as it is on disk: from the head to the tail,
\* each node pointing at its neighbours.
IsList(s, l) ==
    /\ s[1] = d.heads[l] /\ s[Len(s)] = d.tails[l]
    /\ \A i \in 1..Len(s) : d.links[s[i]] = LinksAt(s, i)

Arrangements(k) == {s \in [1..k -> Nodes] : \A i, j \in 1..k : s[i] = s[j] => i = j}

\* What SelfCheck() would say of the lists of a process that has just started, or
\* is between two calls, is the truth, also for the torn lists that a crash
\* leaves: it counts k nodes exactly when the list has a head and k nodes that
\* are linked both ways to its tail.
SelfCheckExact ==
    status = "init" \/ Idle =>
        \A l \in Lists : \A k \in 1..Cardinality(Nodes) :
            CheckList(l) = k <=> \E s \in Arrangements(k) : IsList(s, l)

\* Whatever the calls and the crashes before, short of a crash between the two
\* transactions of FinishInsert(), once Init() or a call has finished every list on
\* disk is exactly what the calls built: it can be walked both ways from the head
\* and the tail that are on disk and in memory, no node is lost or in two lists,
\* and a node in no list has null links.
ListsIntact ==
    ~torn /\ status = "up" /\ todo = <<>> =>
        /\ mem = [heads |-> d.heads, tails |-> d.tails]
        /\ d.transaction = NoAddr
        /\ \A l \in Lists :
              IF lru[l] = <<>> THEN d.heads[l] = NoAddr /\ d.tails[l] = NoAddr
                               ELSE IsList(lru[l], l)
        /\ \A n \in Nodes : (\A l \in Lists : ~Listed(n, l)) => d.links[n] = Out

\* Insert(), CheckLinks(), GetRanking() and CheckSingleLink() raise
\* CriticalError(ERR_INVALID_LINKS), which disables and empties the whole cache,
\* only after a crash has come between the two transactions of FinishInsert(): on
\* a file that other crashes of this code have touched, however many and also
\* while it recovers, no call meets links it takes for corrupt.
NoCriticalError == ~torn => status # "disabled"

\* What the comment at the top of rankings.cc says: when the process crashes
\* before an operation is finished, the transaction record is there to finish it.
\* So no crash costs the cache its lists, the one in FinishInsert() included,
\* which has just deleted that record.
CrashesMended == status # "disabled"

\* A block that an enumeration holds is never stale: its cached links are the
\* links on disk, or have been discarded so that they will be loaded again.  After
\* a crash between the two transactions of FinishInsert() nothing is claimed.
IteratorsFresh ==
    ~torn /\ Idle => \A i \in Iters : iters[i] # None /\ iters[i].data # None =>
                iters[i].data = d.links[iters[i].node]

\* The length kept in LruData drifts from the length of the list by at most one
\* for each crash (a crash between the store that ends an operation and the
\* counter's is never made up for), and not at all without one; and nothing of
\* that makes a counter negative, or any variable something that it cannot be.
\* A crash between the two transactions of FinishInsert() ends the promise.
SizesDrift ==
    ~torn =>
        /\ TypeOK
        /\ status = "up" /\ todo = <<>> =>
               \A l \in Lists : /\ d.sizes[l] <= Len(lru[l]) + crashes
                                /\ Len(lru[l]) <= d.sizes[l] + crashes

\* The states of the disk that the comment above Remove() lists, for a node r
\* that is alone (A), in the middle (B), the head (C) or the tail (D).
DocumentedState(r, l) ==
    LET n == d.links[r]
        a == n.prev
        b == n.next
        head == d.heads[l]
        tail == d.tails[l]
        A == /\ a = r /\ b = r
             /\ <<head, tail>> \in {<<r, r>>, <<NoAddr, r>>, <<NoAddr, NoAddr>>}
        B == /\ a \notin {r, NoAddr} /\ b \notin {r, NoAddr}
             /\ r \notin {head, tail}
             /\ <<d.links[a].next, d.links[b].prev>> \in {<<r, r>>, <<r, a>>, <<b, a>>}
        C == /\ a = r /\ b \notin {r, NoAddr}
             /\ <<head, d.links[b].prev>> \in {<<r, r>>, <<b, r>>, <<b, b>>}
        D == /\ b = r /\ a \notin {r, NoAddr}
             /\ <<d.links[a].next, tail>> \in {<<r, r>>, <<r, a>>, <<a, a>>}
    IN  n = Out \/ A \/ B \/ C \/ D

\* Whenever a crash can interrupt Remove(), the disk is in one of the states its
\* comment claims to be all of them; these are what RevertRemove() relies on.  The
\* lists that Remove() starts from are those that ListsIntact promises.
RemoveStatesDocumented ==
    ~torn /\ status = "up" /\ d.transaction # NoAddr /\ d.operation = "REMOVE" =>
        DocumentedState(d.transaction, d.operation_list)

\* DCHECK(control_data_->sizes[list] > 0) in DecrementCounter().
DecrementAboveZero ==
    todo # <<>> /\ Head(todo).at = "sizes" /\ d.operation = "REMOVE" =>
        d.sizes[Head(todo).key] > 0
=============================================================================
