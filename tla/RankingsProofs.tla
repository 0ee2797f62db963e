--------------------------- MODULE RankingsProofs ---------------------------
(***************************************************************************)
(* The lists of module Rankings survive every crash but one: ListsIntact,  *)
(* NoCriticalError, IteratorsFresh, SizesDrift and RemoveStatesDocumented, *)
(* for any nodes, lists, iterators and number of crashes.  What these five *)
(* leave open is what happens between a crash that hits FinishInsert()     *)
(* between its two transactions (`torn') and the next RestartCache().      *)
(*                                                                         *)
(* An insertion and a removal differ only in the direction: between a list *)
(* with a node and the list without it lie five stores (the head, the      *)
(* tail, the two neighbours and the node), and Torn() tells which of them  *)
(* have been made.  The rest of a call is one of a few sequences of        *)
(* stores, and the inductive invariant says, for each of them, how torn    *)
(* the disk is.                                                            *)
(***************************************************************************)
EXTENDS Rankings, TLAPS, SequenceTheorems

(***************************************************************************)
(* The disk D shows the lists S.                                           *)
(***************************************************************************)
Disk == [links : [Nodes -> Links],
         heads : [Lists -> Addrs], tails : [Lists -> Addrs],
         sizes : [Lists -> Nat],
         transaction : Addrs, operation : Operations,
         operation_list : Lists \cup {None}]

First(s) == IF Len(s) = 0 THEN NoAddr ELSE s[1]
Final(s) == IF Len(s) = 0 THEN NoAddr ELSE s[Len(s)]

NotListed(S, n) == \A k \in Lists : \A j \in 1..Len(S[k]) : S[k][j] # n

\* No node is twice in the lists.
Distinct(S) ==
    /\ S \in [Lists -> Seq(Nodes)]
    /\ \A k, m \in Lists : \A a \in 1..Len(S[k]), b \in 1..Len(S[m]) :
          S[k][a] = S[m][b] => k = m /\ a = b

Full(D, S) ==
    /\ \A k \in Lists : D.heads[k] = First(S[k]) /\ D.tails[k] = Final(S[k])
    /\ \A k \in Lists : \A j \in 1..Len(S[k]) : D.links[S[k][j]] = LinksAt(S[k], j)
    /\ \A n \in Nodes : NotListed(S, n) => D.links[n] = Out

\* The head, the tail and the links of the j-th node of s while its i-th node is
\* cut out: hd, tl, xd, pd tell whether the head, the tail, the node behind and
\* the node before have been changed.
HeadOf(s, i, hd) ==
    IF i = 1 /\ hd THEN IF Len(s) = 1 THEN NoAddr ELSE s[2] ELSE s[1]
TailOf(s, i, tl) ==
    IF i = Len(s) /\ tl THEN IF Len(s) = 1 THEN NoAddr ELSE s[Len(s) - 1] ELSE s[Len(s)]
LinksOf(s, i, j, xd, pd) ==
    [prev |-> IF j = i + 1 /\ xd THEN IF i = 1 THEN s[j] ELSE s[i - 1]
              ELSE LinksAt(s, j).prev,
     next |-> IF j = i - 1 /\ pd THEN IF i = Len(s) THEN s[j] ELSE s[i + 1]
              ELSE LinksAt(s, j).next]

\* ... and nd whether the node itself has been zeroed.
Torn(D, S, l, i, hd, tl, xd, pd, nd) ==
    /\ D.heads[l] = HeadOf(S[l], i, hd) /\ D.tails[l] = TailOf(S[l], i, tl)
    /\ \A k \in Lists \ {l} : D.heads[k] = First(S[k]) /\ D.tails[k] = Final(S[k])
    /\ \A k \in Lists \ {l} : \A j \in 1..Len(S[k]) : D.links[S[k][j]] = LinksAt(S[k], j)
    /\ \A j \in 1..Len(S[l]) :
          D.links[S[l][j]] = IF j = i /\ nd THEN Out ELSE LinksOf(S[l], i, j, xd, pd)
    /\ \A n \in Nodes : NotListed(S, n) => D.links[n] = Out

\* How far a counter may be from the length, after c crashes; w is what the
\* counter of l is about to become.
Near(v, len, c) == v <= len + c /\ len <= v + c
Counters(D, S, c) == \A k \in Lists : Near(D.sizes[k], Len(S[k]), c)
CountersBut(D, S, l, w, c) ==
    \A k \in Lists : Near(IF k = l THEN w ELSE D.sizes[k], Len(S[k]), c)
Lower(v) == IF v > 0 THEN v - 1 ELSE v

\* What the next Init() can make whole: no transaction and whole lists, or the
\* insertion or the removal that is recorded, at any of its stores.
Mendable(D, S, c) ==
    LET n == D.transaction
        l == D.operation_list
    IN  \/ n = NoAddr /\ Full(D, S) /\ Counters(D, S, c)
        \/ /\ n # NoAddr /\ l \in Lists /\ D.operation = "INSERT"
           /\ Len(S[l]) > 0 /\ S[l][1] = n
           /\ \/ Full(D, S) /\ Counters(D, S, c)
              \/ /\ \E tl, xd, nd \in BOOLEAN : Torn(D, S, l, 1, TRUE, tl, xd, FALSE, nd)
                 /\ CountersBut(D, S, l, D.sizes[l] + 1, c)
        \/ /\ n # NoAddr /\ l \in Lists /\ D.operation = "REMOVE"
           /\ Counters(D, S, c)
           /\ \/ Full(D, S) /\ NotListed(S, n)
              \/ \E i \in 1..Len(S[l]) :
                   /\ S[l][i] = n
                   /\ \E hd, tl, xd, pd \in BOOLEAN : Torn(D, S, l, i, hd, tl, xd, pd, FALSE)

(***************************************************************************)
(* What is left of a call.                                                 *)
(***************************************************************************)
Push(w, q) == <<w>> \o q

Begin3(n, q) == Push(SetField("transaction", n), q)
Begin2(n, l, q) == Push(SetField("operation_list", l), Begin3(n, q))
Begin1(op, n, l, q) == Push(SetField("operation", op), Begin2(n, l, q))

End3 == Push(SetField("operation_list", None), <<>>)
End2 == Push(SetField("operation", None), End3)
End1 == Push(SetField("transaction", NoAddr), End2)
Count(l, v) == Push(WriteSize(l, v), End1)

\* Insert(): s is the list with the node at its head.
Insert4(s, l, v) == Push(WriteHead(l, s[1]), Count(l, v))
Insert3(s, l, v) == Push(StoreLinks(s[1], LinksAt(s, 1)), Insert4(s, l, v))
Insert2(s, l, v) ==
    Push(IF Len(s) = 1 THEN WriteTail(l, s[1]) ELSE StoreLinks(s[2], LinksAt(s, 2)),
         Insert3(s, l, v))
Insert1(s, l, v) == Begin1("INSERT", s[1], l, Insert2(s, l, v))

\* FinishInsert() and RevertRemove().
Clear2(q) == Push(SetField("operation", None), q)
Clear1(q) == Push(SetField("transaction", NoAddr), Clear2(q))

\* Remove() of the i-th node of s: the neighbours, which at the ends of the list
\* are the node itself, and what is stored in them.
NodeBehind(s, i) == IF i = Len(s) THEN s[i] ELSE s[i + 1]
NodeBefore(s, i) == IF i = 1 THEN s[1] ELSE s[i - 1]
BehindLinks(s, i, shared) ==
    IF i = Len(s) THEN IF shared THEN Out ELSE LinksAt(s, i)
                  ELSE LinksOf(s, i, i + 1, TRUE, TRUE)
BeforeLinks(s, i, shared) ==
    IF i = 1 THEN IF shared THEN Out ELSE LinksAt(s, i)
             ELSE LinksOf(s, i, i - 1, TRUE, TRUE)

Remove6(n, l, v) == Push(StoreLinks(n, Out), Count(l, v))
Remove5(s, i, l, v, shared) ==
    Push(StoreLinks(NodeBefore(s, i), BeforeLinks(s, i, shared)), Remove6(s[i], l, v))
Remove4(s, i, l, v, shared) ==
    Push(StoreLinks(NodeBehind(s, i), BehindLinks(s, i, shared)), Remove5(s, i, l, v, shared))

\* The stores of the ends: of the last node of a list, of its head, of its tail.
Remove3(s, i, l, v, shared) ==
    IF Len(s) = 1
    THEN Push(WriteTail(l, NoAddr), Remove4(s, i, l, v, shared))
    ELSE Push(StoreLinks(NodeBefore(s, i), BeforeLinks(s, i, shared)),
              Remove4(s, i, l, v, shared))
Remove2(s, i, l, v, shared) ==
    IF Len(s) = 1 THEN Push(WriteHead(l, NoAddr), Remove3(s, i, l, v, shared))
    ELSE IF i = 1 THEN Push(WriteHead(l, s[2]), Remove4(s, i, l, v, shared))
    ELSE IF i = Len(s) THEN Push(WriteTail(l, s[i - 1]), Remove3(s, i, l, v, shared))
    ELSE Remove4(s, i, l, v, shared)
Remove1(s, i, l, v, shared) ==
    Begin1("REMOVE", s[i], l, Remove2(s, i, l, v, shared))

\* RevertRemove().
Revert3(s, i) ==
    Push(StoreLinks(NodeBefore(s, i), LinksAt(s, IF i = 1 THEN 1 ELSE i - 1)), Clear1(<<>>))
Revert2(s, i) ==
    Push(StoreLinks(NodeBehind(s, i), LinksAt(s, IF i = Len(s) THEN i ELSE i + 1)),
         Revert3(s, i))

(***************************************************************************)
(* The inductive invariant.                                                *)
(***************************************************************************)
CutFrom(S, l, i) == [S EXCEPT ![l] = Cut(S[l], i)]

OnDisk == [heads |-> d.heads, tails |-> d.tails]
InMemory(S) == \A k \in Lists : mem.heads[k] = First(S[k]) /\ mem.tails[k] = Final(S[k])

\* The iterators hold the links that the nodes have in S.
Shows(S) ==
    \A i \in Iters : iters[i] # None /\ iters[i].data # None =>
        \E k \in Lists : \E j \in 1..Len(S[k]) :
            iters[i].node = S[k][j] /\ iters[i].data = LinksAt(S[k], j)

Recorded(n, op, l) == d.transaction = n /\ d.operation = op /\ d.operation_list = l

\* The rest of an insertion that gives the lists S: before its transaction is
\* recorded, and after.
InsertBegun(S, n, l) ==
    LET s == S[l]
        v == d.sizes[l] + 1
    IN  /\ d.transaction = NoAddr
        /\ \E tl, xd, nd \in BOOLEAN : Torn(d, S, l, 1, TRUE, tl, xd, FALSE, nd)
        /\ \/ status = "recovering" /\ lru = S
           \/ status = "up" /\ Full(d, lru) /\ NotListed(lru, n) /\ lru = CutFrom(S, l, 1)
        /\ \/ status = "recovering" /\ todo = Clear2(Insert1(s, l, v))
           \/ todo = Insert1(s, l, v)
           \/ todo = Begin2(n, l, Insert2(s, l, v)) /\ d.operation = "INSERT"
           \/ /\ todo = Begin3(n, Insert2(s, l, v))
              /\ d.operation = "INSERT" /\ d.operation_list = l

InsertRecorded(S, n, l) ==
    LET s == S[l]
        v == d.sizes[l] + 1
        broken == \E tl, xd, nd \in BOOLEAN : Torn(d, S, l, 1, TRUE, tl, xd, FALSE, nd)
    IN  /\ lru = S /\ Recorded(n, "INSERT", l)
        /\ \/ status = "recovering" /\ todo = Clear1(Insert1(s, l, v)) /\ broken
           \/ todo = Insert2(s, l, v) /\ broken
           \/ /\ todo = Insert3(s, l, v)
              /\ \E nd \in BOOLEAN : Torn(d, S, l, 1, TRUE, FALSE, FALSE, FALSE, nd)
           \/ todo = Insert4(s, l, v) /\ Torn(d, S, l, 1, TRUE, FALSE, FALSE, FALSE, FALSE)
           \/ todo = Count(l, v) /\ Full(d, S)

Inserting(S, n, l) ==
    /\ Distinct(S) /\ Len(S[l]) > 0 /\ S[l][1] = n
    /\ reinsert = None /\ InMemory(S) /\ Shows(S)
    /\ CountersBut(d, S, l, d.sizes[l] + 1, crashes)
    /\ InsertBegun(S, n, l) \/ InsertRecorded(S, n, l)

\* The rest of a removal, up to the store that zeroes the node ...
RemoveBegun(l, i, shared) ==
    LET s == lru[l]
        v == Lower(d.sizes[l])
    IN  /\ d.transaction = NoAddr /\ Full(d, lru)
        /\ \/ todo = Remove1(s, i, l, v, shared)
           \/ /\ todo = Begin2(s[i], l, Remove2(s, i, l, v, shared))
              /\ d.operation = "REMOVE"
           \/ /\ todo = Begin3(s[i], Remove2(s, i, l, v, shared))
              /\ d.operation = "REMOVE" /\ d.operation_list = l

RemoveRecorded(l, i, shared) ==
    LET s == lru[l]
        v == Lower(d.sizes[l])
        alone == Len(s) = 1
        last == i = Len(s)
    IN  /\ Recorded(s[i], "REMOVE", l)
        /\ \/ /\ todo = Remove2(s, i, l, v, shared)
              /\ Torn(d, lru, l, i, FALSE, FALSE, FALSE, FALSE, FALSE)
           \/ /\ last /\ todo = Remove3(s, i, l, v, shared)
              /\ Torn(d, lru, l, i, alone, ~alone, FALSE, FALSE, FALSE)
           \/ /\ todo = Remove4(s, i, l, v, shared)
              /\ Torn(d, lru, l, i, TRUE, TRUE, FALSE, last, FALSE)
           \/ /\ todo = Remove5(s, i, l, v, shared)
              /\ Torn(d, lru, l, i, TRUE, TRUE, TRUE, last, FALSE)
           \/ /\ todo = Remove6(s[i], l, v)
              /\ Torn(d, lru, l, i, TRUE, TRUE, TRUE, TRUE, FALSE)

Removing(l, i, shared) ==
    /\ status = "up"
    /\ InMemory(CutFrom(lru, l, i)) /\ Shows(CutFrom(lru, l, i))
    /\ reinsert # None => reinsert.node = lru[l][i]
    /\ Counters(d, lru, crashes)
    /\ RemoveBegun(l, i, shared) \/ RemoveRecorded(l, i, shared)

\* ... and behind it, where a neighbour that is stored again does not change.
Removed(n, l) ==
    LET v == Lower(d.sizes[l])
    IN  /\ status = "up"
        /\ Full(d, lru) /\ NotListed(lru, n)
        /\ InMemory(lru) /\ Shows(lru)
        /\ reinsert # None => reinsert.node = n
        /\ CountersBut(d, lru, l, v, crashes)
        /\ Recorded(n, "REMOVE", l)
        /\ \/ \E a \in Nodes : todo = Push(StoreLinks(a, d.links[a]), Remove6(n, l, v))
           \/ todo = Remove6(n, l, v)
           \/ todo = Count(l, v)

Reverting(l, i) ==
    LET s == lru[l]
    IN  /\ status = "recovering" /\ reinsert = None
        /\ Recorded(s[i], "REMOVE", l)
        /\ InMemory(lru) /\ Shows(lru) /\ Counters(d, lru, crashes)
        /\ \E hd, tl, xd, pd \in BOOLEAN :
             /\ Torn(d, lru, l, i, hd, tl, xd, pd, FALSE)
             /\ \/ /\ Len(s) = 1
                   /\ todo = Push(WriteHead(l, s[i]), Push(WriteTail(l, s[i]), Revert2(s, i)))
                \/ i = 1 /\ ~tl /\ todo = Push(WriteHead(l, s[i]), Revert2(s, i))
                \/ i = Len(s) /\ ~hd /\ todo = Push(WriteTail(l, s[i]), Revert2(s, i))
                \/ ~hd /\ ~tl /\ todo = Revert2(s, i)
                \/ ~hd /\ ~tl /\ ~xd /\ todo = Revert3(s, i)

\* The lists are whole; the transaction is or has been cleared.
Whole ==
    /\ status = "recovering" => reinsert = None
    /\ Full(d, lru) /\ Counters(d, lru, crashes)
    /\ InMemory(lru) /\ Shows(lru)
    /\ reinsert # None => NotListed(lru, reinsert.node)
    /\ \/ /\ d.transaction # NoAddr /\ Mendable(d, lru, crashes)
          /\ \/ todo = End1
             \/ todo = Clear1(<<>>)
             \/ todo = Push(SetField("transaction", NoAddr), <<>>)
       \/ /\ d.transaction = NoAddr
          /\ \/ todo = End2
             \/ todo = End3
             \/ todo = Clear2(<<>>)
             \/ todo = <<>> /\ status = "up"

Stopped ==
    /\ status \in {"down", "init"}
    /\ todo = <<>> /\ reinsert = None /\ \A i \in Iters : iters[i] = None
    /\ Mendable(d, lru, crashes)
    /\ status = "init" => mem = OnDisk /\ d.transaction # NoAddr

Working ==
    /\ status \in {"up", "recovering"}
    /\ \/ Whole
       \/ \E l \in Lists, n \in Nodes :
            \/ \E S \in {lru, [lru EXCEPT ![l] = <<n>> \o @]} : Inserting(S, n, l)
            \/ Removed(n, l)
       \/ \E l \in Lists : \E i \in 1..Len(lru[l]) :
            \/ \E shared \in BOOLEAN : Removing(l, i, shared)
            \/ Reverting(l, i)

IInv ==
    /\ TypeOK
    /\ Distinct(lru)
    /\ Stopped \/ Working

(***************************************************************************)
(* Sequences.                                                              *)
(***************************************************************************)

\* The places of a list that is not empty, and those next to one of them.
LEMMA Positions ==
  \A len \in Nat :
    /\ len > 0 => 1 \in 1..len /\ len \in 1..len
    /\ len > 0 /\ len # 1 => 2 \in 1..len /\ len > 1
    /\ len > 0 /\ len # 1 /\ len # 2 => 3 \in 1..len
    /\ \A i \in 1..len :
         /\ i # 1 => i - 1 \in 1..len /\ i # i - 1 /\ i - 1 # i + 1
         /\ i # len => i + 1 \in 1..len /\ i # i + 1
         /\ i \in Int /\ i + 1 # i - 1
OBVIOUS

\* The elements of the lists are nodes, and no node is the null address.
LEMMA Elements ==
  ASSUME NEW S, Distinct(S)
  PROVE  \A k \in Lists :
           /\ S[k] \in Seq(Nodes) /\ Len(S[k]) \in Nat
           /\ \A j \in 1..Len(S[k]) : S[k][j] \in Nodes /\ S[k][j] # NoAddr
BY ElementOfSeq, NoAddrAssumption DEF Distinct

\* What Cut() leaves of a sequence.
LEMMA CutProperties ==
  ASSUME NEW s \in Seq(Nodes), NEW i \in 1..Len(s)
  PROVE  /\ Cut(s, i) \in Seq(Nodes) /\ Len(Cut(s, i)) = Len(s) - 1
         /\ \A k \in 1..Len(s) - 1 : Cut(s, i)[k] = IF k < i THEN s[k] ELSE s[k + 1]
<1>1. Len(s) \in Nat /\ \A j \in 1..Len(s) : s[j] \in Nodes
  BY ElementOfSeq
<1>2. \A k \in 1..Len(s) - 1 : k \in 1..Len(s) /\ k + 1 \in 1..Len(s)
  BY <1>1
<1>3. Cut(s, i) \in [1..Len(s) - 1 -> Nodes]
  BY <1>1, <1>2 DEF Cut
<1>4. Len(s) - 1 \in Nat
  BY <1>1
<1>5. Cut(s, i) \in Seq(Nodes)
  BY <1>3, <1>4, IsASeq
<1>6. Len(Cut(s, i)) = Len(s) - 1
  BY <1>3, <1>4, <1>5, LenProperties
<1> QED
  BY <1>5, <1>6 DEF Cut

\* A list without one of its nodes has every other node once, and that one not at all.
LEMMA CutDistinct ==
  ASSUME NEW S, Distinct(S), NEW l \in Lists, NEW i \in 1..Len(S[l])
  PROVE  /\ Distinct(CutFrom(S, l, i))
         /\ NotListed(CutFrom(S, l, i), S[l][i])
         /\ \A n \in Nodes : n # S[l][i] => (NotListed(CutFrom(S, l, i), n) <=> NotListed(S, n))
<1> DEFINE T == CutFrom(S, l, i)
<1>1. \A k \in Lists : S[k] \in Seq(Nodes) /\ Len(S[k]) \in Nat
  BY Elements
<1>2. /\ Cut(S[l], i) \in Seq(Nodes) /\ Len(Cut(S[l], i)) = Len(S[l]) - 1
      /\ \A k \in 1..Len(S[l]) - 1 : Cut(S[l], i)[k] = IF k < i THEN S[l][k] ELSE S[l][k + 1]
  BY <1>1, CutProperties
<1>3. T \in [Lists -> Seq(Nodes)] /\ T[l] = Cut(S[l], i) /\ \A k \in Lists \ {l} : T[k] = S[k]
  BY <1>1, <1>2 DEF CutFrom, Distinct
<1>4. \A k, m \in Lists : \A a \in 1..Len(S[k]), b \in 1..Len(S[m]) :
          S[k][a] = S[m][b] => k = m /\ a = b
  BY DEF Distinct
<1> HIDE DEF T
<1>5. \A k \in Lists : \A j \in 1..Len(T[k]) : \E a \in 1..Len(S[k]) :
        T[k][j] = S[k][a] /\ (k = l => a # i /\ j = IF a < i THEN a ELSE a - 1) /\ (k # l => a = j)
  <2> TAKE k \in Lists
  <2> TAKE j \in 1..Len(T[k])
  <2>1. CASE k # l
    BY <2>1, <1>3
  <2>2. CASE k = l
    <3> DEFINE a == IF j < i THEN j ELSE j + 1
    <3>1. j \in 1..Len(S[l]) - 1
      BY <2>2, <1>2, <1>3
    <3>2. a \in 1..Len(S[l]) /\ a # i /\ j = IF a < i THEN a ELSE a - 1
      BY <3>1, <1>1
    <3>3. T[k][j] = S[l][a]
      BY <2>2, <3>1, <1>2, <1>3
    <3> QED
      BY <2>2, <3>2, <3>3
  <2> QED
    BY <2>1, <2>2
<1>6. \A a \in 1..Len(S[l]) : a # i =>
        \E j \in 1..Len(T[l]) : T[l][j] = S[l][a]
  <2> TAKE a \in 1..Len(S[l])
  <2> HAVE a # i
  <2> DEFINE j == IF a < i THEN a ELSE a - 1
  <2>1. j \in 1..Len(S[l]) - 1 /\ (IF j < i THEN j ELSE j + 1) = a
    BY <1>1
  <2>2. T[l][j] = S[l][a]
    BY <2>1, <1>2, <1>3
  <2> QED
    BY <2>1, <2>2, <1>2, <1>3
<1>7. Distinct(T)
  <2> SUFFICES ASSUME NEW k \in Lists, NEW m \in Lists,
                      NEW a \in 1..Len(T[k]), NEW b \in 1..Len(T[m]), T[k][a] = T[m][b]
               PROVE  k = m /\ a = b
    BY <1>3 DEF Distinct
  <2>1. PICK x \in 1..Len(S[k]) :
          T[k][a] = S[k][x] /\ (k = l => a = IF x < i THEN x ELSE x - 1) /\ (k # l => x = a)
    BY <1>5
  <2>2. PICK y \in 1..Len(S[m]) :
          T[m][b] = S[m][y] /\ (m = l => b = IF y < i THEN y ELSE y - 1) /\ (m # l => y = b)
    BY <1>5
  <2>3. S[k][x] = S[m][y]
    BY <2>1, <2>2
  <2>4. k = m /\ x = y
    BY <2>3, <1>4
  <2> QED
    BY <2>1, <2>2, <2>4
<1>8. NotListed(T, S[l][i])
  BY <1>5, <1>4 DEF NotListed
<1>9. ASSUME NEW n \in Nodes, n # S[l][i]
      PROVE  NotListed(T, n) <=> NotListed(S, n)
  <2>1. NotListed(S, n) => NotListed(T, n)
    BY <1>5 DEF NotListed
  <2>2. ASSUME NotListed(T, n), NEW k \in Lists, NEW a \in 1..Len(S[k]), S[k][a] = n
        PROVE  FALSE
    <3>1. CASE k # l
      BY <3>1, <2>2, <1>3 DEF NotListed
    <3>2. CASE k = l
      BY <3>2, <2>2, <1>6, <1>9 DEF NotListed
    <3> QED
      BY <3>1, <3>2
  <2> QED
    BY <2>1, <2>2 DEF NotListed
<1> QED
  BY <1>7, <1>8, <1>9 DEF T

(***************************************************************************)
(* Torn lists.                                                             *)
(***************************************************************************)

\* Nothing has been stored: the list with the node.
LEMMA TornNone ==
  ASSUME NEW D, NEW S, Distinct(S), NEW l \in Lists, NEW i \in 1..Len(S[l])
  PROVE  Torn(D, S, l, i, FALSE, FALSE, FALSE, FALSE, FALSE) <=> Full(D, S)
<1>1. \A k \in Lists : Len(S[k]) \in Nat
  BY Elements
<1>2. \A j \in 1..Len(S[l]) : LinksOf(S[l], i, j, FALSE, FALSE) = LinksAt(S[l], j)
  BY DEF LinksOf, LinksAt
<1>3. HeadOf(S[l], i, FALSE) = First(S[l]) /\ TailOf(S[l], i, FALSE) = Final(S[l])
  BY <1>1 DEF HeadOf, TailOf, First, Final
<1> QED
  BY <1>2, <1>3 DEF Torn, Full

\* The place that the j-th node has when the i-th is cut out.
Place(i, j) == IF j < i THEN j ELSE j - 1

\* The list without its i-th node: its ends, and the links of the others.
LEMMA CutShape ==
  ASSUME NEW s \in Seq(Nodes), NEW i \in 1..Len(s), NEW t, t = Cut(s, i)
  PROVE  /\ HeadOf(s, i, TRUE) = First(t) /\ TailOf(s, i, TRUE) = Final(t)
         /\ \A j \in 1..Len(s) : j # i => LinksOf(s, i, j, TRUE, TRUE) = LinksAt(t, Place(i, j))
         /\ \A j \in 1..Len(s) : j # i => Place(i, j) \in 1..Len(t) /\ t[Place(i, j)] = s[j]
<1>1. /\ Len(t) = Len(s) - 1
      /\ \A k \in 1..Len(s) - 1 : t[k] = IF k < i THEN s[k] ELSE s[k + 1]
  BY CutProperties
<1>2. Len(s) \in Nat /\ i \in 1..Len(s) /\ s[i] \in Nodes
  BY ElementOfSeq
<1>3. HeadOf(s, i, TRUE) = First(t) /\ TailOf(s, i, TRUE) = Final(t)
  <2>1. CASE Len(s) = 1
    BY <2>1, <1>1, <1>2 DEF HeadOf, TailOf, First, Final
  <2>2. CASE Len(s) # 1
    <3>1. Len(t) # 0 /\ 1 \in 1..Len(s) - 1 /\ Len(s) - 1 \in 1..Len(s) - 1
      BY <2>2, <1>1, <1>2
    <3>2. t[1] = (IF i = 1 THEN s[2] ELSE s[1]) /\ t[Len(t)] = IF i = Len(s) THEN s[Len(s) - 1] ELSE s[Len(s)]
      BY <3>1, <1>1, <1>2
    <3> QED
      BY <2>2, <3>1, <3>2 DEF HeadOf, TailOf, First, Final
  <2> QED
    BY <2>1, <2>2
<1>4. ASSUME NEW j \in 1..Len(s), j # i
      PROVE  LinksOf(s, i, j, TRUE, TRUE) = LinksAt(t, Place(i, j))
  <2>1. CASE j < i
    <3>1. j \in 1..Len(s) - 1 /\ (j > 1 => j - 1 \in 1..Len(s) - 1) /\ (j < Len(s) - 1 => j + 1 \in 1..Len(s) - 1)
      BY <2>1, <1>2
    <3>2. t[j] = s[j] /\ (j > 1 => t[j - 1] = s[j - 1]) /\ (j # 1 => t[1] = s[1])
      BY <2>1, <3>1, <1>1, <1>2
    <3>3. j < Len(s) - 1 => t[j + 1] = IF j + 1 < i THEN s[j + 1] ELSE s[j + 2]
      BY <2>1, <3>1, <1>1, <1>2
    <3>4. LinksAt(t, j).prev = LinksOf(s, i, j, TRUE, TRUE).prev
      BY <2>1, <3>1, <3>2, <1>1, <1>2 DEF LinksOf, LinksAt
    <3>5. LinksAt(t, j).next = LinksOf(s, i, j, TRUE, TRUE).next
      <4>1. CASE j = i - 1
        <5>1. CASE i = Len(s)
          BY <5>1, <4>1, <3>1, <3>2, <1>1, <1>2 DEF LinksOf, LinksAt
        <5>2. CASE i # Len(s)
          <6>1. j < Len(s) - 1 /\ ~(j + 1 < i) /\ j + 2 = i + 1 /\ j # Len(t)
            BY <5>2, <4>1, <1>1, <1>2
          <6> QED
            BY <5>2, <4>1, <6>1, <3>3 DEF LinksOf, LinksAt
        <5> QED
          BY <5>1, <5>2
      <4>2. CASE j # i - 1
        <5>1. j < Len(s) - 1 /\ j + 1 < i /\ j # Len(t) /\ j # Len(s)
          BY <4>2, <2>1, <1>1, <1>2
        <5> QED
          BY <4>2, <5>1, <3>3 DEF LinksOf, LinksAt
      <4> QED
        BY <4>1, <4>2
    <3> QED
      BY <2>1, <3>4, <3>5 DEF LinksOf, LinksAt, Place
  <2>2. CASE ~(j < i)
    <3> DEFINE m == j - 1
    <3>1. m \in 1..Len(s) - 1 /\ j = m + 1 /\ ~(m < i) /\ m >= i
      BY <2>2, <1>2, <1>4
    <3> HIDE DEF m
    <3>2. t[m] = s[j]
      BY <3>1, <1>1
    <3>3. m # 1 => t[m - 1] = IF m - 1 < i THEN s[m - 1] ELSE s[m]
      <4>1. m # 1 => m - 1 \in 1..Len(s) - 1
        BY <3>1, <1>2
      <4> QED
        BY <4>1, <3>1, <1>1
    <3>4. m # Len(t) => t[m + 1] = s[j + 1]
      <4>1. m # Len(t) => m + 1 \in 1..Len(s) - 1 /\ ~(m + 1 < i) /\ m + 1 = j
        BY <3>1, <1>1, <1>2
      <4> QED
        BY <4>1, <3>1, <1>1
    <3>5. LinksAt(t, m).prev = LinksOf(s, i, j, TRUE, TRUE).prev
      <4>1. CASE j = i + 1
        <5>1. m = i
          BY <4>1, <3>1, <1>2
        <5> QED
          BY <4>1, <5>1, <3>2, <3>3, <1>2 DEF LinksOf, LinksAt
      <4>2. CASE j # i + 1
        <5>1. m # 1 /\ ~(m - 1 < i) /\ j # 1 /\ m = j - 1
          BY <4>2, <3>1, <1>2
        <5> QED
          BY <4>2, <5>1, <3>3 DEF LinksOf, LinksAt
      <4> QED
        BY <4>1, <4>2
    <3>6. LinksAt(t, m).next = LinksOf(s, i, j, TRUE, TRUE).next
      <4>1. j # i - 1 /\ (m = Len(t) <=> j = Len(s))
        BY <3>1, <1>1, <1>2
      <4> QED
        BY <4>1, <3>2, <3>4 DEF LinksOf, LinksAt
    <3>7. LinksAt(t, m) = LinksOf(s, i, j, TRUE, TRUE)
      BY <3>5, <3>6 DEF LinksOf, LinksAt
    <3> QED
      BY <2>2, <3>7 DEF m, Place
  <2> QED
    BY <2>1, <2>2
<1>5. ASSUME NEW j \in 1..Len(s), j # i
      PROVE  /\ Place(i, j) \in 1..Len(t)
             /\ t[Place(i, j)] = s[j]
  <2>1. LET m == Place(i, j)
        IN  m \in 1..Len(t) /\ m \in 1..Len(s) - 1 /\ (IF m < i THEN m ELSE m + 1) = j
    BY <1>5, <1>1, <1>2 DEF Place
  <2>2. t[Place(i, j)] = s[j]
    BY <2>1, <1>1
  <2> QED
    BY <2>1, <2>2
<1> QED
  BY <1>3, <1>4, <1>5

\* Everything has been stored: the list without the node.
LEMMA TornAll ==
  ASSUME NEW D, NEW S, Distinct(S), NEW l \in Lists, NEW i \in 1..Len(S[l])
  PROVE  Torn(D, S, l, i, TRUE, TRUE, TRUE, TRUE, TRUE) <=> Full(D, CutFrom(S, l, i))
<1> DEFINE T == CutFrom(S, l, i)
           s == S[l]
           t == Cut(S[l], i)
<1>1. \A k \in Lists : S[k] \in Seq(Nodes) /\ Len(S[k]) \in Nat /\ \A j \in 1..Len(S[k]) : S[k][j] \in Nodes
  BY Elements
<1>2. /\ Len(t) = Len(s) - 1
      /\ \A k \in 1..Len(s) - 1 : t[k] = IF k < i THEN s[k] ELSE s[k + 1]
  BY <1>1, CutProperties
<1>3. T[l] = t /\ \A k \in Lists \ {l} : T[k] = S[k]
  BY DEF CutFrom, Distinct
<1>4. /\ NotListed(T, s[i])
      /\ \A n \in Nodes : n # s[i] => (NotListed(T, n) <=> NotListed(S, n))
  BY CutDistinct
<1>5. Len(s) \in Nat /\ i \in 1..Len(s) /\ s[i] \in Nodes
  BY <1>1
<1>6. HeadOf(s, i, TRUE) = First(t) /\ TailOf(s, i, TRUE) = Final(t)
  BY <1>1, CutShape
<1>7. ASSUME NEW j \in 1..Len(s), j # i
      PROVE  LinksOf(s, i, j, TRUE, TRUE) = LinksAt(t, Place(i, j))
  <2>1. s \in Seq(Nodes) /\ t = Cut(s, i)
    BY <1>1
  <2> HIDE DEF s, t
  <2>2. \A k \in 1..Len(s) : k # i => LinksOf(s, i, k, TRUE, TRUE) = LinksAt(t, Place(i, k))
    BY <1>5, <2>1, CutShape, ZenonT(60)
  <2> QED
    BY <1>7, <2>2
<1> HIDE DEF T, t
<1>8. (\A n \in Nodes : NotListed(T, n) => D.links[n] = Out)
        <=> D.links[s[i]] = Out /\ \A n \in Nodes : NotListed(S, n) => D.links[n] = Out
  <2>1. ~NotListed(S, s[i])
    BY <1>5 DEF NotListed
  <2> QED
    BY <2>1, <1>4, <1>5
<1>9. (\A j \in 1..Len(t) : D.links[t[j]] = LinksAt(t, j))
        <=> \A j \in 1..Len(s) : j # i => D.links[s[j]] = LinksOf(s, i, j, TRUE, TRUE)
  <2> HIDE DEF s
  <2>1. ASSUME \A j \in 1..Len(t) : D.links[t[j]] = LinksAt(t, j),
               NEW j \in 1..Len(s), j # i
        PROVE  D.links[s[j]] = LinksOf(s, i, j, TRUE, TRUE)
    <3> DEFINE m == Place(i, j)
    <3>1. m \in 1..Len(t) /\ m \in 1..Len(s) - 1 /\ (IF m < i THEN m ELSE m + 1) = j
      BY <2>1, <1>2, <1>5 DEF Place
    <3>2. t[m] = s[j]
      BY <3>1, <1>2
    <3> QED
      BY <3>1, <3>2, <2>1, <1>7
  <2>2. ASSUME \A j \in 1..Len(s) : j # i => D.links[s[j]] = LinksOf(s, i, j, TRUE, TRUE),
               NEW m \in 1..Len(t)
        PROVE  D.links[t[m]] = LinksAt(t, m)
    <3> DEFINE j == IF m < i THEN m ELSE m + 1
    <3>1. j \in 1..Len(s) /\ j # i /\ m \in 1..Len(s) - 1 /\ Place(i, j) = m
      BY <2>2, <1>2, <1>5 DEF Place
    <3>2. t[m] = s[j]
      BY <3>1, <1>2
    <3> QED
      BY <3>1, <3>2, <2>2, <1>7
  <2> QED
    BY <2>1, <2>2
<1>10. Torn(D, S, l, i, TRUE, TRUE, TRUE, TRUE, TRUE) => Full(D, T)
  <2> SUFFICES ASSUME Torn(D, S, l, i, TRUE, TRUE, TRUE, TRUE, TRUE) PROVE Full(D, T)
    OBVIOUS
  <2>1. \A j \in 1..Len(s) : j # i => D.links[s[j]] = LinksOf(s, i, j, TRUE, TRUE)
    BY DEF Torn
  <2>2. D.links[s[i]] = Out /\ \A n \in Nodes : NotListed(S, n) => D.links[n] = Out
    BY DEF Torn
  <2>3. \A k \in Lists : \A j \in 1..Len(T[k]) : D.links[T[k][j]] = LinksAt(T[k], j)
    <3>1. \A j \in 1..Len(T[l]) : D.links[T[l][j]] = LinksAt(T[l], j)
      BY <2>1, <1>9, <1>3
    <3>2. \A k \in Lists \ {l} : \A j \in 1..Len(T[k]) : D.links[T[k][j]] = LinksAt(T[k], j)
      BY <1>3 DEF Torn
    <3> QED
      BY <3>1, <3>2
  <2>4. \A k \in Lists : D.heads[k] = First(T[k]) /\ D.tails[k] = Final(T[k])
    BY <1>3, <1>6 DEF Torn
  <2> QED
    BY <2>2, <2>3, <2>4, <1>8 DEF Full
<1>11. Full(D, T) => Torn(D, S, l, i, TRUE, TRUE, TRUE, TRUE, TRUE)
  <2> SUFFICES ASSUME Full(D, T) PROVE Torn(D, S, l, i, TRUE, TRUE, TRUE, TRUE, TRUE)
    OBVIOUS
  <2>1. D.links[s[i]] = Out /\ \A n \in Nodes : NotListed(S, n) => D.links[n] = Out
    BY <1>8 DEF Full
  <2>2. \A j \in 1..Len(s) : j # i => D.links[s[j]] = LinksOf(s, i, j, TRUE, TRUE)
    BY <1>9, <1>3 DEF Full
  <2>3. \A j \in 1..Len(s) : D.links[s[j]] = IF j = i /\ TRUE THEN Out ELSE LinksOf(s, i, j, TRUE, TRUE)
    BY <2>1, <2>2
  <2>4. /\ D.heads[l] = HeadOf(s, i, TRUE) /\ D.tails[l] = TailOf(s, i, TRUE)
        /\ \A k \in Lists \ {l} : D.heads[k] = First(S[k]) /\ D.tails[k] = Final(S[k])
        /\ \A k \in Lists \ {l} : \A j \in 1..Len(S[k]) : D.links[S[k][j]] = LinksAt(S[k], j)
    BY <1>3, <1>6, ZenonT(60) DEF Full
  <2> QED
    BY <2>1, <2>3, <2>4 DEF Torn
<1> QED
  BY <1>10, <1>11 DEF T

\* The stores that do not count: those of an end that the node is not at.
LEMMA TornEnds ==
  ASSUME NEW D, NEW S, Distinct(S), NEW l \in Lists, NEW i \in 1..Len(S[l]),
         NEW hd, NEW tl, NEW xd, NEW pd, NEW nd, NEW hd2, NEW tl2, NEW xd2, NEW pd2,
         Torn(D, S, l, i, hd, tl, xd, pd, nd),
         i = 1 => hd2 = hd, i = Len(S[l]) => tl2 = tl,
         i # Len(S[l]) => xd2 = xd, i # 1 => pd2 = pd
  PROVE  Torn(D, S, l, i, hd2, tl2, xd2, pd2, nd)
<1>1. Len(S[l]) \in Nat
  BY Elements
<1>2. HeadOf(S[l], i, hd2) = HeadOf(S[l], i, hd) /\ TailOf(S[l], i, tl2) = TailOf(S[l], i, tl)
  BY DEF HeadOf, TailOf
<1>3. \A j \in 1..Len(S[l]) : LinksOf(S[l], i, j, xd2, pd2) = LinksOf(S[l], i, j, xd, pd)
  <2> TAKE j \in 1..Len(S[l])
  <2>1. i = Len(S[l]) => j # i + 1
    BY <1>1
  <2>2. i = 1 => j # i - 1
    BY <1>1
  <2> QED
    BY <2>1, <2>2 DEF LinksOf
<1> QED
  BY <1>2, <1>3 DEF Torn

\* ... a node behind the last one.
LEMMA TornNoBehind ==
  ASSUME NEW D, NEW S, Distinct(S), NEW l \in Lists, NEW i, i = Len(S[l]),
         NEW hd, NEW tl, NEW xd, NEW pd, NEW nd, Torn(D, S, l, i, hd, tl, xd, pd, nd)
  PROVE  \A xd2 : Torn(D, S, l, i, hd, tl, xd2, pd, nd)
<1>1. Len(S[l]) \in Nat
  BY Elements
<1>2. ASSUME NEW xd2, NEW j \in 1..Len(S[l])
      PROVE  LinksOf(S[l], i, j, xd2, pd) = LinksOf(S[l], i, j, xd, pd)
  <2>1. j # i + 1
    BY <1>1
  <2> QED
    BY <2>1 DEF LinksOf
<1> QED
  BY <1>2 DEF Torn

\* WriteHead() and WriteTail().
LEMMA TornHead ==
  ASSUME NEW D \in Disk, NEW S, NEW l \in Lists, NEW i,
         NEW hd, NEW tl, NEW xd, NEW pd, NEW nd, NEW hd2, NEW a,
         Torn(D, S, l, i, hd, tl, xd, pd, nd), a = HeadOf(S[l], i, hd2)
  PROVE  Torn([D EXCEPT !.heads[l] = a], S, l, i, hd2, tl, xd, pd, nd)
<1> DEFINE D2 == [D EXCEPT !.heads[l] = a]
<1>1. D2.links = D.links /\ D2.tails = D.tails /\ D2.heads = [D.heads EXCEPT ![l] = a]
  BY DEF Disk
<1>2. D2.heads[l] = a /\ \A k \in Lists \ {l} : D2.heads[k] = D.heads[k]
  BY <1>1 DEF Disk
<1> HIDE DEF D2
<1>3. Torn(D2, S, l, i, hd2, tl, xd, pd, nd)
  BY <1>1, <1>2 DEF Torn
<1> QED
  BY <1>3 DEF D2

\* ... the tail.
LEMMA TornTail ==
  ASSUME NEW D \in Disk, NEW S, NEW l \in Lists, NEW i,
         NEW hd, NEW tl, NEW xd, NEW pd, NEW nd, NEW tl2, NEW a,
         Torn(D, S, l, i, hd, tl, xd, pd, nd), a = TailOf(S[l], i, tl2)
  PROVE  Torn([D EXCEPT !.tails[l] = a], S, l, i, hd, tl2, xd, pd, nd)
<1> DEFINE D2 == [D EXCEPT !.tails[l] = a]
<1>1. D2.links = D.links /\ D2.heads = D.heads /\ D2.tails = [D.tails EXCEPT ![l] = a]
  BY DEF Disk
<1>2. D2.tails[l] = a /\ \A k \in Lists \ {l} : D2.tails[k] = D.tails[k]
  BY <1>1 DEF Disk
<1> HIDE DEF D2
<1>3. Torn(D2, S, l, i, hd, tl2, xd, pd, nd)
  BY <1>1, <1>2 DEF Torn
<1> QED
  BY <1>3 DEF D2

\* The store of the links of the j-th node.
LEMMA TornLinks ==
  ASSUME NEW D \in Disk, NEW S, Distinct(S), NEW l \in Lists, NEW i \in 1..Len(S[l]),
         NEW j \in 1..Len(S[l]),
         NEW hd, NEW tl, NEW xd, NEW pd, NEW nd, NEW xd2, NEW pd2, NEW nd2, NEW v,
         Torn(D, S, l, i, hd, tl, xd, pd, nd),
         j # i + 1 => xd2 = xd, j # i - 1 => pd2 = pd, j # i => nd2 = nd,
         v = IF j = i /\ nd2 THEN Out ELSE LinksOf(S[l], i, j, xd2, pd2)
  PROVE  Torn([D EXCEPT !.links[S[l][j]] = v], S, l, i, hd, tl, xd2, pd2, nd2)
<1> DEFINE D2 == [D EXCEPT !.links[S[l][j]] = v]
           n == S[l][j]
<1>0. n \in Nodes /\ Len(S[l]) \in Nat
  BY Elements
<1>1. D2.heads = D.heads /\ D2.tails = D.tails /\ D2.links = [D.links EXCEPT ![n] = v]
  BY DEF Disk
<1>2. D2.links[n] = v /\ \A m \in Nodes : m # n => D2.links[m] = D.links[m]
  BY <1>1, <1>0 DEF Disk
<1>3. \A k \in Lists \ {l} : \A m \in 1..Len(S[k]) : S[k][m] \in Nodes /\ S[k][m] # n
  BY Elements DEF Distinct
<1>4. \A m \in 1..Len(S[l]) : m # j => S[l][m] \in Nodes /\ S[l][m] # n
  BY Elements DEF Distinct
<1>5. ~NotListed(S, n)
  BY DEF NotListed
<1> HIDE DEF D2, n
<1>6. ASSUME NEW m \in 1..Len(S[l])
      PROVE  D2.links[S[l][m]] = IF m = i /\ nd2 THEN Out ELSE LinksOf(S[l], i, m, xd2, pd2)
  <2>1. CASE m = j
    BY <2>1, <1>2 DEF n
  <2>2. CASE m # j
    <3>1. D2.links[S[l][m]] = D.links[S[l][m]]
      BY <2>2, <1>2, <1>4
    <3>2. LinksOf(S[l], i, m, xd2, pd2) = LinksOf(S[l], i, m, xd, pd)
      BY <2>2 DEF LinksOf
    <3>3. (m = i /\ nd2) <=> (m = i /\ nd)
      BY <2>2
    <3>4. D.links[S[l][m]] = IF m = i /\ nd THEN Out ELSE LinksOf(S[l], i, m, xd, pd)
      BY DEF Torn
    <3> QED
      BY <3>1, <3>2, <3>3, <3>4
  <2> QED
    BY <2>1, <2>2
<1>7. \A k \in Lists \ {l} : \A m \in 1..Len(S[k]) : D2.links[S[k][m]] = LinksAt(S[k], m)
  BY <1>2, <1>3 DEF Torn
<1>8. \A m \in Nodes : NotListed(S, m) => D2.links[m] = Out
  BY <1>2, <1>5 DEF Torn
<1>9. Torn(D2, S, l, i, hd, tl, xd2, pd2, nd2)
  BY <1>1, <1>6, <1>7, <1>8 DEF Torn
<1> QED
  BY <1>9 DEF D2, n

\* The other fields of the disk.
SameLists(D, D2) == D2.links = D.links /\ D2.heads = D.heads /\ D2.tails = D.tails

\* Stores into LruData that touch no end of a list leave the lists whole ...
LEMMA FullOther ==
  ASSUME NEW D, NEW D2, SameLists(D, D2), NEW S, Full(D, S)
  PROVE  Full(D2, S)
BY DEF SameLists, Full

\* ... or as torn as they are.
LEMMA TornOther ==
  ASSUME NEW D, NEW D2, SameLists(D, D2), NEW S, NEW l, NEW i,
         NEW hd, NEW tl, NEW xd, NEW pd, NEW nd, Torn(D, S, l, i, hd, tl, xd, pd, nd)
  PROVE  Torn(D2, S, l, i, hd, tl, xd, pd, nd)
BY DEF SameLists, Torn

(***************************************************************************)
(* Stores and sequences of stores.                                         *)
(***************************************************************************)

\* The stores that the calls make are stores.
LEMMA WriteTypes ==
  /\ \A n \in Nodes, v \in Links : StoreLinks(n, v) \in Writes
  /\ \A l \in Lists, a \in Addrs : WriteHead(l, a) \in Writes /\ WriteTail(l, a) \in Writes
  /\ \A l \in Lists, v \in Nat : WriteSize(l, v) \in Writes
  /\ \A a \in Addrs : SetField("transaction", a) \in Writes
  /\ \A op \in Operations : SetField("operation", op) \in Writes
  /\ \A l \in Lists \cup {None} : SetField("operation_list", l) \in Writes
BY DEF StoreLinks, WriteHead, WriteTail, WriteSize, SetField, Writes

\* A sequence of stores with one more in front.
LEMMA PushProperties ==
  ASSUME NEW w \in Writes, NEW q \in Seq(Writes)
  PROVE  /\ Push(w, q) \in Seq(Writes) /\ Push(w, q) # <<>>
         /\ Head(Push(w, q)) = w /\ Tail(Push(w, q)) = q
<1>1. <<w>> \in Seq(Writes) /\ Len(<<w>>) = 1 /\ <<w>>[1] = w
  OBVIOUS
<1>2. /\ <<w>> \o q \in Seq(Writes)
      /\ Len(<<w>> \o q) = Len(<<w>>) + Len(q)
      /\ \A i \in 1 .. Len(<<w>>) + Len(q) :
           (<<w>> \o q)[i] = IF i <= Len(<<w>>) THEN <<w>>[i] ELSE q[i - Len(<<w>>)]
  BY <1>1, ConcatProperties
<1>3. Len(q) \in Nat
  BY LenProperties
<1> DEFINE p == <<w>> \o q
<1> HIDE DEF p
<1>4. p \in Seq(Writes) /\ Len(p) = 1 + Len(q) /\ p[1] = w /\ \A i \in 1..Len(q) : p[i + 1] = q[i]
  <2>1. \A i \in 1..Len(q) : i + 1 \in 1..(1 + Len(q)) /\ ~(i + 1 <= 1) /\ (i + 1) - 1 = i
    BY <1>3
  <2>2. 1 \in 1..(1 + Len(q))
    BY <1>3
  <2> QED
    BY <1>1, <1>2, <2>1, <2>2 DEF p
<1>5. p # <<>>
  BY <1>3, <1>4
<1>6. /\ Head(p) = p[1] /\ Tail(p) \in Seq(Writes) /\ Len(Tail(p)) = Len(p) - 1
      /\ \A i \in 1 .. Len(Tail(p)) : Tail(p)[i] = p[i + 1]
  <2>1. Head(p) = p[1]
    BY <1>4
  <2> QED
    BY <2>1, <1>4, <1>5, HeadTailProperties
<1>7. Len(Tail(p)) = Len(q) /\ \A i \in 1 .. Len(q) : Tail(p)[i] = q[i]
  BY <1>3, <1>4, <1>6
<1>8. Tail(p) = q
  BY <1>6, <1>7, SeqEqual
<1> QED
  BY <1>4, <1>5, <1>6, <1>8 DEF Push, p

\* What a step of Store does to the first of the stores.
LEMMA StoreStep ==
  ASSUME Store, NEW w \in Writes, NEW q \in Seq(Writes), todo = Push(w, q)
  PROVE  /\ d' = Written(w) /\ lru' = Committed(w) /\ todo' = q
         /\ status' = IF status = "recovering" /\ q = <<>> THEN "up" ELSE status
         /\ status # "down"
         /\ mem' = mem /\ iters' = iters /\ reinsert' = reinsert /\ crashes' = crashes
BY PushProperties DEF Store

\* The disk that each kind of store leaves, and its part in the history.
LEMMA StoredLinks ==
  ASSUME NEW n \in Nodes, NEW v
  PROVE  /\ Written(StoreLinks(n, v)) = [d EXCEPT !.links[n] = v]
         /\ ~(n = d.transaction /\ v = Out /\ d.operation = "REMOVE") =>
              Committed(StoreLinks(n, v)) = lru
         /\ n = d.transaction /\ v = Out /\ d.operation = "REMOVE" =>
              Committed(StoreLinks(n, v)) = [l \in Lists |-> Without(lru[l], n)]
<1>1. n # None
  BY NoAddrAssumption
<1> QED
  BY <1>1 DEF Written, Committed, StoreLinks

\* What a store into a head, a tail or a counter does; the lists that are built do
\* not change.
LEMMA StoredEnds ==
  ASSUME NEW l \in Lists, NEW a
  PROVE  /\ Written(WriteHead(l, a)) = [d EXCEPT !.heads[l] = a]
         /\ Written(WriteTail(l, a)) = [d EXCEPT !.tails[l] = a]
         /\ Written(WriteSize(l, a)) = [d EXCEPT !.sizes[l] = a]
         /\ Committed(WriteHead(l, a)) = lru /\ Committed(WriteTail(l, a)) = lru
         /\ Committed(WriteSize(l, a)) = lru
<1>1. l # None
  BY NoAddrAssumption
<1> QED
  BY <1>1 DEF Written, Committed, WriteHead, WriteTail, WriteSize

\* What a store into the transaction record does.  Only the one that records an
\* insertion changes the lists that are built.
LEMMA StoredField ==
  /\ \A a : Written(SetField("transaction", a)) = [d EXCEPT !.transaction = a]
  /\ \A a : Written(SetField("operation", a)) = [d EXCEPT !.operation = a]
  /\ \A a : Written(SetField("operation_list", a)) = [d EXCEPT !.operation_list = a]
  /\ \A a : Committed(SetField("operation", a)) = lru
  /\ \A a : Committed(SetField("operation_list", a)) = lru
  /\ Committed(SetField("transaction", NoAddr)) = lru
  /\ \A n \in Nodes : ~(d.operation = "INSERT" /\ ~Listed(n, d.operation_list)) =>
       Committed(SetField("transaction", n)) = lru
  /\ \A n \in Nodes : d.operation = "INSERT" /\ ~Listed(n, d.operation_list) =>
       Committed(SetField("transaction", n)) =
         [lru EXCEPT ![d.operation_list] = <<n>> \o @]
BY NoAddrAssumption DEF Written, Committed, SetField

\* Links are links.
LEMMA LinkTypes ==
  ASSUME NEW s \in Seq(Nodes), NEW j \in 1..Len(s)
  PROVE  /\ LinksAt(s, j) \in Links
         /\ LinksAt(s, j).prev \in Nodes /\ LinksAt(s, j).next \in Nodes
         /\ \A i \in 1..Len(s), xd, pd \in BOOLEAN : LinksOf(s, i, j, xd, pd) \in Links
<1>1. Len(s) \in Nat /\ \A i \in 1..Len(s) : s[i] \in Nodes
  BY ElementOfSeq
<1>2. LinksAt(s, j).prev \in Nodes /\ LinksAt(s, j).next \in Nodes
  <2>1. (j # 1 => j - 1 \in 1..Len(s)) /\ (j # Len(s) => j + 1 \in 1..Len(s)) /\ 1 \in 1..Len(s)
    BY <1>1
  <2> QED
    BY <1>1, <2>1 DEF LinksAt
<1>3. LinksAt(s, j) \in Links
  BY <1>2 DEF LinksAt, Links, Addrs
<1>4. ASSUME NEW i \in 1..Len(s), NEW xd \in BOOLEAN, NEW pd \in BOOLEAN
      PROVE  LinksOf(s, i, j, xd, pd) \in Links
  <2>1. (i # 1 => i - 1 \in 1..Len(s)) /\ (i # Len(s) => i + 1 \in 1..Len(s))
    BY <1>1
  <2>2. LinksOf(s, i, j, xd, pd).prev \in Nodes
    BY <1>1, <1>2, <2>1 DEF LinksOf
  <2>3. LinksOf(s, i, j, xd, pd).next \in Nodes
    BY <1>1, <1>2, <2>1 DEF LinksOf
  <2> QED
    BY <2>2, <2>3 DEF LinksOf, Links, Addrs
<1> QED
  BY <1>2, <1>3, <1>4

\* The sequences that are left of the calls.
LEMMA EndTypes ==
  /\ <<>> \in Seq(Writes)
  /\ SetField("operation_list", None) \in Writes
  /\ SetField("operation", None) \in Writes
  /\ SetField("transaction", NoAddr) \in Writes
  /\ End3 \in Seq(Writes) /\ End2 \in Seq(Writes) /\ End1 \in Seq(Writes)
  /\ End3 # <<>> /\ End2 # <<>> /\ End1 # <<>>
  /\ \A l \in Lists, v \in Nat : Count(l, v) \in Seq(Writes) /\ Count(l, v) # <<>>
<1>1. SetField("operation_list", None) \in Writes /\ SetField("operation", None) \in Writes
      /\ SetField("transaction", NoAddr) \in Writes
  BY WriteTypes DEF Addrs, Operations
<1>2. <<>> \in Seq(Writes)
  OBVIOUS
<1>3. End3 \in Seq(Writes) /\ End3 # <<>>
  BY <1>1, <1>2, PushProperties DEF End3
<1>4. End2 \in Seq(Writes) /\ End2 # <<>>
  BY <1>1, <1>3, PushProperties DEF End2
<1>5. End1 \in Seq(Writes) /\ End1 # <<>>
  BY <1>1, <1>4, PushProperties DEF End1
<1> QED
  BY <1>1, <1>2, <1>3, <1>4, <1>5, WriteTypes, PushProperties DEF Count

\* The constructor of Transaction, in front of the stores q ...
LEMMA BeginTypes ==
  ASSUME NEW q \in Seq(Writes), NEW n \in Nodes, NEW l \in Lists, NEW op \in Operations
  PROVE  /\ SetField("transaction", n) \in Writes
         /\ SetField("operation_list", l) \in Writes
         /\ SetField("operation", op) \in Writes
         /\ Begin3(n, q) \in Seq(Writes) /\ Begin3(n, q) # <<>>
         /\ Begin2(n, l, q) \in Seq(Writes) /\ Begin2(n, l, q) # <<>>
         /\ Begin1(op, n, l, q) \in Seq(Writes) /\ Begin1(op, n, l, q) # <<>>
<1>1. SetField("transaction", n) \in Writes /\ SetField("operation_list", l) \in Writes
      /\ SetField("operation", op) \in Writes
  BY WriteTypes DEF Addrs
<1>2. Begin3(n, q) \in Seq(Writes) /\ Begin3(n, q) # <<>>
  BY <1>1, PushProperties DEF Begin3
<1>3. Begin2(n, l, q) \in Seq(Writes) /\ Begin2(n, l, q) # <<>>
  BY <1>1, <1>2, PushProperties DEF Begin2
<1> QED
  BY <1>1, <1>2, <1>3, PushProperties DEF Begin1

\* ... the clearing of the record by CompleteTransaction() ...
LEMMA ClearTypes ==
  ASSUME NEW q \in Seq(Writes)
  PROVE  /\ Clear2(q) \in Seq(Writes) /\ Clear2(q) # <<>>
         /\ Clear1(q) \in Seq(Writes) /\ Clear1(q) # <<>>
<1>1. Clear2(q) \in Seq(Writes) /\ Clear2(q) # <<>>
  BY EndTypes, PushProperties DEF Clear2
<1> QED
  BY <1>1, EndTypes, PushProperties DEF Clear1

\* ... the stores of Insert() ...
LEMMA InsertTypes ==
  ASSUME NEW s \in Seq(Nodes), Len(s) > 0, NEW l \in Lists, NEW v \in Nat
  PROVE  /\ WriteHead(l, s[1]) \in Writes
         /\ StoreLinks(s[1], LinksAt(s, 1)) \in Writes
         /\ (IF Len(s) = 1 THEN WriteTail(l, s[1]) ELSE StoreLinks(s[2], LinksAt(s, 2))) \in Writes
         /\ Insert4(s, l, v) \in Seq(Writes) /\ Insert4(s, l, v) # <<>>
         /\ Insert3(s, l, v) \in Seq(Writes) /\ Insert3(s, l, v) # <<>>
         /\ Insert2(s, l, v) \in Seq(Writes) /\ Insert2(s, l, v) # <<>>
         /\ Insert1(s, l, v) \in Seq(Writes) /\ Insert1(s, l, v) # <<>>
<1>1. Len(s) \in Nat /\ \A i \in 1..Len(s) : s[i] \in Nodes
  BY ElementOfSeq
<1>2. 1 \in 1..Len(s) /\ (Len(s) # 1 => 2 \in 1..Len(s))
  <2>1. Len(s) \in Nat
    BY <1>1
  <2>2. Len(s) # 1 => Len(s) > 1
    BY <2>1
  <2> QED
    BY <2>1, <2>2
<1>3. WriteHead(l, s[1]) \in Writes /\ WriteTail(l, s[1]) \in Writes
  BY <1>1, <1>2, WriteTypes DEF Addrs
<1>4. StoreLinks(s[1], LinksAt(s, 1)) \in Writes
  BY <1>1, <1>2, WriteTypes, LinkTypes
<1>5. Len(s) # 1 => StoreLinks(s[2], LinksAt(s, 2)) \in Writes
  BY <1>1, <1>2, WriteTypes, LinkTypes
<1>6. (IF Len(s) = 1 THEN WriteTail(l, s[1]) ELSE StoreLinks(s[2], LinksAt(s, 2))) \in Writes
  BY <1>3, <1>5
<1>7. Insert4(s, l, v) \in Seq(Writes) /\ Insert4(s, l, v) # <<>>
  BY <1>3, EndTypes, PushProperties DEF Insert4
<1>8. Insert3(s, l, v) \in Seq(Writes) /\ Insert3(s, l, v) # <<>>
  BY <1>4, <1>7, PushProperties DEF Insert3
<1>9. Insert2(s, l, v) \in Seq(Writes) /\ Insert2(s, l, v) # <<>>
  BY <1>6, <1>8, PushProperties DEF Insert2
<1>10. Insert1(s, l, v) \in Seq(Writes) /\ Insert1(s, l, v) # <<>>
  BY <1>1, <1>2, <1>9, BeginTypes DEF Insert1, Operations
<1> QED
  BY <1>3, <1>4, <1>6, <1>7, <1>8, <1>9, <1>10

\* ... of Remove() ...
LEMMA RemoveTypes ==
  ASSUME NEW s \in Seq(Nodes), NEW i \in 1..Len(s), NEW l \in Lists, NEW v \in Nat,
         NEW shared \in BOOLEAN
  PROVE  /\ StoreLinks(s[i], Out) \in Writes
         /\ StoreLinks(NodeBefore(s, i), BeforeLinks(s, i, shared)) \in Writes
         /\ StoreLinks(NodeBehind(s, i), BehindLinks(s, i, shared)) \in Writes
         /\ WriteHead(l, NoAddr) \in Writes /\ WriteTail(l, NoAddr) \in Writes
         /\ Len(s) # 1 /\ i = 1 => WriteHead(l, s[2]) \in Writes
         /\ Len(s) # 1 /\ i = Len(s) => WriteTail(l, s[i - 1]) \in Writes
         /\ Remove6(s[i], l, v) \in Seq(Writes) /\ Remove6(s[i], l, v) # <<>>
         /\ Remove5(s, i, l, v, shared) \in Seq(Writes) /\ Remove5(s, i, l, v, shared) # <<>>
         /\ Remove4(s, i, l, v, shared) \in Seq(Writes) /\ Remove4(s, i, l, v, shared) # <<>>
         /\ Remove3(s, i, l, v, shared) \in Seq(Writes) /\ Remove3(s, i, l, v, shared) # <<>>
         /\ Remove2(s, i, l, v, shared) \in Seq(Writes) /\ Remove2(s, i, l, v, shared) # <<>>
         /\ Remove1(s, i, l, v, shared) \in Seq(Writes) /\ Remove1(s, i, l, v, shared) # <<>>
<1>1. Len(s) \in Nat /\ \A j \in 1..Len(s) : s[j] \in Nodes
  BY ElementOfSeq
<1>2. /\ i # 1 => i - 1 \in 1..Len(s)
      /\ i # Len(s) => i + 1 \in 1..Len(s)
      /\ 1 \in 1..Len(s) /\ (Len(s) # 1 => 2 \in 1..Len(s) /\ (i = Len(s) => i # 1))
  <2>1. Len(s) \in Nat
    BY <1>1
  <2>2. Len(s) # 1 => Len(s) > 1
    BY <2>1
  <2> QED
    BY <2>1, <2>2
<1>3. Out \in Links
  BY DEF Out, Links, Addrs
<1>4. StoreLinks(s[i], Out) \in Writes
  BY <1>1, <1>3, WriteTypes
<1>5. BeforeLinks(s, i, shared) \in Links /\ NodeBefore(s, i) \in Nodes
  BY <1>1, <1>2, <1>3, LinkTypes DEF BeforeLinks, NodeBefore
<1>6. BehindLinks(s, i, shared) \in Links /\ NodeBehind(s, i) \in Nodes
  BY <1>1, <1>2, <1>3, LinkTypes DEF BehindLinks, NodeBehind
<1>7. /\ StoreLinks(NodeBefore(s, i), BeforeLinks(s, i, shared)) \in Writes
      /\ StoreLinks(NodeBehind(s, i), BehindLinks(s, i, shared)) \in Writes
  BY <1>5, <1>6, WriteTypes
<1>8. /\ WriteHead(l, NoAddr) \in Writes /\ WriteTail(l, NoAddr) \in Writes
      /\ Len(s) # 1 /\ i = 1 => WriteHead(l, s[2]) \in Writes
      /\ Len(s) # 1 /\ i = Len(s) => WriteTail(l, s[i - 1]) \in Writes
  BY <1>1, <1>2, WriteTypes DEF Addrs
<1>9. Remove6(s[i], l, v) \in Seq(Writes) /\ Remove6(s[i], l, v) # <<>>
  BY <1>4, EndTypes, PushProperties DEF Remove6
<1>10. Remove5(s, i, l, v, shared) \in Seq(Writes) /\ Remove5(s, i, l, v, shared) # <<>>
  BY <1>7, <1>9, PushProperties DEF Remove5
<1>11. Remove4(s, i, l, v, shared) \in Seq(Writes) /\ Remove4(s, i, l, v, shared) # <<>>
  BY <1>7, <1>10, PushProperties DEF Remove4
<1>12. Remove3(s, i, l, v, shared) \in Seq(Writes) /\ Remove3(s, i, l, v, shared) # <<>>
  BY <1>7, <1>8, <1>11, PushProperties DEF Remove3
<1>13. Remove2(s, i, l, v, shared) \in Seq(Writes) /\ Remove2(s, i, l, v, shared) # <<>>
  BY <1>8, <1>11, <1>12, PushProperties DEF Remove2
<1>14. Remove1(s, i, l, v, shared) \in Seq(Writes) /\ Remove1(s, i, l, v, shared) # <<>>
  BY <1>1, <1>13, BeginTypes DEF Remove1, Operations
<1> QED
  BY <1>4, <1>7, <1>8, <1>9, <1>10, <1>11, <1>12, <1>13, <1>14

\* ... and of RevertRemove() are sequences of stores.
LEMMA RevertTypes ==
  ASSUME NEW s \in Seq(Nodes), NEW i \in 1..Len(s), NEW l \in Lists
  PROVE  /\ StoreLinks(NodeBefore(s, i), LinksAt(s, IF i = 1 THEN 1 ELSE i - 1)) \in Writes
         /\ StoreLinks(NodeBehind(s, i), LinksAt(s, IF i = Len(s) THEN i ELSE i + 1)) \in Writes
         /\ WriteHead(l, s[i]) \in Writes /\ WriteTail(l, s[i]) \in Writes
         /\ Revert3(s, i) \in Seq(Writes) /\ Revert3(s, i) # <<>>
         /\ Revert2(s, i) \in Seq(Writes) /\ Revert2(s, i) # <<>>
<1>1. Len(s) \in Nat /\ \A j \in 1..Len(s) : s[j] \in Nodes
  BY ElementOfSeq
<1>2. /\ (IF i = 1 THEN 1 ELSE i - 1) \in 1..Len(s) /\ (i # 1 => i - 1 \in 1..Len(s))
      /\ (IF i = Len(s) THEN i ELSE i + 1) \in 1..Len(s) /\ (i # Len(s) => i + 1 \in 1..Len(s))
      /\ 1 \in 1..Len(s)
  BY <1>1
<1>3. NodeBefore(s, i) \in Nodes /\ NodeBehind(s, i) \in Nodes
  BY <1>1, <1>2 DEF NodeBefore, NodeBehind
<1>4. /\ LinksAt(s, IF i = 1 THEN 1 ELSE i - 1) \in Links
      /\ LinksAt(s, IF i = Len(s) THEN i ELSE i + 1) \in Links
  BY <1>2, LinkTypes
<1>5. /\ StoreLinks(NodeBefore(s, i), LinksAt(s, IF i = 1 THEN 1 ELSE i - 1)) \in Writes
      /\ StoreLinks(NodeBehind(s, i), LinksAt(s, IF i = Len(s) THEN i ELSE i + 1)) \in Writes
  BY <1>3, <1>4, WriteTypes
<1>6. WriteHead(l, s[i]) \in Writes /\ WriteTail(l, s[i]) \in Writes
  BY <1>1, WriteTypes DEF Addrs
<1>7. Revert3(s, i) \in Seq(Writes) /\ Revert3(s, i) # <<>>
  BY <1>5, EndTypes, ClearTypes, PushProperties DEF Revert3
<1>8. Revert2(s, i) \in Seq(Writes) /\ Revert2(s, i) # <<>>
  BY <1>5, <1>7, PushProperties DEF Revert2
<1> QED
  BY <1>5, <1>6, <1>7, <1>8

\* The disk has its type.
LEMMA DiskType == TypeOK => d \in Disk
BY DEF TypeOK, Disk

\* A store has the type of what it is stored in.
LEMMA StoreTypes ==
  ASSUME TypeOK, Store
  PROVE  d' \in Disk /\ todo' \in Seq(Writes)
<1> DEFINE w == Head(todo)
<1>1. todo \in Seq(Writes) /\ todo # <<>>
  BY DEF Store, TypeOK
<1>2. w \in Writes /\ Tail(todo) \in Seq(Writes)
  BY <1>1, HeadTailProperties
<1>3. d' = Written(w) /\ todo' = Tail(todo)
  BY DEF Store
<1>4. d \in Disk
  BY DiskType
<1>5. None \notin Nodes /\ None \notin Lists
  BY NoAddrAssumption
<1> HIDE DEF w
<1>6. CASE w \in [at : {"links"}, key : Nodes, val : Links]
  <2>1. Written(w) = [d EXCEPT !.links[w.key] = w.val]
    BY <1>6, <1>5 DEF Written
  <2>2. d.links \in [Nodes -> Links] /\ w.key \in Nodes /\ w.val \in Links
    BY <1>6, <1>4 DEF Disk
  <2>3. [d.links EXCEPT ![w.key] = w.val] \in [Nodes -> Links]
    BY <2>2
  <2>4. d' = [d EXCEPT !.links = [d.links EXCEPT ![w.key] = w.val]]
    BY <2>1, <1>3
  <2> QED
    BY <2>3, <2>4, <1>2, <1>3, <1>4 DEF Disk
<1>7. CASE w \in [at : {"heads", "tails"}, key : Lists, val : Addrs]
  <2>1. CASE w.at = "heads"
    <3>1. Written(w) = [d EXCEPT !.heads[w.key] = w.val]
      BY <1>7, <2>1, <1>5 DEF Written
    <3>2. d.heads \in [Lists -> Addrs] /\ w.key \in Lists /\ w.val \in Addrs
      BY <1>7, <1>4 DEF Disk
    <3>3. [d.heads EXCEPT ![w.key] = w.val] \in [Lists -> Addrs]
      BY <3>2
    <3>4. d' = [d EXCEPT !.heads = [d.heads EXCEPT ![w.key] = w.val]]
      BY <3>1, <1>3
    <3> QED
      BY <3>3, <3>4, <1>2, <1>3, <1>4 DEF Disk
  <2>2. CASE w.at = "tails"
    <3>1. Written(w) = [d EXCEPT !.tails[w.key] = w.val]
      BY <1>7, <2>2, <1>5 DEF Written
    <3>2. d.tails \in [Lists -> Addrs] /\ w.key \in Lists /\ w.val \in Addrs
      BY <1>7, <1>4 DEF Disk
    <3>3. [d.tails EXCEPT ![w.key] = w.val] \in [Lists -> Addrs]
      BY <3>2
    <3>4. d' = [d EXCEPT !.tails = [d.tails EXCEPT ![w.key] = w.val]]
      BY <3>1, <1>3
    <3> QED
      BY <3>3, <3>4, <1>2, <1>3, <1>4 DEF Disk
  <2> QED
    BY <1>7, <2>1, <2>2
<1>8. CASE w \in [at : {"sizes"}, key : Lists, val : Nat]
  <2>1. Written(w) = [d EXCEPT !.sizes[w.key] = w.val]
    BY <1>8, <1>5 DEF Written
  <2>2. d.sizes \in [Lists -> Nat] /\ w.key \in Lists /\ w.val \in Nat
    BY <1>8, <1>4 DEF Disk
  <2>3. [d.sizes EXCEPT ![w.key] = w.val] \in [Lists -> Nat]
    BY <2>2
  <2>4. d' = [d EXCEPT !.sizes = [d.sizes EXCEPT ![w.key] = w.val]]
    BY <2>1, <1>3
  <2> QED
    BY <2>3, <2>4, <1>2, <1>3, <1>4 DEF Disk
<1>9. CASE w \in [at : {"transaction"}, key : {None}, val : Addrs]
  <2>1. Written(w) = [d EXCEPT !.transaction = w.val]
    BY <1>9, <1>5 DEF Written
  <2> QED
    BY <1>9, <2>1, <1>2, <1>3, <1>4 DEF Disk
<1>10. CASE w \in [at : {"operation"}, key : {None}, val : Operations]
  <2>1. Written(w) = [d EXCEPT !.operation = w.val]
    BY <1>10, <1>5 DEF Written
  <2> QED
    BY <1>10, <2>1, <1>2, <1>3, <1>4 DEF Disk
<1>11. CASE w \in [at : {"operation_list"}, key : {None}, val : Lists \cup {None}]
  <2>1. Written(w) = [d EXCEPT !.operation_list = w.val]
    BY <1>11, <1>5 DEF Written
  <2> QED
    BY <1>11, <2>1, <1>2, <1>3, <1>4 DEF Disk
<1> QED
  BY <1>2, <1>6, <1>7, <1>8, <1>9, <1>10, <1>11 DEF Writes

\* Insertion of a node at the head of a list.
LEMMA PushedLists ==
  ASSUME NEW S, Distinct(S), NEW l \in Lists, NEW n \in Nodes, NotListed(S, n)
  PROVE  LET T == [S EXCEPT ![l] = <<n>> \o @]
         IN  Distinct(T) /\ Len(T[l]) = Len(S[l]) + 1 /\ T[l][1] = n /\ CutFrom(T, l, 1) = S
<1> DEFINE s == S[l]
           t == <<n>> \o s
           T == [S EXCEPT ![l] = t]
<1>1. \A k \in Lists : S[k] \in Seq(Nodes) /\ Len(S[k]) \in Nat /\ \A j \in 1..Len(S[k]) : S[k][j] \in Nodes
  BY Elements
<1>2. <<n>> \in Seq(Nodes) /\ Len(<<n>>) = 1 /\ <<n>>[1] = n
  OBVIOUS
<1>3. /\ t \in Seq(Nodes)
      /\ Len(t) = Len(<<n>>) + Len(s)
      /\ \A i \in 1 .. Len(<<n>>) + Len(s) :
           t[i] = IF i <= Len(<<n>>) THEN <<n>>[i] ELSE s[i - Len(<<n>>)]
  BY <1>1, <1>2, ConcatProperties
<1> HIDE DEF s, t
<1>4. s \in Seq(Nodes) /\ Len(s) \in Nat
  BY <1>1 DEF s
<1>5. Len(t) = Len(s) + 1 /\ t[1] = n /\ \A i \in 1..Len(s) : t[i + 1] = s[i]
  <2>1. \A i \in 1..Len(s) : i + 1 \in 1..(1 + Len(s)) /\ ~(i + 1 <= 1) /\ (i + 1) - 1 = i
    BY <1>4
  <2>2. 1 \in 1..(1 + Len(s)) /\ 1 + Len(s) = Len(s) + 1
    BY <1>4
  <2> QED
    BY <1>2, <1>3, <2>1, <2>2
<1>6. T \in [Lists -> Seq(Nodes)] /\ T[l] = t /\ \A k \in Lists \ {l} : T[k] = S[k]
  BY <1>1, <1>3 DEF Distinct
<1> HIDE DEF T
<1>7. \A k \in Lists : \A a \in 1..Len(T[k]) :
        \/ k = l /\ a = 1 /\ T[k][a] = n
        \/ \E x \in 1..Len(S[k]) : T[k][a] = S[k][x] /\ (k = l => a = x + 1) /\ (k # l => a = x)
  <2> TAKE k \in Lists
  <2> TAKE a \in 1..Len(T[k])
  <2>1. CASE k # l
    BY <2>1, <1>6
  <2>2. CASE k = l /\ a = 1
    BY <2>2, <1>5, <1>6
  <2>3. CASE k = l /\ a # 1
    <3>1. a - 1 \in 1..Len(s) /\ a = (a - 1) + 1
      BY <2>3, <1>4, <1>5, <1>6
    <3>2. T[k][a] = s[a - 1]
      BY <2>3, <3>1, <1>5, <1>6
    <3> QED
      BY <2>3, <3>1, <3>2 DEF s
  <2> QED
    BY <2>1, <2>2, <2>3
<1>8. Distinct(T)
  <2> SUFFICES ASSUME NEW k \in Lists, NEW m \in Lists,
                      NEW a \in 1..Len(T[k]), NEW b \in 1..Len(T[m]), T[k][a] = T[m][b]
               PROVE  k = m /\ a = b
    BY <1>6 DEF Distinct
  <2>1. CASE T[k][a] = n
    <3>0. \A c \in Lists : \A x \in 1..Len(S[c]) : S[c][x] # n
      BY DEF NotListed
    <3>1. k = l /\ a = 1
      BY <2>1, <3>0, <1>7
    <3>2. T[m][b] = n
      BY <2>1
    <3>3. m = l /\ b = 1
      BY <3>2, <3>0, <1>7
    <3> QED
      BY <3>1, <3>3
  <2>2. CASE T[k][a] # n
    <3>1. PICK x \in 1..Len(S[k]) : T[k][a] = S[k][x] /\ (k = l => a = x + 1) /\ (k # l => a = x)
      BY <2>2, <1>7
    <3>2. PICK y \in 1..Len(S[m]) : T[m][b] = S[m][y] /\ (m = l => b = y + 1) /\ (m # l => b = y)
      BY <2>2, <1>7
    <3>3. S[k][x] = S[m][y]
      BY <3>1, <3>2
    <3>4. k = m /\ x = y
      BY <3>3 DEF Distinct
    <3> QED
      BY <3>1, <3>2, <3>4
  <2> QED
    BY <2>1, <2>2
<1>9. Cut(t, 1) = s
  <2>0. 1 \in 1..Len(t)
    BY <1>4, <1>5
  <2>1. /\ Cut(t, 1) \in Seq(Nodes) /\ Len(Cut(t, 1)) = Len(t) - 1
        /\ \A k \in 1..Len(t) - 1 : Cut(t, 1)[k] = IF k < 1 THEN t[k] ELSE t[k + 1]
    BY <1>3, <2>0, CutProperties
  <2>2. Len(t) - 1 = Len(s)
    BY <1>4, <1>5
  <2>3. \A k \in 1..Len(s) : Cut(t, 1)[k] = s[k]
    BY <2>1, <2>2, <1>5, <1>4
  <2> QED
    BY <2>1, <2>2, <2>3, <1>4, SeqEqual
<1>10. CutFrom(T, l, 1) = S
  <2>1. CutFrom(T, l, 1) = [T EXCEPT ![l] = s]
    BY <1>6, <1>9 DEF CutFrom
  <2> QED
    BY <2>1, <1>6 DEF T, s, Distinct
<1> QED
  BY <1>5, <1>6, <1>8, <1>10 DEF T, t, s

(***************************************************************************)
(* One store of an insertion.                                              *)
(***************************************************************************)

\* The parts of the invariant that no store of a call touches.
LEMMA KeptInMemory ==
  ASSUME NEW S, mem' = mem, iters' = iters
  PROVE  InMemory(S)' = InMemory(S) /\ Shows(S)' = Shows(S)
BY DEF InMemory, Shows

\* What every stage of an insertion says of the lists and of the node.
LEMMA InsertFacts ==
  ASSUME TypeOK, NEW S, NEW l \in Lists, NEW n, Inserting(S, n, l)
  PROVE  /\ d \in Disk /\ Distinct(S) /\ S[l] \in Seq(Nodes) /\ Len(S[l]) > 0
         /\ 1 \in 1..Len(S[l]) /\ S[l][1] = n /\ n \in Nodes /\ n # NoAddr
         /\ d.sizes[l] + 1 \in Nat
<1>1. d \in Disk /\ Distinct(S) /\ Len(S[l]) > 0 /\ S[l][1] = n
  BY DiskType DEF Inserting
<1>2. S[l] \in Seq(Nodes) /\ Len(S[l]) \in Nat
  BY <1>1, Elements
<1>3. 1 \in 1..Len(S[l])
  BY <1>1, <1>2
<1>4. n \in Nodes /\ n # NoAddr
  BY <1>1, <1>3, Elements
<1>5. d.sizes[l] \in Nat
  BY <1>1 DEF Disk
<1> QED
  BY <1>1, <1>2, <1>3, <1>4, <1>5

\* A store of an insertion whose transaction is not recorded yet: the last of them
\* records it, and the node is in the lists from then on.
LEMMA InsertBegunStore ==
  ASSUME TypeOK, Distinct(lru), Store, status \in {"up", "recovering"},
         NEW l \in Lists, NEW n, NEW S, S \in {lru, [lru EXCEPT ![l] = <<n>> \o @]},
         Inserting(S, n, l), InsertBegun(S, n, l)
  PROVE  /\ Distinct(lru') /\ status' = status
         /\ S \in {lru', [lru' EXCEPT ![l] = <<n>> \o @]}
         /\ Inserting(S, n, l)'
<1> DEFINE s == S[l]
           v == d.sizes[l] + 1
<1>1. /\ d \in Disk /\ Distinct(S) /\ s \in Seq(Nodes) /\ Len(s) > 0
      /\ s[1] = n /\ n \in Nodes /\ n # NoAddr /\ v \in Nat
  BY InsertFacts
<1>2. Insert1(s, l, v) \in Seq(Writes) /\ Insert1(s, l, v) # <<>>
      /\ Insert2(s, l, v) \in Seq(Writes) /\ Insert2(s, l, v) # <<>>
  BY <1>1, InsertTypes
<1>3. "INSERT" \in Operations
  BY DEF Operations
<1>4. /\ SetField("transaction", n) \in Writes
      /\ SetField("operation_list", l) \in Writes
      /\ SetField("operation", "INSERT") \in Writes
      /\ SetField("operation", None) \in Writes
      /\ Begin3(n, Insert2(s, l, v)) \in Seq(Writes) /\ Begin3(n, Insert2(s, l, v)) # <<>>
      /\ Begin2(n, l, Insert2(s, l, v)) \in Seq(Writes) /\ Begin2(n, l, Insert2(s, l, v)) # <<>>
  BY <1>1, <1>2, <1>3, BeginTypes, EndTypes
<1> HIDE DEF s, v
<1>5. ASSUME SameLists(d, d'), d'.sizes = d.sizes, mem' = mem, iters' = iters,
             reinsert' = reinsert, crashes' = crashes, status' = status,
             InsertBegun(S, n, l)' \/ InsertRecorded(S, n, l)'
      PROVE  Inserting(S, n, l)'
  <2>1. InMemory(S)' /\ Shows(S)'
    BY <1>5, KeptInMemory DEF Inserting
  <2>2. CountersBut(d', S, l, d'.sizes[l] + 1, crashes')
    BY <1>5 DEF Inserting, CountersBut
  <2> QED
    BY <2>1, <2>2, <1>5 DEF Inserting
<1>6. PICK tl \in BOOLEAN, xd \in BOOLEAN, nd \in BOOLEAN :
        Torn(d, S, l, 1, TRUE, tl, xd, FALSE, nd)
  BY DEF InsertBegun
<1>7. /\ d.transaction = NoAddr
      /\ \/ status = "recovering" /\ lru = S
         \/ status = "up" /\ Full(d, lru) /\ NotListed(lru, n) /\ lru = CutFrom(S, l, 1)
  BY DEF InsertBegun
<1>8. ASSUME SameLists(d, d')
      PROVE  /\ \E tl2, xd2, nd2 \in BOOLEAN : Torn(d', S, l, 1, TRUE, tl2, xd2, FALSE, nd2)
             /\ Full(d, lru) => Full(d', lru)
  <2>1. Torn(d', S, l, 1, TRUE, tl, xd, FALSE, nd)
    BY <1>6, <1>8, TornOther
  <2>2. Full(d, lru) => Full(d', lru)
    BY <1>8, FullOther
  <2> QED
    BY <2>1, <2>2
<1>9. CASE status = "recovering" /\ todo = Clear2(Insert1(s, l, v))
  <2>1. /\ d' = [d EXCEPT !.operation = None] /\ lru' = lru /\ todo' = Insert1(s, l, v)
        /\ status' = status
        /\ mem' = mem /\ iters' = iters /\ reinsert' = reinsert /\ crashes' = crashes
    BY <1>9, <1>2, <1>4, StoreStep, StoredField DEF Clear2
  <2>2. d'.transaction = NoAddr /\ d'.sizes = d.sizes /\ SameLists(d, d')
    BY <1>1, <1>7, <2>1 DEF Disk, SameLists
  <2>3. InsertBegun(S, n, l)'
    BY <1>7, <1>8, <1>9, <2>1, <2>2 DEF InsertBegun, s, v
  <2> QED
    BY <2>1, <2>2, <2>3, <1>5
<1>10. CASE todo = Insert1(s, l, v)
  <2>1. /\ d' = [d EXCEPT !.operation = "INSERT"] /\ lru' = lru
        /\ todo' = Begin2(n, l, Insert2(s, l, v)) /\ status' = status
        /\ mem' = mem /\ iters' = iters /\ reinsert' = reinsert /\ crashes' = crashes
    BY <1>10, <1>1, <1>4, StoreStep, StoredField DEF Insert1, Begin1
  <2>2. d'.transaction = NoAddr /\ d'.operation = "INSERT" /\ d'.sizes = d.sizes /\ SameLists(d, d')
    BY <1>1, <1>7, <2>1 DEF Disk, SameLists
  <2>3. InsertBegun(S, n, l)'
    BY <1>7, <1>8, <2>1, <2>2 DEF InsertBegun, s, v
  <2> QED
    BY <2>1, <2>2, <2>3, <1>5
<1>11. CASE todo = Begin2(n, l, Insert2(s, l, v)) /\ d.operation = "INSERT"
  <2>1. /\ d' = [d EXCEPT !.operation_list = l] /\ lru' = lru
        /\ todo' = Begin3(n, Insert2(s, l, v)) /\ status' = status
        /\ mem' = mem /\ iters' = iters /\ reinsert' = reinsert /\ crashes' = crashes
    BY <1>11, <1>1, <1>4, StoreStep, StoredField DEF Begin2
  <2>2. /\ d'.transaction = NoAddr /\ d'.operation = "INSERT" /\ d'.operation_list = l
        /\ d'.sizes = d.sizes /\ SameLists(d, d')
    BY <1>1, <1>7, <1>11, <2>1 DEF Disk, SameLists
  <2>3. InsertBegun(S, n, l)'
    BY <1>7, <1>8, <2>1, <2>2 DEF InsertBegun, s, v
  <2> QED
    BY <2>1, <2>2, <2>3, <1>5
<1>12. CASE /\ todo = Begin3(n, Insert2(s, l, v))
            /\ d.operation = "INSERT" /\ d.operation_list = l
  <2>1. /\ d' = [d EXCEPT !.transaction = n] /\ lru' = Committed(SetField("transaction", n))
        /\ todo' = Insert2(s, l, v) /\ status' = status
        /\ mem' = mem /\ iters' = iters /\ reinsert' = reinsert /\ crashes' = crashes
    BY <1>12, <1>1, <1>2, <1>4, StoreStep, StoredField DEF Begin3
  <2>2. /\ d'.transaction = n /\ d'.operation = "INSERT" /\ d'.operation_list = l
        /\ d'.sizes = d.sizes /\ SameLists(d, d')
    BY <1>1, <1>12, <2>1 DEF Disk, SameLists
  <2>3. lru' = S
    <3>1. CASE lru = S
      <4>1. Listed(n, l)
        BY <3>1, InsertFacts DEF Listed
      <4> QED
        BY <4>1, <3>1, <2>1, <1>1, <1>12, StoredField
    <3>2. CASE NotListed(lru, n)
      <4>1. ~Listed(n, l)
        BY <3>2 DEF Listed, NotListed
      <4>2. lru' = [lru EXCEPT ![l] = <<n>> \o @]
        BY <4>1, <2>1, <1>1, <1>12, StoredField
      <4>3. S # lru
        BY <3>2, InsertFacts DEF NotListed
      <4> QED
        BY <4>2, <4>3
    <3> QED
      BY <3>1, <3>2, <1>7
  <2>4. InsertRecorded(S, n, l)'
    BY <1>8, <2>1, <2>2, <2>3 DEF InsertRecorded, Recorded, s, v
  <2> QED
    BY <2>1, <2>2, <2>3, <2>4, <1>1, <1>5
<1> QED
  BY <1>9, <1>10, <1>11, <1>12 DEF InsertBegun, s, v

\* A store of an insertion that is recorded brings the disk nearer to the lists
\* with the node; the head is the last.
LEMMA InsertRecordedStore ==
  ASSUME TypeOK, Distinct(lru), Store, status \in {"up", "recovering"},
         NEW l \in Lists, NEW n, NEW S, Inserting(S, n, l), InsertRecorded(S, n, l)
  PROVE  /\ lru' = S /\ Distinct(lru') /\ status' = status
         /\ Inserting(S, n, l)' \/ Whole'
<1> DEFINE s == S[l]
           v == d.sizes[l] + 1
           Kept == /\ status' = status /\ mem' = mem /\ iters' = iters
                   /\ reinsert' = reinsert /\ crashes' = crashes
<1>1. /\ d \in Disk /\ Distinct(S) /\ s \in Seq(Nodes) /\ Len(s) > 0 /\ 1 \in 1..Len(s)
      /\ s[1] = n /\ n \in Nodes /\ n # NoAddr /\ v \in Nat
  BY InsertFacts
<1>2. lru = S /\ d.transaction = n /\ d.operation = "INSERT" /\ d.operation_list = l
  BY DEF InsertRecorded, Recorded
<1>3. /\ Insert1(s, l, v) \in Seq(Writes) /\ Insert1(s, l, v) # <<>>
      /\ Insert2(s, l, v) \in Seq(Writes) /\ Insert2(s, l, v) # <<>>
      /\ Insert3(s, l, v) \in Seq(Writes) /\ Insert3(s, l, v) # <<>>
      /\ Insert4(s, l, v) \in Seq(Writes) /\ Insert4(s, l, v) # <<>>
      /\ WriteHead(l, s[1]) \in Writes
      /\ StoreLinks(s[1], LinksAt(s, 1)) \in Writes
      /\ (IF Len(s) = 1 THEN WriteTail(l, s[1]) ELSE StoreLinks(s[2], LinksAt(s, 2))) \in Writes
  BY <1>1, InsertTypes
<1>4. /\ Count(l, v) \in Seq(Writes) /\ Count(l, v) # <<>> /\ WriteSize(l, v) \in Writes
      /\ End1 \in Seq(Writes) /\ End1 # <<>>
      /\ SetField("transaction", NoAddr) \in Writes
      /\ Clear2(Insert1(s, l, v)) \in Seq(Writes) /\ Clear2(Insert1(s, l, v)) # <<>>
  BY <1>1, <1>3, EndTypes, WriteTypes, ClearTypes
<1>5. Len(s) \in Nat /\ (Len(s) # 1 => 2 \in 1..Len(s) /\ s[2] \in Nodes)
  <2>1. Len(s) \in Nat /\ Len(s) > 0
    BY <1>1, LenProperties
  <2> HIDE DEF s
  <2>2. Len(s) # 1 => 2 \in 1..Len(s)
    BY <2>1, Positions
  <2> QED
    BY <2>1, <2>2, <1>1, Elements DEF s
<1>6. \A j \in 1..Len(s) : LinksOf(s, 1, j, FALSE, FALSE) = LinksAt(s, j)
  BY DEF LinksOf, LinksAt
<1> HIDE DEF s, v
<1>7. ASSUME d'.sizes = d.sizes, Kept, InsertBegun(S, n, l)' \/ InsertRecorded(S, n, l)'
      PROVE  Inserting(S, n, l)'
  <2>1. InMemory(S)' /\ Shows(S)'
    BY <1>7, KeptInMemory DEF Inserting
  <2>2. CountersBut(d', S, l, d'.sizes[l] + 1, crashes')
    BY <1>7 DEF Inserting, CountersBut
  <2> QED
    BY <2>1, <2>2, <1>7 DEF Inserting
<1>8. CASE /\ status = "recovering" /\ todo = Clear1(Insert1(s, l, v))
           /\ \E tl, xd, nd \in BOOLEAN : Torn(d, S, l, 1, TRUE, tl, xd, FALSE, nd)
  <2>1. /\ d' = [d EXCEPT !.transaction = NoAddr] /\ lru' = lru
        /\ todo' = Clear2(Insert1(s, l, v)) /\ Kept
    BY <1>8, <1>4, StoreStep, StoredField DEF Clear1
  <2>2. d'.transaction = NoAddr /\ d'.sizes = d.sizes /\ SameLists(d, d')
    BY <1>1, <2>1 DEF Disk, SameLists
  <2>3. \E tl, xd, nd \in BOOLEAN : Torn(d', S, l, 1, TRUE, tl, xd, FALSE, nd)
    <3>1. PICK tl \in BOOLEAN, xd \in BOOLEAN, nd \in BOOLEAN :
            Torn(d, S, l, 1, TRUE, tl, xd, FALSE, nd)
      BY <1>8
    <3>2. Torn(d', S, l, 1, TRUE, tl, xd, FALSE, nd)
      BY <3>1, <2>2, TornOther
    <3> QED
      BY <3>2
  <2>4. InsertBegun(S, n, l)'
    BY <1>2, <1>8, <2>1, <2>2, <2>3 DEF InsertBegun, s, v
  <2> QED
    BY <2>1, <2>2, <2>4, <1>1, <1>2, <1>7
<1>9. CASE /\ todo = Insert2(s, l, v)
           /\ \E tl, xd, nd \in BOOLEAN : Torn(d, S, l, 1, TRUE, tl, xd, FALSE, nd)
  <2>0. PICK tl \in BOOLEAN, xd \in BOOLEAN, nd \in BOOLEAN :
          Torn(d, S, l, 1, TRUE, tl, xd, FALSE, nd)
    BY <1>9
  <2>1. /\ d' = Written(IF Len(s) = 1 THEN WriteTail(l, s[1]) ELSE StoreLinks(s[2], LinksAt(s, 2)))
        /\ lru' = Committed(IF Len(s) = 1 THEN WriteTail(l, s[1]) ELSE StoreLinks(s[2], LinksAt(s, 2)))
        /\ todo' = Insert3(s, l, v) /\ Kept
    BY <1>9, <1>3, StoreStep DEF Insert2
  <2>2. CASE Len(s) = 1
    <3>1. d' = [d EXCEPT !.tails[l] = s[1]] /\ lru' = lru
      BY <2>1, <2>2, StoredEnds
    <3>2. s[1] = TailOf(S[l], 1, FALSE)
      BY <2>2 DEF TailOf, s
    <3>3. Torn(d', S, l, 1, TRUE, FALSE, xd, FALSE, nd)
      BY <3>1, <3>2, <2>0, <1>1, TornTail
    <3>4. Torn(d', S, l, 1, TRUE, FALSE, FALSE, FALSE, nd)
      BY <3>3, <2>2, <1>1, TornEnds DEF s
    <3>5. /\ d'.transaction = n /\ d'.operation = "INSERT" /\ d'.operation_list = l
          /\ d'.sizes = d.sizes
      BY <3>1, <1>1, <1>2, SMTT(60) DEF Disk
    <3>6. InsertRecorded(S, n, l)'
      BY <3>1, <3>4, <3>5, <2>1, <1>2 DEF InsertRecorded, Recorded, s, v
    <3> QED
      BY <3>1, <3>5, <3>6, <2>1, <1>1, <1>2, <1>7
  <2>3. CASE Len(s) # 1
    <3>1. d' = [d EXCEPT !.links[s[2]] = LinksAt(s, 2)] /\ lru' = lru
      BY <2>1, <2>3, <1>2, <1>5, StoredLinks
    <3>2. LinksAt(s, 2) = LinksOf(S[l], 1, 2, FALSE, FALSE)
      BY <1>5, <1>6, <2>3 DEF s
    <3>3. 2 \in 1..Len(S[l]) /\ 1 # Len(S[l]) /\ 2 = 1 + 1 /\ 2 # 1 - 1 /\ 2 # 1
      BY <1>5, <2>3 DEF s
    <3>4. Torn(d', S, l, 1, TRUE, tl, FALSE, FALSE, nd)
      BY <3>1, <3>2, <3>3, <2>0, <1>1, TornLinks DEF s
    <3>5. Torn(d', S, l, 1, TRUE, FALSE, FALSE, FALSE, nd)
      BY <3>4, <3>3, <1>1, TornEnds, ZenonT(60) DEF s
    <3>6. /\ d'.transaction = n /\ d'.operation = "INSERT" /\ d'.operation_list = l
          /\ d'.sizes = d.sizes
      BY <3>1, <1>1, <1>2 DEF Disk
    <3>7. InsertRecorded(S, n, l)'
      BY <3>1, <3>5, <3>6, <2>1, <1>2 DEF InsertRecorded, Recorded, s, v
    <3> QED
      BY <3>1, <3>6, <3>7, <2>1, <1>1, <1>2, <1>7
  <2> QED
    BY <2>2, <2>3
<1>10. CASE /\ todo = Insert3(s, l, v)
            /\ \E nd \in BOOLEAN : Torn(d, S, l, 1, TRUE, FALSE, FALSE, FALSE, nd)
  <2>0. PICK nd \in BOOLEAN : Torn(d, S, l, 1, TRUE, FALSE, FALSE, FALSE, nd)
    BY <1>10
  <2>1. /\ d' = [d EXCEPT !.links[s[1]] = LinksAt(s, 1)] /\ lru' = lru
        /\ todo' = Insert4(s, l, v) /\ Kept
    BY <1>10, <1>1, <1>2, <1>3, StoreStep, StoredLinks DEF Insert3
  <2>2. LinksAt(s, 1) = LinksOf(S[l], 1, 1, FALSE, FALSE)
    BY <1>1, <1>6 DEF s
  <2>3. 1 # 1 + 1 /\ 1 # 1 - 1
    OBVIOUS
  <2>4. Torn(d', S, l, 1, TRUE, FALSE, FALSE, FALSE, FALSE)
    BY <2>0, <2>1, <2>2, <2>3, <1>1, TornLinks DEF s
  <2>5. /\ d'.transaction = n /\ d'.operation = "INSERT" /\ d'.operation_list = l
        /\ d'.sizes = d.sizes
    BY <2>1, <1>1, <1>2 DEF Disk
  <2>6. InsertRecorded(S, n, l)'
    BY <2>1, <2>4, <2>5, <1>2 DEF InsertRecorded, Recorded, s, v
  <2> QED
    BY <2>1, <2>5, <2>6, <1>1, <1>2, <1>7
<1>11. CASE todo = Insert4(s, l, v) /\ Torn(d, S, l, 1, TRUE, FALSE, FALSE, FALSE, FALSE)
  <2>1. /\ d' = [d EXCEPT !.heads[l] = s[1]] /\ lru' = lru
        /\ todo' = Count(l, v) /\ Kept
    BY <1>11, <1>3, <1>4, StoreStep, StoredEnds DEF Insert4
  <2>2. s[1] = HeadOf(S[l], 1, FALSE)
    BY DEF HeadOf, s
  <2>3. Torn(d', S, l, 1, FALSE, FALSE, FALSE, FALSE, FALSE)
    BY <2>1, <2>2, <1>1, <1>11, TornHead
  <2>4. Full(d', S)
    BY <2>3, <1>1, TornNone DEF s
  <2>5. /\ d'.transaction = n /\ d'.operation = "INSERT" /\ d'.operation_list = l
        /\ d'.sizes = d.sizes
    BY <2>1, <1>1, <1>2 DEF Disk
  <2>6. InsertRecorded(S, n, l)'
    BY <2>1, <2>4, <2>5, <1>2 DEF InsertRecorded, Recorded, s, v
  <2> QED
    BY <2>1, <2>5, <2>6, <1>1, <1>2, <1>7
<1>12. CASE todo = Count(l, v) /\ Full(d, S)
  <2>1. /\ d' = [d EXCEPT !.sizes[l] = v] /\ lru' = lru
        /\ todo' = End1 /\ Kept
    BY <1>12, <1>4, StoreStep, StoredEnds DEF Count
  <2>2. /\ d'.transaction = n /\ d'.operation = "INSERT" /\ d'.operation_list = l
        /\ SameLists(d, d')
    BY <2>1, <1>1, <1>2 DEF Disk, SameLists
  <2>3. d'.sizes[l] = v /\ \A k \in Lists \ {l} : d'.sizes[k] = d.sizes[k]
    BY <2>1, <1>1 DEF Disk
  <2>4. Counters(d', S, crashes')
    BY <2>1, <2>3 DEF Inserting, CountersBut, Counters, v
  <2>5. Full(d', S)
    BY <2>2, <1>12, FullOther
  <2>6. InMemory(S)' /\ Shows(S)' /\ reinsert' = None
    BY <2>1, KeptInMemory DEF Inserting
  <2>7. Mendable(d', S, crashes')
    BY <2>2, <2>4, <2>5, <1>1 DEF Mendable, s
  <2>8. Whole'
    BY <2>1, <2>2, <2>4, <2>5, <2>6, <2>7, <1>1, <1>2 DEF Whole
  <2> QED
    BY <2>1, <2>8, <1>1, <1>2
<1> QED
  BY <1>8, <1>9, <1>10, <1>11, <1>12 DEF InsertRecorded, s, v

(***************************************************************************)
(* One store of a removal.                                                 *)
(***************************************************************************)

\* The history forgets a node exactly where it is, and nothing if it is nowhere.
LEMMA WithoutCut ==
  ASSUME NEW S, Distinct(S), NEW l \in Lists, NEW i \in 1..Len(S[l])
  PROVE  [k \in Lists |-> Without(S[k], S[l][i])] = CutFrom(S, l, i)
<1> DEFINE n == S[l][i]
           T == [k \in Lists |-> Without(S[k], n)]
<1>1. \A k, m \in Lists : \A a \in 1..Len(S[k]), b \in 1..Len(S[m]) :
          S[k][a] = S[m][b] => k = m /\ a = b
  BY DEF Distinct
<1>2. \A k \in Lists \ {l} : \A a \in 1..Len(S[k]) : S[k][a] # n
  BY <1>1
<1>3. \A k \in Lists \ {l} : T[k] = S[k]
  BY <1>2 DEF Without
<1>4. T[l] = Cut(S[l], i)
  <2>1. \A a \in 1..Len(S[l]) : S[l][a] = n <=> a = i
    BY <1>1
  <2>2. (CHOOSE a \in 1..Len(S[l]) : S[l][a] = n) = i
    BY <2>1
  <2> QED
    BY <2>2 DEF Without
<1>5. T = [k \in Lists |-> IF k = l THEN Cut(S[l], i) ELSE S[k]]
  BY <1>3, <1>4
<1>6. CutFrom(S, l, i) = [k \in Lists |-> IF k = l THEN Cut(S[l], i) ELSE S[k]]
  BY DEF CutFrom, Distinct
<1> QED
  BY <1>5, <1>6

\* A node that is in no list leaves nothing behind when it is removed.
LEMMA WithoutNothing ==
  ASSUME NEW S, Distinct(S), NEW n, NotListed(S, n)
  PROVE  [k \in Lists |-> Without(S[k], n)] = S
<1>1. \A k \in Lists : Without(S[k], n) = S[k]
  BY DEF Without, NotListed
<1> QED
  BY <1>1 DEF Distinct

\* What the parts of a removal are.
LEMMA RemoveFacts ==
  ASSUME TypeOK, Distinct(lru), NEW l \in Lists, NEW i \in 1..Len(lru[l])
  PROVE  /\ d \in Disk /\ lru[l] \in Seq(Nodes) /\ Len(lru[l]) \in Nat /\ Len(lru[l]) > 0
         /\ lru[l][i] \in Nodes /\ lru[l][i] # NoAddr
         /\ d.sizes[l] \in Nat /\ Lower(d.sizes[l]) \in Nat
<1>1. d \in Disk /\ lru[l] \in Seq(Nodes) /\ Len(lru[l]) \in Nat
      /\ lru[l][i] \in Nodes /\ lru[l][i] # NoAddr
  BY DiskType, Elements
<1>2. d.sizes[l] \in Nat
  BY <1>1 DEF Disk
<1>3. Len(lru[l]) > 0
  BY <1>1
<1> QED
  BY <1>1, <1>2, <1>3 DEF Lower

\* The counter that is lowered with the list.
LEMMA LowerNear ==
  ASSUME NEW v \in Nat, NEW len \in Nat, len > 0, NEW c \in Nat, Near(v, len, c)
  PROVE  Near(Lower(v), len - 1, c)
BY DEF Near, Lower

\* A store that leaves the lists as they are keeps the removal going.
LEMMA RemoveGoesOn ==
  ASSUME NEW l \in Lists, NEW i, NEW shared, Removing(l, i, shared),
         lru' = lru, d'.sizes = d.sizes, status' = status, mem' = mem, iters' = iters,
         reinsert' = reinsert, crashes' = crashes,
         RemoveBegun(l, i, shared)' \/ RemoveRecorded(l, i, shared)'
  PROVE  Removing(l, i, shared)'
<1>1. InMemory(CutFrom(lru, l, i))' /\ Shows(CutFrom(lru, l, i))'
  <2> DEFINE S == CutFrom(lru, l, i)
  <2>1. CutFrom(lru', l, i) = S
    OBVIOUS
  <2>2. InMemory(S) /\ Shows(S)
    BY DEF Removing
  <2>3. \A k \in Lists : mem'.heads[k] = First(S[k]) /\ mem'.tails[k] = Final(S[k])
    BY <2>2 DEF InMemory
  <2>4. \A it \in Iters : iters'[it] # None /\ iters'[it].data # None =>
        \E k \in Lists : \E j \in 1..Len(S[k]) :
            iters'[it].node = S[k][j] /\ iters'[it].data = LinksAt(S[k], j)
    BY <2>2 DEF Shows
  <2> QED
    BY <2>1, <2>3, <2>4 DEF InMemory, Shows
<1>2. Counters(d', lru', crashes')
  BY DEF Removing, Counters
<1> QED
  BY <1>1, <1>2 DEF Removing

\* A store of a removal whose transaction is not recorded yet.
LEMMA RemoveBegunStore ==
  ASSUME TypeOK, Distinct(lru), Store,
         NEW l \in Lists, NEW i \in 1..Len(lru[l]), NEW shared \in BOOLEAN,
         Removing(l, i, shared), RemoveBegun(l, i, shared)
  PROVE  lru' = lru /\ status' = status /\ Removing(l, i, shared)'
<1> DEFINE s == lru[l]
           n == s[i]
           v == Lower(d.sizes[l])
           Kept == /\ status' = status /\ mem' = mem /\ iters' = iters
                   /\ reinsert' = reinsert /\ crashes' = crashes
           q == Remove2(s, i, l, v, shared)
<1>1. d \in Disk /\ s \in Seq(Nodes) /\ n \in Nodes /\ n # NoAddr /\ v \in Nat
  BY RemoveFacts
<1>2. q \in Seq(Writes) /\ q # <<>>
  BY <1>1, RemoveTypes
<1>3. "REMOVE" \in Operations
  BY DEF Operations
<1>4. /\ SetField("transaction", n) \in Writes
      /\ SetField("operation_list", l) \in Writes
      /\ SetField("operation", "REMOVE") \in Writes
      /\ Begin3(n, q) \in Seq(Writes) /\ Begin3(n, q) # <<>>
      /\ Begin2(n, l, q) \in Seq(Writes) /\ Begin2(n, l, q) # <<>>
  BY <1>1, <1>2, <1>3, BeginTypes
<1>5. d.transaction = NoAddr /\ Full(d, lru) /\ status = "up"
  BY DEF RemoveBegun, Removing
<1>6. s = lru[l] /\ n = lru[l][i] /\ v = Lower(d.sizes[l]) /\ q = Remove2(s, i, l, v, shared)
  OBVIOUS
<1> HIDE DEF s, n, v, q
<1>7. ASSUME lru' = lru, d'.sizes = d.sizes
      PROVE  (lru')[l] = s /\ Lower((d').sizes[l]) = v
  BY <1>6, <1>7
<1>9. CASE todo = Remove1(s, i, l, v, shared)
  <2>1. d' = [d EXCEPT !.operation = "REMOVE"] /\ lru' = lru /\ todo' = Begin2(n, l, q) /\ Kept
    BY <1>9, <1>1, <1>4, <1>5, <1>6, StoreStep, StoredField DEF Remove1, Begin1
  <2>2. d'.transaction = NoAddr /\ d'.operation = "REMOVE" /\ d'.sizes = d.sizes /\ SameLists(d, d')
    BY <1>1, <1>5, <2>1 DEF Disk, SameLists
  <2>3. Full(d', lru')
    BY <1>5, <2>1, <2>2, FullOther
  <2>4. RemoveBegun(l, i, shared)'
    BY <1>6, <1>7, <2>1, <2>2, <2>3 DEF RemoveBegun
  <2> QED
    BY <2>1, <2>2, <2>4, RemoveGoesOn
<1>10. CASE todo = Begin2(n, l, q) /\ d.operation = "REMOVE"
  <2>1. d' = [d EXCEPT !.operation_list = l] /\ lru' = lru /\ todo' = Begin3(n, q) /\ Kept
    BY <1>10, <1>1, <1>4, <1>5, StoreStep, StoredField DEF Begin2
  <2>2. /\ d'.transaction = NoAddr /\ d'.operation = "REMOVE" /\ d'.operation_list = l
        /\ d'.sizes = d.sizes /\ SameLists(d, d')
    BY <1>1, <1>5, <1>10, <2>1 DEF Disk, SameLists
  <2>3. Full(d', lru')
    BY <1>5, <2>1, <2>2, FullOther
  <2>4. RemoveBegun(l, i, shared)'
    BY <1>6, <1>7, <2>1, <2>2, <2>3 DEF RemoveBegun
  <2> QED
    BY <2>1, <2>2, <2>4, RemoveGoesOn
<1>11. CASE todo = Begin3(n, q) /\ d.operation = "REMOVE" /\ d.operation_list = l
  <2>1. d' = [d EXCEPT !.transaction = n] /\ lru' = lru /\ todo' = q /\ Kept
    BY <1>11, <1>1, <1>2, <1>4, <1>5, StoreStep, StoredField DEF Begin3
  <2>2. /\ d'.transaction = n /\ d'.operation = "REMOVE" /\ d'.operation_list = l
        /\ d'.sizes = d.sizes /\ SameLists(d, d')
    BY <1>1, <1>5, <1>11, <2>1 DEF Disk, SameLists
  <2>3. Full(d', lru)
    BY <1>5, <2>1, <2>2, FullOther
  <2>4. Torn(d', lru, l, i, FALSE, FALSE, FALSE, FALSE, FALSE)
    BY <2>3, TornNone
  <2>5. RemoveRecorded(l, i, shared)'
    BY <1>6, <1>7, <2>1, <2>2, <2>4 DEF RemoveRecorded, Recorded
  <2> QED
    BY <2>1, <2>2, <2>5, RemoveGoesOn
<1> QED
  BY <1>6, <1>9, <1>10, <1>11 DEF RemoveBegun

\* The store that zeroes the node, once the ends and the neighbours are stored,
\* leaves the list without it.
LEMMA RemoveCommits ==
  ASSUME NEW D \in Disk, NEW S, Distinct(S), NEW l \in Lists, NEW i \in 1..Len(S[l]),
         NEW xd, NEW pd, NEW D2, D2 = [D EXCEPT !.links[S[l][i]] = Out],
         Torn(D, S, l, i, TRUE, TRUE, xd, pd, FALSE),
         i # Len(S[l]) => xd = TRUE, i # 1 => pd = TRUE
  PROVE  Torn(D2, S, l, i, TRUE, TRUE, TRUE, TRUE, TRUE) /\ Full(D2, CutFrom(S, l, i))
<1>1. Len(S[l]) \in Nat
  BY Elements
<1>2. i # i + 1 /\ i # i - 1
  BY <1>1
<1>3. Torn(D2, S, l, i, TRUE, TRUE, xd, pd, TRUE)
  <2>1. Out = IF i = i /\ TRUE THEN Out ELSE LinksOf(S[l], i, i, xd, pd)
    OBVIOUS
  <2>2. Torn([D EXCEPT !.links[S[l][i]] = Out], S, l, i, TRUE, TRUE, xd, pd, TRUE)
    BY <2>1, <1>2, TornLinks, ZenonT(60)
  <2> QED
    BY <2>2
<1>4. Torn(D2, S, l, i, TRUE, TRUE, TRUE, TRUE, TRUE)
  BY <1>3, TornEnds
<1> QED
  BY <1>4, TornAll

\* ... and the removal behind its point of no return.
LEMMA RemoveBehind ==
  ASSUME TypeOK, Distinct(lru), NEW l \in Lists, NEW i \in 1..Len(lru[l]),
         NEW shared \in BOOLEAN, Removing(l, i, shared), NEW n, n = lru[l][i],
         d' = [d EXCEPT !.links[n] = Out], lru' = Committed(StoreLinks(n, Out)),
         Recorded(n, "REMOVE", l),
         NEW xd, NEW pd, Torn(d, lru, l, i, TRUE, TRUE, xd, pd, FALSE),
         i # Len(lru[l]) => xd = TRUE, i # 1 => pd = TRUE,
         status' = status, mem' = mem, iters' = iters, reinsert' = reinsert, crashes' = crashes,
         LET v == Lower(d.sizes[l])
         IN  \/ \E a \in Nodes : todo' = Push(StoreLinks(a, (d').links[a]), Remove6(n, l, v))
             \/ todo' = Remove6(n, l, v)
             \/ todo' = Count(l, v)
  PROVE  Distinct(lru') /\ Removed(n, l)'
<1> DEFINE v == Lower(d.sizes[l])
<1>0. PICK S : S = CutFrom(lru, l, i)
  OBVIOUS
<1>1. /\ d \in Disk /\ lru[l] \in Seq(Nodes) /\ Len(lru[l]) \in Nat /\ Len(lru[l]) > 0
      /\ n \in Nodes /\ n # NoAddr /\ d.sizes[l] \in Nat
  BY RemoveFacts
<1>2. lru' = S
  BY <1>0, <1>1, WithoutCut, StoredLinks DEF Recorded
<1>3. Full(d', S)
  BY <1>0, <1>1, RemoveCommits
<1>4. Distinct(S) /\ NotListed(S, n)
  BY <1>0, CutDistinct
<1>5. d'.sizes = d.sizes /\ Recorded(n, "REMOVE", l)'
  BY <1>1 DEF Disk, Recorded
<1>6. InMemory(S)' /\ Shows(S)'
  <2>1. \A k \in Lists : mem'.heads[k] = First(S[k]) /\ mem'.tails[k] = Final(S[k])
    BY <1>0 DEF InMemory, Removing
  <2>2. \A it \in Iters : iters'[it] # None /\ iters'[it].data # None =>
        \E k \in Lists : \E j \in 1..Len(S[k]) :
            iters'[it].node = S[k][j] /\ iters'[it].data = LinksAt(S[k], j)
    BY <1>0 DEF Shows, Removing
  <2> QED
    BY <2>1, <2>2 DEF InMemory, Shows
<1>7. CountersBut(d', S, l, v, crashes')
  <2>1. Len(S[l]) = Len(lru[l]) - 1 /\ \A k \in Lists \ {l} : S[k] = lru[k]
    BY <1>0, <1>1, CutProperties DEF CutFrom, TypeOK
  <2>2. crashes' \in Nat
    BY CrashAssumption DEF TypeOK
  <2>3. \A k \in Lists : Near(d.sizes[k], Len(lru[k]), crashes')
    BY DEF Removing, Counters
  <2>4. Near(v, Len(S[l]), crashes')
    BY <2>1, <2>2, <2>3, <1>1, LowerNear
  <2> QED
    BY <2>1, <2>3, <2>4, <1>5 DEF CountersBut
<1>8. status' = "up" /\ (reinsert' # None => reinsert'.node = n)
  BY DEF Removing
<1>9. Lower((d').sizes[l]) = v
  BY <1>5
<1>10. \/ \E a \in Nodes : todo' = Push(StoreLinks(a, (d').links[a]), Remove6(n, l, v))
       \/ todo' = Remove6(n, l, v)
       \/ todo' = Count(l, v)
  OBVIOUS
<1> HIDE DEF v
<1>11. InMemory(lru)' /\ Shows(lru)'
  BY <1>2, <1>6 DEF InMemory, Shows
<1>12. Removed(n, l)'
  BY <1>2, <1>3, <1>4, <1>5, <1>7, <1>8, <1>9, <1>10, <1>11 DEF Removed
<1> QED
  BY <1>2, <1>4, <1>12

\* The links that a removal stores in the neighbours.
LEMMA RemovedNeighbours ==
  ASSUME NEW s \in Seq(Nodes), NEW i \in 1..Len(s)
  PROVE  /\ LinksAt(s, i) = LinksOf(s, i, i, TRUE, TRUE) /\ LinksAt(s, i) # Out
         /\ \A xd, pd : LinksOf(s, i, i, xd, pd) = LinksAt(s, i)
         /\ \A xd, pd : LinksOf(s, i, i + 1, xd, pd) = LinksOf(s, i, i + 1, xd, TRUE)
         /\ \A xd, pd : LinksOf(s, i, i - 1, xd, pd) = LinksOf(s, i, i - 1, TRUE, pd)
<1>1. i # i + 1 /\ i # i - 1 /\ i + 1 # i - 1
  BY LenProperties
<1>2. LinksAt(s, i).prev # NoAddr
  BY LinkTypes, NoAddrAssumption
<1> QED
  BY <1>1, <1>2 DEF LinksOf, LinksAt, Out

\* A store of a removal that is recorded takes the disk one store away from the
\* lists with the node; the one into the node itself commits the removal.
LEMMA RemoveRecordedStore ==
  ASSUME TypeOK, Distinct(lru), Store,
         NEW l \in Lists, NEW i \in 1..Len(lru[l]), NEW shared \in BOOLEAN,
         Removing(l, i, shared), RemoveRecorded(l, i, shared), NEW n, n = lru[l][i]
  PROVE  /\ status' = status /\ Distinct(lru')
         /\ \/ lru' = lru /\ Removing(l, i, shared)'
            \/ Removed(n, l)'
<1> DEFINE s == lru[l]
           v == Lower(d.sizes[l])
           Kept == /\ status' = status /\ mem' = mem /\ iters' = iters
                   /\ reinsert' = reinsert /\ crashes' = crashes
           alone == Len(s) = 1
           last == i = Len(s)
<1>1. /\ d \in Disk /\ s \in Seq(Nodes) /\ n \in Nodes /\ n # NoAddr /\ v \in Nat
      /\ Len(s) \in Nat /\ Len(s) > 0 /\ \A j \in 1..Len(s) : s[j] \in Nodes
  BY RemoveFacts, Elements
<1>2. /\ StoreLinks(s[i], Out) \in Writes
      /\ StoreLinks(NodeBefore(s, i), BeforeLinks(s, i, shared)) \in Writes
      /\ StoreLinks(NodeBehind(s, i), BehindLinks(s, i, shared)) \in Writes
      /\ WriteHead(l, NoAddr) \in Writes /\ WriteTail(l, NoAddr) \in Writes
      /\ Len(s) # 1 /\ i = 1 => WriteHead(l, s[2]) \in Writes
      /\ Len(s) # 1 /\ i = Len(s) => WriteTail(l, s[i - 1]) \in Writes
      /\ Remove6(s[i], l, v) \in Seq(Writes) /\ Remove6(s[i], l, v) # <<>>
      /\ Remove5(s, i, l, v, shared) \in Seq(Writes) /\ Remove5(s, i, l, v, shared) # <<>>
      /\ Remove4(s, i, l, v, shared) \in Seq(Writes) /\ Remove4(s, i, l, v, shared) # <<>>
      /\ Remove3(s, i, l, v, shared) \in Seq(Writes) /\ Remove3(s, i, l, v, shared) # <<>>
      /\ Count(l, v) \in Seq(Writes)
  BY <1>1, RemoveTypes, EndTypes
<1>3. status = "up"
  BY DEF Removing
<1>4. d.transaction = n /\ d.operation = "REMOVE" /\ d.operation_list = l /\ Recorded(n, "REMOVE", l)
  BY DEF RemoveRecorded, Recorded
<1>5. \A j, m \in 1..Len(s) : s[j] = s[m] => j = m
  BY DEF Distinct
<1>6. /\ LinksAt(s, i) = LinksOf(s, i, i, TRUE, TRUE) /\ LinksAt(s, i) # Out
      /\ \A xd, pd : LinksOf(s, i, i, xd, pd) = LinksAt(s, i)
      /\ \A xd, pd : LinksOf(s, i, i + 1, xd, pd) = LinksOf(s, i, i + 1, xd, TRUE)
      /\ \A xd, pd : LinksOf(s, i, i - 1, xd, pd) = LinksOf(s, i, i - 1, TRUE, pd)
  BY <1>1, RemovedNeighbours
<1>7. s = lru[l] /\ n = s[i] /\ v = Lower(d.sizes[l])
  OBVIOUS
<1> HIDE DEF s, v
<1>8. /\ i # 1 => i - 1 \in 1..Len(s) /\ i # i - 1 /\ i - 1 # i + 1
      /\ i # Len(s) => i + 1 \in 1..Len(s) /\ i # i + 1
      /\ i # i + 1 /\ i # i - 1 /\ i + 1 # i - 1
  BY <1>1, <1>7, Positions
<1>9. ASSUME lru' = lru, d'.sizes = d.sizes
      PROVE  (lru')[l] = s /\ Lower((d').sizes[l]) = v /\ (lru')[l][i] = n
  BY <1>7, <1>9
<1>10. ASSUME Kept, lru' = lru, d'.sizes = d.sizes, RemoveRecorded(l, i, shared)'
       PROVE  /\ status' = status /\ Distinct(lru')
              /\ \/ lru' = lru /\ Removing(l, i, shared)'
                 \/ Removed(n, l)'
  BY <1>10, RemoveGoesOn
<1>11. CASE alone /\ todo = Remove2(s, i, l, v, shared) /\ Torn(d, lru, l, i, FALSE, FALSE, FALSE, FALSE, FALSE)
  <2>1. d' = [d EXCEPT !.heads[l] = NoAddr] /\ lru' = lru /\ todo' = Remove3(s, i, l, v, shared) /\ Kept
    BY <1>11, <1>2, <1>3, StoreStep, StoredEnds DEF Remove2
  <2>2. i = 1 /\ last
    BY <1>11, <1>1, <1>7
  <2>3. NoAddr = HeadOf(lru[l], i, TRUE)
    BY <2>2, <1>7, <1>11 DEF HeadOf
  <2>4. Torn(d', lru, l, i, TRUE, FALSE, FALSE, FALSE, FALSE)
    BY <2>1, <2>3, <1>1, <1>11, TornHead
  <2>5. Recorded(n, "REMOVE", l)' /\ d'.sizes = d.sizes
    BY <2>1, <1>1, <1>4 DEF Disk, Recorded
  <2>6. RemoveRecorded(l, i, shared)'
    BY <1>9, <1>11, <2>1, <2>2, <2>4, <2>5 DEF RemoveRecorded
  <2> QED
    BY <2>1, <2>5, <2>6, <1>10
<1>12. CASE ~alone /\ i = 1 /\ todo = Remove2(s, i, l, v, shared) /\ Torn(d, lru, l, i, FALSE, FALSE, FALSE, FALSE, FALSE)
  <2>1. d' = [d EXCEPT !.heads[l] = s[2]] /\ lru' = lru /\ todo' = Remove4(s, i, l, v, shared) /\ Kept
    BY <1>12, <1>2, <1>3, StoreStep, StoredEnds DEF Remove2
  <2>2. ~last
    BY <1>12
  <2>3. s[2] = HeadOf(lru[l], i, TRUE)
    BY <2>2, <1>7, <1>12 DEF HeadOf
  <2>4. Torn(d', lru, l, i, TRUE, FALSE, FALSE, FALSE, FALSE)
    BY <2>1, <2>3, <1>1, <1>12, TornHead
  <2>5. Torn(d', lru, l, i, TRUE, TRUE, FALSE, FALSE, FALSE)
    BY <2>2, <2>4, <1>7, TornEnds
  <2>6. Recorded(n, "REMOVE", l)' /\ d'.sizes = d.sizes
    BY <2>1, <1>1, <1>4 DEF Disk, Recorded
  <2>7. RemoveRecorded(l, i, shared)'
    BY <1>9, <2>1, <2>2, <2>5, <2>6 DEF RemoveRecorded
  <2> QED
    BY <2>1, <2>6, <2>7, <1>10
<1>13. CASE ~alone /\ last /\ todo = Remove2(s, i, l, v, shared) /\ Torn(d, lru, l, i, FALSE, FALSE, FALSE, FALSE, FALSE)
  <2>0. i # 1
    BY <1>13
  <2>1. d' = [d EXCEPT !.tails[l] = s[i - 1]] /\ lru' = lru /\ todo' = Remove3(s, i, l, v, shared) /\ Kept
    BY <1>13, <2>0, <1>2, <1>3, StoreStep, StoredEnds DEF Remove2
  <2>3. s[i - 1] = TailOf(lru[l], i, TRUE)
    BY <1>7, <1>13 DEF TailOf
  <2>4. Torn(d', lru, l, i, FALSE, TRUE, FALSE, FALSE, FALSE)
    BY <2>1, <2>3, <1>1, <1>13, TornTail
  <2>5. Recorded(n, "REMOVE", l)' /\ d'.sizes = d.sizes
    BY <2>1, <1>1, <1>4 DEF Disk, Recorded
  <2>6. RemoveRecorded(l, i, shared)'
    BY <1>9, <1>13, <2>1, <2>4, <2>5 DEF RemoveRecorded
  <2> QED
    BY <2>1, <2>5, <2>6, <1>10
<1>14. CASE alone /\ last /\ todo = Remove3(s, i, l, v, shared) /\ Torn(d, lru, l, i, TRUE, FALSE, FALSE, FALSE, FALSE)
  <2>1. d' = [d EXCEPT !.tails[l] = NoAddr] /\ lru' = lru /\ todo' = Remove4(s, i, l, v, shared) /\ Kept
    BY <1>14, <1>2, <1>3, StoreStep, StoredEnds DEF Remove3
  <2>3. NoAddr = TailOf(lru[l], i, TRUE) /\ i = 1
    BY <1>7, <1>14 DEF TailOf
  <2>4. Torn(d', lru, l, i, TRUE, TRUE, FALSE, FALSE, FALSE)
    BY <2>1, <2>3, <1>1, <1>14, TornTail
  <2>5. Torn(d', lru, l, i, TRUE, TRUE, FALSE, TRUE, FALSE)
    BY <2>3, <2>4, <1>7, TornEnds
  <2>6. Recorded(n, "REMOVE", l)' /\ d'.sizes = d.sizes
    BY <2>1, <1>1, <1>4 DEF Disk, Recorded
  <2>7. RemoveRecorded(l, i, shared)'
    BY <1>9, <1>14, <2>1, <2>5, <2>6 DEF RemoveRecorded
  <2> QED
    BY <2>1, <2>6, <2>7, <1>10
<1>15. CASE ~alone /\ last /\ todo = Remove3(s, i, l, v, shared) /\ Torn(d, lru, l, i, FALSE, TRUE, FALSE, FALSE, FALSE)
  <2>0. i # 1 /\ NodeBefore(s, i) = s[i - 1] /\ BeforeLinks(s, i, shared) = LinksOf(s, i, i - 1, TRUE, TRUE)
    BY <1>15 DEF NodeBefore, BeforeLinks
  <2>1. /\ d' = Written(StoreLinks(s[i - 1], BeforeLinks(s, i, shared)))
        /\ lru' = Committed(StoreLinks(s[i - 1], BeforeLinks(s, i, shared)))
        /\ todo' = Remove4(s, i, l, v, shared) /\ Kept
    BY <1>15, <2>0, <1>2, <1>3, StoreStep DEF Remove3
  <2>2. s[i - 1] \in Nodes /\ s[i - 1] # d.transaction
    BY <2>0, <1>1, <1>4, <1>5, <1>7, <1>8
  <2>3. d' = [d EXCEPT !.links[s[i - 1]] = LinksOf(s, i, i - 1, TRUE, TRUE)] /\ lru' = lru
    BY <2>0, <2>1, <2>2, StoredLinks
  <2>4. Torn(d', lru, l, i, FALSE, TRUE, FALSE, TRUE, FALSE)
    <3>1. LinksOf(s, i, i - 1, TRUE, TRUE) = LinksOf(s, i, i - 1, FALSE, TRUE)
      BY <1>6
    <3>2. i - 1 \in 1..Len(lru[l]) /\ i - 1 # i + 1 /\ i - 1 # i
      BY <2>0, <1>7, <1>8
    <3> QED
      BY <3>1, <3>2, <2>3, <1>1, <1>7, <1>15, TornLinks
  <2>5. Torn(d', lru, l, i, TRUE, TRUE, FALSE, TRUE, FALSE)
    BY <2>0, <2>4, <1>7, TornEnds
  <2>6. Recorded(n, "REMOVE", l)' /\ d'.sizes = d.sizes
    BY <2>3, <1>1, <1>4 DEF Disk, Recorded
  <2>7. RemoveRecorded(l, i, shared)'
    BY <1>9, <1>15, <2>1, <2>3, <2>5, <2>6 DEF RemoveRecorded
  <2> QED
    BY <2>1, <2>3, <2>6, <2>7, <1>10

<1>16. CASE todo = Remove4(s, i, l, v, shared) /\ Torn(d, lru, l, i, TRUE, TRUE, FALSE, last, FALSE)
  <2>1. /\ d' = Written(StoreLinks(NodeBehind(s, i), BehindLinks(s, i, shared)))
        /\ lru' = Committed(StoreLinks(NodeBehind(s, i), BehindLinks(s, i, shared)))
        /\ todo' = Remove5(s, i, l, v, shared) /\ Kept
    BY <1>16, <1>2, <1>3, StoreStep DEF Remove4
  <2>2. CASE ~last
    <3>0. NodeBehind(s, i) = s[i + 1] /\ BehindLinks(s, i, shared) = LinksOf(s, i, i + 1, TRUE, TRUE)
      BY <2>2 DEF NodeBehind, BehindLinks
    <3>1. s[i + 1] \in Nodes /\ s[i + 1] # d.transaction
      BY <2>2, <1>1, <1>4, <1>5, <1>7, <1>8
    <3>2. d' = [d EXCEPT !.links[s[i + 1]] = LinksOf(s, i, i + 1, TRUE, TRUE)] /\ lru' = lru
      BY <3>0, <3>1, <2>1, StoredLinks
    <3>3. Torn(d', lru, l, i, TRUE, TRUE, TRUE, FALSE, FALSE)
      <4>1. LinksOf(s, i, i + 1, TRUE, TRUE) = LinksOf(s, i, i + 1, TRUE, FALSE)
        BY <1>6
      <4>2. i + 1 \in 1..Len(lru[l]) /\ i + 1 # i - 1 /\ i + 1 # i
        BY <2>2, <1>7, <1>8
      <4>3. Torn(d, lru, l, i, TRUE, TRUE, FALSE, FALSE, FALSE)
        BY <2>2, <1>16
      <4> QED
        BY <4>1, <4>2, <4>3, <3>2, <1>1, <1>7, TornLinks
    <3>4. Recorded(n, "REMOVE", l)' /\ d'.sizes = d.sizes
      BY <3>2, <1>1, <1>4 DEF Disk, Recorded
    <3>5. RemoveRecorded(l, i, shared)'
      BY <1>9, <2>1, <2>2, <3>2, <3>3, <3>4 DEF RemoveRecorded
    <3> QED
      BY <2>1, <3>2, <3>4, <3>5, <1>10
  <2>3. CASE last /\ ~shared
    <3>0. NodeBehind(s, i) = n /\ BehindLinks(s, i, shared) = LinksAt(s, i)
      BY <2>3, <1>7 DEF NodeBehind, BehindLinks
    <3>2. d' = [d EXCEPT !.links[n] = LinksAt(s, i)] /\ lru' = lru
      <4>1. n \in Nodes /\ LinksAt(s, i) # Out
        BY <1>1, <1>6
      <4>2. /\ Written(StoreLinks(n, LinksAt(s, i))) = [d EXCEPT !.links[n] = LinksAt(s, i)]
            /\ Committed(StoreLinks(n, LinksAt(s, i))) = lru
        BY <4>1, StoredLinks
      <4> QED
        BY <4>2, <3>0, <2>1
    <3>3. Torn(d', lru, l, i, TRUE, TRUE, TRUE, TRUE, FALSE)
      <4>1. LinksAt(s, i) = LinksOf(s, i, i, FALSE, TRUE)
        BY <1>6
      <4>2. Torn(d, lru, l, i, TRUE, TRUE, FALSE, TRUE, FALSE)
        BY <2>3, <1>16
      <4>3. Torn(d', lru, l, i, TRUE, TRUE, FALSE, TRUE, FALSE)
        BY <4>1, <4>2, <3>2, <1>1, <1>7, <1>8, TornLinks
      <4> QED
        BY <4>3, <2>3, <1>7, TornEnds
    <3>4. Recorded(n, "REMOVE", l)' /\ d'.sizes = d.sizes
      BY <3>2, <1>1, <1>4 DEF Disk, Recorded
    <3>5. RemoveRecorded(l, i, shared)'
      BY <1>9, <2>1, <2>3, <3>2, <3>3, <3>4 DEF RemoveRecorded
    <3> QED
      BY <2>1, <3>2, <3>4, <3>5, <1>10
  <2>4. CASE last /\ shared
    <3>0. NodeBehind(s, i) = n /\ BehindLinks(s, i, shared) = Out
      BY <2>4, <1>7 DEF NodeBehind, BehindLinks
    <3>1. d' = [d EXCEPT !.links[n] = Out] /\ lru' = Committed(StoreLinks(n, Out))
      BY <3>0, <2>1, <1>1, StoredLinks
    <3>2. Torn(d, lru, l, i, TRUE, TRUE, FALSE, TRUE, FALSE)
      BY <2>4, <1>16
    <3>3. Torn(d', lru, l, i, TRUE, TRUE, TRUE, TRUE, TRUE)
      BY <3>1, <3>2, <2>4, <1>1, <1>7, RemoveCommits
    <3>4. \E a \in Nodes : todo' = Push(StoreLinks(a, (d').links[a]), Remove6(n, l, v))
      <4>0. \A j \in 1..Len(s) : (d').links[s[j]] = IF j = i /\ TRUE THEN Out ELSE LinksOf(s, i, j, TRUE, TRUE)
        BY <3>3, <1>7 DEF Torn
      <4>1. CASE i = 1
        <5>1. NodeBefore(s, i) = n /\ BeforeLinks(s, i, shared) = Out
          BY <4>1, <2>4, <1>7 DEF NodeBefore, BeforeLinks
        <5>2. (d').links[n] = Out
          BY <4>0, <1>7
        <5> QED
          BY <5>1, <5>2, <2>1, <1>1, <1>7 DEF Remove5
      <4>2. CASE i # 1
        <5>1. NodeBefore(s, i) = s[i - 1] /\ BeforeLinks(s, i, shared) = LinksOf(s, i, i - 1, TRUE, TRUE)
          BY <4>2 DEF NodeBefore, BeforeLinks
        <5>2. (d').links[s[i - 1]] = LinksOf(s, i, i - 1, TRUE, TRUE)
          BY <4>0, <4>2, <1>8
        <5>3. s[i - 1] \in Nodes
          BY <4>2, <1>1, <1>8
        <5> QED
          BY <5>1, <5>2, <5>3, <2>1, <1>7 DEF Remove5
      <4> QED
        BY <4>1, <4>2
    <3>5. i # Len(lru[l]) => FALSE = TRUE
      BY <2>4, <1>7
    <3> QED
      BY <3>1, <3>2, <3>4, <3>5, <2>1, <1>4, <1>7, RemoveBehind
  <2> QED
    BY <2>2, <2>3, <2>4
<1>17. CASE todo = Remove5(s, i, l, v, shared) /\ Torn(d, lru, l, i, TRUE, TRUE, TRUE, last, FALSE)
  <2>1. /\ d' = Written(StoreLinks(NodeBefore(s, i), BeforeLinks(s, i, shared)))
        /\ lru' = Committed(StoreLinks(NodeBefore(s, i), BeforeLinks(s, i, shared)))
        /\ todo' = Remove6(n, l, v) /\ Kept
    BY <1>17, <1>2, <1>3, <1>7, StoreStep DEF Remove5
  <2>2. CASE i # 1
    <3>0. NodeBefore(s, i) = s[i - 1] /\ BeforeLinks(s, i, shared) = LinksOf(s, i, i - 1, TRUE, TRUE)
      BY <2>2 DEF NodeBefore, BeforeLinks
    <3>1. s[i - 1] \in Nodes /\ s[i - 1] # d.transaction
      BY <2>2, <1>1, <1>4, <1>5, <1>7, <1>8
    <3>2. d' = [d EXCEPT !.links[s[i - 1]] = LinksOf(s, i, i - 1, TRUE, TRUE)] /\ lru' = lru
      BY <3>0, <3>1, <2>1, StoredLinks
    <3>3. Torn(d', lru, l, i, TRUE, TRUE, TRUE, TRUE, FALSE)
      <4>2. i - 1 \in 1..Len(lru[l]) /\ i - 1 # i + 1 /\ i - 1 # i
        BY <2>2, <1>7, <1>8
      <4> QED
        BY <4>2, <3>2, <1>1, <1>7, <1>17, TornLinks
    <3>4. Recorded(n, "REMOVE", l)' /\ d'.sizes = d.sizes
      BY <3>2, <1>1, <1>4 DEF Disk, Recorded
    <3>5. RemoveRecorded(l, i, shared)'
      BY <1>9, <2>1, <3>2, <3>3, <3>4 DEF RemoveRecorded
    <3> QED
      BY <2>1, <3>2, <3>4, <3>5, <1>10
  <2>3. CASE i = 1 /\ ~shared
    <3>0. NodeBefore(s, i) = n /\ BeforeLinks(s, i, shared) = LinksAt(s, i)
      BY <2>3, <1>7 DEF NodeBefore, BeforeLinks
    <3>2. d' = [d EXCEPT !.links[n] = LinksAt(s, i)] /\ lru' = lru
      <4>1. n \in Nodes /\ LinksAt(s, i) # Out
        BY <1>1, <1>6
      <4>2. /\ Written(StoreLinks(n, LinksAt(s, i))) = [d EXCEPT !.links[n] = LinksAt(s, i)]
            /\ Committed(StoreLinks(n, LinksAt(s, i))) = lru
        BY <4>1, StoredLinks
      <4> QED
        BY <4>2, <3>0, <2>1
    <3>3. Torn(d', lru, l, i, TRUE, TRUE, TRUE, TRUE, FALSE)
      <4>1. Torn(d, lru, l, i, TRUE, TRUE, TRUE, TRUE, FALSE)
        <5>1. PICK pd : pd = last
          OBVIOUS
        <5>2. Torn(d, lru, l, i, TRUE, TRUE, TRUE, pd, FALSE)
          BY <5>1, <1>17
        <5> QED
          BY <5>2, <2>3, <1>7, TornEnds
      <4>2. LinksAt(s, i) = LinksOf(s, i, i, TRUE, TRUE)
        BY <1>6
      <4> QED
        BY <4>1, <4>2, <3>2, <1>1, <1>7, <1>8, TornLinks
    <3>4. Recorded(n, "REMOVE", l)' /\ d'.sizes = d.sizes
      BY <3>2, <1>1, <1>4 DEF Disk, Recorded
    <3>5. RemoveRecorded(l, i, shared)'
      BY <1>9, <2>1, <3>2, <3>3, <3>4 DEF RemoveRecorded
    <3> QED
      BY <2>1, <3>2, <3>4, <3>5, <1>10
  <2>4. CASE i = 1 /\ shared
    <3>0. NodeBefore(s, i) = n /\ BeforeLinks(s, i, shared) = Out
      BY <2>4, <1>7 DEF NodeBefore, BeforeLinks
    <3>1. d' = [d EXCEPT !.links[n] = Out] /\ lru' = Committed(StoreLinks(n, Out))
      BY <3>0, <2>1, <1>1, StoredLinks
    <3> QED
      BY <3>1, <2>1, <2>4, <1>4, <1>7, <1>17, RemoveBehind
  <2> QED
    BY <2>2, <2>3, <2>4
<1>18. CASE todo = Remove6(n, l, v) /\ Torn(d, lru, l, i, TRUE, TRUE, TRUE, TRUE, FALSE)
  <2>1. /\ d' = [d EXCEPT !.links[n] = Out] /\ lru' = Committed(StoreLinks(n, Out))
        /\ todo' = Count(l, v) /\ Kept
    BY <1>18, <1>1, <1>2, <1>3, <1>7, StoreStep, StoredLinks DEF Remove6
  <2> QED
    BY <2>1, <1>4, <1>7, <1>18, RemoveBehind
<1>19. CASE ~alone /\ i # 1 /\ ~last /\ todo = Remove2(s, i, l, v, shared)
            /\ Torn(d, lru, l, i, FALSE, FALSE, FALSE, FALSE, FALSE)
  <2>1. todo = Remove4(s, i, l, v, shared)
    BY <1>19 DEF Remove2
  <2>2. Torn(d, lru, l, i, TRUE, TRUE, FALSE, FALSE, FALSE)
    BY <1>19, <1>7, TornEnds
  <2> QED
    BY <2>1, <2>2, <1>16, <1>19
<1>20. CASE todo = Remove2(s, i, l, v, shared) /\ Torn(d, lru, l, i, FALSE, FALSE, FALSE, FALSE, FALSE)
  BY <1>20, <1>11, <1>12, <1>13, <1>19
<1>21. CASE last /\ todo = Remove3(s, i, l, v, shared)
            /\ Torn(d, lru, l, i, alone, ~alone, FALSE, FALSE, FALSE)
  BY <1>21, <1>14, <1>15
<1> QED
  BY <1>7, <1>16, <1>17, <1>18, <1>20, <1>21 DEF RemoveRecorded

\* Behind that point the neighbours that are stored again do not change.
LEMMA RemovedStore ==
  ASSUME TypeOK, Distinct(lru), Store, NEW l \in Lists, NEW n \in Nodes, Removed(n, l)
  PROVE  lru' = lru /\ status' = status /\ (Removed(n, l)' \/ Whole')
<1> DEFINE v == Lower(d.sizes[l])
           Kept == /\ status' = status /\ mem' = mem /\ iters' = iters
                   /\ reinsert' = reinsert /\ crashes' = crashes
<1>1. d \in Disk /\ d.sizes[l] \in Nat /\ v \in Nat /\ n # NoAddr
  BY DiskType, NoAddrAssumption DEF Disk, Lower
<1>2. /\ d.transaction = n /\ d.operation = "REMOVE" /\ d.operation_list = l
      /\ status = "up" /\ Full(d, lru) /\ NotListed(lru, n)
  BY DEF Removed, Recorded
<1>3. StoreLinks(n, Out) \in Writes /\ \A a \in Nodes : StoreLinks(a, d.links[a]) \in Writes
  <2>1. Out \in Links /\ \A a \in Nodes : d.links[a] \in Links
    BY <1>1 DEF Disk, Out, Links, Addrs
  <2> QED
    BY <2>1, WriteTypes
<1>4. /\ Count(l, v) \in Seq(Writes) /\ Count(l, v) # <<>> /\ WriteSize(l, v) \in Writes
      /\ End1 \in Seq(Writes) /\ End1 # <<>>
  BY <1>1, EndTypes, WriteTypes
<1>5. Remove6(n, l, v) \in Seq(Writes) /\ Remove6(n, l, v) # <<>>
  BY <1>3, <1>4, PushProperties DEF Remove6
<1>6. v = Lower(d.sizes[l])
  OBVIOUS
<1> HIDE DEF v
<1>7. ASSUME NEW a \in Nodes
      PROVE  /\ Written(StoreLinks(a, d.links[a])) = d
             /\ Committed(StoreLinks(a, d.links[a])) = lru
  <2>1. Written(StoreLinks(a, d.links[a])) = d
    <3>1. Written(StoreLinks(a, d.links[a])) = [d EXCEPT !.links[a] = d.links[a]]
      BY StoredLinks
    <3>2. [d.links EXCEPT ![a] = d.links[a]] = d.links
      BY <1>1 DEF Disk
    <3> QED
      BY <3>1, <3>2, <1>1 DEF Disk
  <2>2. [k \in Lists |-> Without(lru[k], n)] = lru
    BY <1>2, WithoutNothing
  <2> QED
    BY <2>1, <2>2, <1>2, StoredLinks
<1>8. ASSUME d' = d, lru' = lru, Kept, todo' = Remove6(n, l, v) \/ todo' = Count(l, v)
      PROVE  Removed(n, l)'
  BY <1>8, <1>6 DEF Removed, Recorded, InMemory, Shows
<1>9. ASSUME NEW a \in Nodes, todo = Push(StoreLinks(a, d.links[a]), Remove6(n, l, v))
      PROVE  lru' = lru /\ status' = status /\ Removed(n, l)'
  BY <1>2, <1>3, <1>5, <1>7, <1>8, <1>9, StoreStep
<1>10. CASE todo = Remove6(n, l, v)
  <2>1. d.links[n] = Out
    BY <1>2 DEF Full
  <2> QED
    BY <2>1, <1>2, <1>3, <1>4, <1>7, <1>8, <1>10, StoreStep DEF Remove6
<1>11. CASE todo = Count(l, v)
  <2>1. d' = [d EXCEPT !.sizes[l] = v] /\ lru' = lru /\ todo' = End1 /\ Kept
    BY <1>11, <1>2, <1>4, StoreStep, StoredEnds DEF Count
  <2>2. /\ d'.transaction = n /\ d'.operation = "REMOVE" /\ d'.operation_list = l
        /\ SameLists(d, d')
    BY <2>1, <1>1, <1>2 DEF Disk, SameLists
  <2>3. d'.sizes[l] = v /\ \A k \in Lists \ {l} : d'.sizes[k] = d.sizes[k]
    BY <2>1, <1>1 DEF Disk
  <2>4. Counters(d', lru, crashes')
    BY <2>1, <2>3, <1>6 DEF Removed, CountersBut, Counters
  <2>5. Full(d', lru)
    BY <2>2, <1>2, FullOther
  <2>6. InMemory(lru)' /\ Shows(lru)' /\ (reinsert' # None => reinsert'.node = n)
    BY <2>1 DEF Removed, InMemory, Shows
  <2>7. Mendable(d', lru, crashes')
    BY <2>2, <2>4, <2>5, <1>1, <1>2 DEF Mendable
  <2>8. Whole'
    BY <2>1, <2>2, <2>4, <2>5, <2>6, <2>7, <1>1, <1>2 DEF Whole
  <2> QED
    BY <2>1, <2>8
<1> QED
  BY <1>6, <1>9, <1>10, <1>11 DEF Removed

(***************************************************************************)
(* One store of RevertRemove().                                            *)
(***************************************************************************)

\* A store of RevertRemove() brings the disk nearer to the lists with the node.
LEMMA RevertingStore ==
  ASSUME TypeOK, Distinct(lru), Store, NEW l \in Lists, NEW i \in 1..Len(lru[l]),
         Reverting(l, i)
  PROVE  lru' = lru /\ status' = status /\ (Reverting(l, i)' \/ Whole')
<1>0. PICK s, n : s = lru[l] /\ n = lru[l][i]
  OBVIOUS
<1> DEFINE Kept == /\ status' = status /\ mem' = mem /\ iters' = iters
                   /\ reinsert' = reinsert /\ crashes' = crashes
<1>1. /\ d \in Disk /\ s \in Seq(Nodes) /\ n \in Nodes /\ n # NoAddr
      /\ Len(s) \in Nat /\ Len(s) > 0 /\ \A j \in 1..Len(s) : s[j] \in Nodes
  BY <1>0, RemoveFacts, Elements
<1>2. /\ StoreLinks(NodeBefore(s, i), LinksAt(s, IF i = 1 THEN 1 ELSE i - 1)) \in Writes
      /\ StoreLinks(NodeBehind(s, i), LinksAt(s, IF i = Len(s) THEN i ELSE i + 1)) \in Writes
      /\ WriteHead(l, n) \in Writes /\ WriteTail(l, n) \in Writes
      /\ Revert3(s, i) \in Seq(Writes) /\ Revert3(s, i) # <<>>
      /\ Revert2(s, i) \in Seq(Writes) /\ Revert2(s, i) # <<>>
  BY <1>0, <1>1, RevertTypes
<1>3. Push(WriteTail(l, n), Revert2(s, i)) \in Seq(Writes) /\ Push(WriteTail(l, n), Revert2(s, i)) # <<>>
  BY <1>2, PushProperties
<1>4. Clear1(<<>>) \in Seq(Writes) /\ Clear1(<<>>) # <<>>
  BY EndTypes, ClearTypes
<1>5. /\ d.transaction = n /\ d.operation = "REMOVE" /\ d.operation_list = l
      /\ status = "recovering" /\ reinsert = None
      /\ InMemory(lru) /\ Shows(lru) /\ Counters(d, lru, crashes)
  BY <1>0 DEF Reverting, Recorded
<1>6. \A j, m \in 1..Len(s) : s[j] = s[m] => j = m
  BY <1>0 DEF Distinct
<1>7. /\ \A j \in 1..Len(s) : LinksAt(s, j) # Out
      /\ \A xd, pd : LinksOf(s, i, i, xd, pd) = LinksAt(s, i)
      /\ \A pd : LinksOf(s, i, i + 1, FALSE, pd) = LinksAt(s, i + 1)
      /\ \A xd : LinksOf(s, i, i - 1, xd, FALSE) = LinksAt(s, i - 1)
  <2>1. \A j \in 1..Len(s) : LinksAt(s, j).prev # NoAddr
    BY <1>1, LinkTypes, NoAddrAssumption
  <2>2. i # i + 1 /\ i # i - 1 /\ i + 1 # i - 1
    BY <1>0, <1>1
  <2> QED
    BY <2>1, <2>2 DEF LinksOf, LinksAt, Out
<1>8. s = lru[l] /\ n = lru[l][i] /\ n = s[i]
  BY <1>0
<1>9. /\ i # 1 => i - 1 \in 1..Len(s) /\ i # i - 1 /\ i - 1 # i + 1
      /\ i # Len(s) => i + 1 \in 1..Len(s) /\ i # i + 1
      /\ i # i + 1 /\ i # i - 1 /\ i + 1 # i - 1
  BY <1>1, <1>8, Positions
<1>10. ASSUME lru' = lru, Kept, d'.sizes = d.sizes, d'.transaction = d.transaction,
              d'.operation = d.operation, d'.operation_list = d.operation_list
       PROVE  /\ (lru')[l] = s /\ (lru')[l][i] = n
              /\ (status = "recovering")' /\ (reinsert = None)'
              /\ Recorded(n, "REMOVE", l)'
              /\ InMemory(lru)' /\ Shows(lru)' /\ Counters(d, lru, crashes)'
  BY <1>5, <1>8, <1>10 DEF Recorded, InMemory, Shows, Counters
<1>11. PICK hd \in BOOLEAN, tl \in BOOLEAN, xd \in BOOLEAN, pd \in BOOLEAN :
             /\ Torn(d, lru, l, i, hd, tl, xd, pd, FALSE)
             /\ \/ /\ Len(s) = 1
                   /\ todo = Push(WriteHead(l, n), Push(WriteTail(l, n), Revert2(s, i)))
                \/ i = 1 /\ ~tl /\ todo = Push(WriteHead(l, n), Revert2(s, i))
                \/ i = Len(s) /\ ~hd /\ todo = Push(WriteTail(l, n), Revert2(s, i))
                \/ ~hd /\ ~tl /\ todo = Revert2(s, i)
                \/ ~hd /\ ~tl /\ ~xd /\ todo = Revert3(s, i)
  BY <1>8, ZenonT(60) DEF Reverting
<1>12. Torn(d, lru, l, i, hd, tl, xd, pd, FALSE)
  BY <1>11
<1>13. CASE Len(s) = 1 /\ todo = Push(WriteHead(l, n), Push(WriteTail(l, n), Revert2(s, i)))
  <2>1. /\ d' = [d EXCEPT !.heads[l] = n] /\ lru' = lru
        /\ todo' = Push(WriteTail(l, n), Revert2(s, i)) /\ Kept
    BY <1>13, <1>2, <1>3, StoreStep, StoredEnds
  <2>2. i = 1 /\ i = Len(s) /\ n = HeadOf(lru[l], i, FALSE)
    BY <1>13, <1>8 DEF HeadOf
  <2>3. Torn(d', lru, l, i, FALSE, tl, xd, pd, FALSE)
    BY <2>1, <2>2, <1>1, <1>12, TornHead
  <2>4. /\ d'.sizes = d.sizes /\ d'.transaction = d.transaction
        /\ d'.operation = d.operation /\ d'.operation_list = d.operation_list
    BY <2>1, <1>1 DEF Disk
  <2>5. Reverting(l, i)'
    BY <2>1, <2>2, <2>3, <2>4, <1>10 DEF Reverting
  <2> QED
    BY <2>1, <2>5
<1>14. CASE i = 1 /\ ~tl /\ todo = Push(WriteHead(l, n), Revert2(s, i))
  <2>1. d' = [d EXCEPT !.heads[l] = n] /\ lru' = lru /\ todo' = Revert2(s, i) /\ Kept
    BY <1>14, <1>2, <1>3, StoreStep, StoredEnds
  <2>2. n = HeadOf(lru[l], i, FALSE)
    BY <1>14, <1>8 DEF HeadOf
  <2>3. Torn(d', lru, l, i, FALSE, tl, xd, pd, FALSE)
    BY <2>1, <2>2, <1>1, <1>12, TornHead
  <2>4. /\ d'.sizes = d.sizes /\ d'.transaction = d.transaction
        /\ d'.operation = d.operation /\ d'.operation_list = d.operation_list
    BY <2>1, <1>1 DEF Disk
  <2>5. Reverting(l, i)'
    BY <2>1, <2>2, <2>3, <2>4, <1>10, <1>14 DEF Reverting
  <2> QED
    BY <2>1, <2>5
<1>15. CASE i = Len(s) /\ ~hd /\ todo = Push(WriteTail(l, n), Revert2(s, i))
  <2>1. d' = [d EXCEPT !.tails[l] = n] /\ lru' = lru /\ todo' = Revert2(s, i) /\ Kept
    BY <1>15, <1>2, <1>3, StoreStep, StoredEnds
  <2>2. n = TailOf(lru[l], i, FALSE)
    BY <1>15, <1>8 DEF TailOf
  <2>3. Torn(d', lru, l, i, hd, FALSE, xd, pd, FALSE)
    BY <2>1, <2>2, <1>1, <1>12, TornTail
  <2>4. /\ d'.sizes = d.sizes /\ d'.transaction = d.transaction
        /\ d'.operation = d.operation /\ d'.operation_list = d.operation_list
    BY <2>1, <1>1 DEF Disk
  <2>5. Reverting(l, i)'
    BY <2>1, <2>2, <2>3, <2>4, <1>10, <1>15 DEF Reverting
  <2> QED
    BY <2>1, <2>5
<1>16. CASE ~hd /\ ~tl /\ todo = Revert2(s, i)
  <2> DEFINE j == IF i = Len(s) THEN i ELSE i + 1
  <2>1. /\ d' = Written(StoreLinks(NodeBehind(s, i), LinksAt(s, j)))
        /\ lru' = Committed(StoreLinks(NodeBehind(s, i), LinksAt(s, j)))
        /\ todo' = Revert3(s, i) /\ Kept
    BY <1>16, <1>2, StoreStep DEF Revert2
  <2>2. j \in 1..Len(s) /\ NodeBehind(s, i) = s[j] /\ s[j] \in Nodes
    BY <1>1, <1>8, <1>9 DEF NodeBehind
  <2>3. d' = [d EXCEPT !.links[s[j]] = LinksAt(s, j)] /\ lru' = lru
    BY <2>1, <2>2, <1>7, StoredLinks
  <2>4. Torn(d', lru, l, i, FALSE, FALSE, FALSE, pd, FALSE)
    <3>0. Torn(d, lru, l, i, FALSE, FALSE, xd, pd, FALSE)
      BY <1>12, <1>16
    <3>1. CASE i = Len(s)
      <4>1. Torn(d, lru, l, i, FALSE, FALSE, FALSE, pd, FALSE)
        BY <3>0, <3>1, <1>8, TornNoBehind
      <4>2. LinksAt(s, i) = LinksOf(s, i, i, FALSE, pd)
        BY <1>7
      <4>3. d' = [d EXCEPT !.links[s[i]] = LinksAt(s, i)]
        BY <2>3, <3>1
      <4> QED
        BY <4>1, <4>2, <4>3, <1>1, <1>8, <1>9, TornLinks
    <3>2. CASE i # Len(s)
      <4>1. LinksAt(s, i + 1) = LinksOf(s, i, i + 1, FALSE, pd)
        BY <1>7
      <4>2. d' = [d EXCEPT !.links[s[i + 1]] = LinksAt(s, i + 1)]
        BY <2>3, <3>2
      <4>3. i + 1 \in 1..Len(s)
        BY <3>2, <1>9
      <4> QED
        BY <3>0, <4>1, <4>2, <4>3, <1>1, <1>8, <1>9, TornLinks
    <3> QED
      BY <3>1, <3>2
  <2>5. /\ d'.sizes = d.sizes /\ d'.transaction = d.transaction
        /\ d'.operation = d.operation /\ d'.operation_list = d.operation_list
    BY <2>3, <1>1 DEF Disk
  <2>6. Reverting(l, i)'
    BY <2>1, <2>3, <2>4, <2>5, <1>10, <1>16 DEF Reverting
  <2> QED
    BY <2>1, <2>3, <2>6
<1>17. CASE ~hd /\ ~tl /\ ~xd /\ todo = Revert3(s, i)
  <2> DEFINE j == IF i = 1 THEN 1 ELSE i - 1
  <2>1. /\ d' = Written(StoreLinks(NodeBefore(s, i), LinksAt(s, j)))
        /\ lru' = Committed(StoreLinks(NodeBefore(s, i), LinksAt(s, j)))
        /\ todo' = Clear1(<<>>) /\ Kept
    BY <1>17, <1>2, <1>4, StoreStep DEF Revert3
  <2>2. j \in 1..Len(s) /\ NodeBefore(s, i) = s[j] /\ s[j] \in Nodes
    BY <1>1, <1>8, <1>9 DEF NodeBefore
  <2>3. d' = [d EXCEPT !.links[s[j]] = LinksAt(s, j)] /\ lru' = lru
    BY <2>1, <2>2, <1>7, StoredLinks
  <2>4. Torn(d', lru, l, i, FALSE, FALSE, FALSE, FALSE, FALSE)
    <3>0. Torn(d, lru, l, i, FALSE, FALSE, FALSE, pd, FALSE)
      BY <1>12, <1>17
    <3>1. CASE i = 1
      <4>1. Torn(d, lru, l, i, FALSE, FALSE, FALSE, FALSE, FALSE)
        BY <3>0, <3>1, <1>8, TornEnds
      <4>2. LinksAt(s, i) = LinksOf(s, i, i, FALSE, FALSE)
        BY <1>7
      <4>3. d' = [d EXCEPT !.links[s[i]] = LinksAt(s, i)]
        BY <2>3, <3>1
      <4> QED
        BY <4>1, <4>2, <4>3, <1>1, <1>8, <1>9, TornLinks
    <3>2. CASE i # 1
      <4>1. LinksAt(s, i - 1) = LinksOf(s, i, i - 1, FALSE, FALSE)
        BY <1>7
      <4>2. d' = [d EXCEPT !.links[s[i - 1]] = LinksAt(s, i - 1)]
        BY <2>3, <3>2
      <4>3. i - 1 \in 1..Len(s) /\ i - 1 # i + 1 /\ i - 1 # i
        BY <3>2, <1>9
      <4> QED
        BY <3>0, <4>1, <4>2, <4>3, <1>1, <1>8, TornLinks
    <3> QED
      BY <3>1, <3>2
  <2>5. /\ d'.sizes = d.sizes /\ d'.transaction = d.transaction
        /\ d'.operation = d.operation /\ d'.operation_list = d.operation_list
    BY <2>3, <1>1 DEF Disk
  <2>6. Full(d', lru)
    BY <2>4, TornNone
  <2>7. Mendable(d', lru, crashes')
    BY <2>3, <2>4, <2>5, <1>1, <1>5, <1>8, <1>10, <2>1 DEF Mendable
  <2>8. Whole'
    BY <2>1, <2>3, <2>5, <2>6, <2>7, <1>1, <1>5, <1>10 DEF Whole
  <2> QED
    BY <2>1, <2>3, <2>8
<1> QED
  BY <1>11, <1>13, <1>14, <1>15, <1>16, <1>17

(***************************************************************************)
(* The stores that end a call.                                             *)
(***************************************************************************)

\* A store that ends a transaction leaves the lists whole.
LEMMA WholeStore ==
  ASSUME TypeOK, Distinct(lru), Store, status \in {"up", "recovering"}, Whole
  PROVE  lru' = lru /\ status' \in {"up", "recovering"} /\ Whole'
<1>1. d \in Disk
  BY DiskType
<1>2. ASSUME d'.transaction = NoAddr, SameLists(d, d'), d'.sizes = d.sizes, lru' = lru,
             mem' = mem, iters' = iters, reinsert' = reinsert, crashes' = crashes,
             status' = status \/ status' = "up",
             \/ todo' = End2
             \/ todo' = End3
             \/ todo' = Clear2(<<>>)
             \/ todo' = <<>> /\ status' = "up"
      PROVE  Whole'
  <2>1. Full(d', lru')
    BY <1>2, FullOther DEF Whole
  <2>2. Counters(d', lru', crashes') /\ InMemory(lru)' /\ Shows(lru)'
    BY <1>2 DEF Whole, Counters, InMemory, Shows
  <2> QED
    BY <2>1, <2>2, <1>2 DEF Whole
<1>3. ASSUME NEW q \in Seq(Writes), todo = Push(SetField("transaction", NoAddr), q),
             q = End2 \/ q = Clear2(<<>>) \/ q = <<>>
      PROVE  lru' = lru /\ status' \in {"up", "recovering"} /\ Whole'
  <2>1. /\ d' = [d EXCEPT !.transaction = NoAddr] /\ lru' = lru /\ todo' = q
        /\ status' = IF status = "recovering" /\ q = <<>> THEN "up" ELSE status
        /\ mem' = mem /\ iters' = iters /\ reinsert' = reinsert /\ crashes' = crashes
    BY <1>3, EndTypes, StoreStep, StoredField
  <2>2. d'.transaction = NoAddr /\ d'.sizes = d.sizes /\ SameLists(d, d')
    BY <2>1, <1>1 DEF Disk, SameLists
  <2> QED
    BY <2>1, <2>2, <1>2, <1>3
<1>4. ASSUME NEW f \in {"operation", "operation_list"}, NEW q \in Seq(Writes),
             d.transaction = NoAddr, todo = Push(SetField(f, None), q), q = End3 \/ q = <<>>
      PROVE  lru' = lru /\ status' \in {"up", "recovering"} /\ Whole'
  <2>1. /\ d' = [d EXCEPT !.operation = None] \/ d' = [d EXCEPT !.operation_list = None]
        /\ lru' = lru /\ todo' = q
        /\ status' = IF status = "recovering" /\ q = <<>> THEN "up" ELSE status
        /\ mem' = mem /\ iters' = iters /\ reinsert' = reinsert /\ crashes' = crashes
    <3>1. CASE f = "operation"
      BY <3>1, <1>4, EndTypes, StoreStep, StoredField
    <3>2. CASE f = "operation_list"
      BY <3>2, <1>4, EndTypes, StoreStep, StoredField
    <3> QED
      BY <3>1, <3>2
  <2>2. d'.transaction = NoAddr /\ d'.sizes = d.sizes /\ SameLists(d, d')
    BY <2>1, <1>1, <1>4 DEF Disk, SameLists
  <2> QED
    BY <2>1, <2>2, <1>2, <1>4
<1>5. todo # <<>>
  BY DEF Store
<1>6. CASE d.transaction # NoAddr
  <2>1. todo = End1 \/ todo = Clear1(<<>>) \/ todo = Push(SetField("transaction", NoAddr), <<>>)
    BY <1>6 DEF Whole
  <2> QED
    BY <2>1, <1>3, EndTypes, ClearTypes DEF End1, Clear1
<1>7. CASE d.transaction = NoAddr
  <2>1. todo = End2 \/ todo = End3 \/ todo = Clear2(<<>>)
    BY <1>5, <1>7 DEF Whole
  <2>2. CASE todo = End2
    BY <2>2, <1>4, <1>7, EndTypes DEF End2
  <2>3. CASE todo = End3
    BY <2>3, <1>4, <1>7, EndTypes DEF End3
  <2>4. CASE todo = Clear2(<<>>)
    BY <2>4, <1>4, <1>7, EndTypes DEF Clear2
  <2> QED
    BY <2>1, <2>2, <2>3, <2>4
<1> QED
  BY <1>6, <1>7

\* A store takes the invariant to the invariant.
LEMMA StoreInvariant ==
  ASSUME IInv, Store
  PROVE  IInv'
<1>1. TypeOK /\ Distinct(lru) /\ Working
  BY DEF IInv, Stopped, Store
<1>2. status \in {"up", "recovering"}
  BY <1>1 DEF Working
<1>3. ASSUME Distinct(lru'), status' \in {"up", "recovering"} PROVE TypeOK'
  <2>1. d' \in Disk /\ todo' \in Seq(Writes)
    BY <1>1, StoreTypes
  <2>2. mem' = mem /\ iters' = iters /\ reinsert' = reinsert /\ crashes' = crashes
    BY DEF Store
  <2>3. lru' \in [Lists -> Seq(Nodes)]
    BY <1>3 DEF Distinct
  <2> QED
    BY <1>1, <1>3, <2>1, <2>2, <2>3 DEF TypeOK, Disk
<1>4. SUFFICES Distinct(lru') /\ status' \in {"up", "recovering"} /\ Working'
  BY <1>3 DEF IInv
<1>5. CASE Whole
  BY <1>1, <1>2, <1>5, WholeStore DEF Working
<1>6. ASSUME NEW l \in Lists, NEW n \in Nodes, NEW S \in {lru, [lru EXCEPT ![l] = <<n>> \o @]},
             Inserting(S, n, l)
      PROVE  Distinct(lru') /\ status' \in {"up", "recovering"} /\ Working'
  <2>1. CASE InsertBegun(S, n, l)
    <3>1. /\ Distinct(lru') /\ status' = status
          /\ S \in {lru', [lru' EXCEPT ![l] = <<n>> \o @]}
          /\ Inserting(S, n, l)'
      BY <1>1, <1>2, <1>6, <2>1, InsertBegunStore
    <3> QED
      BY <3>1, <1>2 DEF Working
  <2>2. CASE InsertRecorded(S, n, l)
    <3>1. /\ lru' = S /\ Distinct(lru') /\ status' = status
          /\ Inserting(S, n, l)' \/ Whole'
      BY <1>1, <1>2, <1>6, <2>2, InsertRecordedStore
    <3> QED
      BY <3>1, <1>2 DEF Working
  <2> QED
    BY <1>6, <2>1, <2>2 DEF Inserting
<1>7. ASSUME NEW l \in Lists, NEW n \in Nodes, Removed(n, l)
      PROVE  Distinct(lru') /\ status' \in {"up", "recovering"} /\ Working'
  <2>1. lru' = lru /\ status' = status /\ (Removed(n, l)' \/ Whole')
    BY <1>1, <1>7, RemovedStore
  <2> QED
    BY <2>1, <1>1, <1>2 DEF Working
<1>8. ASSUME NEW l \in Lists, NEW i \in 1..Len(lru[l]), NEW shared \in BOOLEAN,
             Removing(l, i, shared)
      PROVE  Distinct(lru') /\ status' \in {"up", "recovering"} /\ Working'
  <2>0. PICK n : n = lru[l][i]
    OBVIOUS
  <2>1. CASE RemoveBegun(l, i, shared)
    <3>1. lru' = lru /\ status' = status /\ Removing(l, i, shared)'
      BY <1>1, <1>8, <2>1, RemoveBegunStore
    <3> QED
      BY <3>1, <1>1, <1>2 DEF Working
  <2>2. CASE RemoveRecorded(l, i, shared)
    <3>1. /\ status' = status /\ Distinct(lru')
          /\ \/ lru' = lru /\ Removing(l, i, shared)'
             \/ Removed(n, l)'
      BY <1>1, <1>8, <2>0, <2>2, RemoveRecordedStore
    <3>2. n \in Nodes
      BY <1>1, <2>0, Elements
    <3> QED
      BY <3>1, <3>2, <1>1, <1>2 DEF Working
  <2> QED
    BY <1>8, <2>1, <2>2 DEF Removing
<1>9. ASSUME NEW l \in Lists, NEW i \in 1..Len(lru[l]), Reverting(l, i)
      PROVE  Distinct(lru') /\ status' \in {"up", "recovering"} /\ Working'
  <2>1. lru' = lru /\ status' = status /\ (Reverting(l, i)' \/ Whole')
    BY <1>1, <1>9, RevertingStore
  <2> QED
    BY <2>1, <1>1, <1>2 DEF Working
<1> QED
  BY <1>1, <1>5, <1>6, <1>7, <1>8, <1>9 DEF Working

(***************************************************************************)
(* The sequences of stores that the calls make.                            *)
(***************************************************************************)

\* Concatenation.
LEMMA JoinedType ==
  ASSUME NEW p \in Seq(Writes), NEW q \in Seq(Writes)
  PROVE  p \o q \in Seq(Writes)
BY ConcatProperties

\* Sequences of stores one behind the other.
LEMMA Joined ==
  ASSUME NEW p \in Seq(Writes), NEW q \in Seq(Writes), NEW r \in Seq(Writes)
  PROVE  (p \o q) \o r = p \o (q \o r)
BY ConcatAssociative

\* Short sequences of stores.
LEMMA Tuples ==
  /\ \A a \in Writes : <<a>> \in Seq(Writes)
  /\ \A a, b \in Writes : <<a, b>> \in Seq(Writes) /\ <<a, b>> = <<a>> \o <<b>>
  /\ \A a, b, c \in Writes : <<a, b, c>> \in Seq(Writes) /\ <<a, b, c>> = <<a>> \o <<b, c>>
<1>1. \A a \in Writes : <<a>> \in Seq(Writes)
  OBVIOUS
<1>2. \A a, b \in Writes : <<a, b>> \in Seq(Writes)
  OBVIOUS
<1>3. \A a, b, c \in Writes : <<a, b, c>> \in Seq(Writes)
  OBVIOUS
<1>4. ASSUME NEW a \in Writes, NEW b \in Writes
      PROVE  <<a, b>> = <<a>> \o <<b>>
  <2>1. <<a>> \o <<b>> \in Seq(Writes) /\ Len(<<a>> \o <<b>>) = 2
        /\ \A i \in 1..2 : (<<a>> \o <<b>>)[i] = IF i <= 1 THEN <<a>>[i] ELSE <<b>>[i - 1]
    <3>1. Len(<<a>>) = 1 /\ Len(<<b>>) = 1 /\ 1 + 1 = 2
      OBVIOUS
    <3> QED
      BY <3>1, <1>1, ConcatProperties
  <2>2. Len(<<a, b>>) = 2
    OBVIOUS
  <2>3. \A i \in 1..2 : (<<a>> \o <<b>>)[i] = <<a, b>>[i]
    <3>1. \A i \in 1..2 : i = 1 \/ i = 2
      OBVIOUS
    <3>2. (<<a>> \o <<b>>)[1] = a /\ (<<a>> \o <<b>>)[2] = b
      BY <2>1
    <3> QED
      BY <3>1, <3>2
  <2> QED
    BY <2>1, <2>2, <2>3, <1>2, SeqEqual
<1>5. ASSUME NEW a \in Writes, NEW b \in Writes, NEW c \in Writes
      PROVE  <<a, b, c>> = <<a>> \o <<b, c>>
  <2>1. <<a>> \o <<b, c>> \in Seq(Writes) /\ Len(<<a>> \o <<b, c>>) = 3
        /\ \A i \in 1..3 : (<<a>> \o <<b, c>>)[i] = IF i <= 1 THEN <<a>>[i] ELSE <<b, c>>[i - 1]
    <3>1. Len(<<a>>) = 1 /\ Len(<<b, c>>) = 2 /\ 1 + 2 = 3
      OBVIOUS
    <3> QED
      BY <3>1, <1>1, <1>2, ConcatProperties
  <2>2. Len(<<a, b, c>>) = 3
    OBVIOUS
  <2>3. \A i \in 1..3 : (<<a>> \o <<b, c>>)[i] = <<a, b, c>>[i]
    <3>1. \A i \in 1..3 : i = 1 \/ i = 2 \/ i = 3
      OBVIOUS
    <3>2. (<<a>> \o <<b, c>>)[1] = a /\ (<<a>> \o <<b, c>>)[2] = b /\ (<<a>> \o <<b, c>>)[3] = c
      BY <2>1
    <3> QED
      BY <3>1, <3>2
  <2> QED
    BY <2>1, <2>2, <2>3, <1>3, SeqEqual
<1> QED
  BY <1>1, <1>2, <1>3, <1>4, <1>5

\* A list of stores in front of others, one by one.
LEMMA PushTwo ==
  ASSUME NEW q \in Seq(Writes), NEW a \in Writes, NEW b \in Writes
  PROVE  <<a, b>> \o q = Push(a, Push(b, q))
<1>1. /\ <<a, b>> = <<a>> \o <<b>> /\ <<a>> \in Seq(Writes) /\ <<b>> \in Seq(Writes)
  BY Tuples
<1> QED
  BY <1>1, Joined DEF Push

\* Three stores in front of others ...
LEMMA PushThree ==
  ASSUME NEW q \in Seq(Writes), NEW a \in Writes, NEW b \in Writes, NEW c \in Writes
  PROVE  <<a, b, c>> \o q = Push(a, Push(b, Push(c, q)))
<1>1. /\ <<a, b, c>> = <<a>> \o <<b, c>>
      /\ <<a>> \in Seq(Writes) /\ <<b, c>> \in Seq(Writes)
  BY Tuples
<1>2. (<<a>> \o <<b, c>>) \o q = <<a>> \o (<<b, c>> \o q)
  BY <1>1, Joined
<1>3. <<b, c>> \o q = Push(b, Push(c, q))
  BY PushTwo
<1> QED
  BY <1>1, <1>2, <1>3 DEF Push

\* A transaction around the stores of a call.
LEMMA TransactionStores ==
  ASSUME NEW before \in Seq(Writes), NEW q \in Seq(Writes), NEW n \in Nodes, NEW l \in Lists,
         NEW op \in Operations
  PROVE  before \o BeginTransaction(n, op, l) \o q \o EndTransaction
           = before \o Begin1(op, n, l, q \o End1)
<1>1. /\ SetField("transaction", n) \in Writes
      /\ SetField("operation_list", l) \in Writes
      /\ SetField("operation", op) \in Writes
  BY BeginTypes
<1>2. /\ SetField("transaction", NoAddr) \in Writes
      /\ SetField("operation_list", None) \in Writes
      /\ SetField("operation", None) \in Writes /\ End1 \in Seq(Writes) /\ <<>> \in Seq(Writes)
  BY EndTypes
<1>3. EndTransaction \in Seq(Writes) /\ EndTransaction = End1
  <2>1. EndTransaction \in Seq(Writes)
    BY <1>2, Tuples DEF EndTransaction
  <2>2. EndTransaction \o <<>> = End1
    <3>1. PICK e, a, b, c :
            /\ e = <<>> /\ a = SetField("transaction", NoAddr)
            /\ b = SetField("operation", None) /\ c = SetField("operation_list", None)
      OBVIOUS
    <3>2. e \in Seq(Writes) /\ a \in Writes /\ b \in Writes /\ c \in Writes
      BY <1>2, <3>1
    <3>3. <<a, b, c>> \o e = Push(a, Push(b, Push(c, e)))
      BY <3>2, PushThree
    <3> QED
      BY <3>1, <3>3 DEF EndTransaction, End1, End2, End3
  <2> QED
    BY <2>1, <2>2, ConcatEmptySeq
<1>4. q \o End1 \in Seq(Writes)
  BY <1>2, JoinedType
<1>5. BeginTransaction(n, op, l) \in Seq(Writes)
      /\ BeginTransaction(n, op, l) \o (q \o End1) = Begin1(op, n, l, q \o End1)
  <2>1. PICK e, a, b, c :
          /\ e = q \o End1 /\ a = SetField("operation", op)
          /\ b = SetField("operation_list", l) /\ c = SetField("transaction", n)
    OBVIOUS
  <2>2. e \in Seq(Writes) /\ a \in Writes /\ b \in Writes /\ c \in Writes
    BY <1>1, <1>4, <2>1
  <2>3. <<a, b, c>> \o e = Push(a, Push(b, Push(c, e))) /\ <<a, b, c>> \in Seq(Writes)
    BY <2>2, PushThree, Tuples
  <2> QED
    BY <2>1, <2>3 DEF BeginTransaction, Begin1, Begin2, Begin3
<1> DEFINE B == BeginTransaction(n, op, l)
<1> HIDE DEF B
<1>6. B \in Seq(Writes) /\ before \o B \in Seq(Writes)
  BY <1>5, JoinedType DEF B
<1>7. ((before \o B) \o q) \o End1 = (before \o B) \o (q \o End1)
  <2>1. PICK c, e : c = before \o B /\ e = End1
    OBVIOUS
  <2>2. c \in Seq(Writes) /\ e \in Seq(Writes)
    BY <2>1, <1>2, <1>6
  <2>3. (c \o q) \o e = c \o (q \o e)
    BY <2>2, Joined
  <2> QED
    BY <2>1, <2>3
<1>8. (before \o B) \o (q \o End1) = before \o (B \o (q \o End1))
  <2>1. PICK c : c = q \o End1
    OBVIOUS
  <2>2. (before \o B) \o c = before \o (B \o c)
    BY <2>1, <1>4, <1>6, Joined
  <2> QED
    BY <2>1, <2>2
<1> QED
  BY <1>3, <1>5, <1>7, <1>8 DEF B

\* ... and four.
LEMMA PushFour ==
  ASSUME NEW q \in Seq(Writes), NEW w \in Writes,
         NEW a \in Writes, NEW b \in Writes, NEW c \in Writes
  PROVE  /\ <<w>> \o <<a, b, c>> \in Seq(Writes)
         /\ (<<w>> \o <<a, b, c>>) \o q = Push(w, Push(a, Push(b, Push(c, q))))
<1>1. <<w>> \in Seq(Writes) /\ <<a, b, c>> \in Seq(Writes)
  BY Tuples
<1>2. (<<w>> \o <<a, b, c>>) \o q = <<w>> \o (<<a, b, c>> \o q)
  BY <1>1, Joined
<1>3. <<a, b, c>> \o q = Push(a, Push(b, Push(c, q)))
  BY PushThree
<1> QED
  BY <1>1, <1>2, <1>3, JoinedType DEF Push

(***************************************************************************)
(* Insert(), on a list from which the node is missing, or half missing.    *)
(***************************************************************************)

\* What is in memory is on disk.
Loaded == \A k \in Lists : mem.heads[k] = d.heads[k] /\ mem.tails[k] = d.tails[k]

\* The head and the tail that Insert() of n finds, when s will be the list.
Found(s, n, l) ==
    /\ n \in Nodes /\ n # NoAddr
    /\ Len(s) = 1 => mem.heads[l] = NoAddr /\ mem.tails[l] \in {NoAddr, n}
    /\ Len(s) # 1 => /\ 2 \in 1..Len(s)
                     /\ mem.heads[l] = s[2] /\ s[2] \in Nodes /\ s[2] # NoAddr /\ s[2] # n
                     /\ mem.tails[l] = s[Len(s)] /\ mem.tails[l] \notin {NoAddr, n}
                     /\ [d.links[s[2]] EXCEPT !.prev = n] = LinksAt(s, 2)

\* The head is the node that will be behind the new one, and it passes all checks.
LEMMA InsertFinds ==
  ASSUME d \in Disk, Loaded, NEW S, Distinct(S), NEW l \in Lists, NEW n,
         Len(S[l]) > 0, S[l][1] = n, NEW tl, NEW xd, NEW nd,
         Torn(d, S, l, 1, TRUE, tl, xd, FALSE, nd)
  PROVE  Found(S[l], n, l) /\ InsertAllowed(n, l)
<1>0. PICK s : s = S[l]
  OBVIOUS
<1>1. s \in Seq(Nodes) /\ Len(s) \in Nat /\ \A j \in 1..Len(s) : s[j] \in Nodes /\ s[j] # NoAddr
  BY <1>0, Elements
<1>2. \A a, b \in 1..Len(s) : s[a] = s[b] => a = b
  BY <1>0 DEF Distinct
<1>3. /\ Len(s) > 0 /\ 1 \in 1..Len(s) /\ Len(s) \in 1..Len(s)
      /\ (Len(s) # 1 => 2 \in 1..Len(s))
  BY <1>0, <1>1, Positions
<1>4. mem.heads[l] = HeadOf(s, 1, TRUE) /\ mem.tails[l] = TailOf(s, 1, tl)
  BY <1>0 DEF Torn, Loaded
<1>5. n \in Nodes /\ n # NoAddr /\ n = s[1]
  BY <1>0, <1>1, <1>3
<1>6. Len(s) = 1 => mem.heads[l] = NoAddr /\ mem.tails[l] \in {NoAddr, n}
  BY <1>4, <1>5 DEF HeadOf, TailOf
<1>7. CASE Len(s) = 1
  <2>1. InsertAllowed(n, l)
    BY <1>6, <1>7 DEF InsertAllowed
  <2> QED
    BY <2>1, <1>0, <1>5, <1>6, <1>7 DEF Found
<1>8. CASE Len(s) # 1
  <2>1. mem.heads[l] = s[2] /\ s[2] \in Nodes /\ s[2] # NoAddr /\ s[2] # n
    BY <1>1, <1>2, <1>3, <1>4, <1>5, <1>8 DEF HeadOf
  <2>2. mem.tails[l] = s[Len(s)] /\ mem.tails[l] \notin {NoAddr, n}
    BY <1>1, <1>2, <1>3, <1>4, <1>5, <1>8 DEF TailOf
  <2>3. d.links[s[2]] = LinksOf(s, 1, 2, xd, FALSE)
    <3>1. ASSUME NEW j \in 1..Len(s), j # 1
          PROVE  d.links[s[j]] = LinksOf(s, 1, j, xd, FALSE)
      BY <1>0, <3>1 DEF Torn
    <3>2. 2 \in 1..Len(s) /\ 2 # 1
      BY <1>3, <1>8
    <3> QED
      BY <3>1, <3>2
  <2>4. /\ LinksOf(s, 1, 2, xd, FALSE).prev \in {s[2], n}
        /\ LinksOf(s, 1, 2, xd, FALSE).next = LinksAt(s, 2).next
        /\ LinksAt(s, 2).prev = n
    <3>1. s[1] = n /\ 2 - 1 = 1 /\ 2 = 1 + 1 /\ 2 # 1 /\ 2 # 1 - 1
      BY <1>5
    <3>2. LinksAt(s, 2).prev = n
      BY <3>1 DEF LinksAt
    <3> QED
      BY <3>1, <3>2 DEF LinksOf
  <2>5. [d.links[s[2]] EXCEPT !.prev = n] = LinksAt(s, 2)
    BY <2>3, <2>4 DEF LinksOf, LinksAt
  <2>6. LinksAt(s, 2).next # NoAddr /\ (LinksAt(s, 2).next = s[2] => mem.tails[l] = s[2])
    <3>1. CASE Len(s) = 2
      BY <3>1, <2>1, <2>2 DEF LinksAt
    <3>2. CASE Len(s) # 2
      <4>1. 3 \in 1..Len(s)
        BY <3>2, <1>1, <1>3, <1>8, Positions
      <4>2. LinksAt(s, 2).next = s[3]
        BY <3>2 DEF LinksAt
      <4> QED
        BY <4>1, <4>2, <1>1, <1>2, <1>3, <1>8
    <3> QED
      BY <3>1, <3>2
  <2>7. SanityCheck(s[2])
    BY <2>1, <2>2, <2>3, <2>4, <2>6, <1>5 DEF SanityCheck, IsHead, IsTail
  <2>8. InsertAllowed(n, l)
    BY <2>1, <2>3, <2>4, <2>7 DEF InsertAllowed
  <2> QED
    BY <2>1, <2>2, <2>5, <2>8, <1>0, <1>3, <1>5, <1>8 DEF Found
<1> QED
  BY <1>7, <1>8

\* The stores of Insert().
LEMMA InsertSequence ==
  ASSUME TypeOK, Loaded, NEW S, Distinct(S), NEW l \in Lists, NEW n,
         Len(S[l]) > 0, S[l][1] = n, NEW tl, NEW xd, NEW nd,
         Torn(d, S, l, 1, TRUE, tl, xd, FALSE, nd)
  PROVE  /\ InsertStores(n, l) \in Seq(Writes)
         /\ InsertStores(n, l) \o End1 = Insert2(S[l], l, d.sizes[l] + 1)
<1>0. PICK s, v : s = S[l] /\ v = d.sizes[l] + 1
  OBVIOUS
<1>1. d \in Disk
  BY DiskType
<1>2. /\ n \in Nodes /\ n # NoAddr
      /\ Len(s) = 1 => mem.heads[l] = NoAddr /\ mem.tails[l] \in {NoAddr, n}
      /\ Len(s) # 1 => /\ mem.heads[l] = s[2] /\ s[2] # NoAddr
                       /\ mem.tails[l] \notin {NoAddr, n}
                       /\ [d.links[s[2]] EXCEPT !.prev = n] = LinksAt(s, 2)
  <2>1. Found(S[l], n, l)
    BY <1>1, InsertFinds
  <2> QED
    BY <2>1, <1>0 DEF Found
<1>3. s \in Seq(Nodes) /\ Len(s) > 0 /\ s[1] = n /\ v \in Nat
  <2>1. d.sizes[l] \in Nat
    BY <1>1 DEF Disk
  <2> QED
    BY <2>1, <1>0, Elements
<1>4. PICK w, a, b, c :
        /\ w = IF Len(s) = 1 THEN WriteTail(l, n) ELSE StoreLinks(s[2], LinksAt(s, 2))
        /\ a = StoreLinks(n, LinksAt(s, 1)) /\ b = WriteHead(l, n) /\ c = WriteSize(l, v)
  OBVIOUS
<1>5. w \in Writes /\ a \in Writes /\ b \in Writes /\ c \in Writes
  BY <1>3, <1>4, InsertTypes, WriteTypes
<1>6. [prev |-> n, next |-> IF Len(s) = 1 THEN n ELSE s[2]] = LinksAt(s, 1)
  BY <1>3 DEF LinksAt
<1>7. InsertStores(n, l) = <<w>> \o <<a, b, c>>
  <2>0. IncrementCounter(l) = c
    BY <1>0, <1>4 DEF IncrementCounter
  <2>1. CASE Len(s) = 1
    <3>1. InsertStores(n, l) = (<<>> \o <<w>>) \o <<a, b, c>>
      BY <2>0, <2>1, <1>2, <1>4, <1>6 DEF InsertStores
    <3>2. <<>> \o <<w>> = <<w>>
      BY <1>5, Tuples, ConcatEmptySeq
    <3> QED
      BY <3>1, <3>2
  <2>2. CASE Len(s) # 1
    <3>1. InsertStores(n, l) = (<<w>> \o <<>>) \o <<a, b, c>>
      BY <2>0, <2>2, <1>2, <1>4, <1>6 DEF InsertStores
    <3>2. <<w>> \o <<>> = <<w>>
      BY <1>5, Tuples, ConcatEmptySeq
    <3> QED
      BY <3>1, <3>2
  <2> QED
    BY <2>1, <2>2
<1>8. End1 \in Seq(Writes)
  BY EndTypes
<1>9. InsertStores(n, l) \in Seq(Writes)
      /\ InsertStores(n, l) \o End1 = Push(w, Push(a, Push(b, Push(c, End1))))
  BY <1>5, <1>7, <1>8, PushFour
<1> QED
  BY <1>0, <1>3, <1>4, <1>9 DEF Insert2, Insert3, Insert4, Count

\* The types of the variables that a call changes at once.
Held == {None} \cup [node : Nodes, list : Lists, dir : {"next", "prev"}, data : {None} \cup Links]
Ends == [heads : [Lists -> Addrs], tails : [Lists -> Addrs]]

\* What UpdateIterators() returns has the type of iterators_ ...
LEMMA HeldTypes ==
  ASSUME NEW its \in [Iters -> Held], NEW now, \A a \in DOMAIN now : now[a] \in Links
  PROVE  /\ UpdateIterators(its, now) \in [Iters -> Held]
         /\ \A i \in Iters : its[i] # None => its[i].node \in Nodes
<1>1. ASSUME NEW i \in Iters
      PROVE  (IF its[i] # None /\ its[i].node \in DOMAIN now /\ its[i].data # None
              THEN [its[i] EXCEPT !.data = now[its[i].node]] ELSE its[i]) \in Held
  <2>1. CASE its[i] # None /\ its[i].node \in DOMAIN now /\ its[i].data # None
    <3>1. PICK r : r = its[i] /\ r \in [node : Nodes, list : Lists, dir : {"next", "prev"}, data : {None} \cup Links]
      BY <2>1 DEF Held
    <3>2. PICK x : x = now[its[i].node] /\ x \in Links
      BY <2>1
    <3>3. [r EXCEPT !.data = x] \in [node : Nodes, list : Lists, dir : {"next", "prev"}, data : {None} \cup Links]
      BY <3>1, <3>2
    <3> QED
      BY <2>1, <3>1, <3>2, <3>3 DEF Held
  <2>2. CASE ~(its[i] # None /\ its[i].node \in DOMAIN now /\ its[i].data # None)
    BY <2>2
  <2> QED
    BY <2>1, <2>2
<1>2. UpdateIterators(its, now) \in [Iters -> Held]
  BY <1>1 DEF UpdateIterators
<1> QED
  BY <1>2 DEF Held

\* ... and what InvalidateIterators() returns.
LEMMA InvalidatedTypes ==
  ASSUME iters \in [Iters -> Held], NEW n
  PROVE  InvalidateIterators(n) \in [Iters -> Held]
<1>1. ASSUME NEW i \in Iters
      PROVE  (IF iters[i] # None /\ iters[i].node = n
              THEN [iters[i] EXCEPT !.data = None] ELSE iters[i]) \in Held
  <2>1. CASE iters[i] # None
    <3>1. PICK r : r = iters[i] /\ r \in [node : Nodes, list : Lists, dir : {"next", "prev"}, data : {None} \cup Links]
      BY <2>1 DEF Held
    <3>2. [r EXCEPT !.data = None] \in [node : Nodes, list : Lists, dir : {"next", "prev"}, data : {None} \cup Links]
      BY <3>1
    <3> QED
      BY <2>1, <3>1, <3>2 DEF Held
  <2>2. CASE iters[i] = None
    BY <2>2
  <2> QED
    BY <2>1, <2>2
<1> QED
  BY <1>1 DEF InvalidateIterators

\* The variables in memory have their types.
LEMMA CallTypes == TypeOK => iters \in [Iters -> Held] /\ mem \in Ends
BY DEF TypeOK, Held, Ends

\* UpdateIterators() changes the data of a block that is given, and no more.
LEMMA Updated ==
  ASSUME NEW its \in [Iters -> Held], NEW now, \A a \in DOMAIN now : now[a] \in Links,
         NEW i \in Iters, NEW new, new = UpdateIterators(its, now)[i],
         new # None, new.data # None
  PROVE  /\ its[i] # None /\ its[i].data # None /\ new.node = its[i].node /\ its[i].node \in Nodes
         /\ new.data = IF its[i].node \in DOMAIN now THEN now[its[i].node] ELSE its[i].data
<1>1. new = IF its[i] # None /\ its[i].node \in DOMAIN now /\ its[i].data # None
            THEN [its[i] EXCEPT !.data = now[its[i].node]] ELSE its[i]
  BY DEF UpdateIterators
<1>2. its[i] # None => its[i] \in [node : Nodes, list : Lists, dir : {"next", "prev"}, data : {None} \cup Links]
  BY DEF Held
<1>3. CASE its[i] # None /\ its[i].node \in DOMAIN now /\ its[i].data # None
  <2>1. PICK r : r = its[i] /\ r \in [node : Nodes, list : Lists, dir : {"next", "prev"}, data : {None} \cup Links]
    BY <1>2, <1>3
  <2>2. PICK x : x = now[its[i].node]
    OBVIOUS
  <2>3. new = [r EXCEPT !.data = x]
    BY <1>1, <1>3, <2>1, <2>2
  <2>4. new.node = r.node /\ new.data = x /\ r.node \in Nodes
    BY <2>1, <2>3
  <2> QED
    BY <1>3, <2>1, <2>2, <2>4
<1>4. CASE ~(its[i] # None /\ its[i].node \in DOMAIN now /\ its[i].data # None)
  BY <1>1, <1>2, <1>4
<1> QED
  BY <1>3, <1>4

\* Insert() leaves the iterators with the links of the new list.
LEMMA InsertShows ==
  ASSUME TypeOK, Loaded, NEW S, Distinct(S), NEW l \in Lists, NEW n,
         Len(S[l]) > 0, S[l][1] = n, Found(S[l], n, l), Shows(CutFrom(S, l, 1)),
         LET h == mem.heads[l]
         IN  iters' = UpdateIterators(iters,
                        [a \in {h} \ {NoAddr} |-> [d.links[a] EXCEPT !.prev = n]])
  PROVE  iters' \in [Iters -> Held] /\ Shows(S)'
<1>0. PICK s, h, now : /\ s = S[l] /\ h = mem.heads[l]
                       /\ now = [a \in {h} \ {NoAddr} |-> [d.links[a] EXCEPT !.prev = n]]
  OBVIOUS
<1>1. iters \in [Iters -> Held]
  BY CallTypes
<1>2. s \in Seq(Nodes) /\ Len(s) \in Nat /\ 1 \in 1..Len(s) /\ s[1] = n
  <2>1. s \in Seq(Nodes) /\ Len(s) \in Nat /\ Len(s) > 0
    BY <1>0, Elements
  <2> QED
    BY <2>1, <1>0, Positions
<1>3. \A a \in DOMAIN now : Len(s) # 1 /\ a = s[2] /\ 2 \in 1..Len(s) /\ now[a] = LinksAt(s, 2)
  BY <1>0 DEF Found
<1>4. Len(s) # 1 => s[2] \in DOMAIN now
  BY <1>0 DEF Found
<1>5. \A a \in DOMAIN now : now[a] \in Links
  BY <1>2, <1>3, LinkTypes
<1>6. iters' = UpdateIterators(iters, now)
  BY <1>0
<1>7. iters' \in [Iters -> Held]
  BY <1>1, <1>5, <1>6, HeldTypes
<1>8. ASSUME NEW i \in Iters, iters'[i] # None, iters'[i].data # None
      PROVE  \E k \in Lists : \E j \in 1..Len(S[k]) :
               iters'[i].node = S[k][j] /\ iters'[i].data = LinksAt(S[k], j)
  <2>1. /\ iters[i] # None /\ iters[i].data # None /\ iters'[i].node = iters[i].node
        /\ iters'[i].data = IF iters[i].node \in DOMAIN now THEN now[iters[i].node] ELSE iters[i].data
    BY <1>1, <1>5, <1>6, <1>8, Updated
  <2>2. PICK T : T = CutFrom(S, l, 1)
    OBVIOUS
  <2>30. PICK k \in Lists : \E j \in 1..Len(T[k]) :
          iters[i].node = T[k][j] /\ iters[i].data = LinksAt(T[k], j)
    BY <2>1, <2>2 DEF Shows
  <2>3. PICK j \in 1..Len(T[k]) :
          iters[i].node = T[k][j] /\ iters[i].data = LinksAt(T[k], j)
    BY <2>30
  <2>4. T[l] = Cut(s, 1) /\ \A m \in Lists \ {l} : T[m] = S[m]
    BY <2>2, <1>0 DEF CutFrom, Distinct
  <2>5. CASE k # l
    <3>1. T[k] = S[k]
      BY <2>4, <2>5
    <3>2. \A b \in 1..Len(s) : s[b] # S[k][j]
      BY <2>5, <3>1, <1>0 DEF Distinct
    <3>3. iters[i].node \notin DOMAIN now
      BY <2>3, <3>1, <3>2, <1>3
    <3> QED
      BY <2>1, <2>3, <3>1, <3>3
  <2>6. CASE k = l
    <3>1. Len(T[l]) = Len(s) - 1 /\ \A m \in 1..Len(s) - 1 : T[l][m] = IF m < 1 THEN s[m] ELSE s[m + 1]
      BY <2>4, <1>2, CutProperties
    <3>2. j \in 1..Len(s) - 1
      BY <2>6, <3>1
    <3>3. j + 1 \in 1..Len(s) /\ j + 1 # 1 /\ Place(1, j + 1) = j /\ ~(j < 1)
      BY <3>2, <1>2 DEF Place
    <3>4. iters[i].node = s[j + 1]
      BY <2>3, <2>6, <3>1, <3>2, <3>3
    <3>5. iters[i].data = LinksOf(s, 1, j + 1, TRUE, TRUE)
      <4>1. \A b \in 1..Len(s) : b # 1 => LinksOf(s, 1, b, TRUE, TRUE) = LinksAt(T[l], Place(1, b))
        BY <2>4, <1>2, CutShape, ZenonT(60)
      <4> QED
        BY <4>1, <2>3, <2>6, <3>3
    <3>6. iters'[i].data = LinksAt(s, j + 1)
      <4>1. CASE j = 1
        <5>0. j + 1 = 2 /\ 2 \in 1..Len(s)
          BY <4>1, <3>3
        <5>1. j + 1 = 2 /\ Len(s) # 1
          <6>1. 2 \notin 1..1
            OBVIOUS
          <6> QED
            BY <5>0, <6>1
        <5>2. iters[i].node = s[2] /\ s[2] \in DOMAIN now
          BY <5>1, <3>4, <1>4
        <5> QED
          BY <5>1, <5>2, <2>1, <1>3
      <4>2. CASE j # 1
        <5>1. iters[i].node \notin DOMAIN now
          <6>1. 2 \in 1..Len(s) => s[2] # s[j + 1]
            <7>1. \A a, b \in 1..Len(s) : s[a] = s[b] => a = b
              BY <1>0 DEF Distinct
            <7>2. j + 1 # 2
              BY <4>2, <3>2
            <7> QED
              BY <7>1, <7>2, <3>3
          <6> QED
            BY <6>1, <3>4, <1>3
        <5>2. j + 1 # 1 + 1 /\ j + 1 # 1 - 1
          BY <4>2, <3>2
        <5>3. LinksOf(s, 1, j + 1, TRUE, TRUE) = LinksAt(s, j + 1)
          BY <5>2 DEF LinksOf, LinksAt
        <5> QED
          BY <5>1, <5>3, <2>1, <3>5
      <4> QED
        BY <4>1, <4>2
    <3> QED
      BY <2>1, <3>3, <3>4, <3>6, <1>0
  <2> QED
    BY <2>5, <2>6
<1> QED
  BY <1>7, <1>8 DEF Shows

\* A call of Insert() that the checks allow: what is left of it is one of the
\* sequences of the invariant, and memory shows the list with the node already.
LEMMA InsertCallStep ==
  ASSUME TypeOK, Loaded, NEW S, Distinct(S), NEW l \in Lists, NEW n,
         Len(S[l]) > 0, S[l][1] = n, NEW tl, NEW xd, NEW nd,
         Torn(d, S, l, 1, TRUE, tl, xd, FALSE, nd), Shows(CutFrom(S, l, 1)),
         NEW before \in Seq(Writes), NEW now, InsertCall(before, n, l, now)
  PROVE  /\ todo' = before \o Insert1(S[l], l, d.sizes[l] + 1) /\ todo' \in Seq(Writes)
         /\ mem' \in Ends /\ iters' \in [Iters -> Held] /\ status' = now
         /\ InMemory(S)' /\ Shows(S)'
<1>0. PICK s : s = S[l]
  OBVIOUS
<1>1. d \in Disk /\ mem \in Ends
  BY DiskType, CallTypes
<1>2. Found(S[l], n, l) /\ InsertAllowed(n, l)
  BY <1>1, InsertFinds
<1>3. /\ todo' = before \o BeginTransaction(n, "INSERT", l)
                        \o InsertStores(n, l) \o EndTransaction
      /\ mem' = InsertMem(n, l)
      /\ LET h == mem.heads[l]
         IN  iters' = UpdateIterators(iters,
                        [a \in {h} \ {NoAddr} |-> [d.links[a] EXCEPT !.prev = n]])
      /\ status' = now
  BY <1>2 DEF InsertCall
<1>4. n \in Nodes /\ n # NoAddr /\ n = s[1] /\ Len(s) > 0 /\ Len(s) \in Nat
  <2>1. n \in Nodes /\ n # NoAddr
    BY <1>2 DEF Found
  <2>2. Len(s) \in Nat
    BY <1>0, Elements
  <2> QED
    BY <2>1, <2>2, <1>0
<1>5. todo' = before \o Insert1(S[l], l, d.sizes[l] + 1) /\ todo' \in Seq(Writes)
  <2>1. PICK q : q = InsertStores(n, l)
    OBVIOUS
  <2>2. q \in Seq(Writes) /\ q \o End1 = Insert2(S[l], l, d.sizes[l] + 1)
    BY <2>1, InsertSequence
  <2>3. "INSERT" \in Operations
    BY DEF Operations
  <2>4. todo' = before \o Begin1("INSERT", n, l, q \o End1)
    BY <2>1, <2>2, <2>3, <1>3, <1>4, TransactionStores
  <2>5. todo' = before \o Insert1(S[l], l, d.sizes[l] + 1)
    BY <2>2, <2>4, <1>0, <1>4 DEF Insert1
  <2>6. d.sizes[l] + 1 \in Nat /\ s \in Seq(Nodes)
    <3>1. d.sizes[l] \in Nat
      BY <1>1 DEF Disk
    <3> QED
      BY <3>1, <1>0, Elements
  <2>7. PICK v, p : v = d.sizes[l] + 1 /\ p = Insert1(s, l, v)
    OBVIOUS
  <2>8. p \in Seq(Writes)
    BY <2>6, <2>7, <1>4, InsertTypes
  <2> QED
    BY <2>5, <2>7, <2>8, <1>0, JoinedType
<1>6. iters' \in [Iters -> Held] /\ Shows(S)'
  BY <1>2, <1>3, InsertShows
<1>7. PICK H, T : /\ H = [mem.heads EXCEPT ![l] = n]
                  /\ T = [mem.tails EXCEPT ![l] = IF @ \in {NoAddr, n} THEN n ELSE @]
  OBVIOUS
<1>8. mem' \in Ends /\ mem'.heads = H /\ mem'.tails = T
  <2>1. mem' = [mem EXCEPT !.heads = H, !.tails = T]
    BY <1>1, <1>3, <1>7 DEF InsertMem, Ends
  <2>2. mem.heads \in [Lists -> Addrs] /\ mem.tails \in [Lists -> Addrs]
    BY <1>1 DEF Ends
  <2>3. n \in Addrs
    BY <1>4 DEF Addrs
  <2>4. H \in [Lists -> Addrs] /\ T \in [Lists -> Addrs]
    BY <1>7, <2>2, <2>3
  <2> QED
    BY <2>1, <2>4, <1>1 DEF Ends
<1>9. InMemory(S)'
  <2>1. mem.heads \in [Lists -> Addrs] /\ mem.tails \in [Lists -> Addrs]
    BY <1>1 DEF Ends
  <2>2. mem'.heads[l] = First(S[l]) /\ mem'.tails[l] = Final(S[l])
    <3>1. mem'.heads[l] = n /\ mem'.tails[l] = IF mem.tails[l] \in {NoAddr, n} THEN n ELSE mem.tails[l]
      BY <1>7, <1>8, <2>1
    <3>2. mem'.tails[l] = s[Len(s)]
      <4>1. CASE Len(s) = 1
        <5>1. mem.tails[l] \in {NoAddr, n}
          BY <1>0, <1>2, <4>1 DEF Found
        <5> QED
          BY <5>1, <4>1, <3>1, <1>4
      <4>2. CASE Len(s) # 1
        <5>1. mem.tails[l] \notin {NoAddr, n} /\ mem.tails[l] = s[Len(s)]
          BY <1>0, <1>2, <4>2 DEF Found
        <5> QED
          BY <5>1, <3>1
      <4> QED
        BY <4>1, <4>2
    <3> QED
      BY <3>1, <3>2, <1>0, <1>4 DEF First, Final
  <2>3. ASSUME NEW k \in Lists, k # l
        PROVE  mem'.heads[k] = First(S[k]) /\ mem'.tails[k] = Final(S[k])
    <3>1. mem'.heads[k] = mem.heads[k] /\ mem'.tails[k] = mem.tails[k]
      BY <1>7, <1>8, <2>1, <2>3
    <3>2. d.heads[k] = First(S[k]) /\ d.tails[k] = Final(S[k])
      BY <2>3 DEF Torn
    <3> QED
      BY <3>1, <3>2 DEF Loaded
  <2> QED
    BY <2>2, <2>3 DEF InMemory
<1> QED
  BY <1>3, <1>5, <1>6, <1>8, <1>9

(***************************************************************************)
(* The calls.                                                              *)
(***************************************************************************)

\* A call that has not returned has stores to make: between two calls the lists
\* are whole, and no transaction is recorded.
LEMMA Resting ==
  ASSUME IInv, todo = <<>>, status = "up"
  PROVE  Whole /\ d.transaction = NoAddr
<1>0. TypeOK /\ Distinct(lru) /\ Working
  BY DEF IInv, Stopped
<1>1. ASSUME NEW l \in Lists, NEW n \in Nodes, NEW S, Inserting(S, n, l)
      PROVE  FALSE
  <2>1. /\ S[l] \in Seq(Nodes) /\ Len(S[l]) > 0 /\ S[l][1] = n /\ n \in Nodes
        /\ d.sizes[l] + 1 \in Nat
    BY <1>0, <1>1, InsertFacts
  <2>2. PICK s, v : s = S[l] /\ v = d.sizes[l] + 1
    OBVIOUS
  <2>3. /\ Insert4(s, l, v) # <<>> /\ Insert3(s, l, v) # <<>> /\ Insert2(s, l, v) # <<>>
        /\ Insert1(s, l, v) # <<>> /\ Insert1(s, l, v) \in Seq(Writes)
        /\ Insert2(s, l, v) \in Seq(Writes)
    BY <2>1, <2>2, InsertTypes
  <2>4. Clear2(Insert1(s, l, v)) # <<>> /\ Clear1(Insert1(s, l, v)) # <<>>
    BY <2>3, ClearTypes
  <2>5. Begin2(n, l, Insert2(s, l, v)) # <<>> /\ Begin3(n, Insert2(s, l, v)) # <<>>
    <3>1. "INSERT" \in Operations
      BY DEF Operations
    <3> QED
      BY <2>3, <3>1, BeginTypes
  <2>6. Count(l, v) # <<>>
    BY <2>1, <2>2, EndTypes
  <2> QED
    BY <1>1, <2>2, <2>3, <2>4, <2>5, <2>6 DEF Inserting, InsertBegun, InsertRecorded
<1>2. ASSUME NEW l \in Lists, NEW n \in Nodes, Removed(n, l)
      PROVE  FALSE
  <2>1. d \in Disk
    BY <1>0, DiskType
  <2>2. PICK v : v = Lower(d.sizes[l])
    OBVIOUS
  <2>3. v \in Nat
    BY <2>1, <2>2 DEF Disk, Lower
  <2>4. Count(l, v) \in Seq(Writes) /\ Count(l, v) # <<>>
    BY <2>3, EndTypes
  <2>5. StoreLinks(n, Out) \in Writes /\ \A a \in Nodes : StoreLinks(a, d.links[a]) \in Writes
    BY <2>1, WriteTypes DEF Disk, Out, Links, Addrs
  <2>6. Remove6(n, l, v) \in Seq(Writes) /\ Remove6(n, l, v) # <<>>
    BY <2>4, <2>5, PushProperties DEF Remove6
  <2>7. \A a \in Nodes : Push(StoreLinks(a, d.links[a]), Remove6(n, l, v)) # <<>>
    BY <2>5, <2>6, PushProperties
  <2> QED
    BY <1>2, <2>2, <2>4, <2>6, <2>7 DEF Removed
<1>3. ASSUME NEW l \in Lists, NEW i \in 1..Len(lru[l]), NEW shared \in BOOLEAN,
             Removing(l, i, shared)
      PROVE  FALSE
  <2>1. PICK s, v : s = lru[l] /\ v = Lower(d.sizes[l])
    OBVIOUS
  <2>2. s \in Seq(Nodes) /\ v \in Nat /\ i \in 1..Len(s) /\ s[i] \in Nodes
    BY <1>0, <2>1, RemoveFacts
  <2>3. /\ Remove6(s[i], l, v) # <<>> /\ Remove5(s, i, l, v, shared) # <<>>
        /\ Remove4(s, i, l, v, shared) # <<>> /\ Remove3(s, i, l, v, shared) # <<>>
        /\ Remove2(s, i, l, v, shared) # <<>> /\ Remove1(s, i, l, v, shared) # <<>>
        /\ Remove2(s, i, l, v, shared) \in Seq(Writes)
    BY <2>2, RemoveTypes
  <2>4. PICK q : q = Remove2(s, i, l, v, shared)
    OBVIOUS
  <2>5. Begin2(s[i], l, q) # <<>> /\ Begin3(s[i], q) # <<>>
    <3>1. "REMOVE" \in Operations
      BY DEF Operations
    <3> QED
      BY <2>2, <2>3, <2>4, <3>1, BeginTypes
  <2> QED
    BY <1>3, <2>1, <2>3, <2>4, <2>5 DEF Removing, RemoveBegun, RemoveRecorded
<1>4. ASSUME NEW l \in Lists, NEW i \in 1..Len(lru[l]), Reverting(l, i)
      PROVE  FALSE
  BY <1>4 DEF Reverting
<1>5. Whole
  BY <1>0, <1>1, <1>2, <1>3, <1>4 DEF Working
<1>6. End1 # <<>> /\ Clear1(<<>>) # <<>> /\ Push(SetField("transaction", NoAddr), <<>>) # <<>>
  BY EndTypes, ClearTypes, PushProperties
<1> QED
  BY <1>5, <1>6 DEF Whole

\* A node is in a list exactly if its links are not null.
LEMMA ListedLinks ==
  ASSUME NEW D, NEW S, Distinct(S), Full(D, S), NEW n \in Nodes
  PROVE  /\ NotListed(S, n) => D.links[n] = Out
         /\ NoAddr \in {D.links[n].next, D.links[n].prev} => NotListed(S, n)
<1>1. ASSUME NEW k \in Lists, NEW j \in 1..Len(S[k]), S[k][j] = n
      PROVE  D.links[n].next # NoAddr /\ D.links[n].prev # NoAddr
  <2>1. S[k] \in Seq(Nodes)
    BY Elements
  <2>2. LinksAt(S[k], j).prev \in Nodes /\ LinksAt(S[k], j).next \in Nodes
    BY <2>1, LinkTypes
  <2>3. D.links[n] = LinksAt(S[k], j)
    BY <1>1 DEF Full
  <2> QED
    BY <2>2, <2>3, NoAddrAssumption
<1>2. NotListed(S, n) => D.links[n] = Out
  BY DEF Full
<1>3. NoAddr \in {D.links[n].next, D.links[n].prev} => NotListed(S, n)
  BY <1>1 DEF NotListed
<1> QED
  BY <1>2, <1>3

\* Insert() of a node that is in no list.
LEMMA InsertFresh ==
  ASSUME TypeOK, Distinct(lru), Whole, status = "up", d.transaction = NoAddr,
         NEW l \in Lists, NEW n \in Nodes, NotListed(lru, n),
         InsertCall(<<>>, n, l, status),
         d' = d, lru' = lru, crashes' = crashes, reinsert' = None
  PROVE  IInv'
<1>0. PICK S : S = [lru EXCEPT ![l] = <<n>> \o @]
  OBVIOUS
<1>1. Distinct(S) /\ Len(S[l]) = Len(lru[l]) + 1 /\ S[l][1] = n /\ CutFrom(S, l, 1) = lru
  BY <1>0, PushedLists
<1>2. Len(lru[l]) \in Nat /\ Len(S[l]) > 0 /\ 1 \in 1..Len(S[l])
  <2>1. Len(lru[l]) \in Nat
    BY Elements
  <2> QED
    BY <2>1, <1>1
<1>3. Torn(d, S, l, 1, TRUE, TRUE, TRUE, FALSE, TRUE)
  <2>1. Full(d, CutFrom(S, l, 1))
    BY <1>1 DEF Whole
  <2>2. Torn(d, S, l, 1, TRUE, TRUE, TRUE, TRUE, TRUE)
    BY <2>1, <1>1, <1>2, TornAll
  <2> QED
    BY <2>2, <1>1, <1>2, TornEnds
<1>4. Loaded
  BY DEF Whole, Full, InMemory, Loaded
<1>5. Shows(CutFrom(S, l, 1))
  BY <1>1 DEF Whole
<1>6. PICK now : now = status
  OBVIOUS
<1>7. PICK before : before = <<>>
  OBVIOUS
<1>8. /\ todo' = before \o Insert1(S[l], l, d.sizes[l] + 1) /\ todo' \in Seq(Writes)
      /\ mem' \in Ends /\ iters' \in [Iters -> Held] /\ status' = now
      /\ InMemory(S)' /\ Shows(S)'
  <2>1. before \in Seq(Writes)
    BY <1>7, EndTypes
  <2>2. InsertCall(before, n, l, now)
    BY <1>6, <1>7
  <2> QED
    BY <2>1, <2>2, <1>1, <1>2, <1>3, <1>4, <1>5, InsertCallStep
<1>9. todo' = Insert1(S[l], l, d.sizes[l] + 1)
  <2>1. d.sizes[l] \in Nat
    BY DiskType DEF Disk
  <2>2. PICK v, p : v = d.sizes[l] + 1 /\ p = Insert1(S[l], l, v)
    OBVIOUS
  <2>3. p \in Seq(Writes)
    <3>1. S[l] \in Seq(Nodes) /\ v \in Nat
      BY <2>1, <2>2, <1>1, Elements
    <3> QED
      BY <3>1, <2>2, <1>2, InsertTypes
  <2>4. <<>> \o p = p
    BY <2>3, ConcatEmptySeq
  <2> QED
    BY <2>2, <2>4, <1>7, <1>8
<1>10. TypeOK'
  BY <1>6, <1>8 DEF TypeOK, Ends, Held
<1>11. InsertBegun(S, n, l)'
  <2>1. /\ d'.transaction = NoAddr /\ status' = "up" /\ Full(d', lru') /\ NotListed(lru', n)
        /\ lru' = CutFrom(S, l, 1) /\ todo' = Insert1(S[l], l, d'.sizes[l] + 1)
        /\ Torn(d', S, l, 1, TRUE, TRUE, TRUE, FALSE, TRUE)
    BY <1>1, <1>3, <1>6, <1>8, <1>9 DEF Whole
  <2> QED
    BY <2>1 DEF InsertBegun
<1>12. CountersBut(d, S, l, d.sizes[l] + 1, crashes)'
  <2>1. ASSUME NEW k \in Lists
        PROVE  Near(IF k = l THEN d.sizes[l] + 1 ELSE d.sizes[k], Len(S[k]), crashes)
    <3>1. Near(d.sizes[k], Len(lru[k]), crashes)
      BY DEF Whole, Counters
    <3>2. CASE k = l
      <4>1. d.sizes[l] \in Nat /\ crashes \in Nat
        BY DiskType, CrashAssumption DEF Disk, TypeOK
      <4> QED
        BY <3>1, <3>2, <4>1, <1>1, <1>2 DEF Near
    <3>3. CASE k # l
      <4>1. S[k] = lru[k]
        BY <1>0, <3>3 DEF Distinct
      <4> QED
        BY <4>1, <3>1, <3>3
    <3> QED
      BY <3>2, <3>3
  <2> QED
    BY <2>1 DEF CountersBut
<1>13. Inserting(S, n, l)'
  <2>1. reinsert' = None /\ InMemory(S)' /\ Shows(S)'
    BY <1>8
  <2> QED
    BY <2>1, <1>1, <1>2, <1>11, <1>12 DEF Inserting
<1>14. S \in {lru', [lru' EXCEPT ![l] = <<n>> \o @]}
  BY <1>0
<1>15. Working'
  <2>1. status' = "up"
    BY <1>6, <1>8
  <2> QED
    BY <2>1, <1>13, <1>14 DEF Working
<1>16. Distinct(lru)'
  OBVIOUS
<1> QED
  BY <1>10, <1>15, <1>16 DEF IInv

\* Insert() and the second half of UpdateRank().
LEMMA InsertInvariant ==
  ASSUME IInv, NEW l \in Lists, NEW n \in Nodes, Insert(n, l)
  PROVE  IInv'
<1>1. /\ status = "up" /\ todo = <<>> /\ reinsert = None /\ d.links[n] = Out
      /\ InsertCall(<<>>, n, l, status)
      /\ d' = d /\ reinsert' = reinsert /\ crashes' = crashes /\ lru' = lru
  BY DEF Insert, Idle
<1>2. Whole /\ d.transaction = NoAddr /\ TypeOK /\ Distinct(lru)
  BY <1>1, Resting DEF IInv
<1>3. NotListed(lru, n)
  BY <1>1, <1>2, ListedLinks DEF Whole, Out
<1> QED
  BY <1>1, <1>2, <1>3, InsertFresh

\* The Insert() of UpdateRank(), behind its Remove(), keeps the invariant.
LEMMA UpdateRankInsertInvariant ==
  ASSUME IInv, UpdateRankInsert
  PROVE  IInv'
<1>1. /\ status = "up" /\ todo = <<>> /\ reinsert # None
      /\ InsertCall(<<>>, reinsert.node, reinsert.list, status)
      /\ d' = d /\ reinsert' = None /\ crashes' = crashes /\ lru' = lru
  BY DEF UpdateRankInsert
<1>2. Whole /\ d.transaction = NoAddr /\ TypeOK /\ Distinct(lru)
  BY <1>1, Resting DEF IInv
<1>3. PICK n, l : n = reinsert.node /\ l = reinsert.list
  OBVIOUS
<1>4. n \in Nodes /\ l \in Lists
  BY <1>1, <1>2, <1>3 DEF TypeOK
<1>5. NotListed(lru, n)
  BY <1>1, <1>2, <1>3 DEF Whole
<1>6. InsertCall(<<>>, n, l, status)
  BY <1>1, <1>3
<1> QED
  BY <1>1, <1>2, <1>4, <1>5, <1>6, InsertFresh

(***************************************************************************)
(* Remove(), on lists that are whole.                                      *)
(***************************************************************************)

\* The links of a node are its neighbours; the node passes the checks.
LEMMA ListedSane ==
  ASSUME NEW S, Distinct(S), Full(d, S), InMemory(S), NEW l \in Lists, NEW j \in 1..Len(S[l])
  PROVE  /\ d.links[S[l][j]] = LinksAt(S[l], j)
         /\ d.links[S[l][j]].next = NodeBehind(S[l], j)
         /\ d.links[S[l][j]].prev = NodeBefore(S[l], j)
         /\ SanityCheck(S[l][j])
<1>0. PICK s, n : s = S[l] /\ n = s[j]
  OBVIOUS
<1>1. /\ s \in Seq(Nodes) /\ Len(s) \in Nat
      /\ \A b \in 1..Len(s) : s[b] \in Nodes /\ s[b] # NoAddr
  BY <1>0, Elements
<1>2. \A a, b \in 1..Len(s) : s[a] = s[b] => a = b
  BY <1>0 DEF Distinct
<1>3. d.links[n] = LinksAt(s, j)
  BY <1>0 DEF Full
<1>4. d.links[n].next = NodeBehind(s, j) /\ d.links[n].prev = NodeBefore(s, j)
  BY <1>3 DEF LinksAt, NodeBehind, NodeBefore
<1>5. Len(s) > 0 /\ j \in 1..Len(s) /\ 1 \in 1..Len(s)
  BY <1>0, <1>1
<1>6. mem.heads[l] = s[1] /\ mem.tails[l] = s[Len(s)]
  BY <1>0, <1>5, <1>1 DEF InMemory, First, Final
<1>7. NodeBehind(s, j) # NoAddr /\ (NodeBehind(s, j) = n => IsTail(n))
  <2>1. CASE j = Len(s)
    BY <2>1, <1>0, <1>1, <1>5, <1>6 DEF NodeBehind, IsTail
  <2>2. CASE j # Len(s)
    <3>1. j + 1 \in 1..Len(s) /\ j # j + 1
      BY <2>2, <1>1, <1>5, Positions
    <3> QED
      BY <3>1, <2>2, <1>0, <1>1, <1>2, <1>5 DEF NodeBehind
  <2> QED
    BY <2>1, <2>2
<1>8. NodeBefore(s, j) # NoAddr /\ (NodeBefore(s, j) = n => IsHead(n))
  <2>1. CASE j = 1
    BY <2>1, <1>0, <1>1, <1>5, <1>6 DEF NodeBefore, IsHead
  <2>2. CASE j # 1
    <3>1. j - 1 \in 1..Len(s) /\ j # j - 1
      BY <2>2, <1>1, <1>5, Positions
    <3> QED
      BY <3>1, <2>2, <1>0, <1>1, <1>2, <1>5 DEF NodeBefore
  <2> QED
    BY <2>1, <2>2
<1> QED
  BY <1>0, <1>3, <1>4, <1>7, <1>8 DEF SanityCheck

\* What Remove() of the i-th node of the list s meets and stores in its neighbours.
Doomed(s, i, l, shared) ==
    LET n == s[i]
    IN  /\ d.links[n].next = NodeBehind(s, i) /\ d.links[n].prev = NodeBefore(s, i)
        /\ mem.heads[l] = s[1] /\ mem.tails[l] = s[Len(s)]
        /\ i # Len(s) => NodeBehind(s, i) # n /\ NextLinks(n, l) = LinksOf(s, i, i + 1, TRUE, TRUE)
        /\ i # 1 => NodeBefore(s, i) # n /\ PrevLinks(n, l) = LinksOf(s, i, i - 1, TRUE, TRUE)
        /\ i # Len(s) /\ i # 1 => NodeBefore(s, i) # NodeBehind(s, i)
        /\ (IF NodeBehind(s, i) = n /\ shared THEN Out ELSE NextLinks(n, l)) = BehindLinks(s, i, shared)
        /\ (IF NodeBefore(s, i) = n /\ shared THEN Out ELSE PrevLinks(n, l)) = BeforeLinks(s, i, shared)
        /\ s[1] = n <=> i = 1
        /\ s[Len(s)] = n <=> i = Len(s)
        /\ s[1] = s[Len(s)] <=> Len(s) = 1

\* Between two calls Remove() of a listed node finds it linked to its neighbours,
\* and these sane.
LEMMA RemoveFinds ==
  ASSUME NEW S, Distinct(S), Full(d, S), InMemory(S), NEW l \in Lists, NEW i \in 1..Len(S[l]),
         NEW shared
  PROVE  /\ Doomed(S[l], i, l, shared)
         /\ SanityCheck(NodeBehind(S[l], i)) /\ SanityCheck(NodeBefore(S[l], i))
<1>0. PICK s, n : s = S[l] /\ n = s[i]
  OBVIOUS
<1>1. /\ s \in Seq(Nodes) /\ Len(s) \in Nat
      /\ \A b \in 1..Len(s) : s[b] \in Nodes /\ s[b] # NoAddr
  BY <1>0, Elements
<1>2. \A a, b \in 1..Len(s) : s[a] = s[b] => a = b
  BY <1>0 DEF Distinct
<1>3. \A j \in 1..Len(s) : d.links[s[j]] = LinksAt(s, j) /\ SanityCheck(s[j])
  BY <1>0, ListedSane
<1>4. d.links[n].next = NodeBehind(s, i) /\ d.links[n].prev = NodeBefore(s, i)
  BY <1>0, ListedSane
<1>5. Len(s) > 0 /\ i \in 1..Len(s) /\ 1 \in 1..Len(s) /\ Len(s) \in 1..Len(s)
  BY <1>0, <1>1
<1>6. mem.heads[l] = s[1] /\ mem.tails[l] = s[Len(s)]
  BY <1>0, <1>5, <1>1 DEF InMemory, First, Final
<1>7. (s[1] = n <=> i = 1) /\ (s[Len(s)] = n <=> i = Len(s)) /\ (s[1] = s[Len(s)] <=> Len(s) = 1)
  BY <1>0, <1>2, <1>5
<1>8. /\ i # Len(s) => /\ i + 1 \in 1..Len(s) /\ NodeBehind(s, i) = s[i + 1]
                       /\ NodeBehind(s, i) # n /\ i + 1 # i - 1
      /\ i = Len(s) => NodeBehind(s, i) = n
  <2>1. i # Len(s) => i + 1 \in 1..Len(s) /\ i # i + 1 /\ i + 1 # i - 1
    BY <1>1, <1>5, Positions
  <2> QED
    BY <2>1, <1>0, <1>2, <1>5 DEF NodeBehind
<1>9. /\ i # 1 => /\ i - 1 \in 1..Len(s) /\ NodeBefore(s, i) = s[i - 1]
                  /\ NodeBefore(s, i) # n /\ i - 1 # i + 1
      /\ i = 1 => NodeBefore(s, i) = n
  <2>1. i # 1 => i - 1 \in 1..Len(s) /\ i # i - 1 /\ i - 1 # i + 1
    BY <1>1, <1>5, Positions
  <2> QED
    BY <2>1, <1>0, <1>2, <1>5 DEF NodeBefore
<1>10. i # Len(s) /\ i # 1 => NodeBefore(s, i) # NodeBehind(s, i)
  BY <1>2, <1>8, <1>9
<1>11. i # Len(s) => NextLinks(n, l) = LinksOf(s, i, i + 1, TRUE, TRUE)
  <2> HAVE i # Len(s)
  <2>1. NextLinks(n, l) = [d.links[s[i + 1]] EXCEPT !.prev = IF i = 1 THEN s[i + 1] ELSE NodeBefore(s, i)]
    BY <1>4, <1>6, <1>7, <1>8 DEF NextLinks
  <2>2. d.links[s[i + 1]] = LinksAt(s, i + 1)
    BY <1>3, <1>8
  <2>3. i # 1 => NodeBefore(s, i) = s[i - 1]
    BY <1>9
  <2> QED
    BY <2>1, <2>2, <2>3, <1>8 DEF LinksOf, LinksAt
<1>12. i # 1 => PrevLinks(n, l) = LinksOf(s, i, i - 1, TRUE, TRUE)
  <2> HAVE i # 1
  <2>1. PrevLinks(n, l) = [d.links[s[i - 1]] EXCEPT !.next = IF i = Len(s) THEN s[i - 1] ELSE NodeBehind(s, i)]
    BY <1>4, <1>6, <1>7, <1>9 DEF PrevLinks
  <2>2. d.links[s[i - 1]] = LinksAt(s, i - 1)
    BY <1>3, <1>9
  <2>3. i # Len(s) => NodeBehind(s, i) = s[i + 1]
    BY <1>8
  <2> QED
    BY <2>1, <2>2, <2>3, <1>9 DEF LinksOf, LinksAt
<1>13. (IF NodeBehind(s, i) = n /\ shared THEN Out ELSE NextLinks(n, l)) = BehindLinks(s, i, shared)
  <2>1. CASE i # Len(s)
    BY <2>1, <1>8, <1>11 DEF BehindLinks
  <2>2. CASE i = Len(s)
    <3>1. NextLinks(n, l) = [d.links[n] EXCEPT !.prev = d.links[n].prev]
      BY <2>2, <1>4, <1>6, <1>7, <1>8 DEF NextLinks
    <3>2. NextLinks(n, l) = LinksAt(s, i)
      BY <3>1, <1>3, <1>5, <1>0 DEF LinksAt
    <3> QED
      BY <3>2, <2>2, <1>8 DEF BehindLinks
  <2> QED
    BY <2>1, <2>2
<1>14. (IF NodeBefore(s, i) = n /\ shared THEN Out ELSE PrevLinks(n, l)) = BeforeLinks(s, i, shared)
  <2>1. CASE i # 1
    BY <2>1, <1>9, <1>12 DEF BeforeLinks
  <2>2. CASE i = 1
    <3>1. PrevLinks(n, l) = [d.links[n] EXCEPT !.next = d.links[n].next]
      BY <2>2, <1>4, <1>6, <1>7, <1>9 DEF PrevLinks
    <3>2. PrevLinks(n, l) = LinksAt(s, i)
      BY <3>1, <1>3, <1>5, <1>0 DEF LinksAt
    <3> QED
      BY <3>2, <2>2, <1>9 DEF BeforeLinks
  <2> QED
    BY <2>1, <2>2
<1>15. Doomed(s, i, l, shared)
  BY <1>0, <1>4, <1>6, <1>7, <1>8, <1>9, <1>10, <1>11, <1>12, <1>13, <1>14 DEF Doomed
<1>16. SanityCheck(NodeBehind(s, i)) /\ SanityCheck(NodeBefore(s, i))
  BY <1>0, <1>3, <1>5, <1>8, <1>9
<1> QED
  BY <1>0, <1>15, <1>16

\* CheckLinks() accepts the node, and finds the list that it is in.
LEMMA RemoveAllowed ==
  ASSUME NEW S, Distinct(S), Full(d, S), InMemory(S), NEW l \in Lists, NEW i \in 1..Len(S[l])
  PROVE  CheckLinks(S[l][i], l) = [links |-> "ok", list |-> l]
<1>0. PICK s, n, p, x : s = S[l] /\ n = s[i] /\ p = NodeBefore(s, i) /\ x = NodeBehind(s, i)
  OBVIOUS
<1>1. /\ s \in Seq(Nodes) /\ Len(s) \in Nat
      /\ \A b \in 1..Len(s) : s[b] \in Nodes /\ s[b] # NoAddr
  BY <1>0, Elements
<1>2. \A a, b \in 1..Len(s) : s[a] = s[b] => a = b
  BY <1>0 DEF Distinct
<1>3. \A j \in 1..Len(s) : d.links[s[j]] = LinksAt(s, j)
  BY <1>0, ListedSane
<1>4. d.links[n].next = x /\ d.links[n].prev = p
  BY <1>0, ListedSane
<1>5. Len(s) > 0 /\ i \in 1..Len(s) /\ 1 \in 1..Len(s) /\ Len(s) \in 1..Len(s)
  BY <1>0, <1>1
<1>6. mem.heads[l] = s[1] /\ mem.tails[l] = s[Len(s)]
  BY <1>0, <1>5, <1>1 DEF InMemory, First, Final
<1>7. i # Len(s) => d.links[x].prev = n /\ x # n
  <2> HAVE i # Len(s)
  <2>1. i + 1 \in 1..Len(s) /\ i # i + 1 /\ i + 1 # 1 /\ i + 1 - 1 = i
    BY <1>1, <1>5
  <2>2. x = s[i + 1]
    BY <1>0 DEF NodeBehind
  <2>3. d.links[x] = LinksAt(s, i + 1)
    BY <2>1, <2>2, <1>3
  <2>4. LinksAt(s, i + 1).prev = s[i]
    BY <2>1 DEF LinksAt
  <2> QED
    BY <2>1, <2>2, <2>3, <2>4, <1>0, <1>2, <1>5
<1>8. i # 1 => d.links[p].next = n /\ p # n
  <2> HAVE i # 1
  <2>1. i - 1 \in 1..Len(s) /\ i # i - 1 /\ i - 1 # Len(s) /\ i - 1 + 1 = i
    BY <1>1, <1>5
  <2>2. p = s[i - 1]
    BY <1>0 DEF NodeBefore
  <2>3. d.links[p] = LinksAt(s, i - 1)
    BY <2>1, <2>2, <1>3
  <2>4. LinksAt(s, i - 1).next = s[i]
    BY <2>1 DEF LinksAt
  <2> QED
    BY <2>1, <2>2, <2>3, <2>4, <1>0, <1>2, <1>5
<1>9. (i = 1 => p = n) /\ (i = Len(s) => x = n)
  BY <1>0 DEF NodeBefore, NodeBehind
<1>10. \A k \in Lists : Len(S[k]) \in Nat /\ (Len(S[k]) > 0 => 1 \in 1..Len(S[k]) /\ Len(S[k]) \in 1..Len(S[k]))
  BY Elements
<1>11. n # NoAddr
  BY <1>0, <1>1, <1>5
<1>12. ASSUME NEW k \in Lists, mem.heads[k] = n \/ mem.tails[k] = n
       PROVE  k = l
  <2>1. Len(S[k]) > 0 /\ (S[k][1] = n \/ S[k][Len(S[k])] = n)
    <3>1. Len(S[k]) # 0 /\ (S[k][1] = n \/ S[k][Len(S[k])] = n)
      BY <1>11, <1>12 DEF InMemory, First, Final
    <3> QED
      BY <3>1, <1>10
  <2> QED
    BY <2>1, <1>0, <1>5, <1>10 DEF Distinct
<1>13. CASE (i = 1 <=> i = Len(s))
  <2>1. d.links[p].next = n /\ d.links[x].prev = n
    <3>1. CASE i # 1
      BY <3>1, <1>7, <1>8, <1>13
    <3>2. CASE i = 1
      BY <3>2, <1>4, <1>9, <1>13
    <3> QED
      BY <3>1, <3>2
  <2> QED
    BY <2>1, <1>0, <1>4 DEF CheckLinks
<1>14. CASE i = 1 /\ i # Len(s)
  <2>1. HeadList(n) = l /\ IsHead(n)
    <3>1. mem.heads[l] = n
      BY <1>0, <1>6, <1>14
    <3> QED
      BY <3>1, <1>12 DEF HeadList, IsHead
  <2>2. p = n /\ d.links[p].next # n /\ d.links[x].prev = n
    BY <1>4, <1>7, <1>9, <1>14
  <2> QED
    BY <2>1, <2>2, <1>0, <1>4 DEF CheckLinks
<1>15. CASE i # 1 /\ i = Len(s)
  <2>1. TailList(n) = l /\ IsTail(n)
    <3>1. mem.tails[l] = n
      BY <1>0, <1>6, <1>15
    <3> QED
      BY <3>1, <1>12 DEF TailList, IsTail
  <2>2. x = n /\ d.links[x].prev # n /\ d.links[p].next = n
    BY <1>4, <1>8, <1>9, <1>15
  <2> QED
    BY <2>1, <2>2, <1>0, <1>4 DEF CheckLinks
<1> QED
  BY <1>13, <1>14, <1>15

\* The stores of Remove(), one by one.
LEMMA LastStores ==
  ASSUME NEW q \in Seq(Writes), NEW a \in Writes, NEW b \in Writes, NEW c \in Writes,
         NEW e \in Writes
  PROVE  /\ <<a, b, c, e>> \in Seq(Writes)
         /\ <<a, b, c, e>> \o q = Push(a, Push(b, Push(c, Push(e, q))))
<1>1. /\ <<a>> \in Seq(Writes) /\ <<b, c, e>> \in Seq(Writes)
  BY Tuples
<1>2. <<a, b, c, e>> = <<a>> \o <<b, c, e>>
  <2>1. <<a>> \o <<b, c, e>> \in Seq(Writes) /\ Len(<<a>> \o <<b, c, e>>) = 4
        /\ \A i \in 1..4 : (<<a>> \o <<b, c, e>>)[i] = IF i <= 1 THEN <<a>>[i] ELSE <<b, c, e>>[i - 1]
    <3>1. Len(<<a>>) = 1 /\ Len(<<b, c, e>>) = 3 /\ 1 + 3 = 4
      OBVIOUS
    <3> QED
      BY <3>1, <1>1, ConcatProperties
  <2>2. Len(<<a, b, c, e>>) = 4 /\ <<a, b, c, e>> \in Seq(Writes)
    OBVIOUS
  <2>3. \A i \in 1..4 : (<<a>> \o <<b, c, e>>)[i] = <<a, b, c, e>>[i]
    <3>1. \A i \in 1..4 : i = 1 \/ i = 2 \/ i = 3 \/ i = 4
      OBVIOUS
    <3>2. /\ (<<a>> \o <<b, c, e>>)[1] = a /\ (<<a>> \o <<b, c, e>>)[2] = b
          /\ (<<a>> \o <<b, c, e>>)[3] = c /\ (<<a>> \o <<b, c, e>>)[4] = e
      BY <2>1
    <3> QED
      BY <3>1, <3>2
  <2> QED
    BY <2>1, <2>2, <2>3, SeqEqual
<1>3. (<<a>> \o <<b, c, e>>) \o q = <<a>> \o (<<b, c, e>> \o q)
  BY <1>1, Joined
<1>4. <<b, c, e>> \o q = Push(b, Push(c, Push(e, q)))
  BY PushThree
<1> QED
  BY <1>1, <1>2, <1>3, <1>4, JoinedType DEF Push

\* The stores of Remove() are those that the invariant follows.
LEMMA RemoveSequence ==
  ASSUME d \in Disk, NEW s \in Seq(Nodes), NEW i \in 1..Len(s), NEW l \in Lists,
         NEW shared \in BOOLEAN, Doomed(s, i, l, shared)
  PROVE  /\ RemoveStores(s[i], l, shared) \in Seq(Writes)
         /\ RemoveStores(s[i], l, shared) \o End1 = Remove2(s, i, l, Lower(d.sizes[l]), shared)
<1>0. PICK n, v : n = s[i] /\ v = Lower(d.sizes[l])
  OBVIOUS
<1>1. v \in Nat /\ Len(s) \in Nat
  BY <1>0 DEF Disk, Lower
<1>2. PICK a, b, c, e : /\ a = StoreLinks(NodeBehind(s, i), BehindLinks(s, i, shared))
                        /\ b = StoreLinks(NodeBefore(s, i), BeforeLinks(s, i, shared))
                        /\ c = StoreLinks(n, Out) /\ e = WriteSize(l, v)
  OBVIOUS
<1>3. /\ a \in Writes /\ b \in Writes /\ c \in Writes /\ e \in Writes
      /\ WriteHead(l, NoAddr) \in Writes /\ WriteTail(l, NoAddr) \in Writes
      /\ Len(s) # 1 /\ i = 1 => WriteHead(l, s[2]) \in Writes
      /\ Len(s) # 1 /\ i = Len(s) => WriteTail(l, s[i - 1]) \in Writes
  BY <1>0, <1>1, <1>2, RemoveTypes, WriteTypes
<1>4. PICK q, g : q = <<a, b, c, e>> /\ g = End1
  OBVIOUS
<1>5. g \in Seq(Writes) /\ q \in Seq(Writes) /\ q \o g = Remove4(s, i, l, v, shared)
  <2>1. g \in Seq(Writes)
    BY <1>4, EndTypes
  <2>2. q \in Seq(Writes) /\ q \o g = Push(a, Push(b, Push(c, Push(e, g))))
    BY <2>1, <1>3, <1>4, LastStores
  <2> QED
    BY <2>1, <2>2, <1>0, <1>2, <1>4 DEF Remove4, Remove5, Remove6, Count
<1>6. PICK E : E = EndStores(n, l)
  OBVIOUS
<1>7. RemoveStores(n, l, shared) = E \o q
  <2>1. DecrementCounter(l) = e
    BY <1>0, <1>2 DEF DecrementCounter, Lower
  <2>2. /\ StoreLinks(NodeBehind(s, i), IF NodeBehind(s, i) = n /\ shared THEN Out ELSE NextLinks(n, l)) = a
        /\ StoreLinks(NodeBefore(s, i), IF NodeBefore(s, i) = n /\ shared THEN Out ELSE PrevLinks(n, l)) = b
        /\ d.links[n].next = NodeBehind(s, i) /\ d.links[n].prev = NodeBefore(s, i)
    BY <1>0, <1>2 DEF Doomed
  <2> QED
    BY <2>1, <2>2, <1>2, <1>4, <1>6 DEF RemoveStores
<1>8. E \in Seq(Writes) /\ E \o (q \o g) = Remove2(s, i, l, v, shared)
  <2>0. PICK r : r = Remove4(s, i, l, v, shared)
    OBVIOUS
  <2>1. r \in Seq(Writes) /\ r = q \o g
    BY <2>0, <1>5, JoinedType
  <2>2. /\ (mem.heads[l] = n <=> i = 1) /\ (mem.tails[l] = n <=> i = Len(s))
        /\ d.links[n].next = NodeBehind(s, i) /\ d.links[n].prev = NodeBefore(s, i)
    BY <1>0 DEF Doomed
  <2>3. CASE Len(s) = 1
    <3>1. i = 1 /\ i = Len(s)
      BY <2>3, <1>1
    <3>2. PICK w, u : w = WriteHead(l, NoAddr) /\ u = WriteTail(l, NoAddr)
      OBVIOUS
    <3>3. E = <<w, u>>
      BY <3>1, <3>2, <2>2, <1>6 DEF EndStores
    <3>4. w \in Writes /\ u \in Writes
      BY <3>2, <1>3
    <3>5. <<w, u>> \in Seq(Writes) /\ <<w, u>> \o r = Push(w, Push(u, r))
      BY <3>4, <2>1, Tuples, PushTwo
    <3> QED
      BY <3>2, <3>3, <3>5, <2>0, <2>1, <2>3 DEF Remove2, Remove3
  <2>4. CASE Len(s) # 1 /\ i = 1
    <3>1. PICK w : w = WriteHead(l, s[2])
      OBVIOUS
    <3>2. i # Len(s) /\ NodeBehind(s, i) = s[2]
      BY <2>4, <1>1 DEF NodeBehind
    <3>3. E = <<w>>
      BY <3>1, <3>2, <2>2, <2>4, <1>6 DEF EndStores
    <3>4. w \in Writes
      BY <3>1, <2>4, <1>3
    <3>5. <<w>> \in Seq(Writes)
      BY <3>4, Tuples
    <3> QED
      BY <3>1, <3>3, <3>5, <2>0, <2>1, <2>4 DEF Remove2, Push
  <2>5. CASE Len(s) # 1 /\ i # 1 /\ i = Len(s)
    <3>1. PICK w : w = WriteTail(l, s[i - 1])
      OBVIOUS
    <3>2. NodeBefore(s, i) = s[i - 1]
      BY <2>5 DEF NodeBefore
    <3>3. PrevLinks(n, l) = BeforeLinks(s, i, shared)
      BY <2>5, <1>0 DEF Doomed, BeforeLinks
    <3>4. E = <<w, b>>
      BY <3>1, <3>2, <3>3, <2>2, <2>5, <1>2, <1>6 DEF EndStores
    <3>5. w \in Writes /\ b \in Writes
      BY <3>1, <2>5, <1>3
    <3>6. <<w, b>> \in Seq(Writes) /\ <<w, b>> \o r = Push(w, Push(b, r))
      BY <3>5, <2>1, Tuples, PushTwo
    <3> QED
      BY <3>1, <3>4, <3>6, <2>0, <2>1, <2>5, <1>2 DEF Remove2, Remove3
  <2>6. CASE Len(s) # 1 /\ i # 1 /\ i # Len(s)
    <3>1. E = <<>>
      BY <2>2, <2>6, <1>6 DEF EndStores
    <3>2. <<>> \o r = r
      BY <2>1, ConcatEmptySeq
    <3>3. E \in Seq(Writes) /\ E \o r = r
      BY <3>1, <3>2, EndTypes
    <3>4. r = Remove2(s, i, l, v, shared)
      BY <2>0, <2>6 DEF Remove2
    <3> QED
      BY <3>3, <3>4, <2>1
  <2> QED
    BY <2>3, <2>4, <2>5, <2>6
<1>9. (E \o q) \o g = E \o (q \o g) /\ E \o q \in Seq(Writes)
  BY <1>5, <1>8, Joined, JoinedType
<1> QED
  BY <1>0, <1>4, <1>7, <1>8, <1>9

\* The ends of the list in memory.
LEMMA RemoveEnds ==
  ASSUME mem \in Ends, NEW S, Distinct(S), Full(d, S), InMemory(S), NEW l \in Lists,
         NEW i \in 1..Len(S[l]), NEW shared, Doomed(S[l], i, l, shared), mem' = RemoveMem(S[l][i], l)
  PROVE  mem' \in Ends /\ InMemory(CutFrom(S, l, i))'
<1>0. PICK s, n, t, T : s = S[l] /\ n = s[i] /\ t = Cut(s, i) /\ T = CutFrom(S, l, i)
  OBVIOUS
<1>1. /\ s \in Seq(Nodes) /\ Len(s) \in Nat /\ i \in 1..Len(s)
      /\ \A b \in 1..Len(s) : s[b] \in Nodes
  BY <1>0, Elements
<1>2. HeadOf(s, i, TRUE) = First(t) /\ TailOf(s, i, TRUE) = Final(t)
  BY <1>0, <1>1, CutShape
<1>3. T[l] = t /\ \A k \in Lists \ {l} : T[k] = S[k]
  BY <1>0 DEF CutFrom, Distinct
<1>4. mem.heads \in [Lists -> Addrs] /\ mem.tails \in [Lists -> Addrs]
  BY DEF Ends
<1>5. PICK h, z : h = HeadOf(s, i, TRUE) /\ z = TailOf(s, i, TRUE)
  OBVIOUS
<1>6. h \in Addrs /\ z \in Addrs
  <2>1. /\ 1 \in 1..Len(s) /\ Len(s) \in 1..Len(s)
        /\ Len(s) # 1 => 2 \in 1..Len(s) /\ Len(s) - 1 \in 1..Len(s)
    <3>1. Len(s) \in Nat /\ Len(s) > 0
      BY <1>1
    <3> QED
      BY <3>1, Positions
  <2>20. \A b \in 1..Len(s) : s[b] \in Nodes
    BY <1>1
  <2>2. s[1] \in Nodes /\ s[Len(s)] \in Nodes /\ (Len(s) # 1 => s[2] \in Nodes /\ s[Len(s) - 1] \in Nodes)
    BY <2>1, <2>20
  <2>3. h \in Addrs
    BY <2>2, <1>5 DEF HeadOf, Addrs
  <2>4. z \in Addrs
    BY <2>2, <1>5 DEF TailOf, Addrs
  <2> QED
    BY <2>3, <2>4
<1>7. /\ (mem.heads[l] = n <=> i = 1) /\ (mem.tails[l] = n <=> i = Len(s))
      /\ d.links[n].next = NodeBehind(s, i) /\ d.links[n].prev = NodeBefore(s, i)
      /\ mem.heads[l] = s[1] /\ mem.tails[l] = s[Len(s)]
  BY <1>0 DEF Doomed
<1>8. mem'.heads = [mem.heads EXCEPT ![l] = h] /\ mem'.tails = [mem.tails EXCEPT ![l] = z]
      /\ mem' \in Ends
  <2>1. CASE Len(s) = 1
    <3>1. i = 1 /\ i = Len(s)
      BY <2>1, <1>1
    <3>2. mem' = [mem EXCEPT !.heads[l] = NoAddr, !.tails[l] = NoAddr]
      BY <3>1, <1>0, <1>7 DEF RemoveMem
    <3>3. h = NoAddr /\ z = NoAddr
      BY <3>1, <2>1, <1>5 DEF HeadOf, TailOf
    <3>4. PICK H, Z : H = [mem.heads EXCEPT ![l] = h] /\ Z = [mem.tails EXCEPT ![l] = z]
      OBVIOUS
    <3>5. mem' = [mem EXCEPT !.heads = H, !.tails = Z]
      BY <3>2, <3>3, <3>4 DEF Ends
    <3>6. H \in [Lists -> Addrs] /\ Z \in [Lists -> Addrs]
      BY <3>4, <1>4, <1>6
    <3> QED
      BY <3>4, <3>5, <3>6 DEF Ends
  <2>2. CASE Len(s) # 1 /\ i = 1
    <3>1. i # Len(s) /\ NodeBehind(s, i) = s[2]
      BY <2>2, <1>1 DEF NodeBehind
    <3>2. mem' = [mem EXCEPT !.heads[l] = s[2]]
      BY <3>1, <2>2, <1>0, <1>7 DEF RemoveMem
    <3>3. h = s[2] /\ z = mem.tails[l]
      BY <3>1, <2>2, <1>5, <1>7 DEF HeadOf, TailOf
    <3> QED
      BY <3>2, <3>3, <1>4, <1>6 DEF Ends
  <2>3. CASE Len(s) # 1 /\ i # 1 /\ i = Len(s)
    <3>1. NodeBefore(s, i) = s[i - 1]
      BY <2>3 DEF NodeBefore
    <3>2. mem' = [mem EXCEPT !.tails[l] = s[i - 1]]
      BY <3>1, <2>3, <1>0, <1>7 DEF RemoveMem
    <3>3. z = s[i - 1] /\ h = mem.heads[l]
      BY <2>3, <1>5, <1>7 DEF HeadOf, TailOf
    <3> QED
      BY <3>2, <3>3, <1>4, <1>6 DEF Ends
  <2>4. CASE Len(s) # 1 /\ i # 1 /\ i # Len(s)
    <3>1. mem' = mem
      BY <2>4, <1>0, <1>7 DEF RemoveMem
    <3>2. h = mem.heads[l] /\ z = mem.tails[l]
      BY <2>4, <1>5, <1>7 DEF HeadOf, TailOf
    <3> QED
      BY <3>1, <3>2, <1>4
  <2> QED
    BY <2>1, <2>2, <2>3, <2>4
<1>9. ASSUME NEW k \in Lists
      PROVE  mem'.heads[k] = First(T[k]) /\ mem'.tails[k] = Final(T[k])
  <2>1. CASE k = l
    BY <2>1, <1>2, <1>3, <1>4, <1>5, <1>8
  <2>2. CASE k # l
    BY <2>2, <1>3, <1>4, <1>8 DEF InMemory
  <2> QED
    BY <2>1, <2>2
<1>10. InMemory(T)'
  BY <1>9 DEF InMemory
<1> QED
  BY <1>0, <1>8, <1>10

\* InvalidateIterators() discards what is held of the node, and no more.
LEMMA Invalidated ==
  ASSUME iters \in [Iters -> Held], NEW n, NEW i \in Iters,
         NEW it, it = InvalidateIterators(n)[i], it # None, it.data # None
  PROVE  it = iters[i] /\ it.node # n
<1>1. it = IF iters[i] # None /\ iters[i].node = n THEN [iters[i] EXCEPT !.data = None] ELSE iters[i]
  BY DEF InvalidateIterators
<1>2. CASE iters[i] # None /\ iters[i].node = n
  <2>1. PICK r : r = iters[i] /\ r \in [node : Nodes, list : Lists, dir : {"next", "prev"}, data : {None} \cup Links]
    BY <1>2 DEF Held
  <2>2. [r EXCEPT !.data = None].data = None
    BY <2>1
  <2> QED
    BY <2>1, <2>2, <1>1, <1>2
<1>3. CASE iters[i] = None
  BY <1>1, <1>3
<1>4. CASE iters[i] # None /\ iters[i].node # n
  BY <1>1, <1>4
<1> QED
  BY <1>2, <1>3, <1>4

\* Remove() leaves the iterators with the links that the nodes will have.
LEMMA RemoveShows ==
  ASSUME TypeOK, NEW S, Distinct(S), NEW l \in Lists, NEW i \in 1..Len(S[l]), NEW shared,
         Doomed(S[l], i, l, shared), Shows(S), NEW n, n = S[l][i],
         iters' = UpdateIterators(InvalidateIterators(n), RemovedLinks(n, l))
  PROVE  iters' \in [Iters -> Held] /\ Shows(CutFrom(S, l, i))'
<1>0. PICK s, t, T, now, its :
        /\ s = S[l] /\ t = Cut(s, i) /\ T = CutFrom(S, l, i)
        /\ now = RemovedLinks(n, l) /\ its = InvalidateIterators(n)
  OBVIOUS
<1>1. /\ s \in Seq(Nodes) /\ Len(s) \in Nat /\ i \in 1..Len(s) /\ n = s[i]
      /\ \A b \in 1..Len(s) : s[b] \in Nodes
  BY <1>0, Elements
<1>2. \A a, b \in 1..Len(s) : s[a] = s[b] => a = b
  BY <1>0 DEF Distinct
<1>3. T[l] = t /\ \A k \in Lists \ {l} : T[k] = S[k]
  BY <1>0 DEF CutFrom, Distinct
<1>4. /\ \A j \in 1..Len(s) : j # i => LinksOf(s, i, j, TRUE, TRUE) = LinksAt(t, Place(i, j))
      /\ \A j \in 1..Len(s) : j # i => Place(i, j) \in 1..Len(t) /\ t[Place(i, j)] = s[j]
  <2>1. s \in Seq(Nodes) /\ i \in 1..Len(s) /\ t = Cut(s, i)
    BY <1>0, <1>1
  <2> QED
    BY <2>1, CutShape, Zenon
<1>5. /\ i # Len(s) => i + 1 \in 1..Len(s) /\ i + 1 # i
      /\ i # 1 => i - 1 \in 1..Len(s) /\ i - 1 # i
  BY <1>1, Positions
<1>6. PICK x, p : x = NodeBehind(s, i) /\ p = NodeBefore(s, i)
  OBVIOUS
<1>7. /\ i # Len(s) => x = s[i + 1] /\ x # n /\ NextLinks(n, l) = LinksOf(s, i, i + 1, TRUE, TRUE)
      /\ i # 1 => p = s[i - 1] /\ p # n /\ PrevLinks(n, l) = LinksOf(s, i, i - 1, TRUE, TRUE)
      /\ i # Len(s) /\ i # 1 => p # x
      /\ (i = Len(s) => x = n) /\ (i = 1 => p = n)
      /\ d.links[n].next = x /\ d.links[n].prev = p
  BY <1>0, <1>1, <1>6 DEF Doomed, NodeBehind, NodeBefore
<1>8. DOMAIN now = {x, p} \ {n} /\ \A a \in {x, p} \ {n} : now[a] = IF a = x THEN NextLinks(n, l) ELSE PrevLinks(n, l)
  BY <1>0, <1>7 DEF RemovedLinks
<1>9. ASSUME NEW j \in 1..Len(s), j # i
      PROVE  (IF s[j] \in DOMAIN now THEN now[s[j]] ELSE LinksAt(s, j)) = LinksOf(s, i, j, TRUE, TRUE)
  <2>1. CASE j = i + 1
    <3>1. i # Len(s)
      BY <2>1, <1>1
    <3>2. s[j] = x /\ x \in DOMAIN now /\ now[x] = NextLinks(n, l)
      BY <3>1, <2>1, <1>7, <1>8
    <3> QED
      BY <3>1, <3>2, <2>1, <1>7
  <2>2. CASE j = i - 1
    <3>1. i # 1
      BY <2>2, <1>1
    <3>2. s[j] = p /\ p \in DOMAIN now /\ p # x
      <4>1. i = Len(s) => x = n
        BY <1>7
      <4> QED
        BY <3>1, <4>1, <2>2, <1>7, <1>8
    <3>3. now[p] = PrevLinks(n, l)
      BY <3>2, <1>8
    <3> QED
      BY <3>1, <3>2, <3>3, <2>2, <1>7
  <2>3. CASE j # i + 1 /\ j # i - 1
    <3>1. s[j] # n
      BY <1>1, <1>2, <1>9
    <3>2. s[j] # x
      <4>1. CASE i # Len(s)
        <5>1. x = s[i + 1] /\ i + 1 \in 1..Len(s)
          BY <4>1, <1>5, <1>7
        <5> QED
          BY <5>1, <2>3, <1>2
      <4>2. CASE i = Len(s)
        BY <4>2, <3>1, <1>7
      <4> QED
        BY <4>1, <4>2
    <3>3. s[j] # p
      <4>1. CASE i # 1
        <5>1. p = s[i - 1] /\ i - 1 \in 1..Len(s)
          BY <4>1, <1>5, <1>7
        <5> QED
          BY <5>1, <2>3, <1>2
      <4>2. CASE i = 1
        BY <4>2, <3>1, <1>7
      <4> QED
        BY <4>1, <4>2
    <3>4. s[j] \notin DOMAIN now
      BY <3>2, <3>3, <1>8
    <3> QED
      BY <3>4, <2>3 DEF LinksOf, LinksAt
  <2> QED
    BY <2>1, <2>2, <2>3
<1>10. \A a \in DOMAIN now : now[a] \in Links
  <2>1. ASSUME NEW a \in DOMAIN now
        PROVE  now[a] \in Links
    <3>1. \E j \in 1..Len(s) : j # i /\ a = s[j]
      <4>1. a = x \/ a = p
        BY <1>8
      <4>2. a # n
        BY <1>8
      <4> QED
        BY <4>1, <4>2, <1>5, <1>7
    <3>2. PICK j \in 1..Len(s) : j # i /\ a = s[j]
      BY <3>1
    <3>3. now[a] = LinksAt(t, Place(i, j)) /\ Place(i, j) \in 1..Len(t)
      BY <3>2, <1>4, <1>9
    <3>4. t \in Seq(Nodes)
      BY <1>0, <1>1, CutProperties
    <3> QED
      BY <3>3, <3>4, LinkTypes
  <2> QED
    BY <2>1
<1>11. iters \in [Iters -> Held] /\ its \in [Iters -> Held] /\ iters' = UpdateIterators(its, now)
  BY <1>0, CallTypes, InvalidatedTypes
<1>12. iters' \in [Iters -> Held]
  BY <1>10, <1>11, HeldTypes
<1>13. ASSUME NEW g \in Iters, iters'[g] # None, iters'[g].data # None
       PROVE  \E k \in Lists : \E j \in 1..Len(T[k]) :
                iters'[g].node = T[k][j] /\ iters'[g].data = LinksAt(T[k], j)
  <2>1. PICK it, new : it = its[g] /\ new = iters'[g]
    OBVIOUS
  <2>2. /\ it # None /\ it.data # None /\ new.node = it.node
        /\ new.data = IF it.node \in DOMAIN now THEN now[it.node] ELSE it.data
    BY <2>1, <1>10, <1>11, <1>13, Updated
  <2>3. it = iters[g] /\ it.node # n
    BY <2>1, <2>2, <1>0, <1>11, Invalidated
  <2>4. PICK k \in Lists : \E j \in 1..Len(S[k]) : it.node = S[k][j] /\ it.data = LinksAt(S[k], j)
    BY <2>2, <2>3 DEF Shows
  <2>5. PICK j \in 1..Len(S[k]) : it.node = S[k][j] /\ it.data = LinksAt(S[k], j)
    BY <2>4
  <2>6. CASE k # l
    <3>1. T[k] = S[k]
      BY <2>6, <1>3
    <3>2. it.node \notin DOMAIN now
      <4>1. \A b \in 1..Len(s) : s[b] # S[k][j]
        BY <2>6, <1>0 DEF Distinct
      <4>2. \A a \in DOMAIN now : \E b \in 1..Len(s) : a = s[b]
        BY <1>1, <1>5, <1>7, <1>8
      <4> QED
        BY <4>1, <4>2, <2>5
    <3> QED
      BY <3>1, <3>2, <2>1, <2>2, <2>5
  <2>7. CASE k = l
    <3>1. j \in 1..Len(s) /\ it.node = s[j] /\ it.data = LinksAt(s, j) /\ j # i
      BY <2>3, <2>5, <2>7, <1>0, <1>1
    <3>2. new.data = LinksOf(s, i, j, TRUE, TRUE)
      BY <3>1, <2>2, <1>9
    <3>3. new.data = LinksAt(T[l], Place(i, j)) /\ Place(i, j) \in 1..Len(T[l]) /\ new.node = T[l][Place(i, j)]
      BY <3>1, <3>2, <2>2, <1>3, <1>4
    <3> QED
      BY <3>3, <2>1
  <2> QED
    BY <2>6, <2>7
<1>14. Shows(T)'
  BY <1>13 DEF Shows
<1> QED
  BY <1>0, <1>12, <1>14

\* Remove() on whole lists: a node in no list is left alone, any other is removed.
LEMMA RemoveFresh ==
  ASSUME TypeOK, Distinct(lru), Whole, status = "up", todo = <<>>, d.transaction = NoAddr,
         NEW l \in Lists, NEW n \in Nodes, NEW shared \in BOOLEAN,
         \A k \in Lists : Listed(n, k) => k = l, RemoveCall(n, l, shared),
         d' = d, lru' = lru, crashes' = crashes,
         reinsert' \in {None} \cup [node : {n}, list : Lists]
  PROVE  IInv'
<1>0. PICK S, s, T, v : S = lru /\ s = S[l] /\ v = Lower(d.sizes[l]) /\ T = reinsert'
  OBVIOUS
<1>1. d \in Disk /\ mem \in Ends /\ iters \in [Iters -> Held]
  BY DiskType, CallTypes
<1>2. Full(d, S) /\ InMemory(S) /\ Shows(S) /\ Distinct(S) /\ Counters(d, S, crashes)
  BY <1>0 DEF Whole
<1>3. reinsert' \in {None} \cup [node : Nodes, list : Lists] /\ (reinsert' # None => reinsert'.node = n)
  OBVIOUS
<1>4. CASE NotListed(S, n)
  <2>1. d.links[n] = Out
    BY <1>2, <1>4, ListedLinks
  <2>2. todo' = <<>> /\ iters' = InvalidateIterators(n) /\ mem' = mem /\ status' = status
    BY <2>1 DEF RemoveCall, Out
  <2>3. TypeOK'
    <3>1. iters' \in [Iters -> Held]
      BY <2>2, <1>1, InvalidatedTypes
    <3> QED
      BY <2>2, <3>1, <1>3, EndTypes DEF TypeOK, Held
  <2>4. Shows(S)'
    <3>1. ASSUME NEW g \in Iters, iters'[g] # None, iters'[g].data # None
          PROVE  \E k \in Lists : \E j \in 1..Len(S[k]) :
                   iters'[g].node = S[k][j] /\ iters'[g].data = LinksAt(S[k], j)
      <4>1. PICK it : it = iters'[g]
        OBVIOUS
      <4>2. it = iters[g] /\ it # None /\ it.data # None
        BY <2>2, <3>1, <4>1, <1>1, Invalidated
      <4> QED
        BY <4>1, <4>2, <1>2 DEF Shows
    <3> QED
      BY <3>1 DEF Shows
  <2>5. InMemory(S)'
    BY <2>2, <1>2 DEF InMemory
  <2>6. Whole'
    <3>1. status' = "up" /\ d'.transaction = NoAddr /\ todo' = <<>>
      BY <2>2
    <3>2. Full(d', lru') /\ Counters(d', lru', crashes') /\ (reinsert' # None => NotListed(lru', reinsert'.node))
      BY <1>0, <1>2, <1>3, <1>4
    <3>3. InMemory(lru)' /\ Shows(lru)'
      BY <2>4, <2>5, <1>0 DEF InMemory, Shows
    <3> QED
      BY <3>1, <3>2, <3>3 DEF Whole
  <2> QED
    BY <2>2, <2>3, <2>6 DEF IInv, Working
<1>5. CASE ~NotListed(S, n)
  <2>1. \E i \in 1..Len(s) : s[i] = n
    BY <1>0, <1>5 DEF NotListed, Listed
  <2>2. PICK i \in 1..Len(s) : s[i] = n
    BY <2>1
  <2>3. i \in 1..Len(S[l]) /\ n = S[l][i] /\ s \in Seq(Nodes)
    BY <2>2, <1>0, <1>2, Elements
  <2>4. Doomed(s, i, l, shared) /\ SanityCheck(NodeBehind(s, i)) /\ SanityCheck(NodeBefore(s, i))
    BY <2>3, <1>0, <1>2, RemoveFinds
  <2>5. CheckLinks(n, l) = [links |-> "ok", list |-> l]
    BY <2>3, <1>0, <1>2, RemoveAllowed
  <2>6. d.links[n].next = NodeBehind(s, i) /\ d.links[n].prev = NodeBefore(s, i)
    BY <2>2, <2>4 DEF Doomed
  <2>7. NoAddr \notin {d.links[n].next, d.links[n].prev}
    BY <1>2, <1>5, ListedLinks
  <2>8. /\ todo' = BeginTransaction(n, "REMOVE", l) \o RemoveStores(n, l, shared) \o EndTransaction
        /\ mem' = RemoveMem(n, l)
        /\ iters' = UpdateIterators(InvalidateIterators(n), RemovedLinks(n, l))
        /\ status' = status
    <3>1. /\ CheckLinks(n, l).links = "ok" /\ CheckLinks(n, l).list = l
          /\ SanityCheck(d.links[n].next) /\ SanityCheck(d.links[n].prev)
      BY <2>4, <2>5, <2>6
    <3> QED
      BY <2>7, <3>1 DEF RemoveCall
  <2>9. v \in Nat
    BY <1>0, <1>1 DEF Disk, Lower
  <2>10. todo' = Remove1(s, i, l, v, shared) /\ todo' \in Seq(Writes)
    <3>1. PICK q : q = RemoveStores(n, l, shared)
      OBVIOUS
    <3>2. q \in Seq(Writes) /\ q \o End1 = Remove2(s, i, l, v, shared)
      <4>1. /\ RemoveStores(s[i], l, shared) \in Seq(Writes)
            /\ RemoveStores(s[i], l, shared) \o End1 = Remove2(s, i, l, Lower(d.sizes[l]), shared)
        BY <2>3, <2>4, <1>1, RemoveSequence
      <4> QED
        BY <4>1, <3>1, <2>2, <1>0
    <3>3. PICK e : e = <<>>
      OBVIOUS
    <3>4. e \in Seq(Writes) /\ "REMOVE" \in Operations
      BY <3>3, EndTypes DEF Operations
    <3>5. e \o BeginTransaction(n, "REMOVE", l) \o q \o EndTransaction
            = e \o Begin1("REMOVE", n, l, q \o End1)
      BY <3>2, <3>4, TransactionStores
    <3>6. PICK B, p : B = BeginTransaction(n, "REMOVE", l) /\ p = Begin1("REMOVE", n, l, q \o End1)
      OBVIOUS
    <3>7. B \in Seq(Writes) /\ p \in Seq(Writes)
      <4>1. q \o End1 \in Seq(Writes)
        BY <3>2, EndTypes, JoinedType
      <4>2. /\ SetField("transaction", n) \in Writes /\ SetField("operation_list", l) \in Writes
            /\ SetField("operation", "REMOVE") \in Writes
        BY <3>4, <3>2, BeginTypes
      <4>3. B \in Seq(Writes)
        BY <4>2, <3>6, Tuples DEF BeginTransaction
      <4> QED
        BY <4>1, <4>3, <3>4, <3>6, BeginTypes
    <3>8. e \o B = B /\ e \o p = p
      BY <3>3, <3>7, ConcatEmptySeq
    <3>9. todo' = p
      BY <3>1, <3>5, <3>6, <3>8, <2>8
    <3> QED
      BY <3>2, <3>6, <3>7, <3>9, <2>2 DEF Remove1
  <2>11. mem' \in Ends /\ InMemory(CutFrom(S, l, i))'
    BY <2>3, <2>4, <2>8, <1>0, <1>1, <1>2, RemoveEnds
  <2>12. iters' \in [Iters -> Held] /\ Shows(CutFrom(S, l, i))'
    BY <2>3, <2>4, <2>8, <1>0, <1>2, RemoveShows
  <2>13. TypeOK'
    BY <2>8, <2>10, <2>11, <2>12, <1>3 DEF TypeOK, Ends, Held
  <2>14. RemoveBegun(l, i, shared)'
    <3>1. d'.transaction = NoAddr /\ Full(d', lru') /\ todo' = Remove1(lru'[l], i, l, Lower(d'.sizes[l]), shared)
      BY <2>10, <1>0, <1>2
    <3> QED
      BY <3>1 DEF RemoveBegun
  <2>15. Removing(l, i, shared)'
    <3>1. status' = "up" /\ Counters(d', lru', crashes') /\ (reinsert' # None => reinsert'.node = lru'[l][i])
      BY <2>3, <2>8, <1>0, <1>2, <1>3
    <3>2. InMemory(CutFrom(lru, l, i))' /\ Shows(CutFrom(lru, l, i))'
      BY <2>11, <2>12, <1>0 DEF InMemory, Shows
    <3> QED
      BY <3>1, <3>2, <2>14 DEF Removing
  <2>16. Working'
    <3>1. status' = "up" /\ i \in 1..Len(lru'[l])
      BY <2>3, <2>8, <1>0
    <3> QED
      BY <3>1, <2>15 DEF Working
  <2>17. Distinct(lru)'
    OBVIOUS
  <2> QED
    BY <2>13, <2>16, <2>17 DEF IInv
<1> QED
  BY <1>4, <1>5

\* Remove() and the first half of UpdateRank().
LEMMA RemoveInvariant ==
  ASSUME IInv, NEW l \in Lists, NEW n \in Nodes, NEW shared \in BOOLEAN, Remove(n, l, shared)
  PROVE  IInv'
<1>1. /\ status = "up" /\ todo = <<>> /\ reinsert = None
      /\ \A k \in Lists : Listed(n, k) => k = l
      /\ RemoveCall(n, l, shared)
      /\ d' = d /\ reinsert' = reinsert /\ crashes' = crashes /\ lru' = lru
  BY DEF Remove, Idle
<1>2. Whole /\ d.transaction = NoAddr /\ TypeOK /\ Distinct(lru)
  BY <1>1, Resting DEF IInv
<1> QED
  BY <1>1, <1>2, RemoveFresh

\* The Remove() of UpdateRank() keeps the invariant.
LEMMA UpdateRankInvariant ==
  ASSUME IInv, NEW l \in Lists, NEW to \in Lists, NEW n \in Nodes, NEW shared \in BOOLEAN,
         UpdateRank(n, l, to, shared)
  PROVE  IInv'
<1>1. /\ status = "up" /\ todo = <<>>
      /\ \A k \in Lists : Listed(n, k) => k = l
      /\ RemoveCall(n, l, shared)
      /\ d' = d /\ reinsert' = [node |-> n, list |-> to] /\ crashes' = crashes /\ lru' = lru
  BY DEF UpdateRank, Idle
<1>2. Whole /\ d.transaction = NoAddr /\ TypeOK /\ Distinct(lru)
  BY <1>1, Resting DEF IInv
<1>3. reinsert' \in {None} \cup [node : {n}, list : Lists]
  BY <1>1
<1> QED
  BY <1>1, <1>2, <1>3, RemoveFresh

(***************************************************************************)
(* GetNext() and GetPrev().                                                *)
(***************************************************************************)

\* An iterator that takes a block of the lists, or gives one back.
LEMMA HoldStep ==
  ASSUME IInv, Idle, NEW i \in Iters, NEW it \in Held, iters' = [iters EXCEPT ![i] = it],
         it # None /\ it.data # None =>
            \E k \in Lists : \E j \in 1..Len(lru[k]) :
              it.node = lru[k][j] /\ it.data = LinksAt(lru[k], j),
         status' = status, UNCHANGED <<d, mem, todo, reinsert, crashes, lru>>
  PROVE  IInv'
<1>1. status = "up" /\ todo = <<>> /\ reinsert = None
  BY DEF Idle
<1>2. Whole /\ d.transaction = NoAddr /\ TypeOK /\ Distinct(lru)
  BY <1>1, Resting DEF IInv
<1>3. iters \in [Iters -> Held]
  BY <1>2, CallTypes
<1>4. iters' \in [Iters -> Held] /\ \A g \in Iters : iters'[g] = IF g = i THEN it ELSE iters[g]
  BY <1>3
<1>5. TypeOK'
  BY <1>2, <1>4 DEF TypeOK, Held
<1>6. Shows(lru)'
  <2>1. ASSUME NEW g \in Iters, iters'[g] # None, iters'[g].data # None
        PROVE  \E k \in Lists : \E j \in 1..Len(lru[k]) :
                 iters'[g].node = lru[k][j] /\ iters'[g].data = LinksAt(lru[k], j)
    <3>1. CASE g = i
      BY <3>1, <2>1, <1>4
    <3>2. CASE g # i
      <4>1. iters'[g] = iters[g]
        BY <3>2, <1>4
      <4> QED
        BY <4>1, <2>1, <1>2 DEF Whole, Shows
    <3> QED
      BY <3>1, <3>2
  <2> QED
    BY <2>1 DEF Shows
<1>7. Whole'
  <2>1. InMemory(lru)'
    BY <1>2 DEF Whole, InMemory
  <2>2. /\ d'.transaction = NoAddr /\ todo' = <<>> /\ status' = "up" /\ reinsert' = None
        /\ Full(d', lru') /\ Counters(d', lru', crashes')
    BY <1>1, <1>2 DEF Whole
  <2> QED
    BY <2>1, <2>2, <1>6 DEF Whole
<1>8. Distinct(lru)'
  BY <1>2
<1>9. status' \in {"up", "recovering"}
  BY <1>1
<1> QED
  BY <1>5, <1>7, <1>8, <1>9 DEF IInv, Working

\* GetNext() and GetPrev() without a block keep the invariant ...
LEMMA GetFirstInvariant ==
  ASSUME IInv, NEW i \in Iters, NEW dir \in {"next", "prev"}, NEW l \in Lists, GetFirst(i, dir, l)
  PROVE  IInv'
<1>0. PICK a, S : a = Start(dir, l) /\ S = lru
  OBVIOUS
<1>1. Idle /\ a # NoAddr /\ UNCHANGED <<d, mem, todo, reinsert, crashes, lru>>
  BY <1>0 DEF GetFirst
<1>2. Whole /\ TypeOK /\ Distinct(S) /\ Full(d, S) /\ InMemory(S)
  BY <1>0, <1>1, Resting DEF IInv, Idle, Whole
<1>3. S[l] \in Seq(Nodes) /\ Len(S[l]) \in Nat /\ Len(S[l]) # 0 /\ (a = S[l][1] \/ a = S[l][Len(S[l])])
  BY <1>0, <1>1, <1>2, Elements DEF Start, InMemory, First, Final
<1>4. \E j \in 1..Len(S[l]) : a = S[l][j]
  <2>1. 1 \in 1..Len(S[l]) /\ Len(S[l]) \in 1..Len(S[l])
    BY <1>3
  <2> QED
    BY <2>1, <1>3
<1>5. PICK j \in 1..Len(S[l]) : a = S[l][j]
  BY <1>4
<1>6. SanityCheck(a) /\ d.links[a] = LinksAt(S[l], j)
  BY <1>2, <1>5, ListedSane
<1>7. PICK it : it = [node |-> a, list |-> l, dir |-> dir, data |-> d.links[a]]
  OBVIOUS
<1>8. iters' = [iters EXCEPT ![i] = it] /\ status' = status
  BY <1>0, <1>6, <1>7 DEF GetFirst
<1>9. it \in Held
  <2>1. a \in Nodes /\ d.links[a] \in Links
    BY <1>2, <1>3, <1>5, <1>6, Elements, LinkTypes
  <2> QED
    BY <2>1, <1>7 DEF Held
<1>10. it.node = S[l][j] /\ it.data = LinksAt(S[l], j)
  BY <1>5, <1>6, <1>7
<1> QED
  BY <1>0, <1>1, <1>8, <1>9, <1>10, HoldStep

\* ... and with one: the block they step to is linked back ...
LEMMA GetFollowingInvariant ==
  ASSUME IInv, NEW i \in Iters, GetFollowing(i)
  PROVE  IInv'
<1>0. PICK S, it, links, a :
        /\ S = lru /\ it = iters[i]
        /\ links = (IF it.data = None THEN d.links[it.node] ELSE it.data)
        /\ a = Ahead(it.dir, links)
  OBVIOUS
<1>1. Idle /\ it # None /\ UNCHANGED <<d, mem, todo, reinsert, crashes, lru>>
  BY <1>0 DEF GetFollowing
<1>2. Whole /\ TypeOK /\ Distinct(S) /\ Full(d, S) /\ InMemory(S) /\ Shows(S)
  BY <1>0, <1>1, Resting DEF IInv, Idle, Whole
<1>3. it \in [node : Nodes, list : Lists, dir : {"next", "prev"}, data : {None} \cup Links]
  BY <1>0, <1>1, <1>2 DEF TypeOK
<1>4. None \in Held
  BY DEF Held
<1>5. PICK last : last = (End(it.dir, it.list) \in {NoAddr, it.node} \/ a \in {NoAddr, it.node})
  OBVIOUS
<1>6. CASE last
  <2>1. iters' = [iters EXCEPT ![i] = None] /\ status' = status
    BY <1>0, <1>5, <1>6 DEF GetFollowing
  <2> QED
    BY <2>1, <1>1, <1>4, HoldStep
<1>7. CASE ~last
  <2>1. a # NoAddr /\ a # it.node
    BY <1>5, <1>7
  <2>2. links = d.links[it.node]
    <3>1. ASSUME it.data # None
          PROVE  it.data = d.links[it.node]
      <4>1. PICK k \in Lists : \E j \in 1..Len(S[k]) : it.node = S[k][j] /\ it.data = LinksAt(S[k], j)
        BY <3>1, <1>0, <1>1, <1>2 DEF Shows
      <4> QED
        BY <4>1, <1>2 DEF Full
    <3> QED
      BY <3>1, <1>0
  <2>3. ~NotListed(S, it.node)
    <3>1. a # NoAddr => links # Out
      BY <1>0, <1>3 DEF Ahead, Out
    <3> QED
      BY <3>1, <2>1, <2>2, <1>2, <1>3 DEF Full
  <2>4. PICK k \in Lists : \E j \in 1..Len(S[k]) : it.node = S[k][j]
    BY <2>3 DEF NotListed
  <2>5. PICK j \in 1..Len(S[k]) : it.node = S[k][j]
    BY <2>4
  <2>6. PICK s : s = S[k]
    OBVIOUS
  <2>7. s \in Seq(Nodes) /\ Len(s) \in Nat /\ j \in 1..Len(s) /\ it.node = s[j]
    BY <2>5, <2>6, <1>2, Elements
  <2>8. links.next = NodeBehind(s, j) /\ links.prev = NodeBefore(s, j)
    BY <2>2, <2>5, <2>6, <1>2, ListedSane
  <2>9. \E m \in 1..Len(s) : a = s[m] /\ Behind(it.dir, LinksAt(s, m)) = it.node
    <3>1. CASE it.dir = "next"
      <4>1. a = NodeBehind(s, j)
        BY <3>1, <2>8, <1>0 DEF Ahead
      <4>2. j # Len(s)
        BY <4>1, <2>1, <2>7 DEF NodeBehind
      <4>3. j + 1 \in 1..Len(s) /\ j + 1 # 1 /\ j + 1 - 1 = j
        BY <4>2, <2>7
      <4>4. a = s[j + 1]
        BY <4>1, <4>2 DEF NodeBehind
      <4>5. Behind(it.dir, LinksAt(s, j + 1)) = s[j]
        BY <3>1, <4>3 DEF Behind, LinksAt
      <4> QED
        BY <4>3, <4>4, <4>5, <2>7
    <3>2. CASE it.dir = "prev"
      <4>1. a = NodeBefore(s, j)
        BY <3>2, <2>8, <1>0 DEF Ahead
      <4>2. j # 1
        BY <4>1, <2>1, <2>7 DEF NodeBefore
      <4>3. j - 1 \in 1..Len(s) /\ j - 1 # Len(s) /\ j - 1 + 1 = j
        BY <4>2, <2>7
      <4>4. a = s[j - 1]
        BY <4>1, <4>2 DEF NodeBefore
      <4>5. Behind(it.dir, LinksAt(s, j - 1)) = s[j]
        BY <3>2, <4>3 DEF Behind, LinksAt
      <4> QED
        BY <4>3, <4>4, <4>5, <2>7
    <3> QED
      BY <3>1, <3>2, <1>3
  <2>10. PICK m \in 1..Len(s) : a = s[m] /\ Behind(it.dir, LinksAt(s, m)) = it.node
    BY <2>9
  <2>11. SanityCheck(a) /\ d.links[a] = LinksAt(s, m)
    BY <2>6, <2>10, <1>2, ListedSane
  <2>12. iters' = [iters EXCEPT ![i].node = a, ![i].data = d.links[a]] /\ status' = status
    BY <2>10, <2>11, <1>0, <1>5, <1>7 DEF GetFollowing
  <2>13. PICK new : new = [it EXCEPT !.node = a, !.data = d.links[a]]
    OBVIOUS
  <2>14. a \in Nodes /\ d.links[a] \in Links
    BY <2>6, <2>7, <2>10, <2>11, <1>2, Elements, LinkTypes
  <2>15. new \in Held /\ new.node = a /\ new.data = d.links[a]
    BY <2>13, <2>14, <1>3 DEF Held
  <2>16. iters' = [iters EXCEPT ![i] = new]
    <3>1. iters \in [Iters -> Held]
      BY <1>2, CallTypes
    <3> QED
      BY <3>1, <2>12, <2>13, <1>0
  <2>17. \E b \in Lists : \E c \in 1..Len(lru[b]) : new.node = lru[b][c] /\ new.data = LinksAt(lru[b], c)
    BY <2>6, <2>10, <2>11, <2>15, <1>0
  <2> QED
    BY <2>12, <2>15, <2>16, <2>17, <1>1, HoldStep
<1> QED
  BY <1>6, <1>7

\* ... and so does the release of a block.
LEMMA FreeRankingsBlockInvariant ==
  ASSUME IInv, NEW i \in Iters, FreeRankingsBlock(i)
  PROVE  IInv'
<1>1. /\ Idle /\ iters' = [iters EXCEPT ![i] = None] /\ status' = status
      /\ UNCHANGED <<d, mem, todo, reinsert, crashes, lru>>
  BY DEF FreeRankingsBlock
<1>2. None \in Held
  BY DEF Held
<1> QED
  BY <1>1, <1>2, HoldStep

(***************************************************************************)
(* Crash and restart.                                                      *)
(***************************************************************************)

\* A transaction is still to be recorded.
Pending(q) == \E i \in 1..Len(q) : q[i].at = "transaction" /\ q[i].val # NoAddr

\* A store in front keeps a sequence that still records a transaction such, or makes
\* it one.
LEMMA PendingStores ==
  ASSUME NEW q \in Seq(Writes), NEW w \in Writes,
         Pending(q) \/ (w.at = "transaction" /\ w.val # NoAddr)
  PROVE  Pending(Push(w, q))
<1>1. <<w>> \in Seq(Writes) /\ Len(<<w>>) = 1 /\ <<w>>[1] = w /\ Len(q) \in Nat
  OBVIOUS
<1>2. PICK p : p = Push(w, q)
  OBVIOUS
<1>3. Len(p) = 1 + Len(q) /\ \A i \in 1 .. 1 + Len(q) : p[i] = IF i <= 1 THEN w ELSE q[i - 1]
  <2>1. /\ Len(<<w>> \o q) = Len(<<w>>) + Len(q)
        /\ \A i \in 1 .. Len(<<w>>) + Len(q) :
             (<<w>> \o q)[i] = IF i <= Len(<<w>>) THEN <<w>>[i] ELSE q[i - Len(<<w>>)]
    BY <1>1, ConcatProperties
  <2> QED
    BY <2>1, <1>1, <1>2 DEF Push
<1>4. CASE Pending(q)
  <2>1. PICK i \in 1..Len(q) : q[i].at = "transaction" /\ q[i].val # NoAddr
    BY <1>4 DEF Pending
  <2>2. i + 1 \in 1..Len(p) /\ p[i + 1] = q[i]
    BY <1>1, <1>3
  <2> QED
    BY <2>1, <2>2, <1>2 DEF Pending
<1>5. CASE w.at = "transaction" /\ w.val # NoAddr
  <2>1. 1 \in 1..Len(p) /\ p[1] = w
    BY <1>1, <1>3
  <2> QED
    BY <2>1, <1>2, <1>5 DEF Pending
<1> QED
  BY <1>4, <1>5

\* Between the two transactions of FinishInsert() the second is still to come.
LEMMA BeginPending ==
  ASSUME NEW n \in Nodes, NEW l \in Lists, NEW op \in Operations, NEW q \in Seq(Writes)
  PROVE  /\ Pending(Begin3(n, q)) /\ Pending(Begin2(n, l, q)) /\ Pending(Begin1(op, n, l, q))
         /\ Pending(Clear2(Begin1(op, n, l, q)))
<1>1. /\ SetField("transaction", n) \in Writes
      /\ SetField("operation_list", l) \in Writes
      /\ SetField("operation", op) \in Writes /\ SetField("operation", None) \in Writes
      /\ Begin3(n, q) \in Seq(Writes) /\ Begin2(n, l, q) \in Seq(Writes)
      /\ Begin1(op, n, l, q) \in Seq(Writes)
  BY BeginTypes, EndTypes
<1>2. Pending(Begin3(n, q))
  <2>1. SetField("transaction", n).at = "transaction" /\ SetField("transaction", n).val # NoAddr
    BY NoAddrAssumption DEF SetField
  <2> QED
    BY <2>1, <1>1, PendingStores DEF Begin3
<1>3. Pending(Begin2(n, l, q))
  BY <1>1, <1>2, PendingStores DEF Begin2
<1>4. Pending(Begin1(op, n, l, q))
  BY <1>1, <1>3, PendingStores DEF Begin1
<1>5. Pending(Clear2(Begin1(op, n, l, q)))
  BY <1>1, <1>4, PendingStores DEF Clear2
<1> QED
  BY <1>2, <1>3, <1>4, <1>5

\* One more crash allows for one more node in or out of a counter.
LEMMA NearAfter ==
  ASSUME NEW v \in Nat, NEW len \in Nat, NEW c \in Nat
  PROVE  /\ Near(v, len, c) => Near(v, len, c + 1)
         /\ Near(v + 1, len, c) => Near(v, len, c + 1) /\ Near(v + 1, len, c + 1)
         /\ Near(v + 1, len + 1, c) => Near(v, len, c + 1)
         /\ Near(Lower(v), len, c) => Near(v, len, c + 1)
BY DEF Near, Lower

\* A crash before the store of a counter adds one to how far it may be off.
LEMMA CountersAfter ==
  ASSUME TypeOK, NEW S, Distinct(S), NEW l \in Lists
  PROVE  /\ Counters(d, S, crashes) => Counters(d, S, crashes + 1)
         /\ CountersBut(d, S, l, d.sizes[l] + 1, crashes) =>
              /\ CountersBut(d, S, l, d.sizes[l] + 1, crashes + 1)
              /\ Counters(d, S, crashes + 1)
         /\ CountersBut(d, S, l, Lower(d.sizes[l]), crashes) => Counters(d, S, crashes + 1)
<1>0. crashes \in Nat /\ \A k \in Lists : d.sizes[k] \in Nat /\ Len(S[k]) \in Nat
  BY Elements, CrashAssumption DEF TypeOK
<1>1. ASSUME NEW k \in Lists
      PROVE  /\ Near(d.sizes[k], Len(S[k]), crashes) => Near(d.sizes[k], Len(S[k]), crashes + 1)
             /\ Near(d.sizes[k] + 1, Len(S[k]), crashes) =>
                  /\ Near(d.sizes[k], Len(S[k]), crashes + 1)
                  /\ Near(d.sizes[k] + 1, Len(S[k]), crashes + 1)
             /\ Near(Lower(d.sizes[k]), Len(S[k]), crashes) => Near(d.sizes[k], Len(S[k]), crashes + 1)
  BY <1>0, NearAfter
<1>2. Counters(d, S, crashes) => Counters(d, S, crashes + 1)
  BY <1>1 DEF Counters
<1>3. CountersBut(d, S, l, d.sizes[l] + 1, crashes) =>
        CountersBut(d, S, l, d.sizes[l] + 1, crashes + 1) /\ Counters(d, S, crashes + 1)
  BY <1>1 DEF Counters, CountersBut
<1>4. CountersBut(d, S, l, Lower(d.sizes[l]), crashes) => Counters(d, S, crashes + 1)
  BY <1>1 DEF Counters, CountersBut
<1> QED
  BY <1>2, <1>3, <1>4

\* A crash leaves a disk that the next Init() can make whole, at every store.
LEMMA InsertMendable ==
  ASSUME TypeOK, Distinct(lru), status \in {"up", "recovering"}, ~BetweenTransactions,
         NEW S \in [Lists -> Seq(Nodes)], NEW l \in Lists, NEW n \in Nodes, Inserting(S, n, l)
  PROVE  Mendable(d, lru, crashes + 1)
<1>1. /\ d \in Disk /\ Distinct(S) /\ S[l] \in Seq(Nodes) /\ Len(S[l]) > 0
      /\ 1 \in 1..Len(S[l]) /\ S[l][1] = n /\ n # NoAddr /\ d.sizes[l] + 1 \in Nat
  BY InsertFacts
<1>2. CountersBut(d, S, l, d.sizes[l] + 1, crashes)
  BY DEF Inserting
<1>3. PICK s, v : s = S[l] /\ v = d.sizes[l] + 1
  OBVIOUS
<1>4. CASE InsertBegun(S, n, l)
  <2>0. PICK q, op : q = Insert2(s, l, v) /\ op = "INSERT"
    OBVIOUS
  <2>1. q \in Seq(Writes) /\ op \in Operations
    BY <2>0, <1>1, <1>3, InsertTypes DEF Operations
  <2>2. d.transaction = NoAddr
    BY <1>4 DEF InsertBegun
  <2>3. \/ todo = Clear2(Begin1(op, n, l, q))
        \/ todo = Begin1(op, n, l, q)
        \/ todo = Begin2(n, l, q)
        \/ todo = Begin3(n, q)
    BY <2>0, <1>1, <1>3, <1>4 DEF InsertBegun, Insert1
  <2>4. Pending(todo)
    BY <2>1, <2>3, BeginPending
  <2>5. status # "recovering"
    BY <2>2, <2>4 DEF BetweenTransactions, Pending
  <2>6. Full(d, lru) /\ lru = CutFrom(S, l, 1)
    BY <2>5, <1>4 DEF InsertBegun
  <2>7. Counters(d, lru, crashes + 1)
    <3>1. ASSUME NEW k \in Lists
          PROVE  Near(d.sizes[k], Len(lru[k]), crashes + 1)
      <4>1. d.sizes[k] \in Nat /\ Len(lru[k]) \in Nat /\ crashes \in Nat
        BY Elements, CrashAssumption DEF TypeOK
      <4>2. CASE k = l
        <5>1. lru[l] = Cut(s, 1)
          BY <2>6, <1>3 DEF CutFrom
        <5>2. Len(lru[l]) = Len(s) - 1 /\ Len(s) \in Nat
          BY <5>1, <1>1, <1>3, CutProperties, Elements
        <5>3. Near(d.sizes[l] + 1, Len(s), crashes)
          BY <1>2, <1>3 DEF CountersBut
        <5>4. PICK len : len = Len(lru[l])
          OBVIOUS
        <5>5. Len(s) = len + 1
          BY <5>2, <5>4
        <5> QED
          BY <5>3, <5>4, <5>5, <4>1, <4>2, NearAfter
      <4>3. CASE k # l
        <5>1. lru[k] = S[k]
          BY <2>6, <4>3 DEF CutFrom
        <5>2. Near(d.sizes[k], Len(S[k]), crashes)
          BY <1>2, <4>3 DEF CountersBut
        <5> QED
          BY <5>1, <5>2, <4>1, NearAfter
      <4> QED
        BY <4>2, <4>3
    <3> QED
      BY <3>1 DEF Counters
  <2> QED
    BY <2>2, <2>6, <2>7 DEF Mendable
<1>5. CASE InsertRecorded(S, n, l)
  <2>1. lru = S /\ d.transaction = n /\ d.operation = "INSERT" /\ d.operation_list = l
    BY <1>5 DEF InsertRecorded, Recorded
  <2>2. \/ \E tl, xd, nd \in BOOLEAN : Torn(d, S, l, 1, TRUE, tl, xd, FALSE, nd)
        \/ Full(d, S)
    BY <1>5 DEF InsertRecorded
  <2>3. CountersBut(d, S, l, d.sizes[l] + 1, crashes + 1) /\ Counters(d, S, crashes + 1)
    BY <1>1, <1>2, CountersAfter
  <2> QED
    BY <2>1, <2>2, <2>3, <1>1 DEF Mendable
<1> QED
  BY <1>4, <1>5 DEF Inserting

\* Wherever a crash hits, but between the two transactions of FinishInsert(), the
\* next Init() finds a disk that it can make whole.
LEMMA CrashMendable ==
  ASSUME IInv, status \in {"up", "init", "recovering"}, ~BetweenTransactions
  PROVE  Mendable(d, lru, crashes + 1)
<1>0. TypeOK /\ Distinct(lru)
  BY DEF IInv
<1>1. /\ Counters(d, lru, crashes) => Counters(d, lru, crashes + 1)
      /\ \A l \in Lists : CountersBut(d, lru, l, d.sizes[l] + 1, crashes) =>
                            CountersBut(d, lru, l, d.sizes[l] + 1, crashes + 1)
      /\ \A l \in Lists : CountersBut(d, lru, l, Lower(d.sizes[l]), crashes) => Counters(d, lru, crashes + 1)
  <2>1. PICK S : S = lru
    OBVIOUS
  <2>2. Counters(d, S, crashes) => Counters(d, S, crashes + 1)
    <3>1. ASSUME NEW k \in Lists, Near(d.sizes[k], Len(S[k]), crashes)
          PROVE  Near(d.sizes[k], Len(S[k]), crashes + 1)
      <4>1. crashes \in Nat /\ d.sizes[k] \in Nat /\ Len(S[k]) \in Nat
        BY <1>0, <2>1, Elements, CrashAssumption DEF TypeOK
      <4> QED
        BY <4>1, <3>1, NearAfter
    <3> QED
      BY <3>1 DEF Counters
  <2> QED
    BY <2>1, <2>2, <1>0, CountersAfter
<1>2. ASSUME Mendable(d, lru, crashes) PROVE Mendable(d, lru, crashes + 1)
  BY <1>1, <1>2 DEF Mendable
<1>3. CASE Stopped
  BY <1>2, <1>3 DEF Stopped
<1>4. CASE Whole
  <2>1. CASE d.transaction # NoAddr
    BY <2>1, <1>2, <1>4 DEF Whole
  <2>2. CASE d.transaction = NoAddr
    BY <2>2, <1>1, <1>4 DEF Whole, Mendable
  <2> QED
    BY <2>1, <2>2
<1>5. ASSUME NEW l \in Lists, NEW n \in Nodes, NEW S, Inserting(S, n, l), Working
      PROVE  Mendable(d, lru, crashes + 1)
  <2>1. S \in [Lists -> Seq(Nodes)]
    BY <1>5 DEF Inserting, Distinct
  <2>2. status \in {"up", "recovering"}
    BY <1>5 DEF Working
  <2> QED
    BY <2>1, <2>2, <1>0, <1>5, InsertMendable
<1>6. ASSUME NEW l \in Lists, NEW n \in Nodes, Removed(n, l)
      PROVE  Mendable(d, lru, crashes + 1)
  BY <1>1, <1>6, NoAddrAssumption DEF Removed, Recorded, Mendable
<1>7. ASSUME NEW l \in Lists, NEW i \in 1..Len(lru[l]), NEW shared \in BOOLEAN,
             Removing(l, i, shared)
      PROVE  Mendable(d, lru, crashes + 1)
  <2>1. Counters(d, lru, crashes + 1)
    BY <1>1, <1>7 DEF Removing
  <2>2. CASE RemoveBegun(l, i, shared)
    BY <2>1, <2>2 DEF RemoveBegun, Mendable
  <2>3. CASE RemoveRecorded(l, i, shared)
    <3>1. PICK n : n = lru[l][i]
      OBVIOUS
    <3>2. n # NoAddr /\ d.transaction = n /\ d.operation = "REMOVE" /\ d.operation_list = l
      BY <3>1, <2>3, <1>0, RemoveFacts DEF RemoveRecorded, Recorded
    <3>3. \E hd, tl, xd, pd \in BOOLEAN : Torn(d, lru, l, i, hd, tl, xd, pd, FALSE)
      <4>1. PICK alone, last : alone = (Len(lru[l]) = 1) /\ last = (i = Len(lru[l]))
        OBVIOUS
      <4>2. alone \in BOOLEAN /\ last \in BOOLEAN /\ (~alone) \in BOOLEAN
        BY <4>1
      <4>3. \/ Torn(d, lru, l, i, FALSE, FALSE, FALSE, FALSE, FALSE)
            \/ Torn(d, lru, l, i, alone, ~alone, FALSE, FALSE, FALSE)
            \/ Torn(d, lru, l, i, TRUE, TRUE, FALSE, last, FALSE)
            \/ Torn(d, lru, l, i, TRUE, TRUE, TRUE, last, FALSE)
            \/ Torn(d, lru, l, i, TRUE, TRUE, TRUE, TRUE, FALSE)
        BY <4>1, <2>3 DEF RemoveRecorded
      <4> QED
        BY <4>2, <4>3
    <3> QED
      BY <2>1, <3>1, <3>2, <3>3 DEF Mendable
  <2> QED
    BY <1>7, <2>2, <2>3 DEF Removing
<1>8. ASSUME NEW l \in Lists, NEW i \in 1..Len(lru[l]), Reverting(l, i)
      PROVE  Mendable(d, lru, crashes + 1)
  <2>1. PICK n : n = lru[l][i]
    OBVIOUS
  <2>2. n # NoAddr /\ d.transaction = n /\ d.operation = "REMOVE" /\ d.operation_list = l
    BY <2>1, <1>0, <1>8, RemoveFacts DEF Reverting, Recorded
  <2>3. Counters(d, lru, crashes + 1)
    BY <1>1, <1>8 DEF Reverting
  <2>4. \E hd, tl, xd, pd \in BOOLEAN : Torn(d, lru, l, i, hd, tl, xd, pd, FALSE)
    BY <1>8 DEF Reverting
  <2> QED
    BY <2>1, <2>2, <2>3, <2>4 DEF Mendable
<1> QED
  BY <1>3, <1>4, <1>5, <1>6, <1>7, <1>8 DEF IInv, Working

\* A crash that does not hit FinishInsert() between its two transactions keeps the
\* invariant.
LEMMA CrashInvariant ==
  ASSUME IInv, Crash, ~torn'
  PROVE  IInv'
<1>1. /\ status \in {"up", "init", "recovering"} /\ crashes < MaxCrashes /\ ~BetweenTransactions
      /\ status' = "down" /\ crashes' = crashes + 1 /\ todo' = <<>> /\ reinsert' = None
      /\ iters' = [i \in Iters |-> None]
      /\ mem' = [heads |-> [l \in Lists |-> NoAddr], tails |-> [l \in Lists |-> NoAddr]]
      /\ d' = d /\ lru' = lru
  BY DEF Crash, NoEnds
<1>2. Mendable(d', lru', crashes')
  BY <1>1, CrashMendable
<1>3. TypeOK'
  <2>1. TypeOK /\ todo' \in Seq(Writes)
    BY <1>1, EndTypes DEF IInv
  <2>2. crashes' \in 0..MaxCrashes
    BY <2>1, <1>1, CrashAssumption DEF TypeOK
  <2>3. mem' \in [heads : [Lists -> Addrs], tails : [Lists -> Addrs]]
    BY <1>1 DEF Addrs
  <2> QED
    BY <2>1, <2>2, <2>3, <1>1 DEF TypeOK
<1>4. Stopped'
  BY <1>1, <1>2 DEF Stopped
<1>5. Distinct(lru)'
  BY <1>1 DEF IInv
<1> QED
  BY <1>3, <1>4, <1>5 DEF IInv

\* The next process reads the ends of the lists; without a transaction that is all.
LEMMA RestartInvariant ==
  ASSUME IInv, ReadHeadsAndTails
  PROVE  IInv'
<1>1. /\ status = "down" /\ mem' = [heads |-> d.heads, tails |-> d.tails]
      /\ status' = IF d.transaction # NoAddr THEN "init" ELSE "up"
      /\ d' = d /\ iters' = iters /\ todo' = todo /\ reinsert' = reinsert /\ crashes' = crashes
      /\ lru' = lru
  BY DEF ReadHeadsAndTails
<1>2. TypeOK /\ Distinct(lru) /\ Stopped
  BY <1>1 DEF IInv, Working
<1>3. TypeOK'
  <2>1. mem' \in [heads : [Lists -> Addrs], tails : [Lists -> Addrs]]
    BY <1>1, <1>2 DEF TypeOK
  <2> QED
    BY <2>1, <1>1, <1>2 DEF TypeOK
<1>4. Distinct(lru)'
  BY <1>1, <1>2
<1>5. CASE d.transaction # NoAddr
  <2>1. Stopped'
    BY <1>1, <1>2, <1>5 DEF Stopped, OnDisk
  <2> QED
    BY <2>1, <1>3, <1>4 DEF IInv
<1>6. CASE d.transaction = NoAddr
  <2>1. Full(d, lru) /\ Counters(d, lru, crashes)
    BY <1>2, <1>6 DEF Stopped, Mendable
  <2>2. InMemory(lru)'
    BY <2>1, <1>1 DEF InMemory, Full
  <2>3. Shows(lru)'
    BY <1>1, <1>2 DEF Stopped, Shows
  <2>4. status' = "up" /\ todo' = <<>> /\ reinsert' = None /\ d'.transaction = NoAddr
    BY <1>1, <1>2, <1>6 DEF Stopped
  <2>5. Full(d', lru') /\ Counters(d', lru', crashes')
    BY <2>1, <1>1
  <2>6. Whole'
    BY <2>2, <2>3, <2>4, <2>5 DEF Whole
  <2> QED
    BY <2>4, <2>6, <1>3, <1>4 DEF IInv, Working
<1> QED
  BY <1>5, <1>6

\* CompleteTransaction() of an insertion: it is made again, or was complete.
LEMMA FinishInsertInvariant ==
  ASSUME IInv, FinishInsert
  PROVE  IInv'
<1>0. PICK S, n, l, clear, w, u :
        /\ S = lru /\ n = d.transaction /\ l = d.operation_list
        /\ w = SetField("transaction", NoAddr) /\ u = SetField("operation", None)
        /\ clear = <<w, u>>
  OBVIOUS
<1>1. /\ status = "init" /\ d.operation = "INSERT"
      /\ IF mem.heads[l] # n
         THEN InsertCall(clear, n, l, "recovering")
         ELSE todo' = clear /\ status' = "recovering" /\ UNCHANGED <<mem, iters>>
      /\ d' = d /\ reinsert' = reinsert /\ crashes' = crashes /\ lru' = lru
  BY <1>0 DEF FinishInsert
<1>2. TypeOK /\ Distinct(S) /\ Stopped
  BY <1>0, <1>1 DEF IInv, Working
<1>3. /\ mem = OnDisk /\ d.transaction # NoAddr /\ reinsert = None /\ \A g \in Iters : iters[g] = None
      /\ Mendable(d, S, crashes)
  BY <1>0, <1>1, <1>2 DEF Stopped
<1>4. /\ l \in Lists /\ Len(S[l]) > 0 /\ S[l][1] = n
      /\ \/ Full(d, S) /\ Counters(d, S, crashes)
         \/ /\ \E tl, xd, nd \in BOOLEAN : Torn(d, S, l, 1, TRUE, tl, xd, FALSE, nd)
            /\ CountersBut(d, S, l, d.sizes[l] + 1, crashes)
  BY <1>0, <1>1, <1>3 DEF Mendable
<1>5. w \in Writes /\ u \in Writes /\ clear \in Seq(Writes)
  BY <1>0, EndTypes, Tuples
<1>6. Loaded /\ \A k \in Lists : mem.heads[k] = d.heads[k] /\ mem.tails[k] = d.tails[k]
  BY <1>3 DEF Loaded, OnDisk
<1>7. n \in Nodes /\ n # NoAddr
  BY <1>0, <1>2, <1>3 DEF TypeOK, Addrs
<1>8. Distinct(lru)'
  BY <1>0, <1>1, <1>2
<1>9. CASE Full(d, S) /\ Counters(d, S, crashes)
  <2>1. mem.heads[l] = n
    <3>1. d.heads[l] = First(S[l])
      BY <1>4, <1>9 DEF Full
    <3>2. Len(S[l]) # 0
      BY <1>4
    <3> QED
      BY <3>1, <3>2, <1>4, <1>6 DEF First
  <2>2. todo' = clear /\ status' = "recovering" /\ mem' = mem /\ iters' = iters
    BY <2>1, <1>1
  <2>3. clear = Clear1(<<>>)
    <3>1. PICK e : e = <<>>
      OBVIOUS
    <3>2. e \in Seq(Writes)
      BY <3>1, EndTypes
    <3>3. <<w, u>> \o e = Push(w, Push(u, e))
      BY <3>2, <1>5, PushTwo
    <3>4. <<w, u>> \o e = <<w, u>>
      BY <3>1, <1>0, <1>5, ConcatEmptySeq
    <3> QED
      BY <3>1, <3>3, <3>4, <1>0 DEF Clear1, Clear2
  <2>4. TypeOK'
    BY <2>2, <1>1, <1>2, <1>5 DEF TypeOK
  <2>5. InMemory(lru)'
    BY <2>2, <1>0, <1>1, <1>6, <1>9 DEF InMemory, Full
  <2>6. Shows(lru)'
    BY <2>2, <1>3 DEF Shows
  <2>7. Whole'
    <3>1. /\ status' = "recovering" /\ reinsert' = None /\ d'.transaction # NoAddr
          /\ todo' = Clear1(<<>>)
      BY <2>2, <2>3, <1>1, <1>3
    <3>2. Full(d', lru') /\ Counters(d', lru', crashes') /\ Mendable(d', lru', crashes')
      BY <1>0, <1>1, <1>3, <1>9
    <3> QED
      BY <3>1, <3>2, <2>5, <2>6 DEF Whole
  <2> QED
    BY <2>2, <2>4, <2>7, <1>8 DEF IInv, Working
<1>10. CASE /\ \E tl, xd, nd \in BOOLEAN : Torn(d, S, l, 1, TRUE, tl, xd, FALSE, nd)
            /\ CountersBut(d, S, l, d.sizes[l] + 1, crashes)
  <2>1. PICK tl, xd, nd \in BOOLEAN : Torn(d, S, l, 1, TRUE, tl, xd, FALSE, nd)
    BY <1>10
  <2>2. mem.heads[l] # n
    <3>1. d \in Disk /\ Found(S[l], n, l)
      BY <2>1, <1>2, <1>4, <1>6, DiskType, InsertFinds
    <3> QED
      BY <3>1, <1>7 DEF Found
  <2>3. InsertCall(clear, n, l, "recovering")
    BY <2>2, <1>1
  <2>4. Shows(CutFrom(S, l, 1))
    BY <1>3 DEF Shows
  <2>5. /\ todo' = clear \o Insert1(S[l], l, d.sizes[l] + 1) /\ todo' \in Seq(Writes)
        /\ mem' \in Ends /\ iters' \in [Iters -> Held] /\ status' = "recovering"
        /\ InMemory(S)' /\ Shows(S)'
    BY <2>1, <2>3, <2>4, <1>2, <1>4, <1>5, <1>6, InsertCallStep
  <2>6. PICK v, p : v = d.sizes[l] + 1 /\ p = Insert1(S[l], l, v)
    OBVIOUS
  <2>7. p \in Seq(Writes)
    <3>1. d.sizes[l] \in Nat
      BY <1>2, <1>4 DEF TypeOK
    <3>2. v \in Nat /\ S[l] \in Seq(Nodes)
      BY <3>1, <2>6, <1>2, <1>4, Elements
    <3> QED
      BY <3>2, <2>6, <1>4, InsertTypes
  <2>8. todo' = Clear1(Insert1(S[l], l, d'.sizes[l] + 1))
    <3>1. <<w, u>> \o p = Push(w, Push(u, p))
      BY <2>7, <1>5, PushTwo
    <3> QED
      BY <3>1, <2>5, <2>6, <1>0, <1>1 DEF Clear1, Clear2
  <2>9. TypeOK'
    BY <2>5, <1>1, <1>2 DEF TypeOK, Ends, Held
  <2>10. InsertRecorded(S, n, l)'
    <3>1. /\ lru' = S /\ Recorded(n, "INSERT", l)' /\ status' = "recovering"
          /\ Torn(d', S, l, 1, TRUE, tl, xd, FALSE, nd)
      BY <2>1, <2>5, <1>0, <1>1 DEF Recorded
    <3> QED
      BY <3>1, <2>8 DEF InsertRecorded
  <2>11. Inserting(S, n, l)'
    <3>1. reinsert' = None /\ CountersBut(d', S, l, d'.sizes[l] + 1, crashes')
      BY <1>1, <1>3, <1>10
    <3>2. InMemory(S)' /\ Shows(S)'
      BY <2>5
    <3> QED
      BY <3>1, <3>2, <2>10, <1>2, <1>4 DEF Inserting
  <2>12. Working'
    <3>1. status' = "recovering" /\ S = lru'
      BY <2>5, <1>0, <1>1
    <3> QED
      BY <3>1, <2>11, <1>4, <1>7 DEF Working
  <2> QED
    BY <2>9, <2>12, <1>8 DEF IInv
<1> QED
  BY <1>4, <1>9, <1>10

\* What RevertRemove() finds when n, the i-th node of s, is half removed: its
\* neighbours x and p, and in them the links that are still right.
HalfRemoved(s, i, l, hd, tl, n, x, p) ==
    /\ x = NodeBehind(s, i) /\ p = NodeBefore(s, i) /\ d.links[n] = LinksAt(s, i)
    /\ x # NoAddr /\ p # NoAddr
    /\ mem.heads[l] = HeadOf(s, i, hd) /\ mem.tails[l] = TailOf(s, i, tl)
    /\ i # 1 => /\ p # n /\ s[1] # x /\ s[1] # NoAddr /\ p # s[Len(s)]
                /\ [d.links[p] EXCEPT !.next = n] = LinksAt(s, i - 1)
    /\ i # Len(s) => /\ x # n /\ s[Len(s)] # p /\ s[Len(s)] # NoAddr /\ x # s[1]
                     /\ [d.links[x] EXCEPT !.prev = n] = LinksAt(s, i + 1)

\* RevertRemove() of a half removed node finds its neighbours.
LEMMA RevertFinds ==
  ASSUME NEW S, Distinct(S), NEW l \in Lists, NEW i \in 1..Len(S[l]),
         NEW hd, NEW tl, NEW xd, NEW pd, Torn(d, S, l, i, hd, tl, xd, pd, FALSE), Loaded,
         NEW s, s = S[l], NEW n, n = s[i],
         NEW x, x = d.links[n].next, NEW p, p = d.links[n].prev
  PROVE  HalfRemoved(s, i, l, hd, tl, n, x, p)
<1>0. s = S[l] /\ n = s[i]
  OBVIOUS
<1>1. /\ s \in Seq(Nodes) /\ Len(s) \in Nat
      /\ \A b \in 1..Len(s) : s[b] \in Nodes /\ s[b] # NoAddr
  BY <1>0, Elements
<1>2. \A a, b \in 1..Len(s) : s[a] = s[b] => a = b
  BY <1>0 DEF Distinct
<1>3. i \in 1..Len(s) /\ Len(s) > 0 /\ 1 \in 1..Len(s) /\ Len(s) \in 1..Len(s)
  BY <1>0, <1>1
<1>4. \A j \in 1..Len(s) : d.links[s[j]] = LinksOf(s, i, j, xd, pd)
  BY <1>0 DEF Torn
<1>5. d.links[n] = LinksAt(s, i)
  <2>1. i # i + 1 /\ i # i - 1
    BY <1>3
  <2>2. LinksOf(s, i, i, xd, pd) = LinksAt(s, i)
    BY <2>1 DEF LinksOf, LinksAt
  <2> QED
    BY <2>2, <1>0, <1>3, <1>4
<1>6. x = d.links[n].next /\ p = d.links[n].prev
  OBVIOUS
<1>7. x = NodeBehind(s, i) /\ p = NodeBefore(s, i)
  BY <1>5, <1>6 DEF LinksAt, NodeBehind, NodeBefore
<1>8. x # NoAddr /\ p # NoAddr
  BY <1>1, <1>3, <1>5, <1>6, LinkTypes, NoAddrAssumption
<1>9. mem.heads[l] = HeadOf(s, i, hd) /\ mem.tails[l] = TailOf(s, i, tl)
  BY <1>0, SMTT(60) DEF Torn, Loaded
<1>10. ASSUME i # 1
       PROVE  /\ p # n /\ s[1] # x /\ s[1] # NoAddr /\ p # s[Len(s)]
              /\ [d.links[p] EXCEPT !.next = n] = LinksAt(s, i - 1)
  <2>1. i - 1 \in 1..Len(s) /\ i - 1 # i /\ i - 1 # Len(s) /\ i - 1 # i + 1 /\ i - 1 + 1 = i
    BY <1>3, <1>10
  <2>2. p = s[i - 1]
    BY <1>7, <1>10 DEF NodeBefore
  <2>3. p # n /\ p # s[Len(s)] /\ s[1] # NoAddr
    BY <2>1, <2>2, <1>0, <1>1, <1>2, <1>3
  <2>4. s[1] # x
    <3>1. CASE i = Len(s)
      BY <3>1, <1>2, <1>3, <1>7, <1>10 DEF NodeBehind
    <3>2. CASE i # Len(s)
      <4>1. i + 1 \in 1..Len(s) /\ i + 1 # 1
        BY <3>2, <1>3
      <4> QED
        BY <4>1, <3>2, <1>2, <1>3, <1>7 DEF NodeBehind
    <3> QED
      BY <3>1, <3>2
  <2>5. d.links[p] = LinksOf(s, i, i - 1, xd, pd)
    BY <2>1, <2>2, <1>4
  <2>6. [d.links[p] EXCEPT !.next = n] = LinksAt(s, i - 1)
    BY <2>1, <2>5, <1>0, SMTT(60) DEF LinksOf, LinksAt
  <2> QED
    BY <2>3, <2>4, <2>6
<1>11. ASSUME i # Len(s)
       PROVE  /\ x # n /\ s[Len(s)] # p /\ s[Len(s)] # NoAddr /\ x # s[1]
              /\ [d.links[x] EXCEPT !.prev = n] = LinksAt(s, i + 1)
  <2>1. i + 1 \in 1..Len(s) /\ i + 1 # i /\ i + 1 # 1 /\ i - 1 # i + 1 /\ i + 1 - 1 = i
    BY <1>3, <1>11
  <2>2. x = s[i + 1]
    BY <1>7, <1>11 DEF NodeBehind
  <2>3. x # n /\ x # s[1] /\ s[Len(s)] # NoAddr
    BY <2>1, <2>2, <1>0, <1>1, <1>2, <1>3
  <2>4. s[Len(s)] # p
    <3>1. CASE i = 1
      BY <3>1, <1>2, <1>3, <1>7, <1>11 DEF NodeBefore
    <3>2. CASE i # 1
      <4>1. i - 1 \in 1..Len(s) /\ i - 1 # Len(s)
        BY <3>2, <1>3
      <4> QED
        BY <4>1, <3>2, <1>2, <1>3, <1>7 DEF NodeBefore
    <3> QED
      BY <3>1, <3>2
  <2>5. d.links[x] = LinksOf(s, i, i + 1, xd, pd)
    BY <2>1, <2>2, <1>4
  <2>6. [d.links[x] EXCEPT !.prev = n] = LinksAt(s, i + 1)
    <3>1. LinksAt(s, i + 1).prev = n
      BY <2>1, <1>0 DEF LinksAt
    <3>2. LinksOf(s, i, i + 1, xd, pd).next = LinksAt(s, i + 1).next
      BY <2>1 DEF LinksOf
    <3> QED
      BY <2>5, <3>1, <3>2 DEF LinksOf, LinksAt
  <2> QED
    BY <2>3, <2>4, <2>6
<1> QED
  BY <1>5, <1>7, <1>8, <1>9, <1>10, <1>11 DEF HalfRemoved

\* The end of the list that RevertRemove() puts back: both if the list has become
\* empty, the head, the tail, or none.
RevertedEnds(s, i, l, hd, tl, E) ==
    LET n == s[i]
    IN  \/ Len(s) = 1 /\ E = <<WriteHead(l, n), WriteTail(l, n)>>
           /\ RevertMem(n, l) = [mem EXCEPT !.heads[l] = n, !.tails[l] = n]
        \/ i = 1 /\ ~tl /\ E = <<WriteHead(l, n)>> /\ RevertMem(n, l) = [mem EXCEPT !.heads[l] = n]
        \/ i = Len(s) /\ ~hd /\ E = <<WriteTail(l, n)>> /\ RevertMem(n, l) = [mem EXCEPT !.tails[l] = n]
        \/ ~hd /\ ~tl /\ E = <<>> /\ RevertMem(n, l) = mem

\* ... and then the two neighbours.
RevertWorks(s, i, l, hd, tl) ==
    \E E : /\ RevertedEnds(s, i, l, hd, tl, E)
           /\ RevertStores(s[i], l) =
                E \o <<StoreLinks(NodeBehind(s, i), LinksAt(s, IF i = Len(s) THEN i ELSE i + 1)),
                       StoreLinks(NodeBefore(s, i), LinksAt(s, IF i = 1 THEN 1 ELSE i - 1))>>

\* RevertRemove() makes the stores that undo what the crashed removal made.
LEMMA RevertSequence ==
  ASSUME NEW S, Distinct(S), NEW l \in Lists, NEW i \in 1..Len(S[l]), NEW s, s = S[l],
         NEW hd, NEW tl, NEW xd, NEW pd,
         Torn(d, S, l, i, hd, tl, xd, pd, FALSE), Loaded, hd => i = 1, tl => i = Len(s)
  PROVE  RevertWorks(s, i, l, hd, tl)
<1>0. PICK n, x, p, h, z :
        n = s[i] /\ x = d.links[n].next /\ p = d.links[n].prev /\ h = mem.heads[l] /\ z = mem.tails[l]
  OBVIOUS
<1>1. /\ x = NodeBehind(s, i) /\ p = NodeBefore(s, i) /\ d.links[n] = LinksAt(s, i)
      /\ x # NoAddr /\ p # NoAddr
      /\ h = HeadOf(s, i, hd) /\ z = TailOf(s, i, tl)
      /\ i # 1 => /\ p # n /\ s[1] # x /\ s[1] # NoAddr /\ p # s[Len(s)]
                  /\ [d.links[p] EXCEPT !.next = n] = LinksAt(s, i - 1)
      /\ i # Len(s) => /\ x # n /\ s[Len(s)] # p /\ s[Len(s)] # NoAddr /\ x # s[1]
                       /\ [d.links[x] EXCEPT !.prev = n] = LinksAt(s, i + 1)
  <2>1. HalfRemoved(s, i, l, hd, tl, n, x, p)
    BY <1>0, RevertFinds
  <2> QED
    BY <2>1, <1>0 DEF HalfRemoved
<1>2. /\ s \in Seq(Nodes) /\ Len(s) \in Nat /\ Len(s) > 0 /\ i \in 1..Len(s)
      /\ n # NoAddr
  BY <1>0, Elements
<1>3. PICK empty, wh, wt :
        /\ empty = (NoAddr \in {h, z}) /\ wh = (~empty /\ h = x) /\ wt = (~empty /\ ~wh /\ z = p)
  OBVIOUS
<1>4. PICK N, P :
        /\ N = [d.links[x] EXCEPT !.prev = IF wt THEN p ELSE IF x # n THEN n ELSE @]
        /\ P = [d.links[p] EXCEPT !.next = IF wh THEN x ELSE IF p # n THEN n ELSE @]
  OBVIOUS
<1>5. PICK E : E = IF empty THEN <<WriteHead(l, n), WriteTail(l, n)>>
                   ELSE IF wh THEN <<WriteHead(l, n)>>
                   ELSE IF wt THEN <<WriteTail(l, n)>> ELSE <<>>
  OBVIOUS
<1>6. RevertStores(n, l) = E \o <<StoreLinks(x, N), StoreLinks(p, P)>>
  BY <1>0, <1>3, <1>4, <1>5 DEF RevertStores
<1>7. RevertMem(n, l) = IF empty THEN [mem EXCEPT !.heads[l] = n, !.tails[l] = n]
                        ELSE IF wh THEN [mem EXCEPT !.heads[l] = n]
                        ELSE IF wt THEN [mem EXCEPT !.tails[l] = n]
                        ELSE mem
  BY <1>0, <1>3 DEF RevertMem
<1>8. (i # 1 => ~wh /\ h = s[1]) /\ (i # Len(s) => ~wt /\ z = s[Len(s)])
  <2>1. i # 1 => h = s[1]
    BY <1>1 DEF HeadOf
  <2>2. i # Len(s) => z = s[Len(s)]
    BY <1>1 DEF TailOf
  <2> QED
    BY <2>1, <2>2, <1>1, <1>3
<1>9. N = LinksAt(s, IF i = Len(s) THEN i ELSE i + 1)
  <2>1. CASE i = Len(s)
    <3>1. x = n /\ d.links[x] = LinksAt(s, i)
      BY <2>1, <1>0, <1>1 DEF NodeBehind
    <3>2. p = LinksAt(s, i).prev
      BY <1>0, <1>1
    <3>3. N = [LinksAt(s, i) EXCEPT !.prev = LinksAt(s, i).prev]
      BY <3>1, <3>2, <1>4
    <3> QED
      BY <3>3, <2>1 DEF LinksAt
  <2>2. CASE i # Len(s)
    <3>1. N = [d.links[x] EXCEPT !.prev = n]
      BY <2>2, <1>1, <1>4, <1>8
    <3> QED
      BY <3>1, <2>2, <1>1
  <2> QED
    BY <2>1, <2>2
<1>10. P = LinksAt(s, IF i = 1 THEN 1 ELSE i - 1)
  <2>1. CASE i = 1
    <3>1. p = n /\ d.links[p] = LinksAt(s, i)
      BY <2>1, <1>0, <1>1 DEF NodeBefore
    <3>2. x = LinksAt(s, i).next
      BY <1>0, <1>1
    <3>3. P = [LinksAt(s, i) EXCEPT !.next = LinksAt(s, i).next]
      BY <3>1, <3>2, <1>4
    <3> QED
      BY <3>3, <2>1 DEF LinksAt
  <2>2. CASE i # 1
    <3>1. P = [d.links[p] EXCEPT !.next = n]
      BY <2>2, <1>1, <1>4, <1>8
    <3> QED
      BY <3>1, <2>2, <1>1
  <2> QED
    BY <2>1, <2>2
<1>11. RevertedEnds(s, i, l, hd, tl, E)
  <2>1. CASE empty
    <3>1. Len(s) = 1
      <4>1. h = NoAddr \/ z = NoAddr
        BY <2>1, <1>3
      <4>2. CASE Len(s) # 1 /\ i = 1
        <5>1. i # Len(s)
          BY <4>2
        <5>2. x = s[2]
          BY <5>1, <4>2, <1>1 DEF NodeBehind
        <5>3. h = s[2] \/ h = s[1]
          BY <4>2, <1>1 DEF HeadOf
        <5>4. s[1] = n
          BY <4>2, <1>0
        <5> QED
          BY <5>1, <5>2, <5>3, <5>4, <4>1, <1>1, <1>2, <1>8
      <4>3. CASE Len(s) # 1 /\ i # 1
        <5>1. h # NoAddr
          BY <4>3, <1>1, <1>8
        <5>2. z = s[Len(s) - 1] \/ z = s[Len(s)]
          BY <4>3, <1>1 DEF TailOf
        <5>3. i = Len(s) => s[Len(s) - 1] = p /\ s[Len(s)] = n
          BY <4>3, <1>0, <1>1 DEF NodeBefore
        <5> QED
          BY <5>1, <5>2, <5>3, <4>1, <1>1, <1>2, <1>8
      <4> QED
        BY <4>2, <4>3
    <3> QED
      BY <3>1, <2>1, <1>0, <1>5, <1>7 DEF RevertedEnds
  <2>2. CASE ~empty /\ wh
    <3>1. i = 1
      BY <2>2, <1>8
    <3>2. ~tl
      <4>1. ASSUME tl PROVE FALSE
        <5>1. Len(s) = 1 /\ i = Len(s)
          BY <3>1, <4>1
        <5>2. z = NoAddr
          BY <5>1, <4>1, <1>1 DEF TailOf
        <5> QED
          BY <5>2, <2>2, <1>3
      <4> QED
        BY <4>1
    <3> QED
      BY <3>1, <3>2, <2>2, <1>0, <1>5, <1>7 DEF RevertedEnds
  <2>3. CASE ~empty /\ ~wh /\ wt
    <3>1. i = Len(s)
      BY <2>3, <1>8
    <3>2. ~hd
      <4>1. ASSUME hd PROVE FALSE
        <5>1. Len(s) = 1 /\ i = 1
          BY <3>1, <4>1
        <5>2. h = NoAddr
          BY <5>1, <4>1, <1>1 DEF HeadOf
        <5> QED
          BY <5>2, <2>3, <1>3
      <4> QED
        BY <4>1
    <3> QED
      BY <3>1, <3>2, <2>3, <1>0, <1>5, <1>7 DEF RevertedEnds
  <2>4. CASE ~empty /\ ~wh /\ ~wt
    <3>1. ASSUME hd PROVE FALSE
      <4>1. i = 1
        BY <3>1
      <4>2. CASE Len(s) = 1
        <5>1. h = NoAddr
          BY <4>1, <4>2, <3>1, <1>1 DEF HeadOf
        <5> QED
          BY <5>1, <2>4, <1>3
      <4>3. CASE Len(s) # 1
        <5>1. h = s[2] /\ x = s[2]
          BY <4>1, <4>3, <3>1, <1>1 DEF HeadOf, NodeBehind
        <5> QED
          BY <5>1, <2>4, <1>3
      <4> QED
        BY <4>2, <4>3
    <3>2. ASSUME tl PROVE FALSE
      <4>1. i = Len(s)
        BY <3>2
      <4>2. CASE Len(s) = 1
        <5>1. z = NoAddr
          BY <4>1, <4>2, <3>2, <1>1 DEF TailOf
        <5> QED
          BY <5>1, <2>4, <1>3
      <4>3. CASE Len(s) # 1
        <5>1. z = s[Len(s) - 1] /\ p = s[Len(s) - 1]
          BY <4>1, <4>3, <3>2, <1>1 DEF TailOf, NodeBefore
        <5> QED
          BY <5>1, <2>4, <1>3
      <4> QED
        BY <4>2, <4>3
    <3> QED
      BY <3>1, <3>2, <2>4, <1>0, <1>5, <1>7 DEF RevertedEnds
  <2> QED
    BY <2>1, <2>2, <2>3, <2>4
<1>12. RevertStores(s[i], l) =
         E \o <<StoreLinks(NodeBehind(s, i), LinksAt(s, IF i = Len(s) THEN i ELSE i + 1)),
                StoreLinks(NodeBefore(s, i), LinksAt(s, IF i = 1 THEN 1 ELSE i - 1))>>
  <2>1. x = NodeBehind(s, i) /\ p = NodeBefore(s, i)
    BY <1>1
  <2> QED
    BY <2>1, <1>0, <1>6, <1>9, <1>10
<1> QED
  BY <1>11, <1>12, SMTT(60) DEF RevertWorks

\* The two neighbours and the end of the transaction behind the ends.
LEMMA RevertJoined ==
  ASSUME NEW E \in Seq(Writes), NEW a \in Writes, NEW b \in Writes, NEW w \in Writes, NEW u \in Writes
  PROVE  /\ (E \o <<a, b>>) \o <<w, u>> = E \o Push(a, Push(b, Push(w, Push(u, <<>>))))
         /\ (E \o <<a, b>>) \o <<w, u>> \in Seq(Writes)
<1>1. PICK g, r, e : g = <<a, b>> /\ r = <<w, u>> /\ e = <<>>
  OBVIOUS
<1>2. g \in Seq(Writes) /\ r \in Seq(Writes) /\ e \in Seq(Writes)
  BY <1>1, Tuples, EndTypes
<1>3. (E \o g) \o r = E \o (g \o r)
  BY <1>2, Joined
<1>4. <<a, b>> \o r = Push(a, Push(b, r))
  BY <1>2, PushTwo
<1>5. <<w, u>> \o e = Push(w, Push(u, e))
  BY <1>2, PushTwo
<1>6. r \o e = r
  BY <1>1, <1>2, ConcatEmptySeq
<1>7. g \o r \in Seq(Writes) /\ E \o g \in Seq(Writes)
  BY <1>2, JoinedType
<1>8. (E \o g) \o r \in Seq(Writes)
  BY <1>2, <1>7, JoinedType
<1> QED
  BY <1>1, <1>3, <1>4, <1>5, <1>6, <1>8

\* The node n was removed from the lists S, or half removed from l.
Unremoved(D, S, l, n) ==
    \/ Full(D, S) /\ NotListed(S, n)
    \/ \E i \in 1..Len(S[l]) :
         /\ S[l][i] = n
         /\ \E hd, tl, xd, pd \in BOOLEAN : Torn(D, S, l, i, hd, tl, xd, pd, FALSE)

\* A removal that is recorded was made, or can be reverted; that the head or the
\* tail has been moved only says something of the first or the last node.
LEMMA UnremovedCases ==
  ASSUME NEW D, NEW S, NEW c, Mendable(D, S, c), D.operation = "REMOVE", D.transaction # NoAddr
  PROVE  D.operation_list \in Lists /\ Counters(D, S, c) /\ Unremoved(D, S, D.operation_list, D.transaction)
<1>1. D.operation # "INSERT"
  OBVIOUS
<1> QED
  BY <1>1 DEF Mendable, Unremoved

Marked(D, S, l, i, xd, pd) ==
    \E hd, tl \in BOOLEAN :
        Torn(D, S, l, i, hd, tl, xd, pd, FALSE) /\ (hd => i = 1) /\ (tl => i = Len(S[l]))

\* The head matters for the first node only, the tail for the last.
LEMMA TornMarks ==
  ASSUME NEW D, NEW S, Distinct(S), NEW l \in Lists, NEW i \in 1..Len(S[l]),
         NEW h2, NEW t2, NEW xd, NEW pd, Torn(D, S, l, i, h2, t2, xd, pd, FALSE)
  PROVE  Marked(D, S, l, i, xd, pd)
<1>1. PICK hd, tl : hd = (h2 /\ i = 1) /\ tl = (t2 /\ i = Len(S[l]))
  OBVIOUS
<1>2. HeadOf(S[l], i, hd) = HeadOf(S[l], i, h2) /\ TailOf(S[l], i, tl) = TailOf(S[l], i, t2)
  BY <1>1 DEF HeadOf, TailOf
<1>3. Torn(D, S, l, i, hd, tl, xd, pd, FALSE)
  BY <1>2 DEF Torn
<1>4. hd \in BOOLEAN /\ tl \in BOOLEAN /\ (hd => i = 1) /\ (tl => i = Len(S[l]))
  BY <1>1
<1> QED
  BY <1>3, <1>4 DEF Marked

\* CompleteTransaction() of a removal: the node is put back, or was removed.
LEMMA RevertRemoveInvariant ==
  ASSUME IInv, RevertRemove
  PROVE  IInv'
<1>0. PICK S, n, l, w, u :
        /\ S = lru /\ n = d.transaction /\ l = d.operation_list
        /\ w = SetField("transaction", NoAddr) /\ u = SetField("operation", None)
  OBVIOUS
<1>1. /\ status = "init" /\ d.operation = "REMOVE" /\ status' = "recovering"
      /\ IF NoAddr \in {d.links[n].next, d.links[n].prev}
         THEN todo' = <<w>> /\ mem' = mem
         ELSE todo' = RevertStores(n, l) \o <<w, u>> /\ mem' = RevertMem(n, l)
      /\ d' = d /\ iters' = iters /\ reinsert' = reinsert /\ crashes' = crashes /\ lru' = lru
  BY <1>0 DEF RevertRemove
<1>2. TypeOK /\ Distinct(S) /\ Stopped
  BY <1>0, <1>1 DEF IInv, Working
<1>3. /\ mem = OnDisk /\ d.transaction # NoAddr /\ reinsert = None /\ \A g \in Iters : iters[g] = None
      /\ Mendable(d, S, crashes)
  BY <1>0, <1>1, <1>2 DEF Stopped
<1>4. l \in Lists /\ Counters(d, S, crashes) /\ Unremoved(d, S, l, n)
  BY <1>0, <1>1, <1>3, UnremovedCases
<1>5. w \in Writes /\ u \in Writes
  BY <1>0, EndTypes
<1>6. Loaded /\ (\A k \in Lists : mem.heads[k] = d.heads[k] /\ mem.tails[k] = d.tails[k]) /\ mem \in Ends
  BY <1>2, <1>3, CallTypes DEF Loaded, OnDisk
<1>7. n \in Nodes /\ n # NoAddr
  BY <1>0, <1>2, <1>3 DEF TypeOK, Addrs
<1>8. Distinct(lru)' /\ Shows(lru)'
  BY <1>0, <1>1, <1>2, <1>3 DEF Shows
<1>9. CASE Full(d, S) /\ NotListed(S, n)
  <2>1. d.links[n] = Out
    BY <1>7, <1>9 DEF Full
  <2>2. todo' = <<w>> /\ mem' = mem
    BY <2>1, <1>1 DEF Out
  <2>3. <<w>> \in Seq(Writes) /\ <<w>> = Push(w, <<>>)
    BY <1>5, Tuples, ConcatEmptySeq DEF Push
  <2>4. TypeOK'
    BY <2>2, <2>3, <1>1, <1>2 DEF TypeOK
  <2>5. InMemory(lru)'
    BY <2>2, <1>0, <1>1, <1>6, <1>9 DEF InMemory, Full
  <2>6. Whole'
    <3>1. /\ reinsert' = None /\ d'.transaction # NoAddr
          /\ todo' = Push(SetField("transaction", NoAddr), <<>>)
      BY <2>2, <2>3, <1>0, <1>1, <1>3
    <3>2. Full(d', lru') /\ Counters(d', lru', crashes') /\ Mendable(d', lru', crashes')
      BY <1>0, <1>1, <1>3, <1>4, <1>9
    <3> QED
      BY <3>1, <3>2, <2>5, <1>8 DEF Whole
  <2> QED
    BY <2>4, <2>6, <1>1, <1>8 DEF IInv, Working
<1>10. ASSUME NEW i \in 1..Len(S[l]), S[l][i] = n,
              NEW h2, NEW t2, NEW xd, NEW pd, xd \in BOOLEAN, pd \in BOOLEAN,
              Torn(d, S, l, i, h2, t2, xd, pd, FALSE)
       PROVE  IInv'
  <2>0. PICK s : s = S[l]
    OBVIOUS
  <2>1. PICK hd, tl : /\ Torn(d, S, l, i, hd, tl, xd, pd, FALSE)
                      /\ hd \in BOOLEAN /\ tl \in BOOLEAN /\ (hd => i = 1) /\ (tl => i = Len(S[l]))
    <3>1. Distinct(S) /\ l \in Lists /\ Torn(d, S, l, i, h2, t2, xd, pd, FALSE)
      BY <1>2, <1>4, <1>10
    <3>2. Marked(d, S, l, i, xd, pd)
      BY <3>1, TornMarks
    <3> QED
      BY <3>2 DEF Marked
  <2>2. Torn(d, S, l, i, hd, tl, xd, pd, FALSE)
    BY <2>1
  <2>3. s \in Seq(Nodes) /\ Len(s) \in Nat /\ Len(s) > 0 /\ i \in 1..Len(s) /\ s[i] = n
    BY <2>0, <1>2, <1>4, <1>10, Elements
  <2>4. PICK x, p : x = d.links[n].next /\ p = d.links[n].prev
    OBVIOUS
  <2>5. HalfRemoved(s, i, l, hd, tl, n, x, p)
    BY <2>0, <2>2, <2>3, <2>4, <1>2, <1>4, <1>6, RevertFinds
  <2>6. x # NoAddr /\ p # NoAddr /\ mem.heads[l] = HeadOf(s, i, hd) /\ mem.tails[l] = TailOf(s, i, tl)
    BY <2>5 DEF HalfRemoved
  <2>7. todo' = RevertStores(n, l) \o <<w, u>> /\ mem' = RevertMem(n, l)
    BY <2>4, <2>6, <1>1
  <2>8. PICK a, b :
          /\ a = StoreLinks(NodeBehind(s, i), LinksAt(s, IF i = Len(s) THEN i ELSE i + 1))
          /\ b = StoreLinks(NodeBefore(s, i), LinksAt(s, IF i = 1 THEN 1 ELSE i - 1))
    OBVIOUS
  <2>9. a \in Writes /\ b \in Writes /\ WriteHead(l, n) \in Writes /\ WriteTail(l, n) \in Writes
        /\ Revert2(s, i) \in Seq(Writes)
    BY <2>3, <2>8, <1>4, RevertTypes
  <2>10. PICK E : RevertedEnds(s, i, l, hd, tl, E) /\ RevertStores(n, l) = E \o <<a, b>>
    <3>1. RevertWorks(s, i, l, hd, tl)
      <4>1. Distinct(S) /\ l \in Lists /\ Loaded /\ s = S[l]
        BY <2>0, <1>2, <1>4, <1>6
      <4>2. (hd => i = 1) /\ (tl => i = Len(s))
        BY <2>0, <2>1
      <4> QED
        BY <4>1, <4>2, <2>2, <1>10, RevertSequence
    <3> QED
      BY <3>1, <2>3, <2>8 DEF RevertWorks
  <2>11. \/ /\ Len(s) = 1 /\ E = <<WriteHead(l, n), WriteTail(l, n)>>
            /\ RevertMem(n, l) = [mem EXCEPT !.heads[l] = n, !.tails[l] = n]
         \/ i = 1 /\ ~tl /\ E = <<WriteHead(l, n)>> /\ RevertMem(n, l) = [mem EXCEPT !.heads[l] = n]
         \/ i = Len(s) /\ ~hd /\ E = <<WriteTail(l, n)>> /\ RevertMem(n, l) = [mem EXCEPT !.tails[l] = n]
         \/ ~hd /\ ~tl /\ E = <<>> /\ RevertMem(n, l) = mem
    BY <2>3, <2>10 DEF RevertedEnds
  <2>12. E \in Seq(Writes)
    <3>1. PICK g, z : g = WriteHead(l, n) /\ z = WriteTail(l, n)
      OBVIOUS
    <3>2. E = <<g, z>> \/ E = <<g>> \/ E = <<z>> \/ E = <<>>
      BY <3>1, <2>11
    <3>3. g \in Writes /\ z \in Writes
      BY <3>1, <2>9
    <3>4. <<g, z>> \in Seq(Writes) /\ <<g>> \in Seq(Writes) /\ <<z>> \in Seq(Writes)
      BY <3>3, Tuples
    <3> QED
      BY <3>2, <3>4, EndTypes
  <2>13. todo' = E \o Revert2(s, i) /\ todo' \in Seq(Writes)
    <3>1. /\ (E \o <<a, b>>) \o <<w, u>> = E \o Push(a, Push(b, Push(w, Push(u, <<>>))))
          /\ (E \o <<a, b>>) \o <<w, u>> \in Seq(Writes)
      BY <2>9, <2>12, <1>5, RevertJoined
    <3>2. Revert2(s, i) = Push(a, Push(b, Push(w, Push(u, <<>>))))
      BY <2>8, <1>0 DEF Revert2, Revert3, Clear1, Clear2
    <3> QED
      BY <3>1, <3>2, <2>7, <2>10
  <2>14. \/ Len(s) = 1 /\ todo' = Push(WriteHead(l, n), Push(WriteTail(l, n), Revert2(s, i)))
         \/ i = 1 /\ ~tl /\ todo' = Push(WriteHead(l, n), Revert2(s, i))
         \/ i = Len(s) /\ ~hd /\ todo' = Push(WriteTail(l, n), Revert2(s, i))
         \/ ~hd /\ ~tl /\ todo' = Revert2(s, i)
    <3>1. PICK r, g, z : r = Revert2(s, i) /\ g = WriteHead(l, n) /\ z = WriteTail(l, n)
      OBVIOUS
    <3>2. r \in Seq(Writes) /\ g \in Writes /\ z \in Writes
      BY <3>1, <2>9
    <3>3. <<g, z>> \o r = Push(g, Push(z, r))
      BY <3>2, PushTwo
    <3>4. <<>> \o r = r
      BY <3>2, ConcatEmptySeq
    <3>5. <<g>> \o r = Push(g, r) /\ <<z>> \o r = Push(z, r)
      BY DEF Push
    <3> QED
      BY <3>1, <3>3, <3>4, <3>5, <2>11, <2>13
  <2>15. mem' \in Ends /\ InMemory(S)'
    <3>0. mem.heads \in [Lists -> Addrs] /\ mem.tails \in [Lists -> Addrs]
      BY <1>6 DEF Ends
    <3>1. PICK H, Z : H = mem'.heads /\ Z = mem'.tails
      OBVIOUS
    <3>2. /\ mem' \in Ends
          /\ \A k \in Lists \ {l} : H[k] = mem.heads[k] /\ Z[k] = mem.tails[k]
          /\ H[l] = s[1] /\ Z[l] = s[Len(s)]
      <4>0. n \in Addrs
        BY <1>7 DEF Addrs
      <4>1. CASE /\ Len(s) = 1 /\ mem' = [mem EXCEPT !.heads[l] = n, !.tails[l] = n]
        <5>1. n = s[1] /\ n = s[Len(s)]
          BY <4>1, <2>3
        <5>2. PICK A, B : A = [mem.heads EXCEPT ![l] = n] /\ B = [mem.tails EXCEPT ![l] = n]
          OBVIOUS
        <5>3. mem' = [mem EXCEPT !.heads = A, !.tails = B]
          BY <5>2, <4>1, <1>6 DEF Ends
        <5>4. A \in [Lists -> Addrs] /\ B \in [Lists -> Addrs] /\ mem' \in Ends /\ H = A /\ Z = B
          BY <5>2, <5>3, <4>0, <3>0, <3>1, <1>6 DEF Ends
        <5> QED
          BY <5>1, <5>2, <5>4, <3>0, <1>4
      <4>2. CASE i = 1 /\ ~tl /\ mem' = [mem EXCEPT !.heads[l] = n]
        <5>1. n = s[1] /\ mem.tails[l] = s[Len(s)]
          BY <4>2, <2>3, <2>6 DEF TailOf
        <5>2. mem' \in Ends /\ H = [mem.heads EXCEPT ![l] = n] /\ Z = mem.tails
          BY <4>0, <4>2, <3>0, <3>1, <1>6 DEF Ends
        <5> QED
          BY <5>1, <5>2, <3>0, <1>4
      <4>3. CASE i = Len(s) /\ ~hd /\ mem' = [mem EXCEPT !.tails[l] = n]
        <5>1. n = s[Len(s)] /\ mem.heads[l] = s[1]
          BY <4>3, <2>3, <2>6 DEF HeadOf
        <5>2. mem' \in Ends /\ Z = [mem.tails EXCEPT ![l] = n] /\ H = mem.heads
          BY <4>0, <4>3, <3>0, <3>1, <1>6 DEF Ends
        <5> QED
          BY <5>1, <5>2, <3>0, <1>4
      <4>4. CASE ~hd /\ ~tl /\ mem' = mem
        BY <4>4, <3>1, <2>6, <1>6 DEF HeadOf, TailOf
      <4> QED
        BY <4>1, <4>2, <4>3, <4>4, <2>7, <2>11
    <3>3. ASSUME NEW k \in Lists
          PROVE  mem'.heads[k] = First(S[k]) /\ mem'.tails[k] = Final(S[k])
      <4>1. CASE k = l
        BY <4>1, <3>1, <3>2, <2>0, <2>3 DEF First, Final
      <4>2. CASE k # l
        <5>1. d.heads[k] = First(S[k]) /\ d.tails[k] = Final(S[k])
          BY <4>2, <2>2 DEF Torn
        <5> QED
          BY <5>1, <4>2, <3>1, <3>2, <1>6
      <4> QED
        BY <4>1, <4>2
    <3> QED
      BY <3>2, <3>3 DEF InMemory
  <2>16. TypeOK'
    BY <2>13, <2>15, <1>1, <1>2 DEF TypeOK, Ends
  <2>17. Reverting(l, i)'
    <3>1. /\ status' = "recovering" /\ reinsert' = None /\ Recorded(lru[l][i], "REMOVE", l)'
          /\ Counters(d', lru', crashes')
      BY <1>0, <1>1, <1>3, <1>4, <1>10 DEF Recorded
    <3>2. InMemory(lru)' /\ Shows(lru)'
      BY <2>15, <1>0, <1>1, <1>8 DEF InMemory
    <3>3. Torn(d', lru', l, i, hd, tl, xd, pd, FALSE)
      BY <2>2, <1>0, <1>1
    <3>4. s = lru'[l] /\ n = s[i]
      BY <2>0, <2>3, <1>0, <1>1
    <3>5. \E a2, b2, c2, e2 \in BOOLEAN :
             /\ Torn(d', lru', l, i, a2, b2, c2, e2, FALSE)
             /\ \/ /\ Len(s) = 1
                   /\ todo' = Push(WriteHead(l, s[i]), Push(WriteTail(l, s[i]), Revert2(s, i)))
                \/ i = 1 /\ ~b2 /\ todo' = Push(WriteHead(l, s[i]), Revert2(s, i))
                \/ i = Len(s) /\ ~a2 /\ todo' = Push(WriteTail(l, s[i]), Revert2(s, i))
                \/ ~a2 /\ ~b2 /\ todo' = Revert2(s, i)
                \/ ~a2 /\ ~b2 /\ ~c2 /\ todo' = Revert3(s, i)
      <4> hd \in BOOLEAN /\ tl \in BOOLEAN /\ xd \in BOOLEAN /\ pd \in BOOLEAN
        BY <2>1, <1>10
      <4> WITNESS hd \in BOOLEAN, tl \in BOOLEAN, xd \in BOOLEAN, pd \in BOOLEAN
      <4> QED
        BY <3>3, <3>4, <2>14
    <3> QED
      BY <3>1, <3>2, <3>4, <3>5, ZenonT(60) DEF Reverting
  <2>18. Working'
    <3>1. i \in 1..Len(lru'[l]) /\ status' = "recovering"
      BY <1>0, <1>1
    <3> QED
      BY <3>1, <2>17, <1>4 DEF Working
  <2> QED
    BY <2>16, <2>18, <1>8 DEF IInv
<1>11. CASE ~(Full(d, S) /\ NotListed(S, n))
  <2>1. PICK i \in 1..Len(S[l]) :
          /\ S[l][i] = n
          /\ \E hd, tl, xd, pd \in BOOLEAN : Torn(d, S, l, i, hd, tl, xd, pd, FALSE)
    BY <1>4, <1>11 DEF Unremoved
  <2>2. PICK hd, tl, xd, pd :
          Torn(d, S, l, i, hd, tl, xd, pd, FALSE) /\ xd \in BOOLEAN /\ pd \in BOOLEAN
    BY <2>1
  <2>3. S[l][i] = n
    BY <2>1
  <2> QED
    BY <2>2, <2>3, <1>10, Zenon
<1> QED
  BY <1>9, <1>11

(***************************************************************************)
(* The invariant.                                                          *)
(***************************************************************************)

\* A step that changes nothing changes no part of the invariant.
LEMMA Stuttering ==
  ASSUME IInv, UNCHANGED vars
  PROVE  IInv'
<1>0. /\ d' = d /\ mem' = mem /\ iters' = iters /\ todo' = todo /\ reinsert' = reinsert
      /\ status' = status /\ crashes' = crashes /\ lru' = lru
  BY DEF vars
<1>1. TypeOK' /\ Distinct(lru')
  BY <1>0 DEF IInv, TypeOK
<1>2. \A S : (InMemory(S)' <=> InMemory(S)) /\ (Shows(S)' <=> Shows(S))
  BY <1>0 DEF InMemory, Shows
<1>3. \A n, op, l : Recorded(n, op, l)' <=> Recorded(n, op, l)
  BY <1>0 DEF Recorded
<1>4. CASE Stopped
  <2>1. Stopped'
    BY <1>0, <1>4 DEF Stopped, OnDisk
  <2> QED
    BY <1>1, <2>1 DEF IInv
<1>5. CASE Working
  <2>1. CASE Whole
    <3>1. InMemory(lru)' /\ Shows(lru)'
      BY <1>0, <2>1 DEF Whole, InMemory, Shows
    <3>2. Whole'
      BY <1>0, <2>1, <3>1 DEF Whole
    <3> QED
      BY <1>0, <1>1, <1>5, <3>2 DEF IInv, Working
  <2>2. ASSUME NEW l \in Lists, NEW n \in Nodes,
               NEW S \in {lru, [lru EXCEPT ![l] = <<n>> \o @]}, Inserting(S, n, l)
        PROVE  IInv'
    <3>1. InsertBegun(S, n, l) => InsertBegun(S, n, l)'
      BY <1>0 DEF InsertBegun
    <3>2. InsertRecorded(S, n, l) => InsertRecorded(S, n, l)'
      BY <1>0, <1>3 DEF InsertRecorded
    <3>3. Inserting(S, n, l)'
      BY <1>0, <1>2, <2>2, <3>1, <3>2 DEF Inserting
    <3>4. S \in {lru', [lru' EXCEPT ![l] = <<n>> \o @]}
      BY <1>0
    <3>5. status' \in {"up", "recovering"}
      BY <1>0, <1>5 DEF Working
    <3>6. \E S2 \in {lru', [lru' EXCEPT ![l] = <<n>> \o @]} : Inserting(S2, n, l)'
      <4> WITNESS S \in {lru', [lru' EXCEPT ![l] = <<n>> \o @]}
      <4> QED
        BY <3>3
    <3>7. Working'
      BY <3>5, <3>6 DEF Working
    <3> QED
      BY <1>1, <3>7 DEF IInv
  <2>3. ASSUME NEW l \in Lists, NEW n \in Nodes, Removed(n, l)
        PROVE  IInv'
    <3>1. InMemory(lru)' /\ Shows(lru)'
      BY <1>0, <2>3 DEF Removed, InMemory, Shows
    <3>2. Removed(n, l)'
      BY <1>0, <1>3, <2>3, <3>1 DEF Removed
    <3> QED
      BY <1>0, <1>1, <1>5, <3>2 DEF IInv, Working
  <2>4. ASSUME NEW l \in Lists, NEW i \in 1..Len(lru[l]), NEW shared \in BOOLEAN,
               Removing(l, i, shared)
        PROVE  IInv'
    <3>1. RemoveBegun(l, i, shared) => RemoveBegun(l, i, shared)'
      BY <1>0 DEF RemoveBegun
    <3>2. RemoveRecorded(l, i, shared) => RemoveRecorded(l, i, shared)'
      BY <1>0 DEF RemoveRecorded, Recorded
    <3>3. InMemory(CutFrom(lru, l, i))' /\ Shows(CutFrom(lru, l, i))'
      BY <1>0, <2>4 DEF Removing, InMemory, Shows
    <3>4. Removing(l, i, shared)'
      BY <1>0, <2>4, <3>1, <3>2, <3>3 DEF Removing
    <3>5. i \in 1..Len(lru'[l])
      BY <1>0
    <3> QED
      BY <1>0, <1>1, <1>5, <3>4, <3>5 DEF IInv, Working
  <2>5. ASSUME NEW l \in Lists, NEW i \in 1..Len(lru[l]), Reverting(l, i)
        PROVE  IInv'
    <3>1. InMemory(lru)' /\ Shows(lru)'
      BY <1>0, <2>5 DEF Reverting, InMemory, Shows
    <3>2. Reverting(l, i)'
      BY <1>0, <2>5, <3>1, ZenonT(60) DEF Reverting, Recorded
    <3>3. i \in 1..Len(lru'[l])
      BY <1>0
    <3> QED
      BY <1>0, <1>1, <1>5, <3>2, <3>3 DEF IInv, Working
  <2> QED
    BY <1>5, <2>1, <2>2, <2>3, <2>4, <2>5 DEF Working
<1> QED
  BY <1>4, <1>5 DEF IInv

\* The files have just been created, however many processes have crashed before.
Fresh ==
    /\ d = EmptyDisk /\ mem = NoEnds /\ iters = [i \in Iters |-> None] /\ todo = <<>>
    /\ reinsert = None /\ status = "up" /\ lru = [l \in Lists |-> <<>>]
    /\ crashes \in 0..MaxCrashes

\* The process that creates the files finds empty lists.
LEMMA FreshInvariant ==
  Fresh => IInv
<1> SUFFICES ASSUME d = EmptyDisk, mem = NoEnds, iters = [i \in Iters |-> None], todo = <<>>,
                    reinsert = None, status = "up", lru = [l \in Lists |-> <<>>],
                    crashes \in 0..MaxCrashes
             PROVE  IInv
  BY DEF Fresh
<1>1. Out \in Links
  BY DEF Out, Links, Addrs
<1>2. <<>> \in Seq(Nodes) /\ Len(<<>>) = 0 /\ <<>> \in Seq(Writes)
  OBVIOUS
<1>3. TypeOK
  BY <1>1, <1>2 DEF EmptyDisk, NoEnds, TypeOK, Addrs, Operations
<1>4. lru \in [Lists -> Seq(Nodes)] /\ \A k \in Lists : Len(lru[k]) = 0
  BY <1>2
<1>5. Distinct(lru)
  BY <1>4 DEF Distinct
<1>6. Full(d, lru)
  BY <1>4 DEF EmptyDisk, NoEnds, Full, First, Final
<1>7. Counters(d, lru, crashes)
  BY <1>4, CrashAssumption DEF EmptyDisk, Counters, Near
<1>8. InMemory(lru) /\ Shows(lru)
  BY <1>4 DEF NoEnds, InMemory, Shows, First, Final
<1>9. Whole
  BY <1>6, <1>7, <1>8 DEF Whole, EmptyDisk
<1> QED
  BY <1>3, <1>5, <1>9 DEF IInv, Working

\* What holds of every state: the bound on crashes, and the invariant unless a
\* crash has torn the recovery of these files.
MendedInv == crashes \in 0..MaxCrashes /\ (~torn => IInv)

\* Every step keeps the invariant, a crash between the two transactions of
\* FinishInsert() apart; RestartCache() is not among them, for the invariant leaves
\* it nothing to do.
LEMMA NextInvariant ==
  ASSUME IInv, ~torn', [Next]_vars
  PROVE  IInv'
<1>1. ASSUME NEW n \in Nodes, NEW l \in Lists, Insert(n, l)
      PROVE  IInv'
  BY <1>1, InsertInvariant
<1>2. ASSUME NEW n \in Nodes, NEW l \in Lists, NEW shared \in BOOLEAN, Remove(n, l, shared)
      PROVE  IInv'
  BY <1>2, RemoveInvariant
<1>3. ASSUME NEW n \in Nodes, NEW l \in Lists, NEW shared \in BOOLEAN, NEW to \in Lists,
             UpdateRank(n, l, to, shared)
      PROVE  IInv'
  BY <1>3, UpdateRankInvariant
<1>4. CASE UpdateRankInsert
  BY <1>4, UpdateRankInsertInvariant
<1>5. ASSUME NEW i \in Iters, NEW dir \in {"next", "prev"}, NEW l \in Lists, GetFirst(i, dir, l)
      PROVE  IInv'
  BY <1>5, GetFirstInvariant
<1>6. ASSUME NEW i \in Iters, GetFollowing(i)
      PROVE  IInv'
  BY <1>6, GetFollowingInvariant
<1>7. ASSUME NEW i \in Iters, FreeRankingsBlock(i)
      PROVE  IInv'
  BY <1>7, FreeRankingsBlockInvariant
<1>8. CASE Store
  BY <1>8, StoreInvariant
<1>9. CASE Crash
  BY <1>9, CrashInvariant
<1>10. CASE ReadHeadsAndTails
  BY <1>10, RestartInvariant
<1>11. CASE FinishInsert
  BY <1>11, FinishInsertInvariant
<1>12. CASE RevertRemove
  BY <1>12, RevertRemoveInvariant
<1>13. CASE RestartCache
  BY <1>13 DEF RestartCache, IInv, Stopped, Working
<1>14. CASE UNCHANGED vars
  BY <1>14, Stuttering
<1> QED
  BY <1>1, <1>2, <1>3, <1>4, <1>5, <1>6, <1>7, <1>8, <1>9, <1>10, <1>11, <1>12, <1>13, <1>14
  DEF Next

\* Only RestartCache() takes back that a crash has torn a recovery, and only Crash
\* counts crashes.
LEMMA HistorySteps ==
  ASSUME [Next]_vars, ~RestartCache
  PROVE  (torn => torn') /\ (crashes' = crashes \/ Crash)
<1>1. ASSUME NEW n \in Nodes, NEW l \in Lists, Insert(n, l)
      PROVE  torn' = torn /\ crashes' = crashes
  BY <1>1 DEF Insert
<1>2. ASSUME NEW n \in Nodes, NEW l \in Lists, NEW shared \in BOOLEAN, Remove(n, l, shared)
      PROVE  torn' = torn /\ crashes' = crashes
  BY <1>2 DEF Remove
<1>3. ASSUME NEW n \in Nodes, NEW l \in Lists, NEW shared \in BOOLEAN, NEW to \in Lists,
             UpdateRank(n, l, to, shared)
      PROVE  torn' = torn /\ crashes' = crashes
  BY <1>3 DEF UpdateRank
<1>4. CASE UpdateRankInsert
  BY <1>4 DEF UpdateRankInsert
<1>5. ASSUME NEW i \in Iters, NEW dir \in {"next", "prev"}, NEW l \in Lists, GetFirst(i, dir, l)
      PROVE  torn' = torn /\ crashes' = crashes
  BY <1>5 DEF GetFirst
<1>6. ASSUME NEW i \in Iters, GetFollowing(i)
      PROVE  torn' = torn /\ crashes' = crashes
  BY <1>6 DEF GetFollowing
<1>7. ASSUME NEW i \in Iters, FreeRankingsBlock(i)
      PROVE  torn' = torn /\ crashes' = crashes
  BY <1>7 DEF FreeRankingsBlock
<1>8. CASE Store
  BY <1>8 DEF Store
<1>9. CASE Crash
  BY <1>9 DEF Crash
<1>10. CASE ReadHeadsAndTails
  BY <1>10 DEF ReadHeadsAndTails
<1>11. CASE FinishInsert
  BY <1>11 DEF FinishInsert
<1>12. CASE RevertRemove
  BY <1>12 DEF RevertRemove
<1>13. CASE UNCHANGED vars
  BY <1>13 DEF vars
<1> QED
  BY <1>1, <1>2, <1>3, <1>4, <1>5, <1>6, <1>7, <1>8, <1>9, <1>10, <1>11, <1>12, <1>13 DEF Next

\* With the files, RestartCache() throws away what the torn recovery has left.
LEMMA MendedNext ==
  MendedInv /\ [Next]_vars => MendedInv'
<1> SUFFICES ASSUME MendedInv, [Next]_vars
             PROVE  MendedInv'
  OBVIOUS
<1>1. CASE RestartCache
  <2>1. Fresh'
    BY <1>1 DEF RestartCache, MendedInv, Fresh
  <2>2. IInv'
    BY <2>1, FreshInvariant, PTL
  <2> QED
    BY <2>1, <2>2 DEF MendedInv, Fresh
<1>2. CASE ~RestartCache
  <2>1. (torn => torn') /\ (crashes' = crashes \/ Crash)
    BY <1>2, HistorySteps
  <2>2. crashes' \in 0..MaxCrashes
    BY <2>1, CrashAssumption DEF MendedInv, Crash
  <2>3. ~torn' => IInv'
    BY <2>1, NextInvariant DEF MendedInv
  <2> QED
    BY <2>2, <2>3 DEF MendedInv
<1> QED
  BY <1>1, <1>2

(***************************************************************************)
(* What the invariant says of the disk between two calls and inside one.   *)
(***************************************************************************)

\* Between two calls the disk shows the lists that the calls have built.
LEMMA InvariantIntact ==
  ASSUME IInv
  PROVE  ListsIntact
<1> SUFFICES ASSUME status = "up", todo = <<>>
             PROVE  /\ mem = [heads |-> d.heads, tails |-> d.tails]
                    /\ d.transaction = NoAddr
                    /\ \A l \in Lists :
                          IF lru[l] = <<>> THEN d.heads[l] = NoAddr /\ d.tails[l] = NoAddr
                                           ELSE IsList(lru[l], l)
                    /\ \A n \in Nodes : (\A l \in Lists : ~Listed(n, l)) => d.links[n] = Out
  BY DEF ListsIntact
<1>1. Whole /\ d.transaction = NoAddr
  BY Resting
<1>2. Full(d, lru) /\ InMemory(lru) /\ Distinct(lru) /\ TypeOK
  BY <1>1 DEF Whole, IInv
<1>3. mem = [heads |-> d.heads, tails |-> d.tails]
  <2>1. /\ mem.heads \in [Lists -> Addrs] /\ mem.tails \in [Lists -> Addrs]
        /\ d.heads \in [Lists -> Addrs] /\ d.tails \in [Lists -> Addrs]
        /\ mem = [heads |-> mem.heads, tails |-> mem.tails]
    BY <1>2 DEF TypeOK
  <2>2. \A l \in Lists : mem.heads[l] = d.heads[l] /\ mem.tails[l] = d.tails[l]
    BY <1>2 DEF Full, InMemory
  <2>3. mem.heads = d.heads /\ mem.tails = d.tails
    BY <2>1, <2>2
  <2> QED
    BY <2>1, <2>3
<1>4. ASSUME NEW l \in Lists
      PROVE  IF lru[l] = <<>> THEN d.heads[l] = NoAddr /\ d.tails[l] = NoAddr
                              ELSE IsList(lru[l], l)
  <2>1. lru[l] \in Seq(Nodes) /\ Len(lru[l]) \in Nat
    BY <1>2, Elements
  <2>2. lru[l] = <<>> <=> Len(lru[l]) = 0
    BY <2>1, EmptySeq
  <2>3. d.heads[l] = First(lru[l]) /\ d.tails[l] = Final(lru[l])
    BY <1>2 DEF Full
  <2>4. \A j \in 1..Len(lru[l]) : d.links[lru[l][j]] = LinksAt(lru[l], j)
    BY <1>2 DEF Full
  <2> QED
    BY <2>2, <2>3, <2>4 DEF First, Final, IsList
<1>5. ASSUME NEW n \in Nodes, \A l \in Lists : ~Listed(n, l)
      PROVE  d.links[n] = Out
  <2>1. NotListed(lru, n)
    BY <1>5 DEF NotListed, Listed
  <2> QED
    BY <2>1, <1>2 DEF Full
<1> QED
  BY <1>1, <1>3, <1>4, <1>5

\* An iterator that holds the links of the lists holds those of the disk.
LEMMA InvariantFresh ==
  ASSUME IInv
  PROVE  IteratorsFresh
<1> SUFFICES ASSUME Idle, NEW i \in Iters, iters[i] # None, iters[i].data # None
             PROVE  iters[i].data = d.links[iters[i].node]
  BY DEF IteratorsFresh
<1>1. Full(d, lru) /\ Shows(lru)
  BY Resting DEF Idle, Whole
<1>2. PICK k \in Lists : \E j \in 1..Len(lru[k]) :
                           iters[i].node = lru[k][j] /\ iters[i].data = LinksAt(lru[k], j)
  BY <1>1 DEF Shows
<1>3. PICK j \in 1..Len(lru[k]) : iters[i].node = lru[k][j] /\ iters[i].data = LinksAt(lru[k], j)
  BY <1>2
<1> QED
  BY <1>1, <1>3 DEF Full

\* Between two calls no counter is further off than there were crashes.
LEMMA InvariantDrift ==
  ASSUME IInv
  PROVE  SizesDrift
<1>1. TypeOK
  BY DEF IInv
<1>2. ASSUME status = "up", todo = <<>>, NEW l \in Lists
      PROVE  d.sizes[l] <= Len(lru[l]) + crashes /\ Len(lru[l]) <= d.sizes[l] + crashes
  <2>1. Counters(d, lru, crashes)
    BY <1>2, Resting DEF Whole
  <2> QED
    BY <2>1 DEF Counters, Near
<1> QED
  BY <1>1, <1>2 DEF SizesDrift

\* A half removed node is in a state that the comment lists: the stores are made
\* in the order of the rows of its tables.
LEMMA TornDocumented ==
  ASSUME Distinct(lru), NEW l \in Lists, NEW i \in 1..Len(lru[l]), NEW r, r = lru[l][i],
         NEW hd, NEW tl, NEW xd, NEW pd, Torn(d, lru, l, i, hd, tl, xd, pd, FALSE),
         NEW s, s = lru[l],
         i = 1 /\ i = Len(s) => (tl => hd), i # 1 /\ i # Len(s) => (pd => xd),
         i = 1 /\ i # Len(s) => (xd => hd), i # 1 /\ i = Len(s) => (pd => tl)
  PROVE  DocumentedState(r, l)
<1>0. s = lru[l] /\ r = s[i] /\ i \in 1..Len(s)
  OBVIOUS
<1>1. /\ s \in Seq(Nodes) /\ Len(s) \in Nat
      /\ \A b \in 1..Len(s) : s[b] \in Nodes /\ s[b] # NoAddr
  BY <1>0, Elements
<1>2. \A a, b \in 1..Len(s) : s[a] = s[b] => a = b
  BY <1>0 DEF Distinct
<1>3. /\ d.heads[l] = HeadOf(s, i, hd) /\ d.tails[l] = TailOf(s, i, tl)
      /\ \A j \in 1..Len(s) : d.links[s[j]] = LinksOf(s, i, j, xd, pd)
  BY <1>0 DEF Torn
<1>4. PICK n, a, b, h, z :
        /\ n = d.links[r] /\ a = n.prev /\ b = n.next /\ h = d.heads[l] /\ z = d.tails[l]
  OBVIOUS
<1>5. i # i + 1 /\ i # i - 1 /\ i + 1 # i - 1
  BY <1>0, <1>1
<1>6. a = NodeBefore(s, i) /\ b = NodeBehind(s, i)
  <2>1. n = LinksOf(s, i, i, xd, pd)
    BY <1>0, <1>3, <1>4
  <2>2. a = LinksAt(s, i).prev /\ b = LinksAt(s, i).next
    BY <2>1, <1>4, <1>5, SMTT(60) DEF LinksOf
  <2> QED
    BY <2>2 DEF LinksAt, NodeBefore, NodeBehind
<1>7. CASE i = 1 /\ i = Len(s)
  <2>1. a = r /\ b = r
    BY <1>0, <1>6, <1>7 DEF NodeBefore, NodeBehind
  <2>2. h = (IF hd THEN NoAddr ELSE r) /\ z = (IF tl THEN NoAddr ELSE r)
    BY <1>0, <1>3, <1>4, <1>7 DEF HeadOf, TailOf
  <2>3. tl => hd
    BY <1>7
  <2>4. <<h, z>> \in {<<r, r>>, <<NoAddr, r>>, <<NoAddr, NoAddr>>}
    BY <2>2, <2>3, SMTT(60)
  <2> QED
    BY <2>1, <2>4, <1>4 DEF DocumentedState
<1>8. CASE i # 1 /\ i # Len(s)
  <2>1. i - 1 \in 1..Len(s) /\ i + 1 \in 1..Len(s) /\ 1 \in 1..Len(s) /\ Len(s) \in 1..Len(s)
    BY <1>0, <1>1, <1>8
  <2>2. a = s[i - 1] /\ b = s[i + 1]
    BY <1>6, <1>8 DEF NodeBefore, NodeBehind
  <2>3. a \notin {r, NoAddr} /\ b \notin {r, NoAddr}
    BY <2>1, <2>2, <1>0, <1>1, <1>2, <1>5
  <2>4. h = s[1] /\ z = s[Len(s)]
    BY <1>3, <1>4, <1>8 DEF HeadOf, TailOf
  <2>5. r # h /\ r # z
    BY <2>1, <2>4, <1>0, <1>2, <1>8
  <2>6. LinksAt(s, i - 1).next = r /\ LinksAt(s, i + 1).prev = r
    <3>1. i - 1 # Len(s) /\ i + 1 # 1 /\ (i - 1) + 1 = i /\ (i + 1) - 1 = i
      BY <1>0, <1>1
    <3> QED
      BY <3>1, <1>0 DEF LinksAt
  <2>7. d.links[a].next = IF pd THEN b ELSE r
    <3>1. d.links[a] = LinksOf(s, i, i - 1, xd, pd)
      BY <2>1, <2>2, <1>3
    <3> QED
      BY <3>1, <2>2, <2>6, <1>8 DEF LinksOf
  <2>8. d.links[b].prev = IF xd THEN a ELSE r
    <3>1. d.links[b] = LinksOf(s, i, i + 1, xd, pd)
      BY <2>1, <2>2, <1>3
    <3> QED
      BY <3>1, <2>2, <2>6, <1>8 DEF LinksOf
  <2>9. pd => xd
    BY <1>8
  <2>10. <<d.links[a].next, d.links[b].prev>> \in {<<r, r>>, <<r, a>>, <<b, a>>}
    BY <2>7, <2>8, <2>9, SMTT(60)
  <2> QED
    BY <2>3, <2>5, <2>10, <1>4 DEF DocumentedState
<1>9. CASE i = 1 /\ i # Len(s)
  <2>1. 2 \in 1..Len(s) /\ Len(s) # 1
    <3>1. PICK m : m = Len(s)
      OBVIOUS
    <3>2. m \in Nat /\ i \in 1..m /\ i = 1 /\ i # m
      BY <3>1, <1>0, <1>1, <1>9
    <3>3. 2 \in 1..m /\ m # 1
      BY <3>2
    <3> QED
      BY <3>1, <3>3
  <2>2. a = r /\ b = s[2]
    BY <1>0, <1>6, <1>9 DEF NodeBefore, NodeBehind
  <2>3. b \notin {r, NoAddr}
    BY <2>1, <2>2, <1>0, <1>1, <1>2, <1>9
  <2>4. h = IF hd THEN b ELSE r
    BY <2>1, <2>2, <1>0, <1>3, <1>4, <1>9 DEF HeadOf
  <2>5. d.links[b].prev = IF xd THEN b ELSE r
    <3>1. d.links[b] = LinksOf(s, i, 2, xd, pd)
      BY <2>1, <2>2, <1>3
    <3>2. LinksAt(s, 2).prev = r /\ i + 1 = 2
      BY <1>0, <1>9 DEF LinksAt
    <3> QED
      BY <3>1, <3>2, <2>2, <1>9 DEF LinksOf
  <2>6. xd => hd
    BY <1>9
  <2>7. <<h, d.links[b].prev>> \in {<<r, r>>, <<b, r>>, <<b, b>>}
    BY <2>4, <2>5, <2>6, SMTT(60)
  <2> QED
    BY <2>2, <2>3, <2>7, <1>4 DEF DocumentedState
<1>10. CASE i # 1 /\ i = Len(s)
  <2>1. i - 1 \in 1..Len(s) /\ Len(s) # 1 /\ Len(s) - 1 = i - 1
    <3>1. PICK m : m = Len(s)
      OBVIOUS
    <3>2. m \in Nat /\ i \in 1..m /\ i # 1 /\ i = m
      BY <3>1, <1>0, <1>1, <1>10
    <3>3. i - 1 \in 1..m /\ m # 1 /\ m - 1 = i - 1
      BY <3>2
    <3> QED
      BY <3>1, <3>3
  <2>2. b = r /\ a = s[i - 1]
    BY <1>0, <1>6, <1>10 DEF NodeBefore, NodeBehind
  <2>3. a \notin {r, NoAddr}
    BY <2>1, <2>2, <1>0, <1>1, <1>2, <1>5
  <2>4. z = IF tl THEN a ELSE r
    BY <2>1, <2>2, <1>0, <1>3, <1>4, <1>10 DEF TailOf
  <2>5. LinksAt(s, i - 1).next = r
    <3>1. i - 1 # Len(s) /\ (i - 1) + 1 = i
      BY <1>0, <1>1
    <3> QED
      BY <3>1, <1>0 DEF LinksAt
  <2>6. d.links[a].next = IF pd THEN a ELSE r
    <3>1. d.links[a] = LinksOf(s, i, i - 1, xd, pd)
      BY <2>1, <2>2, <1>3
    <3> QED
      BY <3>1, <2>2, <2>5, <1>10 DEF LinksOf
  <2>7. pd => tl
    BY <1>10
  <2>8. <<d.links[a].next, z>> \in {<<r, r>>, <<r, a>>, <<a, a>>}
    BY <2>4, <2>6, <2>7
  <2> QED
    BY <2>2, <2>3, <2>8, <1>4 DEF DocumentedState
<1> QED
  BY <1>7, <1>8, <1>9, <1>10

\* While a removal is recorded, and not being reverted, the disk is in one of the
\* documented states.
LEMMA InvariantDocumented ==
  ASSUME IInv
  PROVE  RemoveStatesDocumented
<1> SUFFICES ASSUME status = "up", d.transaction # NoAddr, d.operation = "REMOVE"
             PROVE  DocumentedState(d.transaction, d.operation_list)
  BY DEF RemoveStatesDocumented
<1>0. PICK r, k : r = d.transaction /\ k = d.operation_list
  OBVIOUS
<1>1. TypeOK /\ Distinct(lru) /\ Working
  BY DEF IInv, Stopped
<1>2. r \in Nodes /\ r # NoAddr /\ d.operation # "INSERT"
  BY <1>0, <1>1 DEF TypeOK, Addrs
<1>3. ASSUME Full(d, lru), NotListed(lru, r)
      PROVE  DocumentedState(r, k)
  <2>1. d.links[r] = Out
    BY <1>2, <1>3 DEF Full
  <2> QED
    BY <2>1 DEF DocumentedState
<1>4. ASSUME NEW i \in 1..Len(lru[k]), k \in Lists, r = lru[k][i],
             Torn(d, lru, k, i, FALSE, FALSE, FALSE, FALSE, FALSE)
      PROVE  DocumentedState(r, k)
  BY <1>1, <1>4, TornDocumented
<1>5. ASSUME Whole PROVE DocumentedState(r, k)
  <2>1. Full(d, lru) /\ Mendable(d, lru, crashes)
    BY <1>5 DEF Whole
  <2>2. k \in Lists /\ Unremoved(d, lru, k, r)
    BY <2>1, <1>0, UnremovedCases
  <2>3. CASE ~NotListed(lru, r)
    <3>1. PICK i \in 1..Len(lru[k]) : lru[k][i] = r
      BY <2>2, <2>3 DEF Unremoved
    <3>2. Torn(d, lru, k, i, FALSE, FALSE, FALSE, FALSE, FALSE)
      BY <2>1, <2>2, <1>1, TornNone
    <3> QED
      BY <3>1, <3>2, <2>2, <1>0, <1>4
  <2> QED
    BY <2>1, <2>3, <1>0, <1>3
<1>6. ASSUME NEW l \in Lists, NEW n \in Nodes, NEW S, Inserting(S, n, l)
      PROVE  FALSE
  <2>1. InsertBegun(S, n, l) \/ InsertRecorded(S, n, l)
    BY <1>6 DEF Inserting
  <2>2. ~InsertBegun(S, n, l)
    BY DEF InsertBegun
  <2>3. ~InsertRecorded(S, n, l)
    BY DEF InsertRecorded, Recorded
  <2> QED
    BY <2>1, <2>2, <2>3
<1>7. ASSUME NEW l \in Lists, NEW n \in Nodes, Removed(n, l)
      PROVE  DocumentedState(r, k)
  <2>1. Full(d, lru) /\ NotListed(lru, n) /\ n = r
    BY <1>0, <1>7 DEF Removed, Recorded
  <2> QED
    BY <2>1, <1>3
<1>8. ASSUME NEW l \in Lists, NEW i \in 1..Len(lru[l]), NEW shared \in BOOLEAN,
             Removing(l, i, shared)
      PROVE  DocumentedState(r, k)
  <2>1. RemoveRecorded(l, i, shared)
    BY <1>8 DEF Removing, RemoveBegun
  <2>2. r = lru[l][i] /\ k = l
    BY <2>1, <1>0 DEF RemoveRecorded, Recorded
  <2>3. PICK s, alone, last : s = lru[l] /\ alone = (Len(s) = 1) /\ last = (i = Len(s))
    OBVIOUS
  <2>4. \/ Torn(d, lru, l, i, FALSE, FALSE, FALSE, FALSE, FALSE)
        \/ last /\ Torn(d, lru, l, i, alone, ~alone, FALSE, FALSE, FALSE)
        \/ Torn(d, lru, l, i, TRUE, TRUE, FALSE, last, FALSE)
        \/ Torn(d, lru, l, i, TRUE, TRUE, TRUE, last, FALSE)
        \/ Torn(d, lru, l, i, TRUE, TRUE, TRUE, TRUE, FALSE)
    BY <2>1, <2>3 DEF RemoveRecorded
  <2>5. CASE Torn(d, lru, l, i, FALSE, FALSE, FALSE, FALSE, FALSE)
    BY <2>2, <2>5, <1>4
  <2>6. CASE last /\ Torn(d, lru, l, i, alone, ~alone, FALSE, FALSE, FALSE)
    <3>1. i = 1 /\ i = Len(s) => (~alone => alone)
      BY <2>3
    <3> QED
      BY <3>1, <2>2, <2>3, <2>6, <1>1, TornDocumented
  <2>7. CASE Torn(d, lru, l, i, TRUE, TRUE, FALSE, last, FALSE)
    <3>1. i # 1 /\ i # Len(s) => (last => FALSE)
      BY <2>3
    <3> QED
      BY <3>1, <2>2, <2>3, <2>7, <1>1, TornDocumented
  <2>8. CASE Torn(d, lru, l, i, TRUE, TRUE, TRUE, last, FALSE)
    BY <2>2, <2>3, <2>8, <1>1, TornDocumented
  <2>9. CASE Torn(d, lru, l, i, TRUE, TRUE, TRUE, TRUE, FALSE)
    BY <2>2, <2>3, <2>9, <1>1, TornDocumented
  <2> QED
    BY <2>4, <2>5, <2>6, <2>7, <2>8, <2>9
<1>9. ASSUME NEW l \in Lists, NEW i \in 1..Len(lru[l]), Reverting(l, i)
      PROVE  FALSE
  BY <1>9 DEF Reverting
<1>10. DocumentedState(r, k)
  <2>1. \/ Whole
        \/ \E l \in Lists, n \in Nodes : (\E S : Inserting(S, n, l)) \/ Removed(n, l)
        \/ \E l \in Lists : \E i \in 1..Len(lru[l]) :
             (\E shared \in BOOLEAN : Removing(l, i, shared)) \/ Reverting(l, i)
    BY <1>1, Zenon DEF Working
  <2>2. CASE \E l \in Lists, n \in Nodes : (\E S : Inserting(S, n, l)) \/ Removed(n, l)
    BY <2>2, <1>6, <1>7, Zenon
  <2>3. CASE \E l \in Lists : \E i \in 1..Len(lru[l]) :
               (\E shared \in BOOLEAN : Removing(l, i, shared)) \/ Reverting(l, i)
    <3>1. PICK l \in Lists : \E i \in 1..Len(lru[l]) :
            (\E shared \in BOOLEAN : Removing(l, i, shared)) \/ Reverting(l, i)
      BY <2>3
    <3>2. PICK i \in 1..Len(lru[l]) :
            (\E shared \in BOOLEAN : Removing(l, i, shared)) \/ Reverting(l, i)
      BY <3>1
    <3>3. CASE Reverting(l, i)
      BY <3>3, <1>9
    <3>4. CASE \E shared \in BOOLEAN : Removing(l, i, shared)
      BY <3>4, <1>8, Zenon
    <3> QED
      BY <3>2, <3>3, <3>4
  <2> QED
    BY <2>1, <2>2, <2>3, <1>5, Zenon
<1> QED
  BY <1>0, <1>10

(***************************************************************************)
(* Theorems.                                                               *)
(***************************************************************************)

\* Whatever calls and crashes come in whatever order, the disk is always what the
\* invariant says: whole, or torn by exactly the stores that the running call has
\* made, with a transaction record from which Init() can go on.  The exception is
\* a crash between the two transactions of FinishInsert() (rankings.cc:677): after
\* it nothing is claimed until RestartCache() has thrown the files away.
THEOREM RankingsInvariant ==
  Spec => [](~torn => IInv)
<1>1. Init => MendedInv
  BY FreshInvariant, CrashAssumption DEF Init, MendedInv, Fresh
<1>2. MendedInv /\ [Next]_vars => MendedInv'
  BY MendedNext
<1>3. MendedInv => (~torn => IInv)
  BY DEF MendedInv
<1> QED
  BY <1>1, <1>2, <1>3, PTL DEF Spec

\* Once Init() or a call has finished, every list on disk is what the calls so far
\* have built, whatever crashes came between the stores of Insert(), Remove() and
\* the recovery, unless one came between the two transactions of FinishInsert().
THEOREM ListsAlwaysIntact ==
  Spec => []ListsIntact
<1>1. (~torn => IInv) => ListsIntact
  BY InvariantIntact DEF ListsIntact
<1> QED
  BY <1>1, RankingsInvariant, PTL

\* Insert(), Remove(), GetNext(), GetPrev() and CompleteTransaction() raise
\* CriticalError() on a disk that only crashes of this code have touched only if
\* one of these crashes came between the two transactions of FinishInsert().
THEOREM CriticalErrorOnlyWhenTorn ==
  Spec => []NoCriticalError
<1>1. (~torn => IInv) => NoCriticalError
  BY DEF IInv, Stopped, Working, NoCriticalError
<1> QED
  BY <1>1, RankingsInvariant, PTL

\* UpdateIterators() and InvalidateIterators() keep the copies that enumerations
\* hold equal to the links on disk, as long as no crash has come between the two
\* transactions of FinishInsert().
THEOREM IteratorsAlwaysFresh ==
  Spec => []IteratorsFresh
<1>1. (~torn => IInv) => IteratorsFresh
  BY InvariantFresh DEF IteratorsFresh
<1> QED
  BY <1>1, RankingsInvariant, PTL

\* A counter of LruData is off by at most the number of crashes, never negative,
\* and every variable keeps its type, as long as no crash has come between the two
\* transactions of FinishInsert().
THEOREM SizesDriftBounded ==
  Spec => []SizesDrift
<1>1. (~torn => IInv) => SizesDrift
  BY InvariantDrift DEF SizesDrift
<1> QED
  BY <1>1, RankingsInvariant, PTL

\* The table of states in the comment above Remove() is complete: no crash of a
\* removal from lists that are whole leaves the disk in another one.  The lists
\* are whole unless a crash has come between the two transactions of FinishInsert().
THEOREM RemoveStatesAsDocumented ==
  Spec => []RemoveStatesDocumented
<1>1. (~torn => IInv) => RemoveStatesDocumented
  BY InvariantDocumented DEF RemoveStatesDocumented
<1> QED
  BY <1>1, RankingsInvariant, PTL
=============================================================================
