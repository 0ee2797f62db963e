----------------------------- MODULE EntryLock -----------------------------
(***************************************************************************)
(* What HttpCache promises its transactions: stored objects behind         *)
(* reader/writer locks. A transaction that asks waits, and is then given   *)
(* an object to write or to read, or is told to do without. Several may    *)
(* change at once, since one event can reach many.                         *)
(***************************************************************************)
CONSTANTS Clients, Objects, Nothing

VARIABLES
  phase,   \* "outside", "waiting", "writing" or "reading"
  object   \* the object that is written or read

Holds(c, o) == object[c] = o /\ phase[c] \in {"writing", "reading"}
Writing(o) == {c \in Clients : phase[c] = "writing" /\ object[c] = o}
Holders(o) == {c \in Clients : Holds(c, o)}

Init ==
  /\ phase = [c \in Clients |-> "outside"]
  /\ object = [c \in Clients |-> Nothing]

\* An object is given to a client only if it was free before, or was being read
\* and the client wants to read: nobody takes over in the step that releases.
Given(c) ==
  /\ phase[c] \in {"outside", "waiting"}
  /\ \/ /\ phase'[c] = "writing"
        /\ \E o \in Objects : object'[c] = o /\ Holders(o) = {}
     \/ /\ phase'[c] = "reading"
        /\ \E o \in Objects : object'[c] = o /\ Writing(o) = {}

\* A writer may turn into a reader of the same object, never the reverse.
Downgraded(c) ==
  /\ phase[c] = "writing" /\ phase'[c] = "reading"
  /\ object'[c] = object[c]

\* A client leaves what it holds, or stops waiting, for good or to ask again.
Left(c) == phase'[c] \in {"outside", "waiting"} /\ object'[c] = Nothing

Unchanged(c) == phase'[c] = phase[c] /\ object'[c] = object[c]

Next ==
  /\ phase' \in [Clients -> {"outside", "waiting", "writing", "reading"}]
  /\ object' \in [Clients -> Objects \cup {Nothing}]
  /\ \A c \in Clients :
       Given(c) \/ Downgraded(c) \/ Left(c) \/ Unchanged(c)
  /\ \A o \in Objects :
       Writing(o)' # {} => \E c \in Clients : Holders(o)' = {c}

\* A client that waits does not wait for ever.
Served == \A c \in Clients : phase[c] = "waiting" ~> phase[c] # "waiting"

Safety == Init /\ [][Next]_<<phase, object>>

Spec == Safety /\ Served
=============================================================================
